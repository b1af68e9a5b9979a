----------------------------- MODULE MCAppObjects -----------------------------
(* An instance of AppObjects for TLC: the settings that meet the branches of the
   factory, the transformer and the deployers. *)
EXTENDS AppObjects

Own == <<"own", "example">>
OwnB == <<"own", "b">>
Path(path, port) == [path |-> path, port |-> port]
Item(host, paths) == [host |-> host, paths |-> paths]
Noted(host, paths) == [host |-> host, paths |-> paths, annotations |-> [note |-> "yes"]]
Port(protocol, name, port) ==
    [protocol |-> protocol, name |-> name, port |-> port, target_port |-> port]
Both == [parameters |-> Nothing, annotations |-> Nothing]
Checks(kind, how) == [liveness |-> kind :> how]

V3Settings ==
    [replicas |-> {[minimum |-> 3, maximum |-> 2], [minimum |-> 0], [maximum |-> 1, singleton |-> FALSE]},
     ingress |-> {<< >>, <<[host |-> Own]>>, <<Item(Own, <<Path("/a", "80"), Path("/a", "80")>>), [host |-> OwnB]>>,
                  <<[host |-> OwnB]>>, <<Item(Own, <<Path("/a", "80")>>), Item(Own, <<Path("/b", "80")>>)>>,
                  <<Noted(Own, <<Path("/", "http")>>), [host |-> None]>>,
                  <<Noted(Own, <<Path("/", "web")>>)>>, <<Noted(Own, <<Path("/a", "http")>>)>>, <<Item(Own, <<Path("/", "tcp")>>)>>},
     healthchecks |-> {Checks("tcp", [port |-> "9"]), Checks("execute", [command |-> "x"]), Checks("http", [path |-> "/l"]),
                       [readiness |-> [http |-> [path |-> "/r"]]],
                       [liveness |-> [initial_delay_seconds |-> 0]]},
     ports |-> {<< >>, <<Port("tcp", "tcp", "1")>>, <<Port("http", "web", "81")>>,
                <<Port("http", "http", "80"), Port("tcp", "tcp", "1")>>, <<Port("udp", "udp", "1")>>},
     metrics |-> {[prometheus |-> [enabled |-> FALSE]], [datadog |-> [enabled |-> TRUE]]},
     resources |-> {[requests |-> [cpu |-> "1"]]},
     labels |-> {[pod |-> [team |-> "a"]]},
     admin_access |-> {TRUE},
     secrets_in_environment |-> {TRUE},
     extensions |-> {[strongbox |-> [iam_role |-> "role", groups |-> <<"g">>]],
                     [tls |-> [enabled |-> TRUE]], [tls |-> [enabled |-> FALSE]], [tls |-> [short |-> TRUE]], [tls |-> [short |-> FALSE]],
                     [tls |-> [enabled |-> TRUE, certificate_issuer |-> "mine"]],
                     [secrets |-> [vault |-> Both]], [secrets |-> [unknown |-> Both]],
                     [secrets |-> [vault |-> [parameters |-> Nothing]]]}]

V2Settings ==
    [replicas |-> {0, 3},
     autoscaler |-> {[enabled |-> TRUE], [min_replicas |-> 1]},
     host |-> {Own},
     admin_access |-> {TRUE},
     prometheus |-> {[enabled |-> FALSE], [path |-> "/m"]},
     resources |-> {[limits |-> [cpu |-> "1"]]},
     ports |-> {<< >>, <<[protocol |-> "tcp", name |-> "tcp", port |-> "1", target_port |-> "1"]>>,
                <<[name |-> "web", path |-> "/web"]>>,
                <<[name |-> "a"], [name |-> "b", port |-> "81", path |-> "/b"]>>},
     healthchecks |-> {Checks("http", [path |-> "/l"]), Checks("tcp", [port |-> "9"]),
                       [readiness |-> [execute |-> [command |-> "x"]]]}]

MCSettings == [v \in {2, 3} |-> IF v = 2 THEN V2Settings ELSE V3Settings]
MCAdditional ==
    [o \in Objects \union {"_global"} |-> IF o = "_global" THEN [team |-> "b"] ELSE Nothing]
MCSuffixes == << <<"example">>, <<"svc", "example">> >>
MCRules == << Own :> <<"new", "example">> >>
MCPairs == (<<"new", "example">> :> OwnB) @@ (OwnB :> <<"new", "example">>)
MCTypes == <<"b">> :> "other"
MCIssuers == (<<"example">> :> "wide") @@ (<<"new", "example">> :> "narrow")
NoHosts == {}
MCGlobalEnv == (<<"X">> :> "global") @@ (<<"VERSION">> :> "global") @@ (<<"STATSD_HOST">> :> "global")
                 @@ (<<"FIAAS", "IMAGE">> :> "global")
MCLegacyEnv == {<<"X">>, <<"OLD">>}
MCDefaultImages == {None, "default-image"}
MCInit == [vault |-> "vault-image"]
=============================================================================
