--------------------------- MODULE IngressDeployer ---------------------------
(***************************************************************************)
(* deployer/kubernetes/ingress.py and the objects that                     *)
(* ingress_networkingv1.py makes of its groups: how the ingress items of   *)
(* an application become Ingress objects, each with one certificate issuer *)
(* for all of its hosts.                                                   *)
(*                                                                         *)
(* A domain is the sequence of its labels, so that "equal to a suffix, or  *)
(* ends with a dot and the suffix" is IsSuffix.  An application is a       *)
(* record: name, ingresses, ports, issuer, tls.                            *)
(***************************************************************************)
EXTENDS Naturals, Sequences, SequencesExt

CONSTANTS
    None,                   \* Python's None
    NoAnnotations,          \* an item's empty annotations
    IngressSuffixes,        \* ingress_suffixes, in order
    HostRewriteRules,       \* host_rewrite_rules: a sequence of functions on the hosts they match
    HostPairs,              \* ingress_host_pairs: a function on hosts
    IssuerTypeOverrides,    \* tls_certificate_issuer_type_overrides: a function on domains
    IssuerOverrides,        \* tls_certificate_issuer_overrides: a function on domains
    IssuerTypeDefault,      \* tls_certificate_issuer_type_default
    IssuerDefault,          \* tls_certificate_issuer: None if there is none
    UseIngressTls,          \* "disabled", "default_off" or "default_on"
    TlsEntryPerHost,        \* enable_deprecated_tls_entry_per_host
    LongHosts               \* hosts of 64 characters and more

HasHttpPort(app) == \E k \in DOMAIN app.ports : app.ports[k].protocol = "http"

\* _has_explicitly_set_host
HasExplicitHost(app) ==
    \E k \in DOMAIN app.ingresses :
      app.ingresses[k].host # None /\ app.ingresses[k].annotations = NoAnnotations

ShouldHaveIngress(app) ==
    /\ IngressSuffixes # << >> \/ HasExplicitHost(app)
    /\ app.ingresses # << >>
    /\ HasHttpPort(app)

-----------------------------------------------------------------------------
(* Which hosts and paths. *)

Deduplicated(seq) ==
    FoldLeft(LAMBDA acc, x : IF Contains(acc, x) THEN acc ELSE Append(acc, x), << >>, seq)

Rewritten(host) ==
    LET rules == {k \in DOMAIN HostRewriteRules : host \in DOMAIN HostRewriteRules[k]}
    IN  IF rules = {} THEN host ELSE HostRewriteRules[Min(rules)][host]

\* The paths of all items without annotations, whatever their hosts.
SharedPaths(app) ==
    LET paths(item) == IF item.annotations = NoAnnotations THEN item.paths ELSE << >>
    IN  Deduplicated(FlattenSeq([k \in DOMAIN app.ingresses |-> paths(app.ingresses[k])]))

NamedHttp(app) == SelectSeq(app.ports, LAMBDA p : p.name = "http")

\* _resolve_http_port raises a ValueError.
LacksHttpPort(app) == SharedPaths(app) = << >> /\ NamedHttp(app) = << >>

\* _expand_default_hosts
DefaultItems(app) ==
    LET paths == IF SharedPaths(app) # << >> THEN SharedPaths(app)
                 ELSE <<[path |-> "/", port |-> NamedHttp(app)[1].port]>>
    IN  [k \in DOMAIN IngressSuffixes |->
           [host |-> <<app.name>> \o IngressSuffixes[k], paths |-> paths,
            annotations |-> NoAnnotations]]

HasHost(items, host) == \E k \in DOMAIN items : items[k].host = host

MutWithPairs(items) ==
    items \o [k \in DOMAIN SelectSeq(items, LAMBDA i : i.host \in DOMAIN HostPairs) |->
                LET item == SelectSeq(items, LAMBDA i : i.host \in DOMAIN HostPairs)[k]
                IN  [item EXCEPT !.host = HostPairs[item.host]]]

\* The first item on a host that has a pair is repeated on the pair, unless that
\* host occurs already.
WithPairs(items) ==
    FoldLeft(LAMBDA acc, item :
               IF item.host \in DOMAIN HostPairs /\ ~HasHost(acc, HostPairs[item.host])
               THEN Append(acc, [item EXCEPT !.host = HostPairs[item.host]])
               ELSE acc,
             items, items)

OwnItems(app) ==
    LET own(item) == IF item.host \in {None, << >>} THEN << >>
                     ELSE <<[item EXCEPT !.host = Rewritten(@)]>>
    IN  FlattenSeq([k \in DOMAIN app.ingresses |-> own(app.ingresses[k])])

Items(app) == WithPairs(OwnItems(app) \o DefaultItems(app))

-----------------------------------------------------------------------------
(* Which issuer. *)

MutOverride(overrides, domain, default) ==
    LET fits == {s \in DOMAIN overrides : IsSuffix(s, domain)}
    IN  IF fits = {} THEN default
        ELSE overrides[CHOOSE s \in fits : \A t \in fits : Len(s) <= Len(t)]

\* The overrides are tried longest first.
Override(overrides, domain, default) ==
    LET fits == {s \in DOMAIN overrides : IsSuffix(s, domain)}
    IN  IF fits = {} THEN default
        ELSE overrides[CHOOSE s \in fits : \A t \in fits : Len(t) <= Len(s)]

\* For the default ingress the first of the suffixes with an override decides.
OverrideOfSuffixes(overrides, default) ==
    LET fits == SelectSeq(IngressSuffixes, LAMBDA x : \E s \in DOMAIN overrides : IsSuffix(s, x))
    IN  IF fits = << >> THEN default ELSE Override(overrides, Head(fits), default)

OwnIssuer(app) == IF app.issuer # None THEN app.issuer ELSE IssuerDefault

DefaultType == OverrideOfSuffixes(IssuerTypeOverrides, IssuerTypeDefault)
DefaultName(app) == OverrideOfSuffixes(IssuerOverrides, OwnIssuer(app))
IssuerType(host) == Override(IssuerTypeOverrides, host, DefaultType)
IssuerName(host, app) == Override(IssuerOverrides, host, OwnIssuer(app))

-----------------------------------------------------------------------------
(* The groups. *)

\* An AnnotatedIngress; its name is the application's, with n after it unless 0.
Group(app, n, items, annotations, explicit, type, name) ==
    [n |-> n, items |-> items, annotations |-> annotations, explicit |-> explicit,
     type |-> type, name |-> name]

\* One item: into an Ingress of its own, that of its issuer, or the default one.
Place(app, acc, item) ==
    LET type == IssuerType(item.host)
        name == IssuerName(item.host, app)
        n == Len(acc.own) + Len(acc.shared)
        same == {k \in DOMAIN acc.shared :
                   acc.shared[k].type = type /\ acc.shared[k].name = name}
    IN  CASE item.annotations # NoAnnotations ->
               [acc EXCEPT !.own =
                  Append(@, Group(app, n, <<item>>, item.annotations, TRUE, type, name))]
          [] item.annotations = NoAnnotations /\ <<type, name>> = <<DefaultType, DefaultName(app)>> ->
               [acc EXCEPT !.own[1].items = Append(@, item)]
          [] OTHER ->
               IF same # {}
               THEN [acc EXCEPT !.shared[CHOOSE k \in same : TRUE].items = Append(@, item)]
               ELSE [acc EXCEPT !.shared = Append(@, Group(app, n, <<item>>, NoAnnotations,
                                                           HasExplicitHost(app), type, name))]

\* _group_ingresses
GroupIngresses(app) ==
    LET default == Group(app, 0, << >>, NoAnnotations, HasExplicitHost(app),
                         DefaultType, DefaultName(app))
        groups == FoldLeft(LAMBDA acc, item : Place(app, acc, item),
                           [own |-> <<default>>, shared |-> << >>], Items(app))
    IN  groups.own \o groups.shared

-----------------------------------------------------------------------------
(* The objects. *)

ShouldHaveTls(app) ==
    /\ UseIngressTls # "disabled" /\ app.tls # FALSE
    /\ UseIngressTls = "default_on" \/ app.tls = TRUE

\* _collapse_hosts puts a generated host before the others, where a suffix leaves
\* room for one (<< >> otherwise).
ShortHost ==
    LET fits == {s \in Range(IngressSuffixes) : \A t \in Range(IngressSuffixes) : Len(s) <= Len(t)}
    IN  IF fits = {} \/ fits \subseteq LongHosts THEN << >>
        ELSE << <<"short">> \o CHOOSE s \in fits : TRUE >>

\* IngressTLSDeployer.apply: the hosts of each TLS entry, by secret name.
TlsOf(app, group, hosts) ==
    IF ~ShouldHaveTls(app) THEN << >>
    ELSE (IF TlsEntryPerHost
          THEN LET short == SelectSeq(hosts, LAMBDA h : h \notin LongHosts)
               IN  [k \in DOMAIN short |-> [secret |-> short[k], hosts |-> <<short[k]>>]]
          ELSE << >>)
         \o <<[secret |-> <<app.name, group.n>>,
               hosts |-> IF group.n = 0 THEN ShortHost \o hosts ELSE hosts]>>

\* create_ingress: the Ingress a group becomes.
IngressOf(app, group) ==
    LET hosts == [k \in DOMAIN group.items |-> group.items[k].host] IN
    [n |-> group.n,
     rules |-> [k \in DOMAIN hosts |->
                  [host |-> hosts[k], paths |-> Deduplicated(group.items[k].paths)]],
     annotations |-> group.annotations,
     expose |-> group.explicit,
     tls |-> TlsOf(app, group, hosts),
     issuer |-> IF ShouldHaveTls(app) /\ (IssuerDefault # None \/ app.issuer # None)
                THEN <<group.type, group.name>> ELSE << >>]

\* _create: groups without items get no object.
Ingresses(app) ==
    LET made(group) == IF group.items = << >> THEN << >> ELSE <<IngressOf(app, group)>>
        groups == GroupIngresses(app)
    IN  FlattenSeq([k \in DOMAIN groups |-> made(groups[k])])
==============================================================================
