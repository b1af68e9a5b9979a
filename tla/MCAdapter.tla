------------------------------- MODULE MCAdapter -------------------------------
(* An instance of Adapter for TLC. *)
EXTENDS Adapter

CONSTANTS r1, r2, r3

Port(protocol, name) == [protocol |-> protocol, name |-> name, port |-> name]
Item(host, port, annotations) ==
    [host |-> host, paths |-> <<[path |-> "/", port |-> port]>>, annotations |-> annotations]
Scale(min, max) == [enabled |-> min # max, min |-> min, max |-> max]
App(id, ports, items, scale, cpu) ==
    [id |-> id, name |-> "app", ports |-> ports, ingresses |-> items, issuer |-> None, tls |-> None,
     autoscaler |-> scale, cpu |-> cpu]

Http == Port("http", "http")
\* One that scales; one with an Ingress more and a fixed size; the same id without
\* that Ingress; one without ports, which would scale from 0 to 1 only; one with
\* another port.
MCSpecs ==
    <<App("id1", <<Http>>, <<Item(None, "http", NoAnnotations)>>, Scale(2, 3), TRUE),
      App("id2", <<Http, Port("tcp", "tcp")>>, <<Item(<<"own">>, "http", "note")>>,
          Scale(1, 1), TRUE),
      App("id2", <<Http>>, <<Item(None, "http", NoAnnotations)>>, Scale(2, 2), FALSE),
      App("id3", << >>, << >>, Scale(0, 1), TRUE),
      App("id4", <<Port("http", "web")>>, <<Item(<<"own">>, "web", "note")>>, Scale(2, 3), TRUE)>>

MCSuffixes == << <<"example">> >>
NoRules == << >>
NoPairs == << >>
NoOverrides == << >>
NoHosts == {}
\* One of the roles is listed twice.
MCRoles == <<r1, r2, r2>>
MCUnlistedRoles == {r3}
==============================================================================
