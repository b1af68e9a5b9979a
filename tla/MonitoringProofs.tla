--------------------------- MODULE MonitoringProofs ---------------------------
(***************************************************************************)
(* Theorems about Monitoring, for every set of deploys, number of replicas *)
(* and number of tries.                                                    *)
(***************************************************************************)
EXTENDS Monitoring, TLAPS

USE ReplicasAssumption, CertificateAssumption, SendsAssumption
    DEF ReplicasAssumption, CertificateAssumption, SendsAssumption

-----------------------------------------------------------------------------
(* Sequences. *)

LEMMA AppendEvents ==
    ASSUME NEW s \in Seq(Event), NEW e \in Event
    PROVE  /\ Append(s, e) \in Seq(Event)
           /\ DOMAIN Append(s, e) = DOMAIN s \union {Len(s) + 1}
           /\ \A k \in DOMAIN s : k \in Nat /\ k < Len(s) + 1 /\ Append(s, e)[k] = s[k]
           /\ Append(s, e)[Len(s) + 1] = e
  OBVIOUS

LEMMA TailEvents ==
    ASSUME NEW s \in Seq(Event), s # << >>
    PROVE  /\ Tail(s) \in Seq(Event)
           /\ 1 \in DOMAIN s /\ Head(s) = s[1] /\ Head(s) \in Event
           /\ \A k \in DOMAIN Tail(s) : k \in Nat \ {0} /\ k + 1 \in DOMAIN s /\ Tail(s)[k] = s[k + 1]
           /\ \A k \in DOMAIN s : k = 1 \/ (k - 1 \in DOMAIN Tail(s) /\ Tail(s)[k - 1] = s[k])
  OBVIOUS

-----------------------------------------------------------------------------
(* The cluster: what the counts of a status say. *)

ClusterInv ==
    /\ spec \in [gen : Nat, replicas : Nat]
    /\ pods \in [old : Nat, new : Nat, up : Nat]
    /\ status \in [gen : Nat, updated : Nat, total : Nat, available : Nat, up : Nat]
    /\ cert \in BOOLEAN
    /\ CountsAddUp

LEMMA ClusterStep == ClusterInv /\ Cluster => ClusterInv'
<1> SUFFICES ASSUME ClusterInv, Cluster PROVE ClusterInv' OBVIOUS
<1> USE DEF ClusterInv
<1>1. CASE PodsMove
  <2>1. UNCHANGED <<spec, status, cert>>
    BY <1>1 DEF PodsMove
  <2>2. pods' \in [old : Nat, new : Nat, up : Nat] /\ pods'.up <= pods'.new
    BY <1>1 DEF PodsMove, CountsAddUp
  <2>3. CountsAddUp'
    BY <2>1, <2>2 DEF CountsAddUp
  <2> QED BY <2>1, <2>2, <2>3
<1>2. CASE SyncStatus
  <2>1. PICK up \in 0..pods.old :
          status' = [gen |-> spec.gen, updated |-> pods.new, total |-> pods.old + pods.new,
                     available |-> pods.up + up, up |-> pods.up]
    BY <1>2 DEF SyncStatus
  <2>2. /\ UNCHANGED <<spec, pods, cert>>
        /\ pods.old \in Nat /\ pods.new \in Nat /\ pods.up \in Nat /\ spec.gen \in Nat
    BY <1>2 DEF SyncStatus
  <2>3. status' \in [gen : Nat, updated : Nat, total : Nat, available : Nat, up : Nat]
    BY <2>1, <2>2
  <2>4. CountsAddUp'
    BY <2>1, <2>2 DEF CountsAddUp
  <2> QED BY <2>2, <2>3, <2>4
<1>3. CASE Certify
  <2>1. UNCHANGED <<spec, pods, status>> /\ cert' \in BOOLEAN
    BY <1>3 DEF Certify
  <2> QED BY <2>1 DEF CountsAddUp
<1> QED BY <1>1, <1>2, <1>3 DEF Cluster

LEMMA ClusterSave ==
    ASSUME ClusterInv, NEW replicas \in Nat, Save(replicas)
    PROVE  ClusterInv'
<1> USE DEF ClusterInv
<1>1. /\ spec' = [gen |-> spec.gen + 1, replicas |-> replicas]
      /\ pods' = [old |-> pods.old + pods.new, new |-> 0, up |-> 0]
      /\ UNCHANGED <<status, cert>>
  BY DEF Save
<1>2. spec' \in [gen : Nat, replicas : Nat] /\ pods' \in [old : Nat, new : Nat, up : Nat]
  BY <1>1
<1>3. CountsAddUp'
  BY <1>1 DEF CountsAddUp
<1> QED BY <1>1, <1>2, <1>3

\* A Deployment that looks ready is: no pod of an earlier generation adds to its counts.
LEMMA ReadyCounts ==
    ASSUME ClusterInv, DeploymentReady
    PROVE  /\ status.gen = spec.gen
           /\ status.total = status.updated
           /\ status.up = spec.replicas
<1>1. \A m, n \in Nat : Shown(m) = Shown(n) => m = n
  BY DEF Shown
<1>2. /\ status.updated = spec.replicas
      /\ status.total = spec.replicas
      /\ status.available = spec.replicas
  BY <1>1 DEF DeploymentReady, ClusterInv
<1> QED BY <1>2 DEF DeploymentReady, ClusterInv, CountsAddUp

-----------------------------------------------------------------------------
(* The events of the usage reporter. *)

UsageInv ==
    /\ events \in Seq(Event)
    /\ queued \in Nat
    /\ started \in [Keys -> Nat]
    /\ sending \in {Nothing} \union Report
    /\ began \in [Deploys -> Nat]
    /\ phase \in [Deploys -> {"new", "deploying", "waiting", "certificates"} \union Ends]
    /\ EventsInTurn
    /\ StartKept
    /\ SentInTurn

LEMMA QueuedEvents ==
    ASSUME events \in Seq(Event)
    PROVE  \A k \in DOMAIN events :
             /\ k \in Nat \ {0}
             /\ events[k] \in Event
             /\ events[k].deploy \in Deploys
             /\ events[k].kind \in {"STARTED"} \union Ends
<1>1. \A k \in DOMAIN events : k \in Nat \ {0} /\ events[k] \in Event
  OBVIOUS
<1> QED BY <1>1 DEF Event

LEMMA SentDeploy ==
    ASSUME UsageInv, sending # Nothing
    PROVE  /\ sending \in Report
           /\ sending.deploy \in Deploys
  BY DEF UsageInv, Report

\* A deploy goes on, and nothing is reported of it.
LEMMA UsageQuiet ==
    ASSUME UsageInv, UNCHANGED usageVars,
           NEW d \in Deploys, NEW next \in {"waiting", "certificates"},
           phase[d] \notin {"new"} \union Ends, Go(d, next)
    PROVE  UsageInv'
<1> USE DEF UsageInv, usageVars
<1>1. /\ phase' \in [Deploys -> {"new", "deploying", "waiting", "certificates"} \union Ends]
      /\ phase'[d] = next /\ \A x \in Deploys \ {d} : phase'[x] = phase[x]
      /\ next \notin {"new"} \union Ends
  BY DEF Go, Ends
<1>2. \A k \in DOMAIN events : events[k] \in Event /\ events[k].deploy \in Deploys
  BY QueuedEvents
<1>3. EventsInTurn'
  BY <1>1, <1>2 DEF EventsInTurn
<1>4. StartKept'
  BY <1>1, <1>2 DEF StartKept, OwnId
<1>5. SentInTurn'
  BY <1>1, SentDeploy DEF SentInTurn, OwnId
<1> QED BY <1>1, <1>3, <1>4, <1>5

\* An event is queued: that of a start comes first, that of an end last.
LEMMA UsageSignal ==
    ASSUME UsageInv, NEW d \in Deploys, NEW kind \in {"STARTED"} \union Ends,
           NEW next, HandleSignal(kind, d), Go(d, next),
           kind = "STARTED" => phase[d] = "new" /\ next = "deploying",
           kind # "STARTED" => phase[d] \notin Ends /\ next = kind
    PROVE  UsageInv'
<1> USE DEF UsageInv
<1> DEFINE e == [n |-> queued + 1, kind |-> kind, deploy |-> d]
<1>1. /\ e \in Event
      /\ events' = Append(events, e)
      /\ UNCHANGED <<started, sending>>
      /\ queued' \in Nat
  BY DEF HandleSignal, Put, Event
<1>2. /\ began' \in [Deploys -> Nat]
      /\ \A x \in Deploys \ {d} : began'[x] = began[x]
      /\ began'[d] = IF kind = "STARTED" THEN queued + 1 ELSE began[d]
  BY DEF HandleSignal
<1>3. /\ phase' \in [Deploys -> {"new", "deploying", "waiting", "certificates"} \union Ends]
      /\ phase'[d] = next /\ \A x \in Deploys \ {d} : phase'[x] = phase[x]
      /\ next # "new" /\ (kind # "STARTED" => next \in Ends)
  BY DEF Go, Ends
<1>4. \A k \in DOMAIN events : events[k] \in Event /\ events[k].deploy \in Deploys
  BY QueuedEvents
<1>5. /\ events' \in Seq(Event)
      /\ DOMAIN events' = DOMAIN events \union {Len(events) + 1}
      /\ \A k \in DOMAIN events : k \in Nat /\ k < Len(events) + 1 /\ events'[k] = events[k]
      /\ events'[Len(events) + 1] = e
  <2> HIDE DEF e
  <2> QED BY <1>1, AppendEvents
<1>6. EventsInTurn'
  <2>1. \A k \in DOMAIN events : kind = "STARTED" => events[k].deploy # d
    BY DEF EventsInTurn
  <2>2. \A k \in DOMAIN events : events[k].deploy = d /\ kind # "STARTED" => events[k].kind = "STARTED"
    BY DEF EventsInTurn
  <2>3. ASSUME NEW k \in DOMAIN events'
        PROVE  /\ phase'[events'[k].deploy] # "new"
               /\ events'[k].kind = "STARTED" => events'[k].n = began'[events'[k].deploy]
               /\ events'[k].kind # "STARTED" => phase'[events'[k].deploy] \in Ends
    <3>1. CASE k \in DOMAIN events
      BY <1>2, <1>3, <1>4, <1>5, <2>1, <3>1 DEF EventsInTurn
    <3>2. CASE k = Len(events) + 1
      BY <1>2, <1>3, <1>5, <3>2
    <3> QED BY <1>5, <2>3, <3>1, <3>2
  <2>4. ASSUME NEW k \in DOMAIN events', NEW l \in DOMAIN events',
               k < l, events'[k].deploy = events'[l].deploy
        PROVE  events'[k].kind = "STARTED" /\ events'[l].kind # "STARTED"
    <3>1. k \in DOMAIN events
      BY <1>5, <2>4
    <3>2. CASE l \in DOMAIN events
      BY <1>5, <2>4, <3>1, <3>2 DEF EventsInTurn
    <3>3. CASE l = Len(events) + 1
      BY <1>5, <2>1, <2>2, <2>4, <3>1, <3>3
    <3> QED BY <1>5, <2>4, <3>2, <3>3
  <2> QED BY <2>3, <2>4 DEF EventsInTurn
<1>7. StartKept'
  <2> SUFFICES ASSUME NEW x \in Deploys
               PROVE  /\ phase'[x] = "new" => began'[x] = 0
                      /\ OwnId(x) =>
                           IF began'[x] = 0 THEN started'[IdOf[x]] = 0
                           ELSE \/ started'[IdOf[x]] = began'[x]
                                \/ \E k \in DOMAIN events' :
                                     events'[k].deploy = x /\ events'[k].kind = "STARTED"
                                \/ phase'[x] \in Ends /\ \A k \in DOMAIN events' : events'[k].deploy # x
    BY DEF StartKept, OwnId
  <2>1. phase'[x] = "new" => began'[x] = 0
    BY <1>2, <1>3 DEF StartKept
  <2>2. CASE x # d
    <3>1. /\ began'[x] = began[x] /\ phase'[x] = phase[x] /\ started' = started
          /\ \A k \in DOMAIN events : k \in DOMAIN events' /\ events'[k] = events[k]
      BY <1>1, <1>2, <1>3, <1>5, <2>2
    <3>2. \A k \in DOMAIN events' : events'[k].deploy = x => k \in DOMAIN events
      <4>1. e.deploy # x
        BY <2>2
      <4> HIDE DEF e
      <4> QED BY <1>5, <4>1
    <3> HIDE DEF e
    <3>3. CASE ~OwnId(x)
      BY <2>1, <3>3
    <3>4. CASE OwnId(x) /\ began[x] = 0
      BY <2>1, <3>1, <3>4 DEF StartKept
    <3>5. CASE OwnId(x) /\ began[x] # 0
      <4>1. \/ started[IdOf[x]] = began[x]
            \/ \E k \in DOMAIN events : events[k].deploy = x /\ events[k].kind = "STARTED"
            \/ phase[x] \in Ends /\ \A k \in DOMAIN events : events[k].deploy # x
        BY <3>5 DEF StartKept
      <4>2. CASE started[IdOf[x]] = began[x]
        BY <2>1, <3>1, <4>2
      <4>3. CASE \E k \in DOMAIN events : events[k].deploy = x /\ events[k].kind = "STARTED"
        <5>1. PICK k \in DOMAIN events : events[k].deploy = x /\ events[k].kind = "STARTED"
          BY <4>3
        <5>2. k \in DOMAIN events' /\ events'[k].deploy = x /\ events'[k].kind = "STARTED"
          BY <3>1, <5>1
        <5>3. \E l \in DOMAIN events' : events'[l].deploy = x /\ events'[l].kind = "STARTED"
          BY <5>2
        <5> QED BY <2>1, <3>1, <3>5, <5>3
      <4>4. CASE phase[x] \in Ends /\ \A k \in DOMAIN events : events[k].deploy # x
        <5>1. \A k \in DOMAIN events' : events'[k].deploy # x
          BY <3>1, <3>2, <4>4
        <5>2. phase'[x] \in Ends
          BY <3>1, <4>4
        <5> QED BY <2>1, <3>1, <3>5, <5>1, <5>2
      <4> QED BY <4>1, <4>2, <4>3, <4>4
    <3> QED BY <3>3, <3>4, <3>5
  <2>3. CASE x = d /\ kind = "STARTED"
    <3>1. began'[x] # 0
      BY <1>2, <2>3
    <3>2. Len(events) + 1 \in DOMAIN events' /\ events'[Len(events) + 1].deploy = x
          /\ events'[Len(events) + 1].kind = "STARTED"
      BY <1>5, <2>3
    <3> QED BY <2>1, <3>1, <3>2
  <2>4. CASE x = d /\ kind # "STARTED"
    BY <1>1, <1>2, <1>5, <2>1, <2>4 DEF StartKept
  <2> QED BY <2>2, <2>3, <2>4
<1>8. SentInTurn'
  BY <1>1, <1>2, <1>3, SentDeploy DEF SentInTurn, OwnId
<1> QED BY <1>1, <1>2, <1>3, <1>5, <1>6, <1>7, <1>8

\* The reporter's thread takes an event.
LEMMA UsageTake ==
    ASSUME UsageInv, HandleEvent, UNCHANGED phase
    PROVE  UsageInv'
<1> USE DEF UsageInv
<1> DEFINE e == Head(events)
           start == IF e.kind = "STARTED" \/ started[IdOf[e.deploy]] = 0 THEN e.n
                    ELSE started[IdOf[e.deploy]]
<1>1. /\ events # << >> /\ events' = Tail(events)
      /\ UNCHANGED <<queued, began>>
      /\ started' = [started EXCEPT ![IdOf[e.deploy]] = IF e.kind = "STARTED" THEN e.n ELSE 0]
      /\ sending' = [n |-> e.n, start |-> start, deploy |-> e.deploy,
                    tries |-> 0, open |-> FALSE]
  BY DEF HandleEvent, Transform
<1>2. /\ 1 \in DOMAIN events /\ e = events[1] /\ e \in Event
      /\ events' \in Seq(Event)
      /\ \A k \in DOMAIN events' : k \in Nat \ {0} /\ k + 1 \in DOMAIN events /\ events'[k] = events[k + 1]
      /\ \A k \in DOMAIN events : k = 1 \/ (k - 1 \in DOMAIN events' /\ events'[k - 1] = events[k])
  BY <1>1, TailEvents
<1>3. e.n \in Nat \ {0} /\ e.deploy \in Deploys /\ IdOf[e.deploy] \in Keys /\ e.kind \in {"STARTED"} \union Ends
  BY <1>2 DEF Event, Keys
<1> HIDE DEF e
<1>4. start \in Nat
  BY <1>3
<1>5. /\ started' \in [Keys -> Nat]
      /\ sending' \in Report
  BY <1>1, <1>3, <1>4 DEF Report
<1>6. \A k \in DOMAIN events : k \in Nat \ {0} /\ events[k] \in Event /\ events[k].deploy \in Deploys
  BY QueuedEvents
<1>7. EventsInTurn'
  <2> SUFFICES ASSUME NEW k \in DOMAIN events'
               PROVE  /\ phase'[events'[k].deploy] # "new"
                      /\ events'[k].kind = "STARTED" => events'[k].n = began'[events'[k].deploy]
                      /\ events'[k].kind # "STARTED" => phase'[events'[k].deploy] \in Ends
                      /\ \A l \in DOMAIN events' :
                           k < l /\ events'[k].deploy = events'[l].deploy =>
                             events'[k].kind = "STARTED" /\ events'[l].kind # "STARTED"
    BY DEF EventsInTurn
  <2> QED BY <1>1, <1>2 DEF EventsInTurn
\* What is still queued of the same deploy comes after the event of its start.
<1>8. \A l \in DOMAIN events :
        l # 1 /\ events[l].deploy = e.deploy => e.kind = "STARTED" /\ events[l].kind # "STARTED"
  <2> SUFFICES ASSUME NEW l \in DOMAIN events, l # 1, events[l].deploy = e.deploy
               PROVE  e.kind = "STARTED" /\ events[l].kind # "STARTED"
    OBVIOUS
  <2>1. 1 < l
    BY <1>6
  <2> QED BY <1>2, <2>1 DEF EventsInTurn
<1>9. StartKept'
  <2> SUFFICES ASSUME NEW d \in Deploys
               PROVE  /\ phase'[d] = "new" => began'[d] = 0
                      /\ OwnId(d) =>
                           IF began'[d] = 0 THEN started'[IdOf[d]] = 0
                           ELSE \/ started'[IdOf[d]] = began'[d]
                                \/ \E k \in DOMAIN events' :
                                     events'[k].deploy = d /\ events'[k].kind = "STARTED"
                                \/ phase'[d] \in Ends /\ \A k \in DOMAIN events' : events'[k].deploy # d
    BY DEF StartKept, OwnId
  <2>0. IdOf[d] \in Keys
    BY DEF Keys
  <2>1. CASE d = e.deploy
    <3>1. e.kind = "STARTED" => began[d] = e.n
      BY <1>2, <2>1 DEF EventsInTurn
    <3>2. e.kind # "STARTED" => phase[d] \in Ends /\ \A k \in DOMAIN events' : events'[k].deploy # d
      <4> SUFFICES ASSUME e.kind # "STARTED"
                   PROVE  phase[d] \in Ends /\ \A k \in DOMAIN events' : events'[k].deploy # d
        OBVIOUS
      <4>1. phase[d] \in Ends
        BY <1>2, <2>1 DEF EventsInTurn
      <4>2. ASSUME NEW k \in DOMAIN events' PROVE events'[k].deploy # d
        <5>1. k + 1 \in DOMAIN events /\ k + 1 # 1 /\ events'[k] = events[k + 1]
          BY <1>2
        <5> QED BY <1>8, <2>1, <5>1
      <4> QED BY <4>1, <4>2
    <3> QED BY <1>1, <1>3, <2>0, <2>1, <3>1, <3>2 DEF StartKept
  <2>2. CASE d # e.deploy
    <3>1. OwnId(d) => started'[IdOf[d]] = started[IdOf[d]]
      BY <1>1, <1>3, <2>0, <2>2 DEF OwnId
    <3>2. \A k \in DOMAIN events : events[k].deploy = d => k - 1 \in DOMAIN events' /\ events'[k - 1] = events[k]
      BY <1>2, <2>2
    <3>3. (\A k \in DOMAIN events : events[k].deploy # d) => \A k \in DOMAIN events' : events'[k].deploy # d
      BY <1>2
    <3>4. /\ phase[d] = "new" => began[d] = 0
          /\ OwnId(d) =>
               IF began[d] = 0 THEN started[IdOf[d]] = 0
               ELSE \/ started[IdOf[d]] = began[d]
                    \/ \E k \in DOMAIN events : events[k].deploy = d /\ events[k].kind = "STARTED"
                    \/ phase[d] \in Ends /\ \A k \in DOMAIN events : events[k].deploy # d
      BY DEF StartKept
    <3>5. (\E k \in DOMAIN events : events[k].deploy = d /\ events[k].kind = "STARTED") =>
            \E k \in DOMAIN events' : events'[k].deploy = d /\ events'[k].kind = "STARTED"
      BY <3>2
    <3> QED BY <1>1, <3>1, <3>3, <3>4, <3>5
  <2> QED BY <2>1, <2>2
<1>10. SentInTurn'
  <2>1. phase'[sending'.deploy] # "new"
    BY <1>1, <1>2 DEF EventsInTurn
  <2>2. ASSUME OwnId(e.deploy)
        PROVE  start = IF began[e.deploy] = 0 THEN e.n ELSE began[e.deploy]
    <3>1. CASE e.kind = "STARTED"
      BY <1>2, <3>1 DEF EventsInTurn
    <3>2. CASE e.kind # "STARTED"
      <4>1. ~\E k \in DOMAIN events : events[k].deploy = e.deploy /\ events[k].kind = "STARTED"
        BY <1>2, <1>8, <3>2
      <4>2. IF began[e.deploy] = 0 THEN started[IdOf[e.deploy]] = 0
            ELSE started[IdOf[e.deploy]] = began[e.deploy]
        BY <1>2, <1>3, <2>2, <4>1 DEF StartKept
      <4> QED BY <3>2, <4>2
    <3> QED BY <3>1, <3>2
  <2> QED BY <1>1, <2>1, <2>2 DEF SentInTurn, OwnId
<1> QED BY <1>1, <1>2, <1>5, <1>7, <1>9, <1>10

\* A POST goes out or is answered: of the report itself nothing changes.
LEMMA UsageSend ==
    ASSUME UsageInv, Post \/ Answer, UNCHANGED phase
    PROVE  UsageInv'
<1> USE DEF UsageInv
<1>1. sending # Nothing
  BY DEF Post, Answer, Nothing
<1>2. /\ sending \in Report
      /\ UNCHANGED <<events, queued, started, began>>
  BY <1>1, SentDeploy DEF Post, Answer
<1>3. \/ sending' = Nothing
      \/ sending' = [sending EXCEPT !.open = TRUE]
      \/ sending' = [sending EXCEPT !.tries = @ + 1, !.open = FALSE]
  BY DEF Post, Answer, GiveUp
<1>4. CASE sending' = Nothing
  BY <1>2, <1>4 DEF EventsInTurn, StartKept, SentInTurn, OwnId
<1>5. CASE sending' # Nothing
  <2>1. /\ sending'.deploy = sending.deploy /\ sending'.n = sending.n
        /\ sending'.start = sending.start
        /\ sending' \in Report
    <3> HIDE DEF UsageInv
    <3>1. CASE sending' = [sending EXCEPT !.open = TRUE]
      BY <1>2, <3>1 DEF Report
    <3>2. CASE sending' = [sending EXCEPT !.tries = @ + 1, !.open = FALSE]
      <4>1. PICK tried : tried = [sending EXCEPT !.tries = @ + 1]
        OBVIOUS
      <4>2. /\ tried \in Report /\ tried.deploy = sending.deploy /\ tried.n = sending.n
            /\ tried.start = sending.start
        BY <1>2, <4>1 DEF Report
      <4>3. sending' = [tried EXCEPT !.open = FALSE]
        BY <3>2, <4>1
      <4> QED BY <4>2, <4>3 DEF Report
    <3> QED BY <1>3, <1>5, <3>1, <3>2
  <2>2. EventsInTurn' /\ StartKept'
    BY <1>2 DEF EventsInTurn, StartKept, OwnId
  <2>3. SentInTurn'
    BY <1>1, <1>2, <2>1 DEF SentInTurn, OwnId
  <2> QED BY <1>2, <2>1, <2>2, <2>3
<1> QED BY <1>4, <1>5

-----------------------------------------------------------------------------
(* The inductive invariant. *)

LEMMA Parts ==
    /\ IInv <=> UsageInv /\ ClusterInv
    /\ IInv' <=> UsageInv' /\ ClusterInv'
  BY DEF IInv, UsageInv, ClusterInv, TypeOK

LEMMA ClusterKept == ClusterInv /\ UNCHANGED rolloutVars => ClusterInv'
  BY DEF ClusterInv, rolloutVars, CountsAddUp

LEMMA UsageKept == UsageInv /\ UNCHANGED <<usageVars, phase>> => UsageInv'
  BY DEF UsageInv, usageVars, EventsInTurn, StartKept, SentInTurn, OwnId

LEMMA InitInv == Init => IInv
<1> SUFFICES ASSUME Init PROVE IInv OBVIOUS
<1> USE DEF Init, RolloutInit, UsageInit
<1>1. TypeOK
  <2>1. events \in Seq(Event)
    OBVIOUS
  <2>2. started \in [Keys -> Nat] /\ began \in [Deploys -> Nat]
    OBVIOUS
  <2>3. status \in [gen : Nat, updated : Nat, total : Nat, available : Nat, up : Nat]
    OBVIOUS
  <2> QED BY <2>1, <2>2, <2>3 DEF TypeOK
<1>2. CountsAddUp
  BY DEF CountsAddUp
<1>3. EventsInTurn
  BY DEF EventsInTurn
<1>4. StartKept
  BY DEF StartKept, Keys
<1>5. SentInTurn
  BY DEF SentInTurn
<1> QED BY <1>1, <1>2, <1>3, <1>4, <1>5 DEF IInv

LEMMA DeployStep ==
    ASSUME IInv, NEW d \in Deploys, Deploy(d)
    PROVE  IInv'
<1>1. UsageInv /\ ClusterInv
  BY Parts
<1>2. "FAILED" \in Ends /\ "FAILED" # "STARTED" /\ phase[d] \notin {"new"} \union Ends
  BY DEF Deploy, Ends
<1>3. UsageInv'
  <2>1. CASE Go(d, "waiting") /\ UNCHANGED usageVars
    BY <1>1, <1>2, <2>1, UsageQuiet
  <2>2. CASE End(d, "FAILED")
    BY <1>1, <1>2, <2>2, UsageSignal DEF End
  <2> QED BY <2>1, <2>2 DEF Deploy
<1>4. ClusterInv'
  <2>1. CASE UNCHANGED rolloutVars
    BY <1>1, <2>1, ClusterKept
  <2>2. CASE \E replicas \in 0..MaxReplicas : Save(replicas)
    <3>1. PICK replicas \in 0..MaxReplicas : Save(replicas)
      BY <2>2
    <3>2. replicas \in Nat
      BY <3>1
    <3> QED BY <1>1, <3>1, <3>2, ClusterSave
  <2> QED BY <2>1, <2>2 DEF Deploy
<1> QED BY <1>3, <1>4, Parts

LEMMA InvStep == IInv /\ [Next]_vars => IInv'
<1> SUFFICES ASSUME IInv, [Next]_vars PROVE IInv' OBVIOUS
<1>1. UsageInv /\ ClusterInv
  BY Parts
<1>2. "FAILED" \in Ends /\ "SUCCESS" \in Ends /\ "FAILED" # "STARTED" /\ "SUCCESS" # "STARTED"
  BY DEF Ends
<1>3. ASSUME NEW d \in Deploys, Reject(d) PROVE IInv'
  <2>1. phase[d] \notin Ends
    BY <1>3 DEF Reject, Ends
  <2>2. UsageInv'
    BY <1>1, <1>2, <1>3, <2>1, UsageSignal DEF Reject, End
  <2> QED BY <1>1, <1>3, <2>2, ClusterKept, Parts DEF Reject
<1>4. ASSUME NEW d \in Deploys, Start(d) PROVE IInv'
  <2>1. UsageInv'
    BY <1>1, <1>2, <1>4, UsageSignal DEF Start
  <2> QED BY <1>1, <1>4, <2>1, ClusterKept, Parts DEF Start
<1>5. ASSUME NEW d \in Deploys, Deploy(d) PROVE IInv'
  BY <1>5, DeployStep
<1>6. ASSUME NEW d \in Deploys, Check(d) PROVE IInv'
  <2>1. phase[d] \notin {"new"} \union Ends
    BY <1>6 DEF Check, Ends
  <2>2. UsageInv'
    BY <1>1, <1>2, <1>6, <2>1, UsageQuiet, UsageSignal DEF Check, End
  <2> QED BY <1>1, <1>6, <2>2, ClusterKept, Parts DEF Check
<1>7. ASSUME NEW d \in Deploys, CheckCertificates(d) PROVE IInv'
  <2>1. phase[d] \notin {"new"} \union Ends
    BY <1>7 DEF CheckCertificates, Ends
  <2>2. UsageInv'
    BY <1>1, <1>2, <1>7, <2>1, UsageQuiet, UsageSignal DEF CheckCertificates, End
  <2> QED BY <1>1, <1>7, <2>2, ClusterKept, Parts DEF CheckCertificates
<1>8. CASE (Reporting \/ Answer) /\ UNCHANGED <<rolloutVars, phase>>
  <2>1. UsageInv'
    BY <1>1, <1>8, UsageTake, UsageSend DEF Reporting
  <2> QED BY <1>1, <1>8, <2>1, ClusterKept, Parts
<1>9. CASE Cluster /\ UNCHANGED <<usageVars, phase>>
  BY <1>1, <1>9, UsageKept, ClusterStep, Parts
<1>10. CASE UNCHANGED vars
  <2>1. UNCHANGED rolloutVars /\ UNCHANGED <<usageVars, phase>>
    BY <1>10 DEF vars, rolloutVars, usageVars
  <2> QED BY <1>1, <2>1, UsageKept, ClusterKept, Parts
<1> QED BY <1>3, <1>4, <1>5, <1>6, <1>7, <1>8, <1>9, <1>10 DEF Next, Deploying

\* The counts of a status, and the events of each deploy, always add up.
THEOREM MonitoringInductive == Spec => []IInv
  BY InitInv, InvStep, PTL DEF Spec

\* A deploy that passes its check of the Deployment has been rolled out
\* (ReadyCheck._deployment_ready), for any number of replicas and of deploys.
THEOREM ReadyIsRolledOut == Spec => ReadyMeansRolledOut
<1>1. ASSUME IInv, [Next]_vars, NEW d \in Deploys,
             phase[d] = "waiting", phase'[d] = "certificates"
      PROVE  DeploymentReady
  <2>1. phase \in [Deploys -> {"new", "deploying", "waiting", "certificates"} \union Ends]
    BY <1>1 DEF IInv, TypeOK
  <2>2. PICK x \in Deploys : Reject(x) \/ Start(x) \/ Deploy(x) \/ Check(x) \/ CheckCertificates(x)
    BY <1>1 DEF Next, Deploying, vars
  <2>3. \A next : Go(x, next) => next = "certificates"
    BY <1>1, <2>1 DEF Go
  <2> QED
    BY <2>2, <2>3 DEF Reject, Start, Deploy, Check, CheckCertificates, End
<1>2. IInv /\ [Next]_vars =>
        [\A d \in Deploys :
           phase[d] = "waiting" /\ phase'[d] = "certificates" =>
             /\ status.gen = spec.gen
             /\ status.total = status.updated
             /\ status.up = spec.replicas]_vars
  BY <1>1, ReadyCounts, Parts
<1> QED BY <1>2, MonitoringInductive, PTL DEF Spec, ReadyMeansRolledOut

\* A usage report tells the start of the deploy it is about (the transformer's
\* _deployments_started), for any number of deploys that overlap.
THEOREM ReportsTheirStart == Spec => []ReportsOwnStart
<1>1. IInv => ReportsOwnStart
  BY DEF IInv, SentInTurn, ReportsOwnStart, OwnId
<1> QED BY <1>1, MonitoringInductive, PTL
===============================================================================
