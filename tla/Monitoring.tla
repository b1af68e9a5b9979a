------------------------------ MODULE Monitoring ------------------------------
(***************************************************************************)
(* The end of a deploy, seen from the outside: the deployer applies the    *)
(* deploys of one application one after the other, ReadyChecks watch the   *)
(* cluster roll them out, and the usage reporter tells of it.  What the    *)
(* deployer and the scheduler do besides is in modules Deployer and        *)
(* Scheduler, and when checks are called in TimedScheduler.                *)
(***************************************************************************)
EXTENDS ReadyCheck, UsageReporter

VARIABLES
    phase       \* where each deploy is

vars == <<spec, pods, status, cert, events, queued, started, sending, began, phase>>

Ends == {"SUCCESS", "FAILED"}

Init ==
    /\ RolloutInit
    /\ UsageInit
    /\ phase = [d \in Deploys |-> "new"]

Go(d, next) == phase' = [phase EXCEPT ![d] = next]

\* lifecycle.success and lifecycle.failed.
End(d, result) == Go(d, result) /\ HandleSignal(result, d)

\* The watcher: a configuration that does not parse fails at once.
Reject(d) ==
    /\ phase[d] = "new"
    /\ End(d, "FAILED")
    /\ UNCHANGED rolloutVars

\* The deployer: lifecycle.start, ...
Start(d) ==
    /\ phase[d] = "new"
    /\ \A other \in Deploys : phase[other] # "deploying"
    /\ Go(d, "deploying")
    /\ HandleSignal("STARTED", d)
    /\ UNCHANGED rolloutVars

\* ... then the adapter, which may raise before or after it has saved the Deployment.
Deploy(d) ==
    /\ phase[d] = "deploying"
    /\ \/ /\ \E replicas \in 0..MaxReplicas : Save(replicas)
          /\ \/ Go(d, "waiting") /\ UNCHANGED usageVars
             \/ End(d, "FAILED")
       \/ End(d, "FAILED") /\ UNCHANGED rolloutVars

\* The scheduler, which runs one check at a time: the Deployment is read first, ...
Check(d) ==
    /\ phase[d] = "waiting"
    /\ \A other \in Deploys : phase[other] # "certificates"
    /\ \/ DeploymentReady /\ Go(d, "certificates") /\ UNCHANGED usageVars
       \/ ~DeploymentReady /\ End(d, "FAILED")
    /\ UNCHANGED rolloutVars

\* ... then the certificates; a check that is past its deadline fails.
CheckCertificates(d) ==
    /\ phase[d] = "certificates"
    /\ \/ IngressReady /\ End(d, "SUCCESS")
       \/ ~IngressReady /\ (End(d, "FAILED") \/ (Go(d, "waiting") /\ UNCHANGED usageVars))
    /\ UNCHANGED rolloutVars

Deploying ==
    \E d \in Deploys :
      Reject(d) \/ Start(d) \/ Deploy(d) \/ Check(d) \/ CheckCertificates(d)

Reporting == HandleEvent \/ Post

Next ==
    \/ Deploying
    \/ (Reporting \/ Answer) /\ UNCHANGED <<rolloutVars, phase>>
    \/ Cluster /\ UNCHANGED <<usageVars, phase>>

Spec == Init /\ [][Next]_vars

\* The reporter's thread goes on while it can.  Nothing is assumed of the server, which
\* may leave a POST open for ever.
Fairness == WF_vars(Reporting /\ UNCHANGED <<rolloutVars, phase>>)

FairSpec == Spec /\ Fairness

-----------------------------------------------------------------------------
\* A deploy passes its check of the Deployment only when the cluster had rolled out
\* its last generation: the status it read was of that generation, counted no pod of
\* an earlier one, and every replica asked for was available.  The counts of an old
\* status, or of old pods, must not add up to it.
ReadyMeansRolledOut ==
    [][\A d \in Deploys :
         phase[d] = "waiting" /\ phase'[d] = "certificates" =>
           /\ status.gen = spec.gen
           /\ status.total = status.updated
           /\ status.up = spec.replicas]_vars

\* A report tells the start of the deploy it is about, for ids used once, although
\* deploys overlap and some end before they start.
ReportsOwnStart ==
    LET d == sending.deploy IN
    sending # Nothing /\ (\A other \in Deploys \ {d} : IdOf[other] # IdOf[d]) =>
      sending.start = IF began[d] = 0 THEN sending.n ELSE began[d]

-----------------------------------------------------------------------------
(* What makes these inductive. *)

Event == [n : Nat \ {0}, kind : {"STARTED"} \union Ends, deploy : Deploys]
Report == [n : Nat \ {0}, start : Nat, deploy : Deploys, tries : Nat, open : BOOLEAN]
OwnId(d) == \A other \in Deploys \ {d} : IdOf[other] # IdOf[d]

TypeOK ==
    /\ spec \in [gen : Nat, replicas : Nat]
    /\ pods \in [old : Nat, new : Nat, up : Nat]
    /\ status \in [gen : Nat, updated : Nat, total : Nat, available : Nat, up : Nat]
    /\ cert \in BOOLEAN
    /\ events \in Seq(Event)
    /\ queued \in Nat
    /\ started \in [Keys -> Nat]
    /\ sending \in {Nothing} \union Report
    /\ began \in [Deploys -> Nat]
    /\ phase \in [Deploys -> {"new", "deploying", "waiting", "certificates"} \union Ends]

\* The controller counts no pod twice, and its status is never ahead of the spec.
CountsAddUp ==
    /\ pods.up <= pods.new
    /\ status.gen <= spec.gen
    /\ status.up <= status.updated
    /\ status.updated <= status.total
    /\ status.available <= status.up + (status.total - status.updated)

\* The events of a deploy are its start, if it has one, and then its end.
EventsInTurn ==
    \A k \in DOMAIN events :
      /\ phase[events[k].deploy] # "new"
      /\ events[k].kind = "STARTED" => events[k].n = began[events[k].deploy]
      /\ events[k].kind # "STARTED" => phase[events[k].deploy] \in Ends
      /\ \A l \in DOMAIN events :
           k < l /\ events[k].deploy = events[l].deploy =>
             events[k].kind = "STARTED" /\ events[l].kind # "STARTED"

\* Between the events of its start and of its end the transformer has the time.
StartKept ==
    \A d \in Deploys :
      /\ phase[d] = "new" => began[d] = 0
      /\ OwnId(d) =>
           IF began[d] = 0 THEN started[IdOf[d]] = 0
           ELSE \/ started[IdOf[d]] = began[d]
                \/ \E k \in DOMAIN events : events[k].deploy = d /\ events[k].kind = "STARTED"
                \/ phase[d] \in Ends /\ \A k \in DOMAIN events : events[k].deploy # d

SentInTurn ==
    sending # Nothing =>
      /\ phase[sending.deploy] # "new"
      /\ OwnId(sending.deploy) =>
           sending.start = IF began[sending.deploy] = 0 THEN sending.n ELSE began[sending.deploy]

IInv == TypeOK /\ CountsAddUp /\ EventsInTurn /\ StartKept /\ SentInTurn

-----------------------------------------------------------------------------
\* Every event is reported or given up, also if all POSTs fail, unless one is never
\* answered: then all later events wait for it.
ReportingCatchesUp == []<>(~sending.open) => <>[](events = << >> /\ sending = Nothing)
===============================================================================
