------------------------------ MODULE CrdWatcher ------------------------------
(***************************************************************************)
(* crd/watcher.py: the thread that turns watch events into queued deploys. *)
(* The watch client (external) lists every Application when a watch starts *)
(* and filters what it has delivered before; it keeps that memory as long  *)
(* as the process lives, so an event whose handling failed is not seen     *)
(* again.                                                                  *)
(***************************************************************************)
EXTENDS DaemonThreads

MutSkipStatusEventNever(e) == FALSE
MutSkipStatusEventByGeneration(e) == e.ogen = e.gen

\* The event shows a status written for this very generation and deployment id.
SkipStatusEvent(e) == e.ogen = e.gen /\ e.sid = e.id

AlreadyDeployed(a, i) == result[a][i] = "SUCCESS"

\* A DELETED event and an Application marked for deletion start nothing.
NeedsDeploy(e) ==
    /\ e.phase = "live"
    /\ ~SkipStatusEvent(e)

\* The next event of a is taken from the stream.
Consume(a) ==
    /\ thread["watcher"].pc = "idle"
    /\ stream[a] # << >>
    /\ stream' = [stream EXCEPT ![a] = Tail(@)]
    /\ seen' = [seen EXCEPT ![a] =
                  IF Head(stream[a]).phase = "gone" THEN Unseen ELSE Head(stream[a])]
    /\ UNCHANGED <<app, result, rank, k8s>>

\* The event needs no deploy.
SkipEvent(a) ==
    LET e == Head(stream[a]) IN
    /\ Consume(a)
    /\ ~NeedsDeploy(e) \/ AlreadyDeployed(a, e.id)
    /\ UNCHANGED daemonVars

MutJobOfStatus(a, e) ==
    [app |-> a, rev |-> e.rev, gen |-> e.gen, id |-> e.sid, bad |-> e.bad]

\* What the daemon keeps of an event: the Subject and the AppSpec.
JobOf(a, e) ==
    [app |-> a, rev |-> e.rev, gen |-> e.gen, id |-> e.id, bad |-> e.bad]

\* The event needs one: the INITIATED report starts.
InitiateDeploy(a) ==
    LET e == Head(stream[a]) IN
    /\ Consume(a)
    /\ NeedsDeploy(e) /\ ~AlreadyDeployed(a, e.id)
    /\ jobs < MaxJobs
    /\ jobs' = jobs + 1
    /\ job' = [job EXCEPT ![jobs + 1] = JobOf(a, e)]
    /\ Become("watcher", Report(jobs + 1, "INITIATED"))
    /\ UNCHANGED <<queue, tasks, expired, reported, faults>>

\* Reading the ApplicationStatus raises, or the label with the deployment id is
\* missing, which is a ValueError: the event is lost.
HandleEventFails(a, kind) ==
    /\ Consume(a)
    /\ NeedsDeploy(Head(stream[a]))
    /\ Fault(kind)
    /\ Become("watcher", At("rewatch"))
    /\ UNCHANGED <<job, jobs, queue, tasks, expired, reported>>

MutPutFirst(n) == queue' = <<n>> \o queue

\* deploy_queue.put
Put(n) == queue' = Append(queue, n)

\* The AppSpec is built and queued; a configuration that does not parse is a
\* failed deploy.
BuildSpec ==
    LET n == thread["watcher"].n IN
    /\ thread["watcher"].pc = "build"
    /\ \/ /\ job[n].bad
          /\ Become("watcher", Report(n, "FAILED"))
          /\ UNCHANGED queue
       \/ /\ ~job[n].bad
          /\ Put(n)
          /\ Become("watcher", At("idle"))
    /\ UNCHANGED apiVars
    /\ UNCHANGED <<job, jobs, tasks, expired, reported, faults>>

\* Building it raises something else (a lookup, a transformer).
BuildSpecFails(kind) ==
    /\ thread["watcher"].pc = "build"
    /\ Fault(kind)
    /\ Become("watcher", At("rewatch"))
    /\ UNCHANGED apiVars
    /\ UNCHANGED <<job, jobs, queue, tasks, expired, reported>>

\* A new watch: the CRDs are updated first, outside of the try.
Rewatch ==
    /\ thread["watcher"].pc = "rewatch"
    /\ stream' = [a \in Apps |-> Relisted(a, seen[a])]
    /\ Become("watcher", At("idle"))
    /\ UNCHANGED <<app, seen, result, rank, k8s>>
    /\ UNCHANGED <<job, jobs, queue, tasks, expired, reported, faults>>

RewatchFails(kind) ==
    /\ thread["watcher"].pc = "rewatch"
    /\ Fault(kind)
    /\ Become("watcher", At("dead"))
    /\ UNCHANGED apiVars
    /\ UNCHANGED <<job, jobs, queue, tasks, expired, reported>>

\* The server closes the watch: events on their way are replaced by a new list.
Reconnect ==
    /\ thread["watcher"].pc = "idle"
    /\ stream' = [a \in Apps |-> Relisted(a, seen[a])]
    /\ stream' # stream
    /\ UNCHANGED <<app, seen, result, rank, k8s>>
    /\ UNCHANGED daemonVars

WatcherSteps ==
    \/ \E a \in Apps : SkipEvent(a) \/ InitiateDeploy(a)
    \/ BuildSpec
    \/ Rewatch

WatcherFaults ==
    \E kind \in {"api", "other"} :
      \/ \E a \in Apps : HandleEventFails(a, kind)
      \/ BuildSpecFails(kind)
      \/ RewatchFails(kind)
===============================================================================
