---------------------------- MODULE DaemonThreads ----------------------------
(***************************************************************************)
(* The daemon's threads, what they hand to each other, and what they have  *)
(* in common: lifecycle.py sends each change of a deploy synchronously to  *)
(* the handlers of crd/status.py, so a thread that reports a result writes *)
(* the Application's status (if the flag is on) and then the               *)
(* ApplicationStatus, and gets the exception of a failed write.            *)
(*                                                                         *)
(* A job is one deploy, numbered in the order the watcher initiates them.  *)
(***************************************************************************)
EXTENDS FiaasResources

CONSTANTS
    MaxJobs,        \* bound: deploys initiated
    MaxFaults,      \* bound: failing calls and crashes together
    FaultKinds      \* which failures happen: a subset of Faults

Faults == {"api",    \* K8sClientException, RetryError
           "other",  \* any other exception: UpsertConflict, ConnectionError
           "crash"}  \* the process dies

ASSUME JobsAssumption == MaxJobs \in Nat
ASSUME FaultsAssumption == MaxFaults \in Nat /\ FaultKinds \subseteq Faults

VARIABLES
    thread,     \* where each thread is, its job, and the result it reports
    job,        \* the AppSpec and lifecycle Subject of each job
    jobs,       \* number of jobs initiated
    queue,      \* deploy_queue
    tasks,      \* jobs whose ReadyCheck is in the scheduler's queue
    expired,    \* jobs whose ReadyCheck is past its deadline
    reported,   \* history: the last result reported for each job
    faults      \* history: failures so far

daemonVars == <<thread, job, jobs, queue, tasks, expired, reported, faults>>

Threads == {"watcher", "deployer", "scheduler"}
Tickets == 1..MaxJobs
Job == [app : Apps, rev : 0..MaxRev, gen : Nat, id : Ids, bad : BOOLEAN]
ThreadState ==
    [pc : {"idle", "rewatch", "dead"}, n : {0}, res : {"NONE"}]
    \union [pc : {"inline", "status", "build", "deploy"}, n : Tickets, res : Results]

At(pc) == [pc |-> pc, n |-> 0, res |-> "NONE"]
FirstWrite == IF InlineStatus THEN "inline" ELSE "status"
Report(n, r) == [pc |-> FirstWrite, n |-> n, res |-> r]
Become(t, state) == thread' = [thread EXCEPT ![t] = state]

DaemonType ==
    /\ thread \in [Threads -> ThreadState]
    /\ job \in [Tickets -> Job]
    /\ jobs \in 0..MaxJobs
    /\ queue \in Seq(Tickets)
    /\ tasks \subseteq Tickets
    /\ expired \subseteq Tickets
    /\ reported \in [Tickets -> Results \union {"NONE"}]
    /\ faults \in Nat

DaemonInit ==
    /\ thread = [t \in Threads |-> At("idle")]
    /\ job = [n \in Tickets |->
                [app |-> CHOOSE a \in Apps : TRUE, rev |-> 0, gen |-> 0,
                 id |-> 1, bad |-> FALSE]]
    /\ jobs = 0
    /\ queue = << >>
    /\ tasks = {}
    /\ expired = {}
    /\ reported = [n \in Tickets |-> "NONE"]
    /\ faults = 0

Fault(kind) ==
    /\ kind \in FaultKinds
    /\ faults < MaxFaults
    /\ faults' = faults + 1

-----------------------------------------------------------------------------
\* Where a thread goes on once its report has been written.
AfterReport(t) ==
    CASE t = "watcher" /\ thread[t].res = "INITIATED" -> [thread[t] EXCEPT !.pc = "build"]
      [] t = "deployer" /\ thread[t].res = "RUNNING" -> [thread[t] EXCEPT !.pc = "deploy"]
      [] OTHER -> At("idle")

\* A watch is started again, a deploy is reported failed, an API error while
\* doing so (or in a task) is logged; anything else ends the thread.
AfterException(t, kind) ==
    IF t = "watcher" THEN At("rewatch")
    ELSE IF t = "deployer" /\ thread[t].res # "FAILED" THEN Report(thread[t].n, "FAILED")
    ELSE At(IF kind = "api" THEN "idle" ELSE "dead")

\* _save_status_inline: an Application that is gone raises NotFound, an API error.
SaveInline(t) ==
    LET j == job[thread[t].n] IN
    /\ thread[t].pc = "inline"
    /\ \/ /\ app[j.app].phase = "gone"
          /\ Become(t, AfterException(t, "api"))
          /\ UNCHANGED <<app, stream>>
       \/ /\ app[j.app].phase # "gone"
          /\ SaveInlineStatus(j.app, j.id, thread[t].res)
          /\ Become(t, [thread[t] EXCEPT !.pc = "status"])
    /\ UNCHANGED <<seen, result, rank, k8s>>
    /\ UNCHANGED <<job, jobs, queue, tasks, expired, reported, faults>>

\* _save_status and _cleanup.
SaveStatus(t) ==
    LET j == job[thread[t].n] IN
    /\ thread[t].pc = "status"
    /\ SaveStatusObject(j.app, j.id, thread[t].res, Keep)
    /\ reported' = [reported EXCEPT ![thread[t].n] = thread[t].res]
    /\ Become(t, AfterReport(t))
    /\ UNCHANGED <<app, stream, seen, k8s>>
    /\ UNCHANGED <<job, jobs, queue, tasks, expired, faults>>

\* A write raises, whether or not the server performed it: the answer can be
\* lost, and _cleanup fails after the status object is saved.
SaveInlineFails(t, kind) ==
    LET j == job[thread[t].n] IN
    /\ thread[t].pc = "inline"
    /\ Fault(kind)
    /\ \/ UNCHANGED <<app, stream>>
       \/ /\ app[j.app].phase # "gone"
          /\ SaveInlineStatus(j.app, j.id, thread[t].res)
    /\ Become(t, AfterException(t, kind))
    /\ UNCHANGED <<seen, result, rank, k8s>>
    /\ UNCHANGED <<job, jobs, queue, tasks, expired, reported>>

SaveStatusFails(t, kind) ==
    LET j == job[thread[t].n] IN
    /\ thread[t].pc = "status"
    /\ Fault(kind)
    /\ \/ UNCHANGED <<result, rank, reported>>
       \/ /\ \E keep \in {Keep, MaxRev} :
               SaveStatusObject(j.app, j.id, thread[t].res, keep)
          /\ reported' = [reported EXCEPT ![thread[t].n] = thread[t].res]
    /\ Become(t, AfterException(t, kind))
    /\ UNCHANGED <<app, stream, seen, k8s>>
    /\ UNCHANGED <<job, jobs, queue, tasks, expired>>

Reports ==
    \E t \in Threads :
      \/ SaveInline(t)
      \/ SaveStatus(t)
      \/ \E kind \in {"api", "other"} : SaveInlineFails(t, kind) \/ SaveStatusFails(t, kind)
==============================================================================
