------------------------------ MODULE Scheduler ------------------------------
(***************************************************************************)
(* deployer/scheduler.py and deployer/kubernetes/ready_check.py: the       *)
(* thread that runs the ReadyChecks of deployed jobs.  The times at which  *)
(* tasks are due are abstracted: any waiting check may run next, and a     *)
(* check that is neither ready nor expired goes back to the queue, which   *)
(* changes nothing here.                                                   *)
(***************************************************************************)
EXTENDS DaemonThreads

\* _deployment_ready reads the Deployment by the application's name: it may be a
\* later job's.
Ready(n) == k8s[job[n].app].n > 0 /\ k8s[job[n].app].ready

MutEndKeepsTask(n) == UNCHANGED tasks

\* A check that returns False is not put back.
End(n) == tasks' = tasks \ {n}

\* The check ends: ready is tested before the deadline.
RunCheck(n) ==
    /\ thread["scheduler"].pc = "idle"
    /\ n \in tasks
    /\ \/ Ready(n) /\ Become("scheduler", Report(n, "SUCCESS"))
       \/ ~Ready(n) /\ n \in expired /\ Become("scheduler", Report(n, "FAILED"))
    /\ End(n)
    /\ UNCHANGED apiVars
    /\ UNCHANGED <<job, jobs, queue, expired, reported, faults>>

\* Reading the Deployment raises: an API error drops the task, anything else ends
\* the thread.
CheckFails(n, kind) ==
    /\ thread["scheduler"].pc = "idle"
    /\ n \in tasks
    /\ Fault(kind)
    /\ tasks' = tasks \ {n}
    /\ Become("scheduler", IF kind = "api" THEN At("idle") ELSE At("dead"))
    /\ UNCHANGED apiVars
    /\ UNCHANGED <<job, jobs, queue, expired, reported>>

\* The deadline of a check passes (time_monotonic() >= self._fail_after).
Expire(n) ==
    /\ n \in tasks \ expired
    /\ expired' = expired \union {n}
    /\ UNCHANGED apiVars
    /\ UNCHANGED <<thread, job, jobs, queue, tasks, reported, faults>>

SchedulerSteps == \E n \in Tickets : RunCheck(n) \/ Expire(n)
SchedulerFaults == \E n \in Tickets, kind \in {"api", "other"} : CheckFails(n, kind)
==============================================================================
