------------------------------- MODULE Deployer -------------------------------
(***************************************************************************)
(* deployer/deploy.py: the thread that takes one AppSpec at a time from    *)
(* the deploy queue, applies its objects through the adapter and leaves a  *)
(* ReadyCheck with the scheduler.  fiaas-deploy-daemon deploying itself    *)
(* (an application in SelfApps) reports success without waiting, since the *)
(* new Deployment is about to replace this very process.                   *)
(***************************************************************************)
EXTENDS DaemonThreads

CONSTANT SelfApps   \* the applications named "fiaas-deploy-daemon"

ASSUME SelfAssumption == SelfApps \subseteq Apps

\* The next AppSpec: the RUNNING report starts.
TakeJob ==
    /\ thread["deployer"].pc = "idle"
    /\ queue # << >>
    /\ queue' = Tail(queue)
    /\ Become("deployer", Report(Head(queue), "RUNNING"))
    /\ UNCHANGED apiVars
    /\ UNCHANGED <<job, jobs, tasks, expired, reported, faults>>

MutScheduleOnePerApp(n) ==
    tasks' = IF \E m \in tasks : job[m].app = job[n].app THEN tasks ELSE tasks \union {n}

\* Scheduler.add of a new ReadyCheck; checks of earlier jobs stay.
Schedule(n) == tasks' = tasks \union {n}

\* The adapter succeeds.
Deploy ==
    LET n == thread["deployer"].n IN
    /\ thread["deployer"].pc = "deploy"
    /\ ApplyDeployment(job[n].app, n, job[n].rev)
    /\ \/ /\ job[n].app \in SelfApps
          /\ Become("deployer", Report(n, "SUCCESS"))
          /\ UNCHANGED tasks
       \/ /\ job[n].app \notin SelfApps
          /\ Schedule(n)
          /\ Become("deployer", At("idle"))
    /\ UNCHANGED <<app, stream, seen, result, rank>>
    /\ UNCHANGED <<job, jobs, queue, expired, reported, faults>>

\* The adapter raises, before or after it has written the Deployment (the
\* autoscaler and the disruption budget come after it).
DeployFails(kind) ==
    LET n == thread["deployer"].n IN
    /\ thread["deployer"].pc = "deploy"
    /\ Fault(kind)
    /\ \/ UNCHANGED k8s
       \/ ApplyDeployment(job[n].app, n, job[n].rev)
    /\ Become("deployer", AfterException("deployer", kind))
    /\ UNCHANGED <<app, stream, seen, result, rank>>
    /\ UNCHANGED <<job, jobs, queue, tasks, expired, reported>>

DeployerSteps == TakeJob \/ Deploy
DeployerFaults == \E kind \in {"api", "other"} : DeployFails(kind)
===============================================================================
