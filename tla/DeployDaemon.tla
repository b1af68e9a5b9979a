----------------------------- MODULE DeployDaemon -----------------------------
(***************************************************************************)
(* fiaas-deploy-daemon as one system: the watcher, the deployer and the    *)
(* scheduler run as threads of one process beside the users and the        *)
(* cluster.  Everything but the cluster's objects lives in memory: when    *)
(* the process dies, or Kubernetes restarts it because a thread is dead    *)
(* (HealthCheck.is_healthy, probed at /healthz), the daemon begins again   *)
(* from a list of the Applications.                                        *)
(***************************************************************************)
EXTENDS CrdWatcher, Deployer, Scheduler

vars == <<app, stream, seen, result, rank, k8s,
          thread, job, jobs, queue, tasks, expired, reported, faults>>

Init == ResourcesInit /\ DaemonInit

\* A new process: empty queues, and a watch that lists every Application.
MutStartKeepsSeen ==
    /\ thread' = [t \in Threads |-> At("idle")]
    /\ queue' = << >>
    /\ tasks' = {}
    /\ expired' = {}
    /\ seen' = seen
    /\ stream' = [a \in Apps |-> Relisted(a, seen[a])]
    /\ UNCHANGED <<app, result, rank, k8s, job, jobs, reported>>

Start ==
    /\ thread' = [t \in Threads |-> At("idle")]
    /\ queue' = << >>
    /\ tasks' = {}
    /\ expired' = {}
    /\ seen' = [a \in Apps |-> Unseen]
    /\ stream' = [a \in Apps |-> Relisted(a, Unseen)]
    /\ UNCHANGED <<app, result, rank, k8s, job, jobs, reported>>

Healthy == \A t \in Threads : thread[t].pc # "dead"

Restart == ~Healthy /\ Start /\ UNCHANGED faults
Crash == Fault("crash") /\ Start

Failures == WatcherFaults \/ DeployerFaults \/ SchedulerFaults \/ Crash

Next ==
    \/ Environment /\ UNCHANGED daemonVars
    \/ Reports
    \/ WatcherSteps
    \/ Reconnect
    \/ DeployerSteps
    \/ SchedulerSteps
    \/ Restart
    \/ Failures

Spec == Init /\ [][Next]_vars

\* A thread that can take a step takes it; time passes, so a check's deadline
\* does; the scheduler's queue is ordered by time, so no waiting check is passed
\* over for ever; the cluster restarts an unhealthy daemon.
Fairness ==
    /\ \A t \in Threads : WF_vars(SaveInline(t) \/ SaveStatus(t))
    /\ WF_vars(WatcherSteps)
    /\ WF_vars(DeployerSteps)
    /\ \A n \in Tickets : WF_vars(Expire(n)) /\ SF_vars(RunCheck(n))
    /\ WF_vars(Restart)

FairSpec == Spec /\ Fairness

-----------------------------------------------------------------------------
(* Safety. *)

TypeOK == ResourcesType /\ DaemonType

Watching == thread["watcher"].n
Deploying == thread["deployer"].n
Checking == thread["scheduler"].n
InScheduler == tasks \union ({Checking} \ {0})
InDaemon == {Watching, Deploying} \union InScheduler \union {queue[k] : k \in DOMAIN queue}

\* Deploys pass through the daemon in the order they were initiated, each in one
\* place only: the watcher's is newer than all that are queued, those are newer
\* than the deployer's, and that one is newer than all that wait to become ready
\* (deploy_queue between crd/watcher.py and deployer/deploy.py, and the scheduler).
InOrder ==
    /\ Watching # 0 => Watching = jobs
    /\ \A k \in DOMAIN queue :
         /\ queue[k] <= jobs
         /\ Watching # 0 => queue[k] < Watching
         /\ Deploying < queue[k]
         /\ \A m \in InScheduler : m < queue[k]
         /\ \A l \in DOMAIN queue : k < l => queue[k] < queue[l]
    /\ Deploying <= jobs
    /\ Watching # 0 => Deploying < Watching
    /\ \A m \in InScheduler :
         /\ m <= jobs
         /\ Watching # 0 => m < Watching
         /\ Deploying # 0 => m < Deploying
    /\ Checking \notin tasks

\* What a ReadyCheck waits for was applied: the Deployment it reads by name holds
\* the content of its own job or of a later one, never of an earlier one, until
\* the Application is removed.
ChecksWhatItDeployed ==
    \A n \in InScheduler :
      app[job[n].app].phase = "gone" \/ k8s[job[n].app].n >= n

\* While nothing fails, a status object that says a deploy goes on tells the
\* truth: one of that id is still in the daemon, and will report again.  It must
\* survive two jobs of one id (a spec changed under the same id) whose reports
\* the three threads interleave.
NoOrphan ==
    faults = 0 =>
      \A a \in Apps, i \in Ids :
        result[a][i] \in {"INITIATED", "RUNNING"} =>
          \E n \in InDaemon \ {0} : job[n].app = a /\ job[n].id = i

\* One update of a user starts one deploy: neither the status the daemon writes
\* into the Application nor a repeated list starts another (for runs without
\* restarts; _skip_status_event and the watch client's memory).
OneDeployPerUpdate ==
    \A n, m \in 1..jobs :
      job[n].app = job[m].app /\ job[n].rev = job[m].rev => n = m

\* When every id is used for one update, the status in the Application agrees with
\* the ApplicationStatus of its id whenever no thread is between the two writes.
InlineAgrees ==
    \A a \in Apps :
      /\ faults = 0
      /\ app[a].sid = app[a].id
      /\ \A t \in Threads : thread[t].pc = "status" => job[thread[t].n].id # app[a].id
      => result[a][app[a].id] \in {app[a].res, "NONE"}

-----------------------------------------------------------------------------
(* What makes these inductive. *)

\* A thread reports only what the report before it allows, and work is passed on
\* only after the report that announces it.
WatcherInTurn ==
    LET w == thread["watcher"] IN
    w.n # 0 =>
      /\ w.pc \in {"inline", "status", "build"}
      /\ w.res \in {"INITIATED", "FAILED"}
      /\ w.res = "INITIATED" /\ w.pc # "build" => reported[w.n] = "NONE"
      /\ w.res # "INITIATED" \/ w.pc = "build" => reported[w.n] = "INITIATED"

DeployerInTurn ==
    LET d == thread["deployer"] IN
    d.n # 0 =>
      /\ d.pc \in {"inline", "status", "deploy"}
      /\ d.res \in {"RUNNING", "SUCCESS", "FAILED"}
      /\ d.pc = "deploy" => d.res = "RUNNING" /\ reported[d.n] = "RUNNING"
      /\ d.pc # "deploy" /\ d.res = "RUNNING" => reported[d.n] = "INITIATED"
      /\ d.res = "SUCCESS" => SelfApps # {} /\ reported[d.n] = "RUNNING"
      /\ d.res = "FAILED" =>
           \/ reported[d.n] \in {"INITIATED", "RUNNING"}
           \/ SelfApps # {} /\ reported[d.n] = "SUCCESS"

SchedulerInTurn ==
    LET s == thread["scheduler"] IN
    s.n # 0 =>
      s.pc \in {"inline", "status"} /\ s.res \in Terminal /\ reported[s.n] = "RUNNING"

QueuesInTurn ==
    /\ \A n \in Tickets : n > jobs => reported[n] = "NONE"
    /\ \A k \in DOMAIN queue : reported[queue[k]] = "INITIATED"
    /\ \A n \in tasks : reported[n] = "RUNNING"

ReportsInTurn == WatcherInTurn /\ DeployerInTurn /\ SchedulerInTurn /\ QueuesInTurn

\* What is still on its way is never older than what went before: the events of an
\* Application, ...
EventsOf(a) ==
    \A k \in DOMAIN stream[a] :
      /\ stream[a][k].rev <= app[a].rev
      /\ \A l \in DOMAIN stream[a] : k < l => stream[a][k].rev <= stream[a][l].rev
      /\ \A n \in 1..jobs : job[n].app = a => job[n].rev <= stream[a][k].rev

EventsInOrder == \A a \in Apps : EventsOf(a)

\* ... the jobs made of them, ...
JobsInOrder ==
    \A n \in 1..jobs :
      /\ job[n].rev <= app[job[n].app].rev
      /\ \A m \in 1..jobs : n < m /\ job[n].app = job[m].app => job[n].rev <= job[m].rev

\* ... and what the Deployment holds, which is some job's.
DeploymentInOrder ==
    \A a \in Apps :
      /\ k8s[a].n <= jobs
      /\ k8s[a].n = 0 => k8s[a].rev = 0
      /\ k8s[a].n # 0 => job[k8s[a].n].app = a /\ job[k8s[a].n].rev = k8s[a].rev
      /\ Watching # 0 => k8s[a].n < Watching
      /\ Deploying # 0 => k8s[a].n <= Deploying
      /\ \A k \in DOMAIN queue : k8s[a].n < queue[k]

IInv ==
    /\ TypeOK
    /\ InOrder
    /\ ReportsInTurn
    /\ EventsInOrder
    /\ JobsInOrder
    /\ DeploymentInOrder
    /\ ChecksWhatItDeployed

-----------------------------------------------------------------------------
(* Action properties. *)

\* The Deployment of an application never goes back to an older update of it,
\* through redelivered events, queued deploys and restarts.
NoRollback ==
    [][\A a \in Apps : k8s'[a].n # 0 => k8s'[a].rev >= k8s[a].rev]_vars

\* The reports of one deploy keep the order its observers rely on.
Lifecycle == INSTANCE DeployLifecycle WITH
    Deploys <- Tickets, phase <- reported, Retracts <- SelfApps # {}
LifecycleSpec == Lifecycle!Spec

-----------------------------------------------------------------------------
(* Liveness. *)

\* Without failures every deploy begun is brought to SUCCESS or FAILED, unless its
\* Application is removed meanwhile (a status then has no object to be written to).
DeploysFinish ==
    \A n \in Tickets :
      reported[n] \in {"INITIATED", "RUNNING"} ~>
        reported[n] \in Terminal \/ app[job[n].app].phase = "gone"

\* When the users stop, the Deployment is that of the last update (given new ids
\* for new deploys, a configuration that parses, and an Application that stays).
Converges ==
    \A a \in Apps :
      <>[](app[a].phase = "live" /\ ~app[a].bad => k8s[a].rev = app[a].rev)

\* ... and the ApplicationStatus of its deployment id tells how that ended.
ResultSettles ==
    \A a \in Apps :
      <>[](app[a].phase = "live" => result[a][app[a].id] \in Terminal)

===============================================================================
