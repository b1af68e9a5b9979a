------------------------------ MODULE Bootstrap ------------------------------
(***************************************************************************)
(* bootstrap/: the daemon run as a job of its own, to deploy every         *)
(* Application labelled for bootstrap once and exit: 0 when all of them    *)
(* became ready, 1 otherwise.  The deployer and the scheduler are those of *)
(* the daemon; the main thread stands where the watcher does.  Nothing     *)
(* probes this process, so a thread that dies stays dead.                  *)
(***************************************************************************)
EXTENDS Deployer, Scheduler, SequencesExt

CONSTANT Unlabelled     \* Applications that may lack the fiaas/deployment_id label

ASSUME UnlabelledAssumption == Unlabelled \subseteq Apps
ASSUME FiniteAssumption == IsFiniteSet(Apps)

VARIABLES
    main,       \* where Bootstrapper.run is, or the exit code
    todo,       \* listed Applications still to be deployed, in the list's order
    collected,  \* StatusCollector._statuses: the last status of each, or "NONE"
    first       \* the collector is called before the handlers of crd/status.py

vars == <<app, stream, seen, result, rank, k8s, thread, job, jobs, queue,
          tasks, expired, reported, faults, main, todo, collected, first>>

Exits == {"exit 0", "exit 1"}

\* blinker calls a signal's receivers in the order of a set of object ids.
Init ==
    /\ app \in [Apps -> {[Created EXCEPT !.bad = bad] : bad \in {FALSE, AllowBad}}]
    /\ stream = [a \in Apps |-> << >>]
    /\ seen = [a \in Apps |-> Unseen]
    /\ result = [a \in Apps |-> [i \in Ids |-> "NONE"]]
    /\ rank = [a \in Apps |-> [i \in Ids |-> 0]]
    /\ k8s = [a \in Apps |-> NoDeployment]
    /\ DaemonInit
    /\ main = "find"
    /\ todo = << >>
    /\ collected = [a \in Apps |-> "NONE"]
    /\ first \in BOOLEAN

Main == thread["watcher"]
Go(place) == main' = place

\* Bootstrapper._store_status
Store(a, status) == collected' = [collected EXCEPT ![a] = status]

-----------------------------------------------------------------------------
(* The main thread. *)

\* FiaasApplication.find
Find ==
    /\ main = "find"
    /\ todo' \in SetToAllKPermutations({a \in Apps : app[a].phase # "gone"})
    /\ Go("deploy")
    /\ UNCHANGED apiVars
    /\ UNCHANGED <<daemonVars, collected, first>>

\* The next Application: without a deployment id it raises, else the INITIATED
\* report starts, which the collector may get at once.
Initiate ==
    LET a == Head(todo) IN
    /\ main = "deploy"
    /\ Main.pc = "idle"
    /\ todo # << >>
    /\ jobs > 0 => ~job[jobs].bad
    /\ \/ /\ a \in Unlabelled
          /\ Go("exit 1")
          /\ UNCHANGED <<thread, job, jobs, todo, collected>>
       \/ /\ jobs < MaxJobs
          /\ jobs' = jobs + 1
          /\ job' = [job EXCEPT ![jobs + 1] =
                       [app |-> a, rev |-> app[a].rev, gen |-> app[a].gen,
                        id |-> app[a].id, bad |-> app[a].bad]]
          /\ Become("watcher", Report(jobs + 1, "INITIATED"))
          /\ todo' = Tail(todo)
          /\ IF first THEN Store(a, "INITIATED") ELSE UNCHANGED collected
          /\ UNCHANGED main
    /\ UNCHANGED apiVars
    /\ UNCHANGED <<queue, tasks, expired, reported, faults, first>>

MutEnqueue(n) ==
    \/ /\ reported[n] = "INITIATED" /\ \A k \in DOMAIN queue : queue[k] # n
       /\ queue' = Append(queue, n)
       /\ UNCHANGED <<thread, collected>>
    \/ /\ reported[n] # "INITIATED" \/ \E k \in DOMAIN queue : queue[k] = n
       /\ Store(job[n].app, "DEPLOY_SCHEDULED")
       /\ Become("watcher", At("idle"))
       /\ UNCHANGED queue

\* The deploy is noted as scheduled, then put into the queue.
Enqueue(n) ==
    \/ /\ collected[job[n].app] # "DEPLOY_SCHEDULED"
       /\ Store(job[n].app, "DEPLOY_SCHEDULED")
       /\ UNCHANGED <<thread, queue>>
    \/ /\ collected[job[n].app] = "DEPLOY_SCHEDULED"
       /\ queue' = Append(queue, n)
       /\ Become("watcher", At("idle"))
       /\ UNCHANGED collected

\* The AppSpec is built: a configuration that does not parse is reported.
Build ==
    LET n == Main.n IN
    /\ Main.pc = "build"
    /\ \/ /\ job[n].bad
          /\ Become("watcher", Report(n, "FAILED"))
          /\ IF first THEN Store(job[n].app, "FAILED") ELSE UNCHANGED collected
          /\ UNCHANGED queue
       \/ /\ ~job[n].bad
          /\ Enqueue(n)
    /\ UNCHANGED apiVars
    /\ UNCHANGED <<job, jobs, tasks, expired, reported, faults, main, todo, first>>

\* Building it raises something else.
BuildFails(kind) ==
    /\ Main.pc = "build"
    /\ Fault(kind)
    /\ Become("watcher", At("rewatch"))
    /\ UNCHANGED apiVars
    /\ UNCHANGED <<job, jobs, queue, tasks, expired, reported, main, todo, collected, first>>

\* An exception, that of a bad configuration included, ends the process.
Raise ==
    /\ main = "deploy"
    /\ \/ Main.pc = "rewatch"
       \/ Main.pc = "idle" /\ jobs > 0 /\ job[jobs].bad
    /\ Go("exit 1")
    /\ UNCHANGED apiVars
    /\ UNCHANGED <<daemonVars, todo, collected, first>>

FindFails(kind) ==
    /\ main = "find"
    /\ Fault(kind)
    /\ Go("exit 1")
    /\ UNCHANGED apiVars
    /\ UNCHANGED <<thread, job, jobs, queue, tasks, expired, reported, todo, collected, first>>

\* All are deployed: the wait begins.
Wait ==
    /\ main = "deploy"
    /\ Main.pc = "idle"
    /\ todo = << >>
    /\ jobs > 0 => ~job[jobs].bad
    /\ Go("wait")
    /\ UNCHANGED apiVars
    /\ UNCHANGED <<daemonVars, todo, collected, first>>

MutAllReady == \A a \in Apps : collected[a] \in {"NONE", "SUCCESS", "DEPLOY_SCHEDULED"}

\* all(status == STATUS_SUCCESS for status in the collected values)
AllReady == \A a \in Apps : collected[a] \in {"NONE", "SUCCESS"}

\* ... or 120 seconds have passed, at any time.
WaitForReadiness ==
    /\ main = "wait"
    /\ \/ AllReady /\ Go("exit 0")
       \/ Go("exit 1")
    /\ UNCHANGED apiVars
    /\ UNCHANGED <<daemonVars, todo, collected, first>>

MainSteps == Find \/ Initiate \/ Build \/ Raise \/ Wait \/ WaitForReadiness

-----------------------------------------------------------------------------
(* The other threads, with the collector as a receiver of their reports. *)

Starts(t) == thread'[t].pc = FirstWrite /\ thread'[t] # thread[t]

\* A receiver that is called first has the status before it is written, ...
CollectStarts ==
    /\ IF first /\ \E t \in Threads : Starts(t)
       THEN LET t == CHOOSE t \in Threads : Starts(t)
            IN  Store(job[thread'[t].n].app, thread'[t].res)
       ELSE UNCHANGED collected
    /\ UNCHANGED <<main, todo, first>>

\* ... one that is called last only once it has been written.
CollectEnds(t) ==
    /\ IF first THEN UNCHANGED collected
       ELSE Store(job[thread[t].n].app, thread[t].res)
    /\ UNCHANGED <<main, todo, first>>

Save(t) ==
    \/ SaveStatus(t) /\ CollectEnds(t)
    \/ SaveInline(t) /\ CollectStarts

Fails ==
    \/ \E kind \in {"api", "other"} :
         \/ BuildFails(kind)
         \/ FindFails(kind)
         \/ \E t \in Threads :
              (SaveInlineFails(t, kind) \/ SaveStatusFails(t, kind)) /\ CollectStarts
    \/ (DeployerFaults \/ SchedulerFaults) /\ CollectStarts

\* sys.exit ends the other threads with the main one.
Next ==
    /\ main \notin Exits
    /\ \/ MainSteps
       \/ \E t \in Threads : Save(t)
       \/ (DeployerSteps \/ SchedulerSteps) /\ CollectStarts
       \/ Fails
       \/ Environment /\ UNCHANGED <<daemonVars, main, todo, collected, first>>

Spec == Init /\ [][Next]_vars

-----------------------------------------------------------------------------
\* The process exits 0 only when each Application it initiated has its own
\* content in its Deployment and was reported ready (a status that is collected
\* before it is written may be lost), unless it has been removed meanwhile.
ExitMeansDeployed ==
    main = "exit 0" =>
      /\ todo = << >>
      /\ \A n \in 1..jobs :
           \/ app[job[n].app].phase = "gone"
           \/ /\ k8s[job[n].app].n = n
              /\ \/ reported[n] = "SUCCESS"
                 \/ first /\ \E t \in Threads : thread[t].n = n /\ thread[t].res = "SUCCESS"
                 \/ first /\ faults > 0

\* What the main thread collected is the last word of each deploy, although it
\* notes a deploy as scheduled itself, beside threads that report on it: without
\* failures nothing older overwrites a report.
CollectsLatest ==
    faults = 0 =>
      \A n \in 1..jobs :
        \/ \E t \in Threads : thread[t].n = n
        \/ app[job[n].app].phase = "gone"
        \/ collected[job[n].app] = reported[n]
        \/ collected[job[n].app] = "DEPLOY_SCHEDULED" /\ reported[n] = "INITIATED"

-----------------------------------------------------------------------------
(* What makes these inductive. *)

Gone(a) == app[a].phase = "gone"
Queued == {queue[k] : k \in DOMAIN queue}
Reporting(t) == thread[t].pc \in {"inline", "status"}

TypeOK ==
    /\ DOMAIN app = Apps /\ \A a \in Apps : "phase" \in DOMAIN app[a]
    /\ DOMAIN k8s = Apps /\ \A a \in Apps : DOMAIN k8s[a] = {"n", "rev", "ready"}
    /\ thread \in [Threads -> [pc : {"idle", "rewatch", "dead", "inline", "status", "build", "deploy"},
                               n : Nat, res : Results \union {"NONE"}]]
    /\ jobs \in 0..MaxJobs
    /\ DOMAIN job = Tickets /\ \A n \in 1..jobs : job[n].app \in Apps
    /\ queue \in Seq(1..jobs) /\ tasks \subseteq 1..jobs
    /\ DOMAIN reported = Tickets /\ DOMAIN collected = Apps
    /\ faults \in Nat /\ first \in BOOLEAN
    /\ todo \in Seq(Apps)

\* Each deploy is in one place: with a thread, in the queue, or with the scheduler.
OnePlace ==
    /\ \A t, u \in Threads : thread[t].n = thread[u].n /\ thread[t].n # 0 => t = u
    /\ \A k, l \in DOMAIN queue : queue[k] = queue[l] => k = l
    /\ \A t \in Threads : thread[t].n <= jobs /\ thread[t].n \notin Queued \union tasks
    /\ Queued \intersect tasks = {}

\* Each Application is initiated once.
OneJob ==
    /\ \A n, m \in 1..jobs : job[n].app = job[m].app => n = m
    /\ \A k, l \in DOMAIN todo : todo[k] = todo[l] => k = l
    /\ \A k \in DOMAIN todo, n \in 1..jobs : todo[k] # job[n].app

\* What each thread may be at.
ThreadsInTurn ==
    /\ \A t \in Threads : thread[t].n = 0 <=> thread[t].pc \in {"idle", "rewatch", "dead"}
    /\ thread["watcher"].n # 0 =>
         /\ thread["watcher"].pc # "deploy" /\ thread["watcher"].res \in {"INITIATED", "FAILED"}
         /\ thread["watcher"].pc = "build" => thread["watcher"].res = "INITIATED"
    /\ thread["deployer"].n # 0 =>
         /\ thread["deployer"].pc # "build" /\ thread["deployer"].res \in {"RUNNING", "SUCCESS", "FAILED"}
         /\ thread["deployer"].pc = "deploy" => thread["deployer"].res = "RUNNING"
    /\ thread["scheduler"].n # 0 =>
         Reporting("scheduler") /\ thread["scheduler"].res \in {"SUCCESS", "FAILED"}

\* The main thread waits only when it has nothing more to deploy, and exits 0
\* only when all that is collected is a success.
MainInTurn ==
    /\ main = "find" => jobs = 0
    /\ main \in {"find", "wait", "exit 0"} => Main.pc = "idle"
    /\ main \in {"find", "wait", "exit 0"} => todo = << >>
    /\ main = "exit 0" => AllReady

\* A Deployment is that of the one deploy of its Application.
OwnDeployment ==
    /\ \A a \in Apps : k8s[a].n # 0 => k8s[a].n \in 1..jobs /\ job[k8s[a].n].app = a
    /\ \A t \in Threads :
         thread[t].n # 0 /\ thread[t].res = "SUCCESS" =>
           Gone(job[thread[t].n].app) \/ k8s[job[thread[t].n].app].n = thread[t].n

Nowhere(n) == n \notin Queued \union tasks /\ \A t \in Threads : thread[t].n # n

\* What is collected as a success is one.
SuccessIsReal ==
    \A n \in 1..jobs :
      collected[job[n].app] = "SUCCESS" =>
        \/ Gone(job[n].app)
        \/ /\ k8s[job[n].app].n = n
           /\ \/ reported[n] = "SUCCESS" /\ Nowhere(n)
              \/ first /\ \E t \in Threads : thread[t].n = n /\ thread[t].res = "SUCCESS"
              \/ first /\ faults > 0

\* Nothing is collected of an Application before it is initiated.
OnlyInitiated == \A a \in Apps : collected[a] # "NONE" => \E n \in 1..jobs : job[n].app = a

\* Whatever the main thread has dealt with is collected.
NoneForgotten ==
    \A n \in 1..jobs :
      first \/ (Main.n # n /\ Main.pc # "rewatch") => collected[job[n].app] # "NONE"

\* What is collected of a deploy, by where it is.
Latest(n) ==
    LET c == collected[job[n].app] IN
    /\ first => \A t \in Threads : thread[t].n = n /\ Reporting(t) => c = thread[t].res
    /\ Main.n = n /\ Main.pc = "build" =>
         reported[n] = "INITIATED" /\ c \in {"INITIATED", "DEPLOY_SCHEDULED"}
    /\ n \in Queued => reported[n] = "INITIATED" /\ c = "DEPLOY_SCHEDULED"
    /\ thread["deployer"].n = n /\ thread["deployer"].pc = "deploy" => c = reported[n]
    /\ n \notin Queued /\ (\A t \in Threads : thread[t].n # n) => c = reported[n]

AllLatest == faults = 0 => \A n \in 1..jobs : Gone(job[n].app) \/ Latest(n)

IInv ==
    /\ TypeOK /\ OnePlace /\ OneJob /\ ThreadsInTurn /\ MainInTurn /\ OwnDeployment
    /\ SuccessIsReal /\ OnlyInitiated /\ NoneForgotten /\ AllLatest
==============================================================================
