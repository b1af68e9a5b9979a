-------------------------- MODULE DeployDaemonProofs --------------------------
(***************************************************************************)
(* Theorems about DeployDaemon, for every set of applications, number of   *)
(* updates, jobs and faults, and setting of the flags.                     *)
(***************************************************************************)
EXTENDS DeployDaemon, TLAPS

USE AppsAssumption, MaxRevAssumption, KeepAssumption, FlagsAssumption,
    JobsAssumption, FaultsAssumption, SelfAssumption
    DEF AppsAssumption, MaxRevAssumption, KeepAssumption, FlagsAssumption,
        JobsAssumption, FaultsAssumption, SelfAssumption

-----------------------------------------------------------------------------
(* Types: what each operator the actions are built from leaves behind. *)

LEMMA ModifyType ==
    ASSUME ResourcesType, NEW a \in Apps, NEW new \in Application, Modify(a, new)
    PROVE  /\ app' \in [Apps -> Application]
           /\ stream' \in [Apps -> Seq(Application)]
  BY DEF ResourcesType, Modify

LEMMA InlineStatusRecord ==
    ASSUME NEW x \in Application, NEW i \in Ids, NEW r \in Results
    PROVE  /\ [x EXCEPT !.ogen = x.gen, !.sid = i, !.res = r] \in Application
           /\ [x EXCEPT !.ogen = x.gen, !.sid = i, !.res = r].rev = x.rev
<1>1. x.gen \in Nat /\ i \in 0..MaxRev
  BY DEF Application, Ids
<1> QED BY <1>1 DEF Application

LEMMA SaveInlineStatusType ==
    ASSUME ResourcesType, NEW a \in Apps, NEW i \in Ids, NEW r \in Results,
           SaveInlineStatus(a, i, r)
    PROVE  /\ app' \in [Apps -> Application]
           /\ stream' \in [Apps -> Seq(Application)]
<1>1. CASE app[a].id = i
  <2>1. [app[a] EXCEPT !.ogen = app[a].gen, !.sid = i, !.res = r] \in Application
    BY InlineStatusRecord DEF ResourcesType
  <2> QED BY <1>1, <2>1, ModifyType DEF SaveInlineStatus
<1>2. CASE app[a].id # i
  BY <1>2 DEF SaveInlineStatus, ResourcesType
<1> QED BY <1>1, <1>2

LEMMA SaveStatusObjectType ==
    ASSUME ResourcesType, NEW a \in Apps, NEW i \in Ids, NEW r \in Results,
           NEW keep, SaveStatusObject(a, i, r, keep)
    PROVE  /\ result' \in [Apps -> [Ids -> Results \union {"NONE"}]]
           /\ rank' \in [Apps -> [Ids -> Nat]]
<1>1. Touched(rank[a], i) \in [Ids -> Nat]
  BY DEF ResourcesType, Touched
<1> DEFINE new == Touched(rank[a], i)
           newRank == [j \in Ids |-> IF new[j] > keep THEN 0 ELSE new[j]]
           newResult == [j \in Ids |-> IF new[j] > keep THEN "NONE"
                                      ELSE IF j = i THEN r ELSE result[a][j]]
<1>2. newRank \in [Ids -> Nat]
  BY <1>1
<1>3. newResult \in [Ids -> Results \union {"NONE"}]
  BY DEF ResourcesType
<1>4. CASE app[a].phase = "gone"
  BY <1>4 DEF SaveStatusObject, ResourcesType
<1>5. CASE app[a].phase # "gone"
  <2> rank' = [rank EXCEPT ![a] = newRank] /\ result' = [result EXCEPT ![a] = newResult]
    BY <1>5, Zenon DEF SaveStatusObject
  <2> HIDE DEF newRank, newResult
  <2> QED BY <1>2, <1>3 DEF ResourcesType
<1> QED BY <1>4, <1>5

LEMMA ApplyDeploymentType ==
    ASSUME ResourcesType, NEW a \in Apps, NEW n \in Nat, NEW rev \in 0..MaxRev,
           ApplyDeployment(a, n, rev)
    PROVE  k8s' \in [Apps -> [n : Nat, rev : 0..MaxRev, ready : BOOLEAN]]
<1>1. CASE app[a].phase = "gone"
  BY <1>1 DEF ResourcesType, ApplyDeployment
<1>2. CASE app[a].phase # "gone"
  <2> DEFINE new == [n |-> n, rev |-> rev, ready |-> k8s[a].ready /\ k8s[a].rev = rev]
  <2>1. new \in [n : Nat, rev : 0..MaxRev, ready : BOOLEAN]
    OBVIOUS
  <2>2. k8s' = [k8s EXCEPT ![a] = new]
    BY <1>2 DEF ApplyDeployment, ResourcesType
  <2> HIDE DEF new
  <2> QED BY <2>1, <2>2 DEF ResourcesType
<1> QED BY <1>1, <1>2

LEMMA RelistedType ==
    ASSUME ResourcesType, NEW a \in Apps, NEW last
    PROVE  Relisted(a, last) \in Seq(Application)
  BY DEF ResourcesType, Relisted

LEMMA ReportType ==
    ASSUME NEW n \in Tickets, NEW r \in Results
    PROVE  Report(n, r) \in ThreadState
  BY DEF Report, FirstWrite, ThreadState

LEMMA IdleType ==
    ASSUME NEW pc \in {"idle", "rewatch", "dead"}
    PROVE  At(pc) \in ThreadState
  BY DEF At, ThreadState

LEMMA BusyType ==
    ASSUME DaemonType, NEW t \in Threads,
           thread[t].pc \in {"inline", "status", "build", "deploy"}
    PROVE  /\ thread[t].n \in Tickets
           /\ thread[t].res \in Results
           /\ job[thread[t].n] \in Job
  BY DEF DaemonType, ThreadState

LEMMA AfterType ==
    ASSUME DaemonType, NEW t \in Threads, NEW kind,
           thread[t].pc \in {"inline", "status", "build", "deploy"}
    PROVE  /\ AfterReport(t) \in ThreadState
           /\ AfterException(t, kind) \in ThreadState
<1>1. thread[t] \in [pc : {"inline", "status", "build", "deploy"}, n : Tickets, res : Results]
  BY DEF DaemonType, ThreadState
<1>2. AfterReport(t) \in ThreadState
  BY <1>1, IdleType DEF AfterReport, ThreadState
<1>3. Report(thread[t].n, "FAILED") \in ThreadState
  BY <1>1, ReportType DEF Results
<1>4. AfterException(t, kind) \in ThreadState
  BY <1>3, IdleType DEF AfterException
<1> QED BY <1>2, <1>4

LEMMA CreatedType == Created \in Application
<1>1. 1 \in Ids /\ 1 \in 0..MaxRev /\ 0 \in 0..MaxRev
  BY DEF Ids
<1>2. "live" \in Phases /\ FALSE \in BOOLEAN
  BY DEF Phases
<1> QED BY <1>1, <1>2, Zenon DEF Created, Application

LEMMA UnseenType == Unseen \in Application
<1>1. 0 \in 0..MaxRev
  OBVIOUS
<1> QED BY <1>1, CreatedType DEF Application, Phases, Unseen

LEMMA InitType == Init => TypeOK
<1> SUFFICES ASSUME Init PROVE TypeOK OBVIOUS
<1>1. ResourcesType
  BY CreatedType, UnseenType DEF Init, ResourcesInit, ResourcesType, NoDeployment
<1>2. DaemonType
  <2>1. thread \in [Threads -> ThreadState]
    BY IdleType DEF Init, DaemonInit
  <2>2. job \in [Tickets -> Job]
    <3>1. 1 \in Ids /\ 0 \in 0..MaxRev
      BY DEF Ids
    <3>2. (CHOOSE a \in Apps : TRUE) \in Apps
      OBVIOUS
    <3>3. [app |-> CHOOSE a \in Apps : TRUE, rev |-> 0, gen |-> 0, id |-> 1, bad |-> FALSE]
            \in Job
      BY <3>1, <3>2, Zenon DEF Job
    <3> QED BY <3>3 DEF Init, DaemonInit
  <2>3. /\ jobs \in 0..MaxJobs
        /\ queue \in Seq(Tickets)
        /\ tasks \subseteq Tickets
        /\ expired \subseteq Tickets
        /\ reported \in [Tickets -> Results \union {"NONE"}]
        /\ faults \in Nat
    BY DEF Init, DaemonInit
  <2> QED BY <2>1, <2>2, <2>3 DEF DaemonType
<1> QED BY <1>1, <1>2 DEF TypeOK

LEMMA BecomeType ==
    ASSUME DaemonType, NEW t \in Threads, NEW state \in ThreadState, Become(t, state)
    PROVE  thread' \in [Threads -> ThreadState]
  BY DEF DaemonType, Become

LEMMA JobOfType ==
    ASSUME NEW a \in Apps, NEW e \in Application
    PROVE  JobOf(a, e) \in Job
<1>1. e.rev \in 0..MaxRev /\ e.gen \in Nat /\ e.id \in Ids /\ e.bad \in BOOLEAN
  BY DEF Application
<1> QED BY <1>1, Zenon DEF JobOf, Job

LEMMA EnvironmentType ==
    ASSUME TypeOK, Environment, UNCHANGED daemonVars
    PROVE  TypeOK'
<1> USE DEF TypeOK
<1>1. DaemonType'
  BY DEF DaemonType, daemonVars
<1>2. ASSUME NEW a \in Apps, UserUpdate(a)
      PROVE  ResourcesType'
  <2>1. PICK i \in Ids, bump \in {0, 1}, bad \in BOOLEAN :
          Modify(a, [app[a] EXCEPT !.rev = @ + 1, !.gen = @ + bump, !.id = i, !.bad = bad])
    BY <1>2 DEF UserUpdate
  <2>2. app[a] \in Application /\ app[a].rev < MaxRev
    BY <1>2 DEF UserUpdate, ResourcesType
  <2>3. app[a].rev + 1 \in 0..MaxRev /\ app[a].gen + bump \in Nat
    BY <2>2 DEF Application
  <2>4. [app[a] EXCEPT !.rev = @ + 1, !.gen = @ + bump, !.id = i, !.bad = bad] \in Application
    BY <2>2, <2>3 DEF Application
  <2> QED BY <1>2, <2>1, <2>4, ModifyType DEF UserUpdate, ResourcesType
<1>3. ASSUME NEW a \in Apps, UserDelete(a)
      PROVE  ResourcesType'
  <2>1. [app[a] EXCEPT !.phase = "deleting"] \in Application
    <3>1. app[a] \in Application /\ "deleting" \in Phases
      BY DEF ResourcesType, Phases
    <3> QED BY <3>1 DEF Application
  <2> QED BY <1>3, <2>1, ModifyType DEF UserDelete, ResourcesType
<1>4. ASSUME NEW a \in Apps, Removed(a)
      PROVE  ResourcesType'
  <2>1. [app[a] EXCEPT !.phase = "gone"] \in Application
    <3>1. app[a] \in Application /\ "gone" \in Phases
      BY DEF ResourcesType, Phases
    <3> QED BY <3>1 DEF Application
  <2>2. app' \in [Apps -> Application] /\ stream' \in [Apps -> Seq(Application)]
    BY <1>4, <2>1, ModifyType DEF Removed
  <2>3. NoDeployment \in [n : Nat, rev : 0..MaxRev, ready : BOOLEAN]
    BY DEF NoDeployment
  <2>4. k8s' \in [Apps -> [n : Nat, rev : 0..MaxRev, ready : BOOLEAN]]
    BY <1>4, <2>3 DEF Removed, ResourcesType
  <2>5. result' \in [Apps -> [Ids -> Results \union {"NONE"}]] /\ rank' \in [Apps -> [Ids -> Nat]]
    BY <1>4 DEF Removed, ResourcesType
  <2> QED BY <1>4, <2>2, <2>4, <2>5 DEF Removed, ResourcesType
<1>5. ASSUME NEW a \in Apps, PodsChange(a)
      PROVE  ResourcesType'
  BY <1>5 DEF PodsChange, ResourcesType
<1> QED BY <1>1, <1>2, <1>3, <1>4, <1>5 DEF Environment

LEMMA ReportsType ==
    ASSUME TypeOK, Reports
    PROVE  TypeOK'
<1> USE DEF TypeOK
<1>1. ASSUME NEW t \in Threads, SaveInline(t)
      PROVE  TypeOK'
  <2>1. job[thread[t].n] \in Job /\ thread[t].res \in Results
    BY <1>1, BusyType DEF SaveInline
  <2>2. job[thread[t].n].app \in Apps /\ job[thread[t].n].id \in Ids
    BY <2>1 DEF Job
  <2>3. app' \in [Apps -> Application] /\ stream' \in [Apps -> Seq(Application)]
    BY <1>1, <2>1, <2>2, SaveInlineStatusType DEF SaveInline, ResourcesType
  <2>4. thread' \in [Threads -> ThreadState]
    <3>1. AfterException(t, "api") \in ThreadState
      BY <1>1, AfterType DEF SaveInline
    <3>2. [thread[t] EXCEPT !.pc = "status"] \in ThreadState
      BY <1>1 DEF SaveInline, DaemonType, ThreadState
    <3> QED BY <1>1, <3>1, <3>2, BecomeType DEF SaveInline
  <2> QED BY <1>1, <2>3, <2>4 DEF SaveInline, ResourcesType, DaemonType
<1>2. ASSUME NEW t \in Threads, SaveStatus(t)
      PROVE  TypeOK'
  <2>1. job[thread[t].n] \in Job /\ thread[t].res \in Results /\ thread[t].n \in Tickets
    BY <1>2, BusyType DEF SaveStatus
  <2>2. job[thread[t].n].app \in Apps /\ job[thread[t].n].id \in Ids
    BY <2>1 DEF Job
  <2>3. /\ result' \in [Apps -> [Ids -> Results \union {"NONE"}]]
        /\ rank' \in [Apps -> [Ids -> Nat]]
    BY <1>2, <2>1, <2>2, SaveStatusObjectType DEF SaveStatus
  <2>4. thread' \in [Threads -> ThreadState]
    BY <1>2, AfterType, BecomeType DEF SaveStatus
  <2>5. reported' \in [Tickets -> Results \union {"NONE"}]
    BY <1>2, <2>1 DEF SaveStatus, DaemonType
  <2> QED BY <1>2, <2>3, <2>4, <2>5 DEF SaveStatus, ResourcesType, DaemonType
<1>3. ASSUME NEW t \in Threads, NEW kind \in {"api", "other"}, SaveInlineFails(t, kind)
      PROVE  TypeOK'
  <2>1. job[thread[t].n] \in Job /\ thread[t].res \in Results
    BY <1>3, BusyType DEF SaveInlineFails
  <2>2. job[thread[t].n].app \in Apps /\ job[thread[t].n].id \in Ids
    BY <2>1 DEF Job
  <2>3. app' \in [Apps -> Application] /\ stream' \in [Apps -> Seq(Application)]
    BY <1>3, <2>1, <2>2, SaveInlineStatusType DEF SaveInlineFails, ResourcesType
  <2>4. thread' \in [Threads -> ThreadState]
    BY <1>3, AfterType, BecomeType DEF SaveInlineFails
  <2> QED BY <1>3, <2>3, <2>4 DEF SaveInlineFails, Fault, ResourcesType, DaemonType
<1>4. ASSUME NEW t \in Threads, NEW kind \in {"api", "other"}, SaveStatusFails(t, kind)
      PROVE  TypeOK'
  <2>1. job[thread[t].n] \in Job /\ thread[t].res \in Results /\ thread[t].n \in Tickets
    BY <1>4, BusyType DEF SaveStatusFails
  <2>2. job[thread[t].n].app \in Apps /\ job[thread[t].n].id \in Ids
    BY <2>1 DEF Job
  <2>3. /\ result' \in [Apps -> [Ids -> Results \union {"NONE"}]]
        /\ rank' \in [Apps -> [Ids -> Nat]]
    BY <1>4, <2>1, <2>2, SaveStatusObjectType DEF SaveStatusFails, ResourcesType
  <2>4. thread' \in [Threads -> ThreadState]
    BY <1>4, AfterType, BecomeType DEF SaveStatusFails
  <2>5. reported' \in [Tickets -> Results \union {"NONE"}]
    BY <1>4, <2>1 DEF SaveStatusFails, DaemonType
  <2> QED BY <1>4, <2>3, <2>4, <2>5 DEF SaveStatusFails, Fault, ResourcesType, DaemonType
<1> QED BY <1>1, <1>2, <1>3, <1>4 DEF Reports

LEMMA WatcherType ==
    ASSUME TypeOK, WatcherSteps \/ WatcherFaults \/ Reconnect
    PROVE  TypeOK'
<1> USE DEF TypeOK
<1>1. ASSUME NEW a \in Apps, Consume(a)
      PROVE  /\ ResourcesType'
             /\ Head(stream[a]) \in Application
  <2>1. stream[a] \in Seq(Application) /\ stream[a] # << >>
    BY <1>1 DEF Consume, ResourcesType
  <2>2. Head(stream[a]) \in Application /\ Tail(stream[a]) \in Seq(Application)
    BY <2>1
  <2> QED BY <1>1, <2>2, UnseenType DEF Consume, ResourcesType
<1>2. ASSUME NEW a \in Apps, SkipEvent(a)
      PROVE  TypeOK'
  BY <1>1, <1>2 DEF SkipEvent, daemonVars, DaemonType
<1>3. ASSUME NEW a \in Apps, InitiateDeploy(a)
      PROVE  TypeOK'
  <2>1. ResourcesType' /\ Head(stream[a]) \in Application
    BY <1>1, <1>3 DEF InitiateDeploy
  <2>2. jobs + 1 \in Tickets
    BY <1>3 DEF InitiateDeploy, DaemonType, Tickets
  <2>3. job' \in [Tickets -> Job]
    BY <1>3, <2>1, <2>2, JobOfType DEF InitiateDeploy, DaemonType
  <2>4. thread' \in [Threads -> ThreadState]
    BY <1>3, <2>2, ReportType, BecomeType DEF InitiateDeploy, Threads, Results
  <2>5. jobs' \in 0..MaxJobs
    BY <1>3, <2>2 DEF InitiateDeploy, Tickets
  <2> QED BY <1>3, <2>1, <2>3, <2>4, <2>5 DEF InitiateDeploy, DaemonType
<1>5. ASSUME NEW a \in Apps, NEW kind, HandleEventFails(a, kind)
      PROVE  TypeOK'
  <2>1. thread' \in [Threads -> ThreadState]
    BY <1>5, IdleType, BecomeType DEF HandleEventFails, Threads
  <2> QED BY <1>1, <1>5, <2>1 DEF HandleEventFails, Fault, DaemonType
<1>6. ASSUME BuildSpec
      PROVE  TypeOK'
  <2>1. thread["watcher"].n \in Tickets
    BY <1>6, BusyType DEF BuildSpec, Threads
  <2>2. thread' \in [Threads -> ThreadState]
    BY <1>6, <2>1, IdleType, ReportType, BecomeType DEF BuildSpec, Threads, Results
  <2>3. queue' \in Seq(Tickets)
    BY <1>6, <2>1 DEF BuildSpec, Put, DaemonType
  <2> QED BY <1>6, <2>2, <2>3 DEF BuildSpec, apiVars, ResourcesType, DaemonType
<1>7. ASSUME NEW kind, BuildSpecFails(kind) \/ RewatchFails(kind)
      PROVE  TypeOK'
  <2>1. thread' \in [Threads -> ThreadState]
    BY <1>7, IdleType, BecomeType DEF BuildSpecFails, RewatchFails, Threads
  <2> QED
    BY <1>7, <2>1 DEF BuildSpecFails, RewatchFails, Fault, apiVars, ResourcesType, DaemonType
<1>8. ASSUME Rewatch
      PROVE  TypeOK'
  <2>1. thread' \in [Threads -> ThreadState]
    BY <1>8, IdleType, BecomeType DEF Rewatch, Threads
  <2> QED BY <1>8, <2>1, RelistedType DEF Rewatch, ResourcesType, DaemonType
<1>9. ASSUME Reconnect
      PROVE  TypeOK'
  BY <1>9, RelistedType DEF Reconnect, daemonVars, ResourcesType, DaemonType
<1> QED
  BY <1>2, <1>3, <1>5, <1>6, <1>7, <1>8, <1>9 DEF WatcherSteps, WatcherFaults

LEMMA DeployerType ==
    ASSUME TypeOK, DeployerSteps \/ DeployerFaults
    PROVE  TypeOK'
<1> USE DEF TypeOK
<1>1. ASSUME TakeJob
      PROVE  TypeOK'
  <2>1. Head(queue) \in Tickets /\ Tail(queue) \in Seq(Tickets)
    BY <1>1 DEF TakeJob, DaemonType
  <2>2. thread' \in [Threads -> ThreadState]
    BY <1>1, <2>1, ReportType, BecomeType DEF TakeJob, Threads, Results
  <2> QED BY <1>1, <2>1, <2>2 DEF TakeJob, apiVars, ResourcesType, DaemonType
<1>2. ASSUME thread["deployer"].pc = "deploy"
      PROVE  /\ thread["deployer"].n \in Tickets
             /\ thread["deployer"].n \in Nat
             /\ job[thread["deployer"].n].app \in Apps
             /\ job[thread["deployer"].n].rev \in 0..MaxRev
  BY <1>2, BusyType DEF Job, Threads, Tickets
<1>3. ASSUME Deploy
      PROVE  TypeOK'
  <2>1. k8s' \in [Apps -> [n : Nat, rev : 0..MaxRev, ready : BOOLEAN]]
    BY <1>2, <1>3, ApplyDeploymentType DEF Deploy
  <2>2. thread' \in [Threads -> ThreadState]
    BY <1>2, <1>3, IdleType, ReportType, BecomeType DEF Deploy, Threads, Results
  <2>3. tasks' \subseteq Tickets
    BY <1>2, <1>3 DEF Deploy, Schedule, DaemonType
  <2> QED BY <1>3, <2>1, <2>2, <2>3 DEF Deploy, ResourcesType, DaemonType
<1>4. ASSUME NEW kind, DeployFails(kind)
      PROVE  TypeOK'
  <2>1. k8s' \in [Apps -> [n : Nat, rev : 0..MaxRev, ready : BOOLEAN]]
    BY <1>2, <1>4, ApplyDeploymentType DEF DeployFails, ResourcesType
  <2>2. thread' \in [Threads -> ThreadState]
    BY <1>4, AfterType, BecomeType DEF DeployFails, Threads
  <2> QED BY <1>4, <2>1, <2>2 DEF DeployFails, Fault, ResourcesType, DaemonType
<1> QED BY <1>1, <1>3, <1>4 DEF DeployerSteps, DeployerFaults

LEMMA SchedulerType ==
    ASSUME TypeOK, SchedulerSteps \/ SchedulerFaults
    PROVE  TypeOK'
<1> USE DEF TypeOK
<1>1. ASSUME NEW n \in Tickets, RunCheck(n)
      PROVE  TypeOK'
  <2>1. thread' \in [Threads -> ThreadState]
    BY <1>1, ReportType, BecomeType DEF RunCheck, Threads, Results
  <2> QED BY <1>1, <2>1 DEF RunCheck, End, apiVars, ResourcesType, DaemonType
<1>2. ASSUME NEW n \in Tickets, NEW kind, CheckFails(n, kind)
      PROVE  TypeOK'
  <2>1. thread' \in [Threads -> ThreadState]
    BY <1>2, IdleType, BecomeType DEF CheckFails, Threads
  <2> QED BY <1>2, <2>1 DEF CheckFails, Fault, apiVars, ResourcesType, DaemonType
<1>3. ASSUME NEW n \in Tickets, Expire(n)
      PROVE  TypeOK'
  BY <1>3 DEF Expire, apiVars, ResourcesType, DaemonType
<1> QED BY <1>1, <1>2, <1>3 DEF SchedulerSteps, SchedulerFaults

LEMMA StartType ==
    ASSUME TypeOK, Start, faults' \in Nat
    PROVE  TypeOK'
  BY RelistedType, IdleType, UnseenType DEF TypeOK, Start, ResourcesType, DaemonType

LEMMA TypeStep == TypeOK /\ [Next]_vars => TypeOK'
<1> SUFFICES ASSUME TypeOK, [Next]_vars PROVE TypeOK' OBVIOUS
<1>1. CASE UNCHANGED vars
  BY <1>1 DEF TypeOK, ResourcesType, DaemonType, vars
<1>2. CASE Restart
  BY <1>2, StartType DEF Restart, TypeOK, DaemonType
<1>3. CASE Crash
  BY <1>3, StartType DEF Crash, Fault, TypeOK, DaemonType
<1> QED
  BY <1>1, <1>2, <1>3, EnvironmentType, ReportsType, WatcherType, DeployerType, SchedulerType
  DEF Next, Failures

\* Every state has the types TypeOK gives: no step of a thread, a user or the
\* cluster takes any variable out of them.
THEOREM TypeCorrect == Spec => []TypeOK
  BY InitType, TypeStep, PTL DEF Spec

-----------------------------------------------------------------------------
(* Order: how the actions move a job through the daemon. *)

\* What a report leaves of the threads: the thread keeps its job or drops it.
LEMMA ReportKeepsJob ==
    ASSUME TypeOK, Reports
    PROVE  \A t \in Threads : thread'[t].n \in {0, thread[t].n}
<1> USE DEF TypeOK
<1>1. ASSUME NEW t \in Threads, NEW kind
      PROVE  /\ AfterReport(t).n \in {0, thread[t].n}
             /\ AfterException(t, kind).n \in {0, thread[t].n}
             /\ [thread[t] EXCEPT !.pc = "status"].n = thread[t].n
  <2>1. thread[t] \in ThreadState
    BY DEF DaemonType
  <2>2. [thread[t] EXCEPT !.pc = "status"].n = thread[t].n
        /\ [thread[t] EXCEPT !.pc = "build"].n = thread[t].n
        /\ [thread[t] EXCEPT !.pc = "deploy"].n = thread[t].n
    BY <2>1 DEF ThreadState
  <2> QED BY <2>2 DEF AfterReport, AfterException, Report, At
<1>2. ASSUME NEW t \in Threads, NEW state, Become(t, state), state.n \in {0, thread[t].n}
      PROVE  \A u \in Threads : thread'[u].n \in {0, thread[u].n}
  BY <1>2 DEF Become, DaemonType
<1>3. \E t \in Threads : \E state :
        Become(t, state) /\ state.n \in {0, thread[t].n}
  <2>1. ASSUME NEW t \in Threads, SaveInline(t)
        PROVE  \E state : Become(t, state) /\ state.n \in {0, thread[t].n}
    BY <1>1, <2>1 DEF SaveInline
  <2>2. ASSUME NEW t \in Threads, SaveStatus(t)
        PROVE  \E state : Become(t, state) /\ state.n \in {0, thread[t].n}
    BY <1>1, <2>2 DEF SaveStatus
  <2>3. ASSUME NEW t \in Threads, NEW kind, SaveInlineFails(t, kind) \/ SaveStatusFails(t, kind)
        PROVE  \E state : Become(t, state) /\ state.n \in {0, thread[t].n}
    BY <1>1, <2>3 DEF SaveInlineFails, SaveStatusFails
  <2> QED BY <2>1, <2>2, <2>3 DEF Reports
<1> QED BY <1>2, <1>3

\* A step in which jobs only leave the threads and the scheduler keeps the order.
LEMMA OrderShrinks ==
    ASSUME TypeOK, InOrder,
           queue' = queue, jobs' = jobs, tasks' \subseteq tasks,
           \A t \in Threads : thread'[t].n \in {0, thread[t].n}
    PROVE  InOrder'
<1>1. /\ Watching' \in {0, Watching} 
      /\ Deploying' \in {0, Deploying}
      /\ Checking' \in {0, Checking}
  BY DEF Watching, Deploying, Checking, Threads
<1>2. InScheduler' \subseteq InScheduler
  BY <1>1 DEF InScheduler
<1>3. Watching \in Nat /\ Deploying \in Nat /\ Checking \in Nat /\ jobs \in Nat /\ queue \in Seq(Nat)
  BY DEF TypeOK, DaemonType, ThreadState, Tickets, Watching, Deploying, Checking, Threads
<1> HIDE DEF Watching, Deploying, Checking, InScheduler
<1>4. Checking' \notin tasks'
  BY <1>1 DEF InOrder, TypeOK, DaemonType, Tickets
<1>5. \A k \in DOMAIN queue : Deploying' < queue[k]
  BY <1>1, <1>3 DEF InOrder
<1> QED BY <1>1, <1>2, <1>3, <1>4, <1>5 DEF InOrder

\* The job of a thread that is idle is none.
LEMMA IdleHasNoJob ==
    ASSUME TypeOK, NEW t \in Threads
    PROVE  /\ thread[t].pc \in {"idle", "rewatch", "dead"} => thread[t].n = 0
           /\ thread[t].pc \in {"inline", "status", "build", "deploy"} => thread[t].n \in Tickets
           /\ thread[t].n # 0 => thread[t].pc \in {"inline", "status", "build", "deploy"}
  BY DEF TypeOK, DaemonType, ThreadState, Tickets

LEMMA OrderInitiate ==
    ASSUME TypeOK, InOrder, NEW a \in Apps, InitiateDeploy(a)
    PROVE  InOrder'
<1>1. /\ Watching = 0
      /\ Watching' = jobs + 1 /\ jobs' = jobs + 1
      /\ Deploying' = Deploying /\ Checking' = Checking
      /\ InScheduler' = InScheduler
      /\ queue' = queue /\ tasks' = tasks
  BY IdleHasNoJob
     DEF InitiateDeploy, Consume, Become, Report, Watching, Deploying, Checking, InScheduler,
         Threads, TypeOK, DaemonType
<1>2. jobs \in Nat /\ queue \in Seq(Nat) /\ InScheduler \subseteq Nat /\ Deploying \in Nat
  <2>1. \A t \in Threads : thread[t].n \in Nat
    BY DEF TypeOK, DaemonType, ThreadState, Tickets
  <2>2. tasks \subseteq Nat /\ jobs \in Nat /\ queue \in Seq(Nat)
    BY DEF TypeOK, DaemonType, Tickets
  <2> QED BY <2>1, <2>2 DEF InScheduler, Deploying, Checking, Threads
<1> HIDE DEF Watching, Deploying, Checking, InScheduler
<1>3. jobs + 1 # 0
  BY <1>2
<1>4. \A k \in DOMAIN queue : queue[k] \in Nat
  BY <1>2
<1> QED BY <1>1, <1>2, <1>3, <1>4 DEF InOrder

LEMMA OrderBuild ==
    ASSUME TypeOK, InOrder, BuildSpec
    PROVE  InOrder'
<1> DEFINE n == thread["watcher"].n
<1>1. n \in Tickets /\ n = jobs /\ n = Watching /\ n # 0 /\ n \in Nat
  BY IdleHasNoJob DEF BuildSpec, InOrder, Watching, Threads, Tickets
<1>2. /\ tasks' = tasks /\ jobs' = jobs
      /\ Deploying' = Deploying /\ Checking' = Checking /\ InScheduler' = InScheduler
  BY DEF BuildSpec, Become, Deploying, Checking, InScheduler, Threads, TypeOK, DaemonType
<1>3. queue \in Seq(Nat) /\ queue \in Seq(Tickets)
  BY DEF TypeOK, DaemonType, Tickets
<1>4. CASE job[n].bad
  <2>1. queue' = queue /\ \A t \in Threads : thread'[t].n \in {0, thread[t].n}
    BY <1>4 DEF BuildSpec, Become, Report, Threads, TypeOK, DaemonType
  <2> QED BY <1>2, <2>1, OrderShrinks
<1>5. CASE ~job[n].bad
  <2>1. queue' = Append(queue, n) /\ Watching' = 0
    BY <1>5 DEF BuildSpec, Put, Become, At, Watching, Threads, TypeOK, DaemonType
  <2>2. /\ DOMAIN queue' = 1..(Len(queue) + 1)
        /\ DOMAIN queue = 1..Len(queue)
        /\ Len(queue) \in Nat
        /\ \A k \in DOMAIN queue : queue'[k] = queue[k] /\ queue[k] \in Nat
        /\ queue'[Len(queue) + 1] = n
    BY <2>1, <1>1, <1>3
  <2>3. \A k \in DOMAIN queue' : k \in DOMAIN queue \/ k = Len(queue) + 1
    BY <2>2
  <2> HIDE DEF n
  <2>4. \A k \in DOMAIN queue :
          /\ queue[k] <= jobs /\ queue[k] < n /\ Deploying < queue[k]
          /\ \A m \in InScheduler : m < queue[k]
          /\ \A l \in DOMAIN queue : k < l => queue[k] < queue[l]
    BY <1>1 DEF InOrder
  <2>5. Deploying < n /\ \A m \in InScheduler : m < n
    BY <1>1 DEF InOrder
  <2>6. \A k, l \in DOMAIN queue' : k < l => queue'[k] < queue'[l]
    BY <2>2, <2>3, <2>4
  <2>7. \A k \in DOMAIN queue' :
          queue'[k] <= jobs /\ Deploying < queue'[k] /\ \A m \in InScheduler : m < queue'[k]
    BY <2>2, <2>3, <2>4, <2>5, <1>1
  <2> HIDE DEF Watching, Deploying, Checking, InScheduler
  <2> QED BY <1>2, <2>1, <2>6, <2>7 DEF InOrder
<1> QED BY <1>4, <1>5

LEMMA OrderTake ==
    ASSUME TypeOK, InOrder, TakeJob
    PROVE  InOrder'
<1>1. queue \in Seq(Nat) /\ queue \in Seq(Tickets) /\ queue # << >>
  BY DEF TypeOK, DaemonType, Tickets, TakeJob
<1>2. /\ Deploying = 0 /\ Deploying' = queue[1]
      /\ Watching' = Watching /\ Checking' = Checking /\ InScheduler' = InScheduler
      /\ tasks' = tasks /\ jobs' = jobs
  BY <1>1, IdleHasNoJob
     DEF TakeJob, Become, Report, Watching, Deploying, Checking, InScheduler, Threads, TypeOK,
         DaemonType
<1>3. /\ queue' = Tail(queue)
      /\ Len(queue) \in Nat \ {0}
      /\ DOMAIN queue = 1..Len(queue)
      /\ DOMAIN queue' = 1..(Len(queue) - 1)
      /\ \A k \in DOMAIN queue' : queue'[k] = queue[k + 1] /\ k + 1 \in DOMAIN queue /\ 1 < k + 1
      /\ 1 \in DOMAIN queue
  BY <1>1 DEF TakeJob
<1>4. \A k \in DOMAIN queue : queue[k] \in Nat
  BY <1>1
<1> HIDE DEF Watching, Deploying, Checking, InScheduler
<1> QED BY <1>1, <1>2, <1>3, <1>4 DEF InOrder

LEMMA OrderDeploy ==
    ASSUME TypeOK, InOrder, Deploy
    PROVE  InOrder'
<1> DEFINE n == thread["deployer"].n
<1>1. n \in Tickets /\ n = Deploying /\ n # 0 /\ n \in Nat
  BY IdleHasNoJob DEF Deploy, Deploying, Threads, Tickets
<1>2. queue' = queue /\ jobs' = jobs /\ Watching' = Watching /\ Checking' = Checking
  BY DEF Deploy, Become, Watching, Checking, Threads, TypeOK, DaemonType
<1>3. CASE job[n].app \in SelfApps
  <2>1. tasks' = tasks /\ \A t \in Threads : thread'[t].n \in {0, thread[t].n}
    BY <1>3 DEF Deploy, Become, Report, Threads, TypeOK, DaemonType
  <2> QED BY <1>2, <2>1, OrderShrinks
<1>4. CASE job[n].app \notin SelfApps
  <2>1. tasks' = tasks \union {n} /\ Deploying' = 0 /\ InScheduler' = InScheduler \union {n}
    BY <1>2, <1>4
       DEF Deploy, Schedule, Become, At, Deploying, InScheduler, Threads, TypeOK, DaemonType
  <2>2. \A k \in DOMAIN queue : n < queue[k] /\ queue[k] \in Nat /\ 0 < queue[k]
    BY <1>1 DEF InOrder, TypeOK, DaemonType, Tickets
  <2>3. n <= jobs /\ (Watching # 0 => n < Watching) /\ Checking # n
    <3>1. Checking # 0 => Checking \in InScheduler /\ Checking \in Nat
      BY DEF InScheduler, Checking, TypeOK, DaemonType, ThreadState, Tickets, Threads
    <3>2. Checking # 0 => Checking < n
      BY <1>1, <3>1 DEF InOrder
    <3> QED BY <1>1, <3>1, <3>2 DEF InOrder
  <2>4. 0 <= jobs /\ (Watching # 0 => 0 < Watching) 
    BY DEF TypeOK, DaemonType, ThreadState, Watching, Tickets, Threads
  <2> HIDE DEF n, Watching, Deploying, Checking, InScheduler
  <2> QED BY <1>1, <1>2, <2>1, <2>2, <2>3, <2>4 DEF InOrder
<1> QED BY <1>3, <1>4

LEMMA OrderCheck ==
    ASSUME TypeOK, InOrder, NEW n \in Tickets, RunCheck(n)
    PROVE  InOrder'
<1>1. /\ Checking = 0 /\ Checking' = n /\ tasks' = tasks \ {n}
      /\ Watching' = Watching /\ Deploying' = Deploying /\ queue' = queue /\ jobs' = jobs
  BY IdleHasNoJob
     DEF RunCheck, End, Become, Report, Watching, Deploying, Checking, Threads, TypeOK, DaemonType
<1>2. InScheduler' = InScheduler
  BY <1>1 DEF InScheduler, RunCheck, Tickets
<1> HIDE DEF Watching, Deploying, Checking, InScheduler
<1> QED BY <1>1, <1>2 DEF InOrder

LEMMA OrderStart ==
    ASSUME TypeOK, Start
    PROVE  InOrder'
  BY DEF Start, InOrder, Watching, Deploying, Checking, InScheduler, At, Threads, TypeOK, DaemonType

LEMMA OrderStep ==
    ASSUME TypeOK, InOrder, [Next]_vars
    PROVE  InOrder'
<1>1. ASSUME NEW t \in Threads, NEW pc \in {"idle", "rewatch", "dead"}, Become(t, At(pc))
      PROVE  \A u \in Threads : thread'[u].n \in {0, thread[u].n}
  BY <1>1 DEF Become, At, TypeOK, DaemonType
<1>2. CASE UNCHANGED daemonVars
  BY <1>2, OrderShrinks DEF daemonVars
<1>3. CASE Reports
  <2>1. queue' = queue /\ jobs' = jobs /\ tasks' = tasks
    BY <1>3 DEF Reports, SaveInline, SaveStatus, SaveInlineFails, SaveStatusFails
  <2> QED BY <1>3, <2>1, ReportKeepsJob, OrderShrinks
<1>4. CASE WatcherSteps
  <2>1. ASSUME Rewatch PROVE InOrder'
    BY <1>1, <2>1, OrderShrinks DEF Rewatch, Threads
  <2>2. ASSUME NEW a \in Apps, SkipEvent(a) PROVE InOrder'
    BY <1>2, <2>2 DEF SkipEvent
  <2> QED BY <1>4, <2>1, <2>2, OrderInitiate, OrderBuild DEF WatcherSteps
<1>5. CASE WatcherFaults
  <2>1. ASSUME NEW a \in Apps, NEW kind,
               HandleEventFails(a, kind) \/ BuildSpecFails(kind) \/ RewatchFails(kind)
        PROVE  InOrder'
    BY <1>1, <2>1, OrderShrinks DEF HandleEventFails, BuildSpecFails, RewatchFails, Threads
  <2> QED BY <1>5, <2>1 DEF WatcherFaults
<1>6. CASE Reconnect
  BY <1>2, <1>6 DEF Reconnect
<1>7. CASE DeployerFaults
  <2>1. PICK kind \in {"api", "other"} : DeployFails(kind)
    BY <1>7 DEF DeployerFaults
  <2>2. \A u \in Threads : thread'[u].n \in {0, thread[u].n}
    BY <2>1 DEF DeployFails, AfterException, Become, At, Report, Threads, TypeOK, DaemonType
  <2> QED BY <2>1, <2>2, OrderShrinks DEF DeployFails
<1>8. CASE SchedulerSteps
  <2>1. ASSUME NEW n \in Tickets, Expire(n) PROVE InOrder'
    BY <2>1, OrderShrinks DEF Expire
  <2> QED BY <1>8, <2>1, OrderCheck DEF SchedulerSteps
<1>9. CASE SchedulerFaults
  <2>1. ASSUME NEW n \in Tickets, NEW kind \in {"api", "other"}, CheckFails(n, kind)
        PROVE  InOrder'
    BY <1>1, <2>1, OrderShrinks DEF CheckFails, Threads
  <2> QED BY <1>9, <2>1 DEF SchedulerFaults
<1>10. CASE Restart \/ Crash
  BY <1>10, OrderStart DEF Restart, Crash
<1>11. CASE UNCHANGED vars
  BY <1>2, <1>11 DEF vars, daemonVars
<1> QED
  BY <1>2, <1>3, <1>4, <1>5, <1>6, <1>7, <1>8, <1>9, <1>10, <1>11, OrderTake, OrderDeploy
  DEF Next, Failures, DeployerSteps

-----------------------------------------------------------------------------
(* Revisions: what happens to the events and the jobs. *)

\* Events and jobs keep their order when an Application is modified forwards, ...
LEMMA RevsModify ==
    ASSUME TypeOK, EventsInOrder, JobsInOrder, job' = job, jobs' = jobs,
           NEW a \in Apps, NEW new \in Application, new.rev >= app[a].rev, Modify(a, new)
    PROVE  EventsInOrder' /\ JobsInOrder'
<1>1. /\ \A b \in Apps : app[b].rev \in Nat /\ stream[b] \in Seq(Application)
      /\ new.rev \in Nat
      /\ \A b \in Apps : \A k \in DOMAIN stream[b] : stream[b][k].rev \in Nat
      /\ \A n \in 1..jobs : job[n].rev \in Nat /\ job[n].app \in Apps
  <2>1. \A x \in Application : x.rev \in Nat
    BY DEF Application
  <2>2. \A b \in Apps : app[b] \in Application /\ stream[b] \in Seq(Application)
    BY DEF TypeOK, ResourcesType
  <2>3. \A b \in Apps : \A k \in DOMAIN stream[b] : stream[b][k] \in Application
    BY <2>2
  <2>4. \A n \in 1..jobs : job[n] \in Job
    BY DEF TypeOK, DaemonType, Tickets
  <2> QED BY <2>1, <2>2, <2>3, <2>4 DEF Job
<1>2. /\ \A b \in Apps : app'[b].rev >= app[b].rev /\ app'[b].rev \in Nat
      /\ app'[a] = new
      /\ \A b \in Apps : b # a => app'[b] = app[b] /\ stream'[b] = stream[b]
  BY <1>1 DEF Modify, TypeOK, ResourcesType
<1>3. JobsInOrder'
  BY <1>1, <1>2 DEF JobsInOrder
<1>4. ASSUME NEW b \in Apps, stream'[b] = stream[b]
      PROVE  EventsOf(b)'
  BY <1>1, <1>2, <1>4 DEF EventsInOrder, EventsOf
<1>5. CASE new = app[a]
  <2>1. stream' = stream
    BY <1>5 DEF Modify
  <2> QED BY <1>3, <1>4, <2>1 DEF EventsInOrder, EventsOf
<1>6. CASE new # app[a]
  <2>1. stream'[a] = Append(stream[a], new)
    BY <1>6 DEF Modify, TypeOK, ResourcesType
  <2>2. /\ DOMAIN stream'[a] = 1..(Len(stream[a]) + 1) /\ DOMAIN stream[a] = 1..Len(stream[a])
        /\ Len(stream[a]) \in Nat
        /\ \A k \in DOMAIN stream[a] : stream'[a][k] = stream[a][k]
        /\ stream'[a][Len(stream[a]) + 1] = new
    BY <1>1, <2>1
  <2>3. \A k \in DOMAIN stream'[a] : k \in DOMAIN stream[a] \/ k = Len(stream[a]) + 1
    BY <2>2
  <2>4. \A k \in DOMAIN stream[a] : stream[a][k].rev <= new.rev
    BY <1>1 DEF EventsInOrder, EventsOf
  <2>5. \A n \in 1..jobs : job[n].app = a => job[n].rev <= new.rev
    BY <1>1 DEF JobsInOrder
  <2>6. EventsOf(a)'
    <3>1. ASSUME NEW k \in DOMAIN stream'[a]
          PROVE  stream'[a][k].rev <= new.rev /\ stream'[a][k].rev \in Nat
      BY <1>1, <2>2, <2>3, <2>4, <3>1
    <3>2. ASSUME NEW k \in DOMAIN stream'[a], NEW l \in DOMAIN stream'[a], k < l
          PROVE  stream'[a][k].rev <= stream'[a][l].rev
      <4>1. k \in DOMAIN stream[a]
        BY <2>2, <2>3, <3>2
      <4>2. CASE l \in DOMAIN stream[a]
        BY <2>2, <3>2, <4>1, <4>2 DEF EventsInOrder, EventsOf
      <4>3. CASE l = Len(stream[a]) + 1
        BY <2>2, <3>1, <3>2, <4>3
      <4> QED BY <2>3, <4>2, <4>3
    <3>3. ASSUME NEW k \in DOMAIN stream'[a], NEW n \in 1..jobs, job[n].app = a
          PROVE  job[n].rev <= stream'[a][k].rev
      BY <2>2, <2>3, <2>5, <3>3 DEF EventsInOrder, EventsOf
    <3> QED BY <1>2, <3>1, <3>2, <3>3 DEF EventsOf
  <2> QED BY <1>2, <1>3, <1>4, <2>6 DEF EventsInOrder, EventsOf
<1> QED BY <1>3, <1>5, <1>6

\* ... when nothing of them changes, ...
LEMMA RevsUnchanged ==
    ASSUME EventsInOrder, JobsInOrder, job' = job, jobs' = jobs, app' = app, stream' = stream
    PROVE  EventsInOrder' /\ JobsInOrder'
  BY DEF EventsInOrder, EventsOf, JobsInOrder

\* ... when a new watch lists what there is, ...
LEMMA RevsRelist ==
    ASSUME TypeOK, EventsInOrder, JobsInOrder, job' = job, jobs' = jobs, app' = app,
           \A a \in Apps : stream'[a] \in {<< >>, <<app[a]>>}
    PROVE  EventsInOrder' /\ JobsInOrder'
<1>1. JobsInOrder'
  BY DEF JobsInOrder
<1>2. \A a \in Apps : app[a].rev \in Nat
  BY DEF TypeOK, ResourcesType, Application
<1>3. ASSUME NEW a \in Apps, NEW k \in DOMAIN stream'[a]
      PROVE  k = 1 /\ DOMAIN stream'[a] = {1} /\ stream'[a][k] = app[a]
  <2>1. stream'[a] = << >> \/ stream'[a] = <<app[a]>>
    OBVIOUS
  <2> QED BY <2>1, <1>3
<1> QED BY <1>1, <1>2, <1>3 DEF EventsInOrder, EventsOf, JobsInOrder

\* ... and when an event is taken, ...
LEMMA RevsConsume ==
    ASSUME TypeOK, EventsInOrder, JobsInOrder, NEW a \in Apps, Consume(a),
           job' = job, jobs' = jobs
    PROVE  EventsInOrder' /\ JobsInOrder'
<1>1. stream[a] \in Seq(Application) /\ stream[a] # << >>
  BY DEF Consume, TypeOK, ResourcesType
<1>2. /\ app' = app
      /\ \A b \in Apps : b # a => stream'[b] = stream[b]
      /\ stream'[a] = Tail(stream[a])
  BY DEF Consume, TypeOK, ResourcesType
<1>3. /\ DOMAIN stream[a] = 1..Len(stream[a]) /\ Len(stream[a]) \in Nat
      /\ DOMAIN stream'[a] = 1..(Len(stream[a]) - 1)
      /\ \A k \in DOMAIN stream'[a] : stream'[a][k] = stream[a][k + 1] /\ k + 1 \in DOMAIN stream[a]
  BY <1>1, <1>2
<1>4. JobsInOrder'
  BY <1>2 DEF JobsInOrder
<1>5. EventsOf(a)'
  BY <1>2, <1>3 DEF EventsInOrder, EventsOf
<1>6. ASSUME NEW b \in Apps, b # a
      PROVE  EventsOf(b)'
  BY <1>2, <1>6 DEF EventsInOrder, EventsOf
<1> QED BY <1>4, <1>5, <1>6 DEF EventsInOrder

\* ... a job made of it included.
LEMMA RevsInitiate ==
    ASSUME TypeOK, EventsInOrder, JobsInOrder, NEW a \in Apps, InitiateDeploy(a)
    PROVE  EventsInOrder' /\ JobsInOrder'
<1> DEFINE e == Head(stream[a])
<1>1. stream[a] \in Seq(Application) /\ stream[a] # << >> /\ jobs \in Nat /\ jobs + 1 \in Tickets
  BY DEF InitiateDeploy, Consume, TypeOK, ResourcesType, DaemonType, Tickets
<1>2. /\ app' = app /\ jobs' = jobs + 1
      /\ \A b \in Apps : b # a => stream'[b] = stream[b]
      /\ stream'[a] = Tail(stream[a])
      /\ \A n \in 1..jobs : job'[n] = job[n]
      /\ job'[jobs + 1].app = a /\ job'[jobs + 1].rev = e.rev
  BY <1>1 DEF InitiateDeploy, Consume, JobOf, TypeOK, ResourcesType, DaemonType
<1>3. /\ DOMAIN stream[a] = 1..Len(stream[a]) /\ Len(stream[a]) \in Nat /\ 1 \in DOMAIN stream[a]
      /\ DOMAIN stream'[a] = 1..(Len(stream[a]) - 1)
      /\ e = stream[a][1]
      /\ \A k \in DOMAIN stream'[a] :
           stream'[a][k] = stream[a][k + 1] /\ k + 1 \in DOMAIN stream[a] /\ 1 < k + 1
  BY <1>1, <1>2
<1>4. \A n \in 1..jobs' : n \in 1..jobs \/ n = jobs + 1
  BY <1>1, <1>2
<1>5. /\ e.rev <= app[a].rev
      /\ \A k \in DOMAIN stream'[a] : e.rev <= stream'[a][k].rev
      /\ \A n \in 1..jobs : job[n].app = a => job[n].rev <= e.rev
  BY <1>3 DEF EventsInOrder, EventsOf
<1> HIDE DEF e
<1>6. JobsInOrder'
  <2>1. \A n \in 1..jobs' : job'[n].rev <= app'[job'[n].app].rev
    BY <1>2, <1>4, <1>5 DEF JobsInOrder
  <2>2. ASSUME NEW n \in 1..jobs', NEW m \in 1..jobs', n < m, job'[n].app = job'[m].app
        PROVE  job'[n].rev <= job'[m].rev
    <3>1. n \in 1..jobs
      BY <1>1, <1>2, <2>2
    <3> QED BY <1>2, <1>4, <1>5, <2>2, <3>1 DEF JobsInOrder
  <2> QED BY <2>1, <2>2 DEF JobsInOrder
<1>7. EventsOf(a)'
  <2>1. ASSUME NEW k \in DOMAIN stream'[a], NEW n \in 1..jobs', job'[n].app = a
        PROVE  job'[n].rev <= stream'[a][k].rev
    <3>1. CASE n \in 1..jobs
      BY <1>2, <1>3, <2>1, <3>1 DEF EventsInOrder, EventsOf
    <3>2. CASE n = jobs + 1
      BY <1>2, <1>5, <2>1, <3>2
    <3> QED BY <1>4, <3>1, <3>2
  <2>2. ASSUME NEW k \in DOMAIN stream'[a]
        PROVE  /\ stream'[a][k].rev <= app'[a].rev
               /\ \A l \in DOMAIN stream'[a] : k < l => stream'[a][k].rev <= stream'[a][l].rev
    BY <1>2, <1>3, <2>2 DEF EventsInOrder, EventsOf
  <2> QED BY <2>1, <2>2 DEF EventsOf
<1>8. ASSUME NEW b \in Apps, b # a
      PROVE  EventsOf(b)'
  BY <1>2, <1>4, <1>8 DEF EventsInOrder, EventsOf
<1> QED BY <1>6, <1>7, <1>8 DEF EventsInOrder

LEMMA RevsStep ==
    ASSUME TypeOK, EventsInOrder, JobsInOrder, [Next]_vars
    PROVE  EventsInOrder' /\ JobsInOrder'
<1> USE DEF TypeOK
<1>0. ASSUME NEW a \in Apps
      PROVE  app[a] \in Application /\ app[a].rev \in Nat
  BY DEF ResourcesType, Application
<1>1. CASE Environment /\ UNCHANGED daemonVars
  <2>1. job' = job /\ jobs' = jobs
    BY <1>1 DEF daemonVars
  <2>2. ASSUME NEW a \in Apps, UserUpdate(a) PROVE EventsInOrder' /\ JobsInOrder'
    <3>1. PICK i \in Ids, bump \in {0, 1}, bad \in BOOLEAN :
            Modify(a, [app[a] EXCEPT !.rev = @ + 1, !.gen = @ + bump, !.id = i, !.bad = bad])
      BY <2>2 DEF UserUpdate
    <3> DEFINE new == [app[a] EXCEPT !.rev = @ + 1, !.gen = @ + bump, !.id = i, !.bad = bad]
    <3>2. app[a].rev + 1 \in 0..MaxRev /\ app[a].gen + bump \in Nat
      BY <2>2, <1>0 DEF UserUpdate, Application
    <3>3. new \in Application /\ new.rev = app[a].rev + 1
      BY <1>0, <3>2 DEF Application
    <3>4. Modify(a, new)
      BY <3>1
    <3> HIDE DEF new
    <3> QED BY <1>0, <2>1, <3>3, <3>4, RevsModify
  <2>3. ASSUME NEW a \in Apps, NEW p \in Phases, Modify(a, [app[a] EXCEPT !.phase = p])
        PROVE  EventsInOrder' /\ JobsInOrder'
    <3> DEFINE new == [app[a] EXCEPT !.phase = p]
    <3>1. new \in Application /\ new.rev = app[a].rev
      BY <1>0 DEF Application
    <3>2. Modify(a, new)
      BY <2>3
    <3> HIDE DEF new
    <3> QED BY <1>0, <2>1, <3>1, <3>2, RevsModify
  <2>4. ASSUME NEW a \in Apps, UserDelete(a) \/ Removed(a) PROVE EventsInOrder' /\ JobsInOrder'
    BY <2>3, <2>4 DEF UserDelete, Removed, Phases
  <2>5. ASSUME NEW a \in Apps, PodsChange(a) PROVE EventsInOrder' /\ JobsInOrder'
    BY <2>1, <2>5, RevsUnchanged DEF PodsChange
  <2> QED BY <1>1, <2>2, <2>4, <2>5 DEF Environment
<1>2. CASE Reports
  <2>1. job' = job /\ jobs' = jobs
    BY <1>2 DEF Reports, SaveInline, SaveStatus, SaveInlineFails, SaveStatusFails
  <2>2. CASE app' = app /\ stream' = stream
    BY <2>1, <2>2, RevsUnchanged
  <2>3. ASSUME NEW t \in Threads, thread[t].pc = "inline",
               SaveInlineStatus(job[thread[t].n].app, job[thread[t].n].id, thread[t].res)
        PROVE  EventsInOrder' /\ JobsInOrder'
    <3> DEFINE a == job[thread[t].n].app
               new == [app[a] EXCEPT !.ogen = app[a].gen, !.sid = job[thread[t].n].id,
                                     !.res = thread[t].res]
    <3>1. a \in Apps /\ job[thread[t].n].id \in Ids /\ thread[t].res \in Results
      BY <2>3, BusyType DEF Job
    <3>3. new \in Application /\ new.rev = app[a].rev
      BY <1>0, <3>1, InlineStatusRecord
    <3>4. (app' = app /\ stream' = stream) \/ Modify(a, new)
      BY <2>3 DEF SaveInlineStatus
    <3> HIDE DEF a, new
    <3> QED BY <1>0, <2>1, <2>2, <3>1, <3>3, <3>4, RevsModify
  <2>4. ASSUME NEW t \in Threads, NEW kind, SaveInline(t) \/ SaveInlineFails(t, kind)
        PROVE  EventsInOrder' /\ JobsInOrder'
    BY <2>2, <2>3, <2>4 DEF SaveInline, SaveInlineFails
  <2>5. ASSUME NEW t \in Threads, NEW kind, SaveStatus(t) \/ SaveStatusFails(t, kind)
        PROVE  EventsInOrder' /\ JobsInOrder'
    BY <2>2, <2>5 DEF SaveStatus, SaveStatusFails
  <2> QED BY <1>2, <2>4, <2>5 DEF Reports
<1>3. ASSUME NEW a \in Apps, NEW kind, SkipEvent(a) \/ HandleEventFails(a, kind)
      PROVE  EventsInOrder' /\ JobsInOrder'
  BY <1>3, RevsConsume DEF SkipEvent, HandleEventFails, daemonVars
<1>4. CASE BuildSpec \/ DeployerSteps \/ DeployerFaults \/ SchedulerSteps \/ SchedulerFaults
  <2>1. job' = job /\ jobs' = jobs /\ app' = app /\ stream' = stream
    BY <1>4 DEF BuildSpec, DeployerSteps, TakeJob, Deploy, DeployerFaults, DeployFails,
         SchedulerSteps, RunCheck, Expire, SchedulerFaults, CheckFails, apiVars
  <2> QED BY <2>1, RevsUnchanged
<1>5. ASSUME NEW kind, BuildSpecFails(kind) \/ RewatchFails(kind)
      PROVE  EventsInOrder' /\ JobsInOrder'
  BY <1>5, RevsUnchanged DEF BuildSpecFails, RewatchFails, apiVars
<1>6. CASE Rewatch \/ Reconnect \/ Restart \/ Crash
  <2>1. \A a \in Apps : stream'[a] \in {<< >>, <<app[a]>>}
    BY <1>6 DEF Rewatch, Reconnect, Restart, Crash, Start, Relisted
  <2>2. job' = job /\ jobs' = jobs /\ app' = app
    BY <1>6 DEF Rewatch, Reconnect, Restart, Crash, Start, daemonVars
  <2> QED BY <2>1, <2>2, RevsRelist
<1>7. CASE UNCHANGED vars
  BY <1>7, RevsUnchanged DEF vars
<1> QED
  BY <1>1, <1>2, <1>3, <1>4, <1>5, <1>6, <1>7, RevsInitiate
  DEF Next, Failures, WatcherSteps, WatcherFaults

-----------------------------------------------------------------------------
(* The Deployment. *)

\* A step that changes neither what Deployments hold nor the order of the jobs
\* left in the daemon keeps DeploymentInOrder.
LEMMA DeploymentKept ==
    ASSUME TypeOK, DeploymentInOrder, job' = job, jobs' = jobs, queue' = queue,
           \A a \in Apps : k8s'[a].n = k8s[a].n /\ k8s'[a].rev = k8s[a].rev,
           \A t \in Threads : thread'[t].n \in {0, thread[t].n}
    PROVE  DeploymentInOrder'
<1>1. Watching' \in {0, Watching} /\ Deploying' \in {0, Deploying}
  BY DEF Watching, Deploying, Threads
<1> HIDE DEF Watching, Deploying
<1> QED BY <1>1 DEF DeploymentInOrder

\* The deployer writes the Deployment of its job over an older one.
LEMMA DeploymentApplied ==
    ASSUME TypeOK, InOrder, DeploymentInOrder, job' = job, jobs' = jobs, queue' = queue,
           thread["deployer"].pc = "deploy",
           ApplyDeployment(job[Deploying].app, Deploying, job[Deploying].rev),
           \A t \in Threads : thread'[t].n \in {0, thread[t].n}
    PROVE  DeploymentInOrder'
<1> DEFINE n == Deploying
           a == job[n].app
<1>1. n \in Tickets /\ n # 0 /\ n \in 1..jobs /\ n \in Nat
  <2>1. n \in Tickets
    BY IdleHasNoJob DEF Deploying, Threads
  <2> QED BY <2>1 DEF InOrder, Tickets, TypeOK, DaemonType
<1>2. a \in Apps
  BY <1>1 DEF TypeOK, DaemonType, Job
<1>3. CASE k8s' = k8s
  BY <1>3, DeploymentKept
<1>4. CASE k8s' # k8s
  <2>1. /\ k8s'[a].n = n /\ k8s'[a].rev = job[n].rev
        /\ \A b \in Apps : b # a => k8s'[b] = k8s[b]
    <3> DEFINE new == [n |-> n, rev |-> job[n].rev,
                       ready |-> k8s[a].ready /\ k8s[a].rev = job[n].rev]
    <3>1. k8s' = [k8s EXCEPT ![a] = new]
      BY <1>2, <1>4 DEF ApplyDeployment, TypeOK, ResourcesType
    <3>2. new.n = n /\ new.rev = job[n].rev
      OBVIOUS
    <3> HIDE DEF new
    <3> QED BY <1>2, <3>1, <3>2 DEF TypeOK, ResourcesType
  <2>2. Watching' \in {0, Watching} /\ Deploying' \in {0, n}
    BY DEF Watching, Deploying, Threads
  <2>3. /\ Watching # 0 => n < Watching
        /\ \A k \in DOMAIN queue : n < queue[k]
    BY DEF InOrder
  <2> HIDE DEF Watching, Deploying
  <2>4. DeploymentInOrder' =
          \A b \in Apps :
            /\ k8s'[b].n <= jobs
            /\ k8s'[b].n = 0 => k8s'[b].rev = 0
            /\ k8s'[b].n # 0 => job[k8s'[b].n].app = b /\ job[k8s'[b].n].rev = k8s'[b].rev
            /\ Watching' # 0 => k8s'[b].n < Watching'
            /\ Deploying' # 0 => k8s'[b].n <= Deploying'
            /\ \A k \in DOMAIN queue : k8s'[b].n < queue[k]
    BY DEF DeploymentInOrder
  <2>5. ASSUME NEW b \in Apps, b # a
        PROVE  /\ k8s'[b].n <= jobs
               /\ k8s'[b].n = 0 => k8s'[b].rev = 0
               /\ k8s'[b].n # 0 => job[k8s'[b].n].app = b /\ job[k8s'[b].n].rev = k8s'[b].rev
               /\ Watching' # 0 => k8s'[b].n < Watching'
               /\ Deploying' # 0 => k8s'[b].n <= Deploying'
               /\ \A k \in DOMAIN queue : k8s'[b].n < queue[k]
    BY <2>1, <2>2, <2>5 DEF DeploymentInOrder
  <2> QED BY <1>1, <1>2, <2>1, <2>2, <2>3, <2>4, <2>5
<1> QED BY <1>3, <1>4

LEMMA DeploymentStep ==
    ASSUME TypeOK, InOrder, DeploymentInOrder, [Next]_vars
    PROVE  DeploymentInOrder'
<1> USE DEF TypeOK
<1>1. \A a \in Apps : k8s[a].n \in Nat /\ k8s[a].rev \in 0..MaxRev
  BY DEF ResourcesType
<1>2. /\ jobs \in Nat /\ queue \in Seq(Nat) /\ queue \in Seq(Tickets)
      /\ \A t \in Threads : thread[t].n \in Nat
  BY DEF DaemonType, ThreadState, Tickets
<1>3. ASSUME NEW t \in Threads, NEW pc \in {"idle", "rewatch", "dead"}, Become(t, At(pc))
      PROVE  \A u \in Threads : thread'[u].n \in {0, thread[u].n}
  BY <1>3 DEF Become, At, DaemonType
<1>4. CASE k8s' = k8s /\ UNCHANGED daemonVars
  BY <1>4, DeploymentKept DEF daemonVars
<1>5. CASE Environment /\ UNCHANGED daemonVars
  <2>1. ASSUME NEW a \in Apps, PodsChange(a) PROVE DeploymentInOrder'
    <3>1. \A b \in Apps : k8s'[b].n = k8s[b].n /\ k8s'[b].rev = k8s[b].rev
      BY <2>1 DEF PodsChange, ResourcesType
    <3> QED BY <1>5, <3>1, DeploymentKept DEF daemonVars
  <2>2. ASSUME NEW a \in Apps, Removed(a) PROVE DeploymentInOrder'
    <3>1. k8s'[a] = NoDeployment /\ \A b \in Apps : b # a => k8s'[b] = k8s[b]
      BY <2>2 DEF Removed, ResourcesType
    <3>2. /\ job' = job /\ jobs' = jobs /\ queue' = queue
          /\ Watching' = Watching /\ Deploying' = Deploying
      BY <1>5 DEF daemonVars, Watching, Deploying
    <3>3. /\ 0 <= jobs
          /\ Watching # 0 => 0 < Watching
          /\ Deploying # 0 => 0 <= Deploying
          /\ \A k \in DOMAIN queue : 0 < queue[k]
      BY <1>2 DEF Watching, Deploying, Threads, Tickets
    <3> HIDE DEF Watching, Deploying
    <3> QED BY <3>1, <3>2, <3>3 DEF DeploymentInOrder, NoDeployment
  <2>3. ASSUME NEW a \in Apps, UserUpdate(a) \/ UserDelete(a) PROVE DeploymentInOrder'
    BY <1>4, <1>5, <2>3 DEF UserUpdate, UserDelete
  <2> QED BY <1>5, <2>1, <2>2, <2>3 DEF Environment
<1>6. CASE Reports
  <2>1. job' = job /\ jobs' = jobs /\ queue' = queue /\ k8s' = k8s
    BY <1>6 DEF Reports, SaveInline, SaveStatus, SaveInlineFails, SaveStatusFails
  <2> QED BY <1>6, <2>1, ReportKeepsJob, DeploymentKept
<1>7. ASSUME NEW a \in Apps, InitiateDeploy(a)
      PROVE  DeploymentInOrder'
  <2>1. /\ jobs' = jobs + 1 /\ queue' = queue /\ k8s' = k8s
        /\ Watching' = jobs + 1 /\ Deploying' = Deploying
        /\ \A n \in 1..jobs : job'[n] = job[n]
    BY <1>7 DEF InitiateDeploy, Consume, Become, Report, Watching, Deploying, Threads, DaemonType,
         Tickets
  <2> HIDE DEF Watching, Deploying
  <2> QED BY <1>1, <1>2, <2>1 DEF DeploymentInOrder
<1>8. CASE BuildSpec
  <2> DEFINE n == Watching
  <2>1. /\ n \in Tickets /\ n \in Nat /\ n # 0
        /\ job' = job /\ jobs' = jobs /\ k8s' = k8s /\ Deploying' = Deploying
    BY <1>8, IdleHasNoJob DEF BuildSpec, Become, apiVars, Watching, Deploying, Threads, DaemonType,
         Tickets
  <2>2. CASE job[n].bad
    <3>1. queue' = queue /\ \A t \in Threads : thread'[t].n \in {0, thread[t].n}
      BY <1>8, <2>2 DEF BuildSpec, Become, Report, Watching, Threads, DaemonType
    <3> QED BY <2>1, <3>1, DeploymentKept
  <2>3. CASE ~job[n].bad
    <3>1. queue' = Append(queue, n) /\ Watching' = 0
      BY <1>8, <2>3 DEF BuildSpec, Put, Become, At, Watching, Threads, DaemonType
    <3>2. /\ DOMAIN queue' = 1..(Len(queue) + 1) /\ DOMAIN queue = 1..Len(queue)
          /\ Len(queue) \in Nat
          /\ \A k \in DOMAIN queue : queue'[k] = queue[k]
          /\ queue'[Len(queue) + 1] = n
      BY <1>2, <2>1, <3>1
    <3>3. \A k \in DOMAIN queue' : k \in DOMAIN queue \/ k = Len(queue) + 1
      BY <3>2
    <3> HIDE DEF Watching, Deploying
    <3>4. \A a \in Apps : k8s[a].n < n
      BY <2>1 DEF DeploymentInOrder
    <3>5. \A a \in Apps : \A k \in DOMAIN queue' : k8s[a].n < queue'[k]
      BY <3>2, <3>3, <3>4 DEF DeploymentInOrder
    <3> QED BY <2>1, <3>1, <3>5 DEF DeploymentInOrder
  <2> QED BY <2>2, <2>3
<1>9. CASE TakeJob
  <2>1. /\ queue # << >> /\ queue' = Tail(queue)
        /\ job' = job /\ jobs' = jobs /\ k8s' = k8s /\ Watching' = Watching
        /\ Deploying' = queue[1]
    BY <1>2, <1>9 DEF TakeJob, Become, Report, apiVars, Watching, Deploying, Threads, DaemonType
  <2>2. /\ 1 \in DOMAIN queue
        /\ \A k \in DOMAIN queue' : queue'[k] = queue[k + 1] /\ k + 1 \in DOMAIN queue
        /\ \A k \in DOMAIN queue : queue[k] \in Nat
    BY <1>2, <2>1
  <2> HIDE DEF Watching, Deploying
  <2> QED BY <1>1, <2>1, <2>2 DEF DeploymentInOrder
<1>10. CASE Deploy \/ DeployerFaults
  <2>1. /\ job' = job /\ jobs' = jobs /\ queue' = queue
        /\ thread["deployer"].pc = "deploy"
        /\ k8s' = k8s \/ ApplyDeployment(job[Deploying].app, Deploying, job[Deploying].rev)
    BY <1>10 DEF Deploy, DeployerFaults, DeployFails, Deploying
  <2>2. \A t \in Threads : thread'[t].n \in {0, thread[t].n}
    BY <1>10 DEF Deploy, DeployerFaults, DeployFails, AfterException, Become, Report, At, Threads,
         DaemonType
  <2> QED BY <2>1, <2>2, DeploymentKept, DeploymentApplied
<1>11. CASE SchedulerSteps \/ SchedulerFaults
  <2>1. job' = job /\ jobs' = jobs /\ queue' = queue /\ k8s' = k8s
        /\ Watching' = Watching /\ Deploying' = Deploying
    BY <1>11 DEF SchedulerSteps, RunCheck, Expire, SchedulerFaults, CheckFails, Become, apiVars,
         Watching, Deploying, Threads, DaemonType
  <2> HIDE DEF Watching, Deploying
  <2> QED BY <2>1 DEF DeploymentInOrder
<1>12. ASSUME NEW a \in Apps, SkipEvent(a) PROVE DeploymentInOrder'
  BY <1>4, <1>12 DEF SkipEvent, Consume
<1>13. ASSUME NEW a \in Apps, NEW kind,
              HandleEventFails(a, kind) \/ BuildSpecFails(kind) \/ RewatchFails(kind) \/ Rewatch
       PROVE  DeploymentInOrder'
  BY <1>3, <1>13, DeploymentKept
  DEF HandleEventFails, Consume, BuildSpecFails, RewatchFails, Rewatch, apiVars, Threads
<1>14. CASE Reconnect
  BY <1>4, <1>14 DEF Reconnect
<1>15. CASE Restart \/ Crash
  BY <1>15 DEF Restart, Crash, Start, At, DeploymentInOrder, Watching, Deploying, Threads
<1>16. CASE UNCHANGED vars
  BY <1>4, <1>16 DEF vars, daemonVars
<1> QED
  BY <1>5, <1>6, <1>7, <1>8, <1>9, <1>10, <1>11, <1>12, <1>13, <1>14, <1>15, <1>16
  DEF Next, Failures, WatcherSteps, WatcherFaults, DeployerSteps

\* A step leaves each Deployment with its job or a later one, unless the
\* Application goes; and one that is gone stays so.
LEMMA DeploymentForward ==
    ASSUME TypeOK, InOrder, DeploymentInOrder, JobsInOrder, [Next]_vars, NEW a \in Apps
    PROVE  /\ app[a].phase = "gone" => app'[a].phase = "gone"
           /\ app'[a].phase = "gone" \/ k8s'[a].n >= k8s[a].n
           /\ k8s'[a].n # 0 => k8s'[a].rev >= k8s[a].rev
<1> USE DEF TypeOK
<1>1. k8s[a].n \in Nat /\ k8s[a].rev \in Nat /\ app[a] \in Application
  BY DEF ResourcesType
<1>2. CASE app' = app /\ k8s' = k8s
  BY <1>1, <1>2
<1>3. CASE Environment
  <2>1. ASSUME NEW b \in Apps, UserUpdate(b) \/ UserDelete(b)
        PROVE  k8s' = k8s /\ (app[a].phase = "gone" => app'[a].phase = "gone")
    BY <2>1, <1>1 DEF UserUpdate, UserDelete, Modify, ResourcesType
  <2>2. ASSUME NEW b \in Apps, Removed(b)
        PROVE  /\ k8s'[a] = k8s[a] \/ k8s'[a] = NoDeployment
               /\ app[a].phase = "gone" => app'[a].phase = "gone"
               /\ k8s'[a] = k8s[a] \/ app'[a].phase = "gone"
    BY <2>2, <1>1 DEF Removed, Modify, ResourcesType, Application
  <2>3. ASSUME NEW b \in Apps, PodsChange(b)
        PROVE  app' = app /\ k8s'[a].n = k8s[a].n /\ k8s'[a].rev = k8s[a].rev
    BY <2>3 DEF PodsChange, ResourcesType
  <2> QED BY <1>1, <1>3, <2>1, <2>2, <2>3 DEF Environment, NoDeployment
<1>4. CASE Reports
  <2>1. k8s' = k8s
    BY <1>4 DEF Reports, SaveInline, SaveStatus, SaveInlineFails, SaveStatusFails
  <2>2. ASSUME NEW b, NEW i, NEW r, SaveInlineStatus(b, i, r)
        PROVE  app'[a].phase = app[a].phase
    <3>1. CASE app' = app
      BY <3>1
    <3>2. CASE app' = [app EXCEPT ![b] =
                         [app[b] EXCEPT !.ogen = app[b].gen, !.sid = i, !.res = r]]
      <4>1. CASE b # a
        BY <3>2, <4>1 DEF ResourcesType
      <4>2. CASE b = a
        <5> DEFINE new == [app[a] EXCEPT !.ogen = app[a].gen, !.sid = i, !.res = r]
        <5>1. new.phase = app[a].phase
          BY <1>1 DEF Application
        <5>2. app' = [app EXCEPT ![a] = new]
          BY <3>2, <4>2
        <5> HIDE DEF new
        <5> QED BY <5>1, <5>2 DEF ResourcesType
      <4> QED BY <4>1, <4>2
    <3> QED BY <2>2, <3>1, <3>2 DEF SaveInlineStatus, Modify
  <2>3. app' = app \/ app'[a].phase = app[a].phase
    BY <1>4, <2>2 DEF Reports, SaveInline, SaveStatus, SaveInlineFails, SaveStatusFails
  <2> QED BY <1>1, <2>1, <2>3
<1>5. CASE Deploy \/ DeployerFaults
  <2> DEFINE n == Deploying
             b == job[n].app
  <2>1. /\ app' = app
        /\ thread["deployer"].pc = "deploy"
        /\ k8s' = k8s \/ ApplyDeployment(b, n, job[n].rev)
    BY <1>5 DEF Deploy, DeployerFaults, DeployFails, Deploying
  <2>2. n \in Tickets /\ n # 0 /\ n \in 1..jobs /\ n \in Nat
    <3>1. n \in Tickets
      BY <2>1, IdleHasNoJob DEF Deploying, Threads
    <3> QED BY <3>1 DEF InOrder, Tickets, DaemonType
  <2>3. CASE k8s' # k8s /\ b = a
    <3> DEFINE new == [n |-> n, rev |-> job[n].rev,
                       ready |-> k8s[a].ready /\ k8s[a].rev = job[n].rev]
    <3>1. k8s' = [k8s EXCEPT ![a] = new]
      BY <2>1, <2>3 DEF ApplyDeployment, ResourcesType
    <3>2. new.n = n /\ new.rev = job[n].rev
      OBVIOUS
    <3> HIDE DEF new
    <3>3. k8s'[a].n = n /\ k8s'[a].rev = job[n].rev
      BY <3>1, <3>2 DEF ResourcesType
    <3>4. job[n].rev \in Nat
      BY <2>2 DEF DaemonType, Job
    <3>5. k8s[a].n <= n /\ k8s[a].n <= jobs
      BY <2>2 DEF DeploymentInOrder
    <3>6. k8s[a].rev <= job[n].rev
      <4>1. CASE k8s[a].n = 0
        BY <3>4, <4>1 DEF DeploymentInOrder
      <4>2. CASE k8s[a].n = n
        BY <3>4, <2>2, <4>2 DEF DeploymentInOrder
      <4>3. CASE k8s[a].n # 0 /\ k8s[a].n # n
        <5>1. k8s[a].n \in 1..jobs /\ k8s[a].n < n
          BY <1>1, <2>2, <3>5, <4>3 DEF DaemonType
        <5>2. job[k8s[a].n].app = a /\ job[k8s[a].n].rev = k8s[a].rev
          BY <4>3 DEF DeploymentInOrder
        <5> QED BY <2>2, <2>3, <5>1, <5>2 DEF JobsInOrder
      <4> QED BY <4>1, <4>2, <4>3
    <3> QED BY <1>1, <2>1, <2>2, <3>3, <3>4, <3>5, <3>6
  <2>4. CASE k8s' # k8s /\ b # a
    <3>1. k8s'[a] = k8s[a]
      BY <2>1, <2>4 DEF ApplyDeployment, ResourcesType
    <3> QED BY <1>1, <2>1, <3>1
  <2> QED BY <1>2, <2>1, <2>3, <2>4
<1>6. CASE WatcherSteps \/ WatcherFaults \/ Reconnect
  BY <1>2, <1>6
  DEF WatcherSteps, SkipEvent, InitiateDeploy, Consume, BuildSpec, Rewatch, WatcherFaults,
      HandleEventFails, BuildSpecFails, RewatchFails, Reconnect, apiVars
<1>7. CASE TakeJob \/ SchedulerSteps \/ SchedulerFaults \/ Restart \/ Crash \/ UNCHANGED vars
  BY <1>2, <1>7
  DEF TakeJob, SchedulerSteps, RunCheck, Expire, SchedulerFaults, CheckFails, Restart, Crash,
      Start, apiVars, vars
<1> QED
  BY <1>3, <1>4, <1>5, <1>6, <1>7 DEF Next, Failures, DeployerSteps

LEMMA ChecksStep ==
    ASSUME TypeOK, InOrder, DeploymentInOrder, JobsInOrder, ChecksWhatItDeployed, [Next]_vars
    PROVE  ChecksWhatItDeployed'
<1> USE DEF TypeOK
<1>1. InScheduler \subseteq 1..jobs /\ InScheduler \subseteq Tickets
  <2>1. InScheduler \subseteq Tickets
    BY DEF InScheduler, Checking, DaemonType, ThreadState, Threads
  <2> QED BY <2>1 DEF InOrder, Tickets, DaemonType
<1>2. ASSUME InScheduler' \subseteq InScheduler, \A n \in 1..jobs : job'[n] = job[n]
      PROVE  ChecksWhatItDeployed'
  <2>1. ASSUME NEW n \in InScheduler'
        PROVE  app'[job'[n].app].phase = "gone" \/ k8s'[job'[n].app].n >= n
    <3>1. n \in InScheduler /\ n \in Nat /\ job'[n] = job[n] /\ job[n].app \in Apps
      <4>1. n \in InScheduler
        BY <1>2, <2>1
      <4>2. n \in 1..jobs /\ n \in Tickets
        BY <1>1, <4>1
      <4>3. n \in Nat
        BY <4>2 DEF Tickets
      <4>4. job[n] \in Job
        BY <4>2 DEF DaemonType
      <4> QED BY <1>2, <4>1, <4>2, <4>3, <4>4 DEF Job
    <3>2. app[job[n].app].phase = "gone" \/ k8s[job[n].app].n >= n
      BY <3>1 DEF ChecksWhatItDeployed
    <3>3. k8s[job[n].app].n \in Nat /\ k8s'[job[n].app].n \in Nat
      <4>1. TypeOK'
        BY TypeStep
      <4> QED BY <3>1, <4>1 DEF ResourcesType
    <3> QED BY <3>1, <3>2, <3>3, DeploymentForward
  <2> QED BY <2>1 DEF ChecksWhatItDeployed
<1>3. CASE Deploy
  <2> DEFINE n == Deploying
  <2>1. n \in Tickets /\ job[n].app \in Apps /\ n \in Nat
    BY <1>3, IdleHasNoJob DEF Deploy, Deploying, Threads, DaemonType, Job, Tickets
  <2>2. /\ job' = job /\ app' = app /\ Checking' = Checking
        /\ ApplyDeployment(job[n].app, n, job[n].rev)
        /\ tasks' = tasks \/ tasks' = tasks \union {n}
    BY <1>3 DEF Deploy, Schedule, Become, Deploying, Checking, Threads, DaemonType
  <2>3. InScheduler' \subseteq InScheduler \union {n}
    BY <2>2 DEF InScheduler
  <2>4. app[job[n].app].phase = "gone" \/ k8s'[job[n].app].n = n
    BY <2>1, <2>2 DEF ApplyDeployment, ResourcesType
  <2>5. ASSUME NEW m \in InScheduler', m # n
        PROVE  app'[job'[m].app].phase = "gone" \/ k8s'[job'[m].app].n >= m
    <3>1. m \in InScheduler /\ m \in Nat /\ job[m].app \in Apps
      BY <1>1, <2>3, <2>5 DEF DaemonType, Job, Tickets
    <3>2. k8s[job[m].app].n \in Nat /\ k8s'[job[m].app].n \in Nat
      <4>1. TypeOK'
        BY TypeStep
      <4> QED BY <3>1, <4>1 DEF ResourcesType
    <3> QED BY <2>2, <3>1, <3>2, DeploymentForward DEF ChecksWhatItDeployed
  <2> QED BY <2>1, <2>2, <2>4, <2>5 DEF ChecksWhatItDeployed
<1>4. ASSUME NEW n \in Tickets, RunCheck(n)
      PROVE  ChecksWhatItDeployed'
  <2>1. InScheduler' = InScheduler /\ job' = job
    BY <1>4, IdleHasNoJob DEF RunCheck, End, Become, Report, InScheduler, Checking, Threads,
       DaemonType, Tickets
  <2> QED BY <1>2, <2>1
<1>5. CASE Reports
  <2>1. job' = job /\ tasks' = tasks
    BY <1>5 DEF Reports, SaveInline, SaveStatus, SaveInlineFails, SaveStatusFails
  <2>2. Checking' \in {0, Checking}
    BY <1>5, ReportKeepsJob DEF Checking, Threads
  <2>3. InScheduler' \subseteq InScheduler
    BY <2>1, <2>2 DEF InScheduler
  <2> QED BY <1>2, <2>1, <2>3
<1>6. CASE WatcherSteps \/ WatcherFaults \/ Reconnect \/ TakeJob \/ DeployerFaults
  <2>1. tasks' = tasks /\ Checking' = Checking
    BY <1>6
    DEF WatcherSteps, SkipEvent, InitiateDeploy, BuildSpec, Rewatch, WatcherFaults,
        HandleEventFails, BuildSpecFails, RewatchFails, Reconnect, TakeJob, DeployerFaults,
        DeployFails, daemonVars, Become, Checking, Threads, DaemonType
  <2>2. \A n \in 1..jobs : job'[n] = job[n]
    <3>1. ASSUME NEW a \in Apps, InitiateDeploy(a)
          PROVE  \A n \in 1..jobs : job'[n] = job[n]
      BY <3>1 DEF InitiateDeploy, DaemonType, Tickets
    <3> QED BY <1>6, <3>1
        DEF WatcherSteps, SkipEvent, BuildSpec, Rewatch, WatcherFaults,
            HandleEventFails, BuildSpecFails, RewatchFails, Reconnect, TakeJob, DeployerFaults,
            DeployFails, daemonVars
  <2>3. InScheduler' = InScheduler
    BY <2>1 DEF InScheduler
  <2> QED BY <1>2, <2>2, <2>3
<1>7. ASSUME NEW n \in Tickets, NEW kind, Expire(n) \/ CheckFails(n, kind)
      PROVE  ChecksWhatItDeployed'
  <2>1. InScheduler' \subseteq InScheduler /\ job' = job
    BY <1>7 DEF Expire, CheckFails, Become, At, InScheduler, Checking, Threads, DaemonType
  <2> QED BY <1>2, <2>1
<1>8. CASE Restart \/ Crash
  <2>1. InScheduler' \subseteq InScheduler /\ job' = job
    BY <1>8 DEF Restart, Crash, Start, At, InScheduler, Checking, Threads
  <2> QED BY <1>2, <2>1
<1>9. CASE UNCHANGED daemonVars
  <2>1. InScheduler' = InScheduler /\ job' = job
    BY <1>9 DEF daemonVars, InScheduler, Checking
  <2> QED BY <1>2, <2>1
<1>10. CASE UNCHANGED vars
  BY <1>9, <1>10 DEF vars, daemonVars
<1> QED
  BY <1>3, <1>4, <1>5, <1>6, <1>7, <1>8, <1>9, <1>10
  DEF Next, Failures, DeployerSteps, SchedulerSteps, SchedulerFaults

-----------------------------------------------------------------------------
(* The daemon reports the results of every deploy as DeployLifecycle says, *)
(* through crashes, failed calls and restarts.  The argument: a deploy is  *)
(* in one place of the daemon only (InOrder), so only the thread that has  *)
(* it reports on it, and what that thread is about to report is what the   *)
(* last report allows (ReportsInTurn).                                     *)

\* Each deploy is in one place.
LEMMA OnePlace ==
    ASSUME TypeOK, InOrder
    PROVE  /\ \A t \in Threads : thread[t].n \in Nat /\ thread[t].n <= jobs
           /\ \A t, u \in Threads : t # u /\ thread[t].n # 0 => thread[t].n # thread[u].n
           /\ \A t \in Threads, k \in DOMAIN queue : queue[k] # thread[t].n
           /\ \A t \in Threads : thread[t].n \notin tasks
           /\ \A k \in DOMAIN queue : queue[k] \in Tickets /\ queue[k] <= jobs
           /\ \A n \in tasks : n \in Tickets /\ n <= jobs
<1>1. /\ \A t \in Threads : thread[t].n \in Nat
      /\ \A k \in DOMAIN queue : queue[k] \in Tickets /\ queue[k] \in Nat \ {0}
      /\ \A n \in tasks : n \in Tickets /\ n \in Nat \ {0}
      /\ jobs \in Nat
  <2>1. \A n \in Tickets : n \in Nat \ {0}
    BY DEF Tickets
  <2>2. \A t \in Threads : thread[t].n \in {0} \union Tickets
    BY DEF TypeOK, DaemonType, ThreadState
  <2>3. \A k \in DOMAIN queue : queue[k] \in Tickets
    BY DEF TypeOK, DaemonType
  <2> QED BY <2>1, <2>2, <2>3 DEF TypeOK, DaemonType
<1>2. Checking # 0 => Checking \in InScheduler
  BY DEF InScheduler
<1>3. tasks \subseteq InScheduler
  BY DEF InScheduler
<1>4. Watching \in Nat /\ Deploying \in Nat /\ Checking \in Nat
  BY <1>1 DEF Watching, Deploying, Checking, Threads
<1> HIDE DEF Watching, Deploying, Checking, InScheduler
<1>5. Watching <= jobs /\ Deploying <= jobs /\ Checking <= jobs
  BY <1>1, <1>2, <1>4 DEF InOrder
<1>6. /\ Watching # 0 => Watching # Deploying /\ Watching # Checking
      /\ Deploying # 0 => Deploying # Checking
  BY <1>2, <1>4 DEF InOrder
<1>7. \A k \in DOMAIN queue :
        queue[k] # Watching /\ queue[k] # Deploying /\ queue[k] # Checking /\ queue[k] <= jobs
  BY <1>1, <1>2, <1>4 DEF InOrder
<1>8. \A n \in tasks : n # Watching /\ n # Deploying /\ n # Checking /\ n <= jobs
  BY <1>1, <1>3, <1>4 DEF InOrder
<1>9. \A t \in Threads : thread[t].n \in {Watching, Deploying, Checking}
  BY DEF Threads, Watching, Deploying, Checking
<1>10. \A t, u \in Threads : t # u /\ thread[t].n # 0 => thread[t].n # thread[u].n
  BY <1>6 DEF Threads, Watching, Deploying, Checking
<1> QED BY <1>1, <1>5, <1>7, <1>8, <1>9, <1>10

-----------------------------------------------------------------------------
(* What a step does not touch stays in turn. *)

LEMMA WatcherFrame ==
    ASSUME WatcherInTurn,
           thread'["watcher"] = thread["watcher"],
           thread["watcher"].n # 0 =>
             reported'[thread["watcher"].n] = reported[thread["watcher"].n]
    PROVE  WatcherInTurn'
  BY DEF WatcherInTurn

LEMMA DeployerFrame ==
    ASSUME DeployerInTurn,
           thread'["deployer"] = thread["deployer"],
           thread["deployer"].n # 0 =>
             reported'[thread["deployer"].n] = reported[thread["deployer"].n]
    PROVE  DeployerInTurn'
  BY DEF DeployerInTurn

LEMMA SchedulerFrame ==
    ASSUME SchedulerInTurn,
           thread'["scheduler"] = thread["scheduler"],
           thread["scheduler"].n # 0 =>
             reported'[thread["scheduler"].n] = reported[thread["scheduler"].n]
    PROVE  SchedulerInTurn'
  BY DEF SchedulerInTurn

\* A thread without a job has nothing to report.
LEMMA IdleInTurn ==
    /\ (thread'["watcher"].n = 0) => WatcherInTurn'
    /\ (thread'["deployer"].n = 0) => DeployerInTurn'
    /\ (thread'["scheduler"].n = 0) => SchedulerInTurn'
  BY DEF WatcherInTurn, DeployerInTurn, SchedulerInTurn

\* The fields of a thread that goes on with its job.
LEMMA GoesOn ==
    ASSUME TypeOK, NEW t \in Threads, NEW pc
    PROVE  /\ [thread[t] EXCEPT !.pc = pc].pc = pc
           /\ [thread[t] EXCEPT !.pc = pc].n = thread[t].n
           /\ [thread[t] EXCEPT !.pc = pc].res = thread[t].res
<1>1. /\ thread[t] \in ThreadState
      /\ DOMAIN thread[t] = {"pc", "n", "res"}
  BY DEF TypeOK, DaemonType, ThreadState
<1> QED BY <1>1 DEF ThreadState

\* An exception leaves a thread in turn, whether or not its report was written.
LEMMA ExceptionInTurn ==
    ASSUME TypeOK, ReportsInTurn, NEW t \in Threads, NEW kind,
           thread[t].n # 0,
           thread'[t] = AfterException(t, kind),
           reported'[thread[t].n] \in {reported[thread[t].n], thread[t].res}
    PROVE  /\ t = "watcher" => WatcherInTurn'
           /\ t = "deployer" => DeployerInTurn'
           /\ t = "scheduler" => SchedulerInTurn'
<1>1. CASE t = "deployer" /\ thread[t].res # "FAILED"
  <2>1. thread'["deployer"] = [pc |-> FirstWrite, n |-> thread[t].n, res |-> "FAILED"]
    BY <1>1 DEF AfterException, Report
  <2>2. thread["deployer"].res \in {"RUNNING", "SUCCESS"}
    BY <1>1 DEF ReportsInTurn, DeployerInTurn
  <2>3. \/ reported'[thread[t].n] \in {"INITIATED", "RUNNING"}
        \/ SelfApps # {} /\ reported'[thread[t].n] = "SUCCESS"
    BY <1>1, <2>2 DEF ReportsInTurn, DeployerInTurn
  <2> QED BY <1>1, <2>1, <2>3 DEF DeployerInTurn, FirstWrite
<1>2. CASE ~(t = "deployer" /\ thread[t].res # "FAILED")
  <2>1. thread'[t].n = 0
    BY <1>2 DEF AfterException, At
  <2> QED BY <2>1, IdleInTurn
<1> QED BY <1>1, <1>2

\* So does the report itself.
LEMMA ReportedInTurn ==
    ASSUME TypeOK, ReportsInTurn, NEW t \in Threads,
           thread[t].n # 0,
           thread'[t] = AfterReport(t),
           reported'[thread[t].n] = thread[t].res
    PROVE  /\ t = "watcher" => WatcherInTurn'
           /\ t = "deployer" => DeployerInTurn'
           /\ t = "scheduler" => SchedulerInTurn'
<1>1. CASE t = "watcher" /\ thread[t].res = "INITIATED"
  <2>1. thread'["watcher"] = [thread["watcher"] EXCEPT !.pc = "build"]
    BY <1>1 DEF AfterReport
  <2>2. /\ thread'["watcher"].pc = "build"
        /\ thread'["watcher"].n = thread["watcher"].n
        /\ thread'["watcher"].res = "INITIATED"
    BY <1>1, <2>1, GoesOn DEF Threads
  <2> QED BY <1>1, <2>2 DEF WatcherInTurn
<1>2. CASE t = "deployer" /\ thread[t].res = "RUNNING"
  <2>1. thread'["deployer"] = [thread["deployer"] EXCEPT !.pc = "deploy"]
    BY <1>2 DEF AfterReport
  <2>2. /\ thread'["deployer"].pc = "deploy"
        /\ thread'["deployer"].n = thread["deployer"].n
        /\ thread'["deployer"].res = "RUNNING"
    BY <1>2, <2>1, GoesOn DEF Threads
  <2> QED BY <1>2, <2>2 DEF DeployerInTurn
<1>3. CASE /\ ~(t = "watcher" /\ thread[t].res = "INITIATED")
           /\ ~(t = "deployer" /\ thread[t].res = "RUNNING")
  <2>1. thread'[t].n = 0
    BY <1>3 DEF AfterReport, At
  <2> QED BY <2>1, IdleInTurn
<1> QED BY <1>1, <1>2, <1>3

\* A step of thread t that reports at most on its own job leaves the other
\* threads and the queues in turn.
LEMMA OthersInTurn ==
    ASSUME TypeOK, InOrder, ReportsInTurn, NEW t \in Threads,
           \A u \in Threads : u # t => thread'[u] = thread[u],
           \A n \in Tickets : n # thread[t].n => reported'[n] = reported[n],
           thread[t].n # 0,
           queue' = queue, jobs' = jobs, tasks' \subseteq tasks
    PROVE  /\ t # "watcher" => WatcherInTurn'
           /\ t # "deployer" => DeployerInTurn'
           /\ t # "scheduler" => SchedulerInTurn'
           /\ QueuesInTurn'
<1>1. \A u \in Threads :
        u # t /\ thread[u].n # 0 => reported'[thread[u].n] = reported[thread[u].n]
  BY OnePlace, IdleHasNoJob
<1>2. QueuesInTurn'
  <2>1. \A n \in Tickets : n > jobs => n # thread[t].n
    BY OnePlace DEF Tickets, TypeOK, DaemonType
  <2>2. \A n \in Tickets : n > jobs => reported'[n] = "NONE"
    BY <2>1 DEF ReportsInTurn, QueuesInTurn
  <2>3. \A k \in DOMAIN queue : reported'[queue[k]] = "INITIATED"
    BY OnePlace DEF ReportsInTurn, QueuesInTurn
  <2>4. \A n \in tasks : reported'[n] = "RUNNING"
    BY OnePlace DEF ReportsInTurn, QueuesInTurn
  <2> QED BY <2>2, <2>3, <2>4 DEF QueuesInTurn
<1> QED
  BY <1>1, <1>2, WatcherFrame, DeployerFrame, SchedulerFrame DEF Threads, ReportsInTurn

LEMMA TurnReports ==
    ASSUME TypeOK, InOrder, ReportsInTurn, Reports
    PROVE  ReportsInTurn'
<1>1. ASSUME NEW t \in Threads, NEW kind,
             SaveInline(t) \/ SaveStatus(t) \/ SaveInlineFails(t, kind) \/ SaveStatusFails(t, kind)
      PROVE  ReportsInTurn'
  <2> DEFINE n == thread[t].n
  <2>1. thread[t].pc \in {"inline", "status"}
    BY <1>1 DEF SaveInline, SaveStatus, SaveInlineFails, SaveStatusFails
  <2>2. n # 0 /\ n \in Tickets
    BY <2>1, IdleHasNoJob DEF Tickets
  <2>3. \/ reported' = reported
        \/ reported' = [reported EXCEPT ![n] = thread[t].res] /\ thread[t].pc = "status"
    BY <1>1 DEF SaveInline, SaveStatus, SaveInlineFails, SaveStatusFails
  <2>4. /\ \A m \in Tickets : m # n => reported'[m] = reported[m]
        /\ reported'[n] \in {reported[n], thread[t].res}
    BY <2>2, <2>3 DEF TypeOK, DaemonType
  <2>5. /\ \E state : Become(t, state)
        /\ queue' = queue /\ jobs' = jobs /\ tasks' = tasks
    BY <1>1 DEF SaveInline, SaveStatus, SaveInlineFails, SaveStatusFails
  <2>6. \A u \in Threads : u # t => thread'[u] = thread[u]
    BY <2>5 DEF Become, TypeOK, DaemonType
  <2> HIDE DEF n
  <2>7. /\ t # "watcher" => WatcherInTurn'
        /\ t # "deployer" => DeployerInTurn'
        /\ t # "scheduler" => SchedulerInTurn'
        /\ QueuesInTurn'
    BY <2>2, <2>4, <2>5, <2>6, OthersInTurn DEF n
  <2>8. ASSUME /\ t = "watcher" => WatcherInTurn'
               /\ t = "deployer" => DeployerInTurn'
               /\ t = "scheduler" => SchedulerInTurn'
        PROVE  ReportsInTurn'
    BY <2>7, <2>8 DEF ReportsInTurn, Threads
  <2>9. CASE thread'[t] \in {AfterException(t, "api"), AfterException(t, kind)}
    BY <2>2, <2>4, <2>8, <2>9, ExceptionInTurn DEF n
  <2>10. CASE SaveStatus(t)
    <3>1. thread'[t] = AfterReport(t) /\ reported'[n] = thread[t].res
      BY <2>2, <2>10 DEF SaveStatus, Become, n, TypeOK, DaemonType
    <3> QED BY <2>2, <2>8, <3>1, ReportedInTurn DEF n
  <2>11. CASE thread'[t] = [thread[t] EXCEPT !.pc = "status"] /\ SaveInline(t)
    <3>1. /\ thread'[t].pc = "status"
          /\ thread'[t].n = thread[t].n
          /\ thread'[t].res = thread[t].res
      BY <2>11, GoesOn
    <3>2. reported' = reported /\ thread[t].pc = "inline"
      BY <2>11 DEF SaveInline
    <3>3. /\ t = "watcher" => WatcherInTurn'
          /\ t = "deployer" => DeployerInTurn'
          /\ t = "scheduler" => SchedulerInTurn'
      BY <3>1, <3>2 DEF ReportsInTurn, WatcherInTurn, DeployerInTurn, SchedulerInTurn
    <3> QED BY <2>8, <3>3
  <2>12. CASE SaveInline(t)
    <3>1. thread'[t] \in {AfterException(t, "api"), [thread[t] EXCEPT !.pc = "status"]}
      BY <2>12 DEF SaveInline, Become, TypeOK, DaemonType
    <3> QED BY <2>9, <2>11, <2>12, <3>1
  <2>13. CASE SaveInlineFails(t, kind) \/ SaveStatusFails(t, kind)
    <3>1. thread'[t] = AfterException(t, kind)
      BY <2>13 DEF SaveInlineFails, SaveStatusFails, Become, TypeOK, DaemonType
    <3> QED BY <2>9, <3>1
  <2> QED BY <1>1, <2>10, <2>12, <2>13
<1> QED BY <1>1 DEF Reports

\* When nothing is reported and no work is passed on, only a thread that has got a
\* job or another result can be out of turn.
LEMMA QuietStep ==
    ASSUME TypeOK, InOrder, ReportsInTurn,
           reported' = reported, jobs' >= jobs, jobs' \in Nat,
           tasks' \subseteq tasks,
           \A k \in DOMAIN queue' : \E l \in DOMAIN queue : queue'[k] = queue[l]
    PROVE  /\ QueuesInTurn'
           /\ thread'["watcher"] = thread["watcher"] => WatcherInTurn'
           /\ thread'["deployer"] = thread["deployer"] => DeployerInTurn'
           /\ thread'["scheduler"] = thread["scheduler"] => SchedulerInTurn'
<1>1. \A n \in Tickets : n > jobs' => n > jobs
  BY DEF Tickets, TypeOK, DaemonType
<1>2. QueuesInTurn'
  BY <1>1 DEF ReportsInTurn, QueuesInTurn
<1> QED BY <1>2, WatcherFrame, DeployerFrame, SchedulerFrame DEF ReportsInTurn

LEMMA TurnWatcher ==
    ASSUME TypeOK, InOrder, ReportsInTurn, WatcherSteps \/ WatcherFaults \/ Reconnect
    PROVE  ReportsInTurn'
<1>1. jobs \in Nat
  BY DEF TypeOK, DaemonType
<1>2. ASSUME NEW a \in Apps, InitiateDeploy(a)
      PROVE  ReportsInTurn'
  <2>1. /\ reported' = reported /\ jobs' = jobs + 1 /\ tasks' = tasks /\ queue' = queue
        /\ thread'["deployer"] = thread["deployer"]
        /\ thread'["scheduler"] = thread["scheduler"]
        /\ thread'["watcher"] = [pc |-> FirstWrite, n |-> jobs + 1, res |-> "INITIATED"]
    BY <1>2 DEF InitiateDeploy, Become, Report, Threads, TypeOK, DaemonType
  <2>2. jobs + 1 \in Tickets /\ jobs + 1 > jobs
    BY <1>1, <1>2 DEF InitiateDeploy, Tickets
  <2>3. reported[jobs + 1] = "NONE"
    BY <2>2 DEF ReportsInTurn, QueuesInTurn
  <2>4. WatcherInTurn'
    BY <2>1, <2>3 DEF WatcherInTurn, FirstWrite
  <2> QED BY <1>1, <2>1, <2>4, QuietStep DEF ReportsInTurn
<1>3. CASE BuildSpec
  <2> DEFINE n == thread["watcher"].n
  <2>1. /\ reported' = reported /\ jobs' = jobs /\ tasks' = tasks
        /\ thread'["deployer"] = thread["deployer"]
        /\ thread'["scheduler"] = thread["scheduler"]
    BY <1>3 DEF BuildSpec, Become, Threads, TypeOK, DaemonType
  <2>2. n \in Tickets /\ n # 0 /\ reported[n] = "INITIATED"
    BY <1>3, IdleHasNoJob DEF BuildSpec, ReportsInTurn, WatcherInTurn, Threads, Tickets
  <2>3. CASE job[n].bad
    <3>1. /\ queue' = queue
          /\ thread'["watcher"] = [pc |-> FirstWrite, n |-> n, res |-> "FAILED"]
      BY <1>3, <2>3 DEF BuildSpec, Become, Report, Threads, TypeOK, DaemonType
    <3>2. WatcherInTurn'
      BY <2>1, <2>2, <3>1 DEF WatcherInTurn, FirstWrite
    <3> QED BY <1>1, <2>1, <3>1, <3>2, QuietStep DEF ReportsInTurn
  <2>4. CASE ~job[n].bad
    <3>1. queue' = Append(queue, n) /\ thread'["watcher"].n = 0
      BY <1>3, <2>4 DEF BuildSpec, Put, Become, At, Threads, TypeOK, DaemonType
    <3>2. queue \in Seq(Tickets)
      BY DEF TypeOK, DaemonType
    <3> HIDE DEF n
    <3>3. \A k \in DOMAIN queue' : queue'[k] = n \/ (k \in DOMAIN queue /\ queue'[k] = queue[k])
      <4>1. /\ Len(queue) \in Nat
            /\ DOMAIN queue = 1..Len(queue)
            /\ DOMAIN queue' = 1..(Len(queue) + 1)
            /\ \A k \in DOMAIN queue : queue'[k] = queue[k]
            /\ queue'[Len(queue) + 1] = n
        BY <2>2, <3>1, <3>2
      <4>2. \A k \in DOMAIN queue' : k \in DOMAIN queue \/ k = Len(queue) + 1
        BY <4>1
      <4> QED BY <4>1, <4>2
    <3>4. QueuesInTurn'
      BY <2>1, <2>2, <3>3 DEF ReportsInTurn, QueuesInTurn
    <3>5. WatcherInTurn'
      BY <3>1, IdleInTurn
    <3> QED BY <2>1, <3>4, <3>5, DeployerFrame, SchedulerFrame DEF ReportsInTurn
  <2> QED BY <2>3, <2>4
<1>4. ASSUME NEW pc, Become("watcher", At(pc)), reported' = reported, jobs' = jobs,
             tasks' = tasks, queue' = queue
      PROVE  ReportsInTurn'
  <2>1. /\ thread'["deployer"] = thread["deployer"]
        /\ thread'["scheduler"] = thread["scheduler"]
        /\ thread'["watcher"].n = 0
    BY <1>4 DEF Become, At, Threads, TypeOK, DaemonType
  <2> QED BY <1>1, <1>4, <2>1, QuietStep, IdleInTurn DEF ReportsInTurn
<1>5. CASE Rewatch
  BY <1>4, <1>5 DEF Rewatch
<1>6. CASE WatcherFaults
  BY <1>4, <1>6 DEF WatcherFaults, HandleEventFails, BuildSpecFails, RewatchFails
<1>7. CASE UNCHANGED daemonVars
  BY <1>7 DEF daemonVars, ReportsInTurn, WatcherInTurn, DeployerInTurn, SchedulerInTurn,
     QueuesInTurn
<1> QED
  BY <1>2, <1>3, <1>5, <1>6, <1>7 DEF WatcherSteps, SkipEvent, Reconnect

LEMMA TurnDeployer ==
    ASSUME TypeOK, InOrder, ReportsInTurn, DeployerSteps \/ DeployerFaults
    PROVE  ReportsInTurn'
<1>1. jobs \in Nat /\ queue \in Seq(Tickets)
  BY DEF TypeOK, DaemonType
<1>2. /\ reported' = reported /\ jobs' = jobs
      /\ thread'["watcher"] = thread["watcher"]
      /\ thread'["scheduler"] = thread["scheduler"]
  BY DEF DeployerSteps, DeployerFaults, TakeJob, Deploy, DeployFails, Become, Threads, TypeOK,
     DaemonType
<1>3. CASE TakeJob
  <2>1. /\ tasks' = tasks /\ queue' = Tail(queue) /\ queue # << >>
        /\ thread'["deployer"] = [pc |-> FirstWrite, n |-> Head(queue), res |-> "RUNNING"]
    BY <1>3 DEF TakeJob, Become, Report, Threads, TypeOK, DaemonType
  <2>2. 1 \in DOMAIN queue /\ Head(queue) = queue[1]
    BY <1>1, <2>1
  <2>3. \A k \in DOMAIN queue' : k + 1 \in DOMAIN queue /\ queue'[k] = queue[k + 1]
    BY <1>1, <2>1
  <2>4. DeployerInTurn'
    BY <1>2, <2>1, <2>2 DEF DeployerInTurn, FirstWrite, ReportsInTurn, QueuesInTurn
  <2> QED BY <1>1, <1>2, <2>1, <2>3, <2>4, QuietStep DEF ReportsInTurn
<1>4. CASE Deploy
  <2> DEFINE n == thread["deployer"].n
  <2>1. n \in Tickets /\ n # 0 /\ reported[n] = "RUNNING" /\ queue' = queue
    BY <1>4, IdleHasNoJob DEF Deploy, ReportsInTurn, DeployerInTurn, Threads, Tickets
  <2>2. CASE job[n].app \in SelfApps
    <3>1. /\ tasks' = tasks
          /\ thread'["deployer"] = [pc |-> FirstWrite, n |-> n, res |-> "SUCCESS"]
      BY <1>4, <2>2 DEF Deploy, Become, Report, Threads, TypeOK, DaemonType
    <3>2. DeployerInTurn'
      BY <1>2, <2>1, <2>2, <3>1 DEF DeployerInTurn, FirstWrite
    <3> QED BY <1>1, <1>2, <2>1, <3>1, <3>2, QuietStep DEF ReportsInTurn
  <2>3. CASE job[n].app \notin SelfApps
    <3>1. tasks' = tasks \union {n} /\ thread'["deployer"].n = 0
      BY <1>4, <2>3 DEF Deploy, Schedule, Become, At, Threads, TypeOK, DaemonType
    <3>2. QueuesInTurn'
      BY <1>2, <2>1, <3>1 DEF ReportsInTurn, QueuesInTurn
    <3> QED BY <1>2, <3>1, <3>2, WatcherFrame, SchedulerFrame, IdleInTurn DEF ReportsInTurn
  <2> QED BY <2>2, <2>3
<1>5. CASE DeployerFaults
  <2>1. PICK kind \in {"api", "other"} : DeployFails(kind)
    BY <1>5 DEF DeployerFaults
  <2>2. /\ thread'["deployer"] = AfterException("deployer", kind)
        /\ thread["deployer"].n # 0
        /\ queue' = queue /\ tasks' = tasks
    BY <2>1, IdleHasNoJob DEF DeployFails, Become, Threads, TypeOK, DaemonType, Tickets
  <2>3. DeployerInTurn'
    BY <1>2, <2>2, ExceptionInTurn DEF Threads
  <2> QED BY <1>1, <1>2, <2>2, <2>3, QuietStep DEF ReportsInTurn
<1> QED BY <1>3, <1>4, <1>5 DEF DeployerSteps

LEMMA TurnScheduler ==
    ASSUME TypeOK, InOrder, ReportsInTurn, SchedulerSteps \/ SchedulerFaults
    PROVE  ReportsInTurn'
<1>1. jobs \in Nat
  BY DEF TypeOK, DaemonType
<1>2. /\ reported' = reported /\ jobs' = jobs /\ queue' = queue /\ tasks' \subseteq tasks
      /\ thread'["watcher"] = thread["watcher"]
      /\ thread'["deployer"] = thread["deployer"]
  BY DEF SchedulerSteps, SchedulerFaults, RunCheck, End, Expire, CheckFails, Become, Threads,
     TypeOK, DaemonType
<1>3. ASSUME NEW n \in Tickets, RunCheck(n)
      PROVE  SchedulerInTurn'
  <2>1. PICK r \in Terminal : thread'["scheduler"] = [pc |-> FirstWrite, n |-> n, res |-> r]
    BY <1>3 DEF RunCheck, Become, Report, Terminal, Threads, TypeOK, DaemonType
  <2>2. reported[n] = "RUNNING"
    BY <1>3 DEF RunCheck, ReportsInTurn, QueuesInTurn
  <2> QED BY <1>2, <2>1, <2>2 DEF SchedulerInTurn, FirstWrite
<1>4. ASSUME NEW n \in Tickets, NEW kind, CheckFails(n, kind)
      PROVE  SchedulerInTurn'
  <2>1. thread'["scheduler"].n = 0
    BY <1>4 DEF CheckFails, Become, At, Threads, TypeOK, DaemonType
  <2> QED BY <2>1, IdleInTurn
<1>5. ASSUME NEW n \in Tickets, Expire(n)
      PROVE  thread'["scheduler"] = thread["scheduler"]
  BY <1>5 DEF Expire
<1> QED
  BY <1>1, <1>2, <1>3, <1>4, <1>5, QuietStep DEF SchedulerSteps, SchedulerFaults, ReportsInTurn

LEMMA TurnStart ==
    ASSUME TypeOK, InOrder, ReportsInTurn, Start
    PROVE  ReportsInTurn'
<1>1. /\ reported' = reported /\ jobs' = jobs /\ queue' = << >> /\ tasks' = {}
      /\ \A t \in Threads : thread'[t].n = 0
  BY DEF Start, At
<1>2. QueuesInTurn'
  BY <1>1 DEF ReportsInTurn, QueuesInTurn
<1> QED BY <1>1, <1>2, IdleInTurn DEF ReportsInTurn, Threads

LEMMA TurnStep ==
    ASSUME TypeOK, InOrder, ReportsInTurn, [Next]_vars
    PROVE  ReportsInTurn'
<1>1. CASE UNCHANGED daemonVars
  BY <1>1 DEF daemonVars, ReportsInTurn, WatcherInTurn, DeployerInTurn, SchedulerInTurn,
     QueuesInTurn
<1> QED
  BY <1>1, TurnReports, TurnWatcher, TurnDeployer, TurnScheduler, TurnStart
  DEF Next, Failures, Restart, Crash, vars, daemonVars

-----------------------------------------------------------------------------
(* The inductive invariant, and what follows from it. *)

LEMMA InitInv == Init => IInv
<1> SUFFICES ASSUME Init PROVE IInv OBVIOUS
<1>1. TypeOK
  BY InitType
<1>2. /\ thread = [t \in Threads |-> At("idle")] /\ jobs = 0 /\ queue = << >> /\ tasks = {}
      /\ reported = [n \in Tickets |-> "NONE"]
      /\ k8s = [a \in Apps |-> NoDeployment]
      /\ app = [a \in Apps |-> Created] /\ stream = [a \in Apps |-> <<Created>>]
  BY DEF Init, DaemonInit, ResourcesInit
<1>3. Watching = 0 /\ Deploying = 0 /\ Checking = 0 /\ InScheduler = {}
  BY <1>2 DEF Watching, Deploying, Checking, InScheduler, At, Threads
<1>4. InOrder
  BY <1>2, <1>3 DEF InOrder
<1>5. ReportsInTurn
  <2>1. QueuesInTurn
    BY <1>2 DEF QueuesInTurn
  <2>2. \A t \in Threads : thread[t].n = 0
    BY <1>2 DEF At
  <2> QED BY <2>1, <2>2
      DEF ReportsInTurn, WatcherInTurn, DeployerInTurn, SchedulerInTurn, Threads
<1>6. EventsInOrder
  <2>1. ASSUME NEW a \in Apps PROVE EventsOf(a)
    <3>1. app[a] = Created /\ stream[a] = <<Created>> /\ Created.rev = 1
      BY <1>2 DEF Created
    <3>2. DOMAIN stream[a] = {1} /\ stream[a][1] = Created
      BY <3>1
    <3> QED BY <1>2, <3>1, <3>2 DEF EventsOf
  <2> QED BY <2>1 DEF EventsInOrder
<1>7. JobsInOrder
  BY <1>2 DEF JobsInOrder
<1>8. DeploymentInOrder
  <2>1. \A a \in Apps : k8s[a].n = 0 /\ k8s[a].rev = 0
    BY <1>2 DEF NoDeployment
  <2>2. DOMAIN queue = {} /\ jobs = 0
    BY <1>2
  <2>3. ASSUME NEW a \in Apps
        PROVE  k8s[a].n <= jobs
    <3>1. k8s[a].n = 0
      BY <2>1
    <3> QED BY <2>2, <3>1
  <2>4. Watching = 0 /\ Deploying = 0
    BY <1>3
  <2> HIDE DEF Watching, Deploying
  <2> QED BY <2>1, <2>2, <2>3, <2>4, Zenon DEF DeploymentInOrder
<1>9. ChecksWhatItDeployed
  BY <1>3 DEF ChecksWhatItDeployed
<1> QED BY <1>1, <1>4, <1>5, <1>6, <1>7, <1>8, <1>9 DEF IInv

LEMMA InvStep == IInv /\ [Next]_vars => IInv'
<1> SUFFICES ASSUME IInv, [Next]_vars PROVE IInv' OBVIOUS
<1>1. /\ TypeOK /\ InOrder /\ ReportsInTurn /\ EventsInOrder /\ JobsInOrder
      /\ DeploymentInOrder /\ ChecksWhatItDeployed
  BY DEF IInv
<1> QED
  BY <1>1, TypeStep, OrderStep, TurnStep, RevsStep, DeploymentStep, ChecksStep DEF IInv

\* IInv holds in every reachable state: the conjuncts are inductive together, and
\* none of InOrder, ChecksWhatItDeployed or the order of revisions is alone.
THEOREM Inductive == Spec => []IInv
  BY InitInv, InvStep, PTL DEF Spec

\* Deploys pass through watcher, queue, deployer and scheduler in the order they
\* were initiated, each in one place only (crd/watcher.py, deployer/deploy.py).
THEOREM OrderCorrect == Spec => []InOrder
<1>1. IInv => InOrder
  BY DEF IInv
<1> QED BY <1>1, Inductive, PTL

\* A ReadyCheck never waits on a Deployment older than its own job's
\* (deployer/kubernetes/ready_check.py).
THEOREM ChecksCorrect == Spec => []ChecksWhatItDeployed
<1>1. IInv => ChecksWhatItDeployed
  BY DEF IInv
<1> QED BY <1>1, Inductive, PTL

\* The Deployment of an Application never goes back to an older update.
THEOREM RollbackNever == Spec => NoRollback
<1>1. IInv /\ [Next]_vars =>
        [\A a \in Apps : k8s'[a].n # 0 => k8s'[a].rev >= k8s[a].rev]_vars
  <2> SUFFICES ASSUME IInv, [Next]_vars, NEW a \in Apps, k8s'[a].n # 0
               PROVE  k8s'[a].rev >= k8s[a].rev
    OBVIOUS
  <2> QED BY DeploymentForward DEF IInv
<1> QED BY <1>1, Inductive, PTL DEF Spec, NoRollback

-----------------------------------------------------------------------------
(* The refinement. *)

\* One report of a thread is a step of the deploy's lifecycle.
LEMMA ReportRefines ==
    ASSUME TypeOK, ReportsInTurn, NEW t \in Threads, thread[t].pc = "status",
           reported' = [reported EXCEPT ![thread[t].n] = thread[t].res]
    PROVE  Lifecycle!Next
<1> DEFINE n == thread[t].n
<1>1. n \in Tickets /\ n # 0
  BY IdleHasNoJob DEF Tickets
<1>2. CASE t = "watcher"
  BY <1>1, <1>2 DEF ReportsInTurn, WatcherInTurn, Lifecycle!Next, Lifecycle!Report
<1>3. CASE t = "deployer"
  BY <1>1, <1>3 DEF ReportsInTurn, DeployerInTurn, Lifecycle!Next, Lifecycle!Report
<1>4. CASE t = "scheduler"
  BY <1>1, <1>4 DEF ReportsInTurn, SchedulerInTurn, Terminal, Lifecycle!Next, Lifecycle!Report
<1> QED BY <1>2, <1>3, <1>4 DEF Threads

LEMMA StepRefines ==
    ASSUME IInv, [Next]_vars
    PROVE  [Lifecycle!Next]_reported
<1>1. CASE Reports
  <2>1. ASSUME NEW t \in Threads, NEW kind,
               \/ SaveInline(t) \/ SaveStatus(t)
               \/ SaveInlineFails(t, kind) \/ SaveStatusFails(t, kind)
        PROVE  [Lifecycle!Next]_reported
    <3>1. \/ reported' = reported
          \/ /\ thread[t].pc = "status"
             /\ reported' = [reported EXCEPT ![thread[t].n] = thread[t].res]
      BY <2>1 DEF SaveInline, SaveStatus, SaveInlineFails, SaveStatusFails
    <3> QED BY <3>1, ReportRefines DEF IInv
  <2> QED BY <1>1, <2>1 DEF Reports
<1>2. CASE ~Reports
  <2>1. reported' = reported
    BY <1>2
    DEF Next, vars, daemonVars, WatcherSteps, SkipEvent, InitiateDeploy, BuildSpec, Rewatch,
        Reconnect, DeployerSteps, TakeJob, Deploy, SchedulerSteps, RunCheck, Expire, Restart,
        Start, Failures, WatcherFaults, HandleEventFails, BuildSpecFails, RewatchFails,
        DeployerFaults, DeployFails, SchedulerFaults, CheckFails, Crash
  <2> QED BY <2>1
<1> QED BY <1>1, <1>2

\* Every deploy's reports come in the order of DeployLifecycle: INITIATED, RUNNING,
\* and one of SUCCESS and FAILED, once, whatever fails in between (lifecycle.py).
THEOREM Refines == Spec => LifecycleSpec
<1>1. Init => Lifecycle!Init
  BY DEF Init, DaemonInit, Lifecycle!Init
<1>2. IInv /\ [Next]_vars => [Lifecycle!Next]_reported
  BY StepRefines
<1> QED BY <1>1, <1>2, Inductive, PTL DEF Spec, LifecycleSpec, Lifecycle!Spec

-----------------------------------------------------------------------------
(* What the daemon keeps as long as no call fails and its process lives:   *)
(* no status is left behind by a deploy that is no longer there, one       *)
(* update starts one deploy, and the two places that show its result       *)
(* agree.  The properties say so by faults = 0, so that what is proved     *)
(* covers every behaviour up to its first failure.                         *)

(* Steps in which nothing fails. *)

Alive == faults = 0 => Healthy

CalmNext ==
    \/ Environment /\ UNCHANGED daemonVars
    \/ \E t \in Threads : SaveInline(t) \/ SaveStatus(t)
    \/ WatcherSteps
    \/ Reconnect
    \/ DeployerSteps
    \/ SchedulerSteps

\* As long as no thread is dead, no step starts the daemon again without a fault.
LEMMA CalmStep ==
    ASSUME TypeOK, Alive, [Next]_vars, faults' = 0
    PROVE  faults = 0 /\ [CalmNext]_vars
<1>1. faults \in Nat
  BY DEF TypeOK, DaemonType
<1>2. ~Failures
  BY <1>1 DEF Failures, WatcherFaults, HandleEventFails, BuildSpecFails, RewatchFails,
     DeployerFaults, DeployFails, SchedulerFaults, CheckFails, Crash, Fault
<1>3. ASSUME NEW t \in Threads, NEW kind
      PROVE  ~SaveInlineFails(t, kind) /\ ~SaveStatusFails(t, kind)
  BY <1>1 DEF SaveInlineFails, SaveStatusFails, Fault
<1>4. CASE Restart
  BY <1>4 DEF Restart, Alive
<1>5. [CalmNext]_vars
  BY <1>2, <1>3, <1>4 DEF Next, CalmNext, Reports
<1>6. CASE CalmNext
  BY <1>6 DEF CalmNext, daemonVars, SaveInline, SaveStatus, WatcherSteps, SkipEvent,
     InitiateDeploy, BuildSpec, Rewatch, Reconnect, DeployerSteps, TakeJob, Deploy,
     SchedulerSteps, RunCheck, Expire
<1>7. CASE UNCHANGED vars
  BY <1>7 DEF vars
<1> QED BY <1>5, <1>6, <1>7

LEMMA BecomeFrame ==
    ASSUME TypeOK, NEW t \in Threads, NEW state, Become(t, state)
    PROVE  thread'[t] = state /\ \A u \in Threads : u # t => thread'[u] = thread[u]
  BY DEF Become, TypeOK, DaemonType

\* How a thread goes on when its report is refused because the Application is gone.
LEMMA AfterRefusal ==
    ASSUME NEW t \in Threads
    PROVE  AfterException(t, "api").pc # "dead"
  BY DEF AfterException, At, Report, FirstWrite

LEMMA AliveStep ==
    ASSUME TypeOK, Alive, [Next]_vars
    PROVE  Alive'
<1> SUFFICES ASSUME faults' = 0 PROVE Healthy'
  BY DEF Alive
<1>1. Healthy /\ [CalmNext]_vars
  BY CalmStep DEF Alive
<1>2. ASSUME NEW t \in Threads, NEW state, Become(t, state), state.pc # "dead"
      PROVE  Healthy'
  BY <1>1, <1>2, BecomeFrame DEF Healthy
<1>3. ASSUME thread' = thread
      PROVE  Healthy'
  BY <1>1, <1>3 DEF Healthy
<1>4. \A n, r : At("idle").pc # "dead" /\ Report(n, r).pc # "dead"
  BY DEF At, Report, FirstWrite
<1>5. ASSUME NEW t \in Threads
      PROVE  [thread[t] EXCEPT !.pc = "status"].pc # "dead" /\ AfterReport(t).pc # "dead"
  BY <1>4, GoesOn DEF AfterReport
<1>6. ASSUME NEW t \in Threads, SaveInline(t) \/ SaveStatus(t)
      PROVE  Healthy'
  BY <1>2, <1>5, <1>6, AfterRefusal DEF SaveInline, SaveStatus
<1>7. CASE WatcherSteps
  BY <1>2, <1>3, <1>4, <1>7
  DEF WatcherSteps, SkipEvent, InitiateDeploy, BuildSpec, Rewatch, daemonVars, Threads
<1>8. CASE DeployerSteps
  BY <1>2, <1>4, <1>8 DEF DeployerSteps, TakeJob, Deploy, Threads
<1>9. CASE SchedulerSteps
  BY <1>2, <1>3, <1>4, <1>9 DEF SchedulerSteps, RunCheck, Expire, Threads
<1> QED
  BY <1>1, <1>3, <1>6, <1>7, <1>8, <1>9 DEF CalmNext, Reconnect, daemonVars, vars

-----------------------------------------------------------------------------
(* No status is left behind. *)

\* The jobs the daemon has, wherever they are.
Carried == {thread[t].n : t \in Threads} \union tasks \union {queue[k] : k \in DOMAIN queue}

LEMMA CarriedInDaemon ==
    InDaemon \ {0} = Carried \ {0} /\ InDaemon' \ {0} = Carried' \ {0}
<1>1. InDaemon \ {0} = Carried \ {0}
  BY DEF InDaemon, InScheduler, Watching, Deploying, Checking, Carried, Threads
<1>2. InDaemon' \ {0} = Carried' \ {0}
  BY DEF InDaemon, InScheduler, Watching, Deploying, Checking, Carried, Threads
<1> QED BY <1>1, <1>2

\* What becomes of an Application that is gone: its statuses go with it.
Abandoned ==
    \A a \in Apps : app[a].phase = "gone" => \A i \in Ids : result[a][i] = "NONE"

\* A thread that goes on with its job, and passes on no other, loses none.
LEMMA CarriedOn ==
    ASSUME TypeOK, NEW t \in Threads, NEW state, Become(t, state), state.n \in {0, thread[t].n},
           queue' = queue, tasks' = tasks,
           NEW n \in Carried \ {0}, n # thread[t].n \/ state.n = thread[t].n
    PROVE  n \in Carried'
  BY BecomeFrame DEF Carried

\* A job leaves the daemon only with its last report, or because that is refused.
LEMMA CarriedStep ==
    ASSUME IInv, [CalmNext]_vars, NEW n \in Carried \ {0}, n \notin Carried'
    PROVE  \E t \in Threads :
             /\ thread[t].n = n
             /\ \/ SaveInline(t) /\ app[job[n].app].phase = "gone"
                \/ SaveStatus(t) /\ thread[t].res \in Terminal
<1> USE DEF IInv
<1>1. /\ queue \in Seq(Tickets) /\ jobs \in Nat
  BY DEF TypeOK, DaemonType
<1>2. ASSUME NEW t \in Threads, SaveInline(t)
      PROVE  thread[t].n = n /\ app[job[n].app].phase = "gone"
  <2>1. queue' = queue /\ tasks' = tasks
    BY <1>2 DEF SaveInline
  <2>2. CASE Become(t, [thread[t] EXCEPT !.pc = "status"])
    <3>1. [thread[t] EXCEPT !.pc = "status"].n = thread[t].n
      BY GoesOn
    <3> QED BY <2>1, <2>2, <3>1, CarriedOn
  <2>3. CASE /\ app[job[thread[t].n].app].phase = "gone"
             /\ Become(t, AfterException(t, "api"))
    <3>1. AfterException(t, "api").n \in {0, thread[t].n}
      BY DEF AfterException, Report, At
    <3> QED BY <2>1, <2>3, <3>1, CarriedOn
  <2> QED BY <1>2, <2>2, <2>3 DEF SaveInline
<1>3. ASSUME NEW t \in Threads, SaveStatus(t)
      PROVE  thread[t].n = n /\ thread[t].res \in Terminal
  <2>1. /\ queue' = queue /\ tasks' = tasks
        /\ Become(t, AfterReport(t))
        /\ thread[t].pc = "status" /\ thread[t].n # 0
    BY <1>3, IdleHasNoJob DEF SaveStatus, Tickets
  <2>2. AfterReport(t).n \in {0, thread[t].n}
    BY GoesOn DEF AfterReport, At
  <2>3. thread[t].res \notin Terminal => AfterReport(t).n = thread[t].n
    <3>1. CASE t = "watcher"
      BY <2>1, <3>1, GoesOn DEF AfterReport, Terminal, ReportsInTurn, WatcherInTurn
    <3>2. CASE t = "deployer"
      BY <2>1, <3>2, GoesOn DEF AfterReport, Terminal, ReportsInTurn, DeployerInTurn
    <3>3. CASE t = "scheduler"
      BY <2>1, <3>3 DEF ReportsInTurn, SchedulerInTurn
    <3> QED BY <3>1, <3>2, <3>3 DEF Threads
  <2> QED BY <2>1, <2>2, <2>3, CarriedOn
<1>4. ASSUME NEW t \in Threads, thread[t].n = 0, queue' = queue, tasks' = tasks,
             \A u \in Threads : u # t => thread'[u] = thread[u]
      PROVE  FALSE
  BY <1>4 DEF Carried
<1>5. CASE UNCHANGED <<thread, queue, tasks>>
  BY <1>5 DEF Carried
<1>6. CASE WatcherSteps
  <2>1. CASE BuildSpec
    <3>1. /\ \A u \in Threads : u # "watcher" => thread'[u] = thread[u]
          /\ tasks' = tasks
          /\ \/ queue' = queue /\ thread'["watcher"].n = thread["watcher"].n
             \/ queue' = Append(queue, thread["watcher"].n)
      BY <2>1, BecomeFrame DEF BuildSpec, Put, Report, Threads
    <3>2. CASE queue' = queue /\ thread'["watcher"].n = thread["watcher"].n
      BY <3>1, <3>2 DEF Carried, Threads
    <3>3. CASE queue' = Append(queue, thread["watcher"].n)
      <4>1. /\ \A k \in DOMAIN queue : k \in DOMAIN queue' /\ queue'[k] = queue[k]
            /\ Len(queue) + 1 \in DOMAIN queue'
            /\ queue'[Len(queue) + 1] = thread["watcher"].n
        BY <1>1, <3>3
      <4> QED BY <3>1, <4>1 DEF Carried, Threads
    <3> QED BY <3>1, <3>2, <3>3
  <2>2. CASE ~BuildSpec /\ thread' # thread
    <3>1. thread["watcher"].n = 0
      BY <1>6, <2>2, IdleHasNoJob
      DEF WatcherSteps, SkipEvent, InitiateDeploy, Consume, Rewatch, daemonVars, Threads
    <3>2. \E state : Become("watcher", state)
      BY <1>6, <2>2 DEF WatcherSteps, SkipEvent, InitiateDeploy, Rewatch, daemonVars
    <3>3. queue' = queue /\ tasks' = tasks
      BY <1>6, <2>2 DEF WatcherSteps, SkipEvent, InitiateDeploy, Rewatch, daemonVars
    <3> QED BY <1>4, <3>1, <3>2, <3>3, BecomeFrame DEF Threads
  <2>3. CASE ~BuildSpec /\ thread' = thread
    BY <1>5, <1>6, <2>3 DEF WatcherSteps, SkipEvent, InitiateDeploy, Rewatch, daemonVars
  <2> QED BY <2>1, <2>2, <2>3
<1>7. CASE TakeJob
  <2>1. /\ thread["deployer"].n = 0 /\ tasks' = tasks
        /\ \A u \in Threads : u # "deployer" => thread'[u] = thread[u]
        /\ thread'["deployer"].n = Head(queue)
        /\ queue' = Tail(queue) /\ queue # << >>
    BY <1>7, IdleHasNoJob, BecomeFrame DEF TakeJob, Report, Threads
  <2>2. ASSUME NEW k \in DOMAIN queue
        PROVE  queue[k] = Head(queue) \/ \E l \in DOMAIN queue' : queue'[l] = queue[k]
    <3>1. CASE k = 1
      BY <2>1, <3>1
    <3>2. CASE k # 1
      <4>1. k - 1 \in DOMAIN queue' /\ queue'[k - 1] = queue[k]
        BY <1>1, <2>1, <3>2
      <4> QED BY <4>1
    <3> QED BY <3>1, <3>2
  <2>3. "deployer" \in Threads
    BY DEF Threads
  <2> QED BY <2>1, <2>2, <2>3 DEF Carried
<1>8. CASE Deploy
  <2>1. /\ queue' = queue /\ \A u \in Threads : u # "deployer" => thread'[u] = thread[u]
        /\ tasks \subseteq tasks'
        /\ thread["deployer"].n \in tasks' \/ thread'["deployer"].n = thread["deployer"].n
    BY <1>8, BecomeFrame DEF Deploy, Schedule, Report, Threads
  <2> QED BY <2>1 DEF Carried, Threads
<1>9. ASSUME NEW m \in Tickets, RunCheck(m)
      PROVE  FALSE
  <2>1. /\ queue' = queue /\ \A u \in Threads : u # "scheduler" => thread'[u] = thread[u]
        /\ tasks' = tasks \ {m} /\ thread["scheduler"].n = 0 /\ thread'["scheduler"].n = m
    BY <1>9, IdleHasNoJob, BecomeFrame DEF RunCheck, End, Report, Threads
  <2> QED BY <2>1 DEF Carried, Threads
<1>10. CASE UNCHANGED vars \/ UNCHANGED daemonVars \/ \E m \in Tickets : Expire(m)
  BY <1>5, <1>10 DEF vars, daemonVars, Expire
<1> QED
  BY <1>2, <1>3, <1>6, <1>7, <1>8, <1>9, <1>10
  DEF CalmNext, Reconnect, DeployerSteps, SchedulerSteps

\* The frame of what is said of a job once it is initiated.
LEMMA JobsKept ==
    ASSUME TypeOK, [Next]_vars, NEW n \in 1..jobs
    PROVE  job'[n] = job[n] /\ n \in 1..jobs'
<1>1. jobs \in Nat
  BY DEF TypeOK, DaemonType
<1>2. ASSUME NEW a \in Apps, InitiateDeploy(a)
      PROVE  job'[n] = job[n] /\ n \in 1..jobs'
  BY <1>1, <1>2 DEF InitiateDeploy, TypeOK, DaemonType
<1>3. CASE job' = job /\ jobs' = jobs
  BY <1>3
<1>4. CASE ~(\E a \in Apps : InitiateDeploy(a))
  <2>1. job' = job /\ jobs' = jobs
    BY <1>4 DEF Next, vars, daemonVars, Reports, SaveInline, SaveStatus, SaveInlineFails,
       SaveStatusFails, WatcherSteps, SkipEvent, BuildSpec, Rewatch, Reconnect, DeployerSteps,
       TakeJob, Deploy, SchedulerSteps, RunCheck, Expire, Restart, Start, Failures, WatcherFaults,
       HandleEventFails, BuildSpecFails, RewatchFails, DeployerFaults, DeployFails,
       SchedulerFaults, CheckFails, Crash
  <2> QED BY <1>3, <2>1
<1> QED BY <1>2, <1>4

LEMMA CarriedIsJob ==
    ASSUME IInv, NEW n \in Carried \ {0}
    PROVE  n \in 1..jobs /\ n \in Tickets
<1>1. jobs \in 0..MaxJobs
  BY DEF IInv, TypeOK, DaemonType
<1>2. n \in Nat /\ n <= jobs
  <2>1. CASE n \in tasks
    BY <2>1, OnePlace DEF IInv, Tickets
  <2>2. ASSUME NEW k \in DOMAIN queue, n = queue[k]
        PROVE  n \in Nat /\ n <= jobs
    BY <2>2, OnePlace DEF IInv, Tickets
  <2>3. ASSUME NEW t \in Threads, n = thread[t].n
        PROVE  n \in Nat /\ n <= jobs
    BY <2>3, OnePlace DEF IInv
  <2> QED BY <2>1, <2>2, <2>3 DEF Carried
<1> QED BY <1>1, <1>2, JobsAssumption DEF Tickets, JobsAssumption

\* What the steps without failures do to the statuses.
LEMMA ResultStep ==
    ASSUME TypeOK, [CalmNext]_vars, result' # result
    PROVE  \/ \E a \in Apps : Removed(a) /\ UNCHANGED daemonVars
           \/ \E t \in Threads : SaveStatus(t)
  BY DEF CalmNext, vars, Environment, UserUpdate, UserDelete, PodsChange, SaveInline, WatcherSteps,
     SkipEvent, InitiateDeploy, Consume, BuildSpec, Rewatch, Reconnect, DeployerSteps, TakeJob,
     Deploy, SchedulerSteps, RunCheck, Expire, apiVars

\* A report writes its own status; of the others it may delete some.
LEMMA StatusWritten ==
    ASSUME TypeOK, NEW t \in Threads, SaveStatus(t)
    PROVE  LET j == job[thread[t].n] IN
           /\ j.app \in Apps /\ j.id \in Ids
           /\ app[j.app].phase = "gone" => result' = result
           /\ app[j.app].phase # "gone" =>
                /\ result'[j.app][j.id] \in {"NONE", thread[t].res}
                /\ \A i \in Ids : i # j.id => result'[j.app][i] \in {"NONE", result[j.app][i]}
                /\ \A a \in Apps : a # j.app => result'[a] = result[a]
<1> DEFINE j == job[thread[t].n]
<1>1. j.app \in Apps /\ j.id \in Ids
  BY BusyType DEF SaveStatus, TypeOK, Job
<1>2. SaveStatusObject(j.app, j.id, thread[t].res, Keep)
  BY DEF SaveStatus
<1> HIDE DEF j
<1>3. ASSUME app[j.app].phase # "gone"
      PROVE  /\ result'[j.app][j.id] \in {"NONE", thread[t].res}
             /\ \A i \in Ids : i # j.id => result'[j.app][i] \in {"NONE", result[j.app][i]}
             /\ \A a \in Apps : a # j.app => result'[a] = result[a]
  <2> DEFINE new == Touched(rank[j.app], j.id)
             row == [i \in Ids |-> IF new[i] > Keep THEN "NONE"
                                   ELSE IF i = j.id THEN thread[t].res ELSE result[j.app][i]]
  <2>1. result' = [result EXCEPT ![j.app] = row]
    BY <1>2, <1>3, Zenon DEF SaveStatusObject
  <2>2. \A i \in Ids : row[i] \in {"NONE", IF i = j.id THEN thread[t].res ELSE result[j.app][i]}
    OBVIOUS
  <2> HIDE DEF row
  <2>3. result'[j.app] = row /\ \A a \in Apps : a # j.app => result'[a] = result[a]
    BY <1>1, <2>1 DEF TypeOK, ResourcesType
  <2> QED BY <1>1, <2>2, <2>3
<1>4. app[j.app].phase = "gone" => result' = result
  BY <1>2, Zenon DEF SaveStatusObject
<1> QED BY <1>1, <1>3, <1>4 DEF j

LEMMA OrphanStep ==
    ASSUME IInv, Alive, Abandoned, NoOrphan, [Next]_vars
    PROVE  NoOrphan'
<1> DEFINE Going == {"INITIATED", "RUNNING"}
           Has(n, a, i) == n \in Carried \ {0} /\ job[n].app = a /\ job[n].id = i
<1> SUFFICES ASSUME faults' = 0, NEW a \in Apps, NEW i \in Ids, result'[a][i] \in Going
             PROVE  \E n \in Carried' \ {0} : job'[n].app = a /\ job'[n].id = i
  BY CarriedInDaemon DEF NoOrphan
<1>1. TypeOK /\ faults = 0 /\ [CalmNext]_vars
  BY CalmStep DEF IInv
<1>2. result[a][i] \in Going => \E n : Has(n, a, i)
  BY <1>1, CarriedInDaemon DEF NoOrphan
<1>3. ASSUME NEW n, Has(n, a, i), n \in Carried'
      PROVE  \E m \in Carried' \ {0} : job'[m].app = a /\ job'[m].id = i
  BY <1>1, <1>3, CarriedIsJob, JobsKept
<1>4. ASSUME NEW t \in Threads, SaveStatus(t), thread[t].res \notin Terminal,
             job[thread[t].n].app = a, job[thread[t].n].id = i
      PROVE  \E m \in Carried' \ {0} : job'[m].app = a /\ job'[m].id = i
  <2>1. thread[t].n \in Carried \ {0}
    BY <1>1, <1>4, IdleHasNoJob DEF SaveStatus, Carried, Tickets
  <2>2. thread[t].n \in Carried'
    <3>1. ASSUME thread[t].n \notin Carried' PROVE FALSE
      <4>1. PICK u \in Threads :
              thread[u].n = thread[t].n /\ (SaveInline(u) \/ thread[u].res \in Terminal)
        BY <1>1, <2>1, <3>1, CarriedStep
      <4>2. u = t
        BY <2>1, <4>1, OnePlace DEF IInv
      <4> QED BY <1>4, <4>1, <4>2 DEF SaveInline, SaveStatus
    <3> QED BY <3>1
  <2> QED BY <1>3, <1>4, <2>1, <2>2
<1>5. CASE result[a][i] \in Going /\ ~(\E t \in Threads : SaveStatus(t))
  <2>1. PICK n : Has(n, a, i)
    BY <1>2, <1>5
  <2>2. CASE n \notin Carried'
    <3>1. app[a].phase = "gone"
      BY <1>1, <1>5, <2>1, <2>2, CarriedStep
    <3> QED BY <1>5, <3>1 DEF Abandoned
  <2> QED BY <1>3, <2>1, <2>2
<1>6. ASSUME NEW t \in Threads, SaveStatus(t)
      PROVE  \E m \in Carried' \ {0} : job'[m].app = a /\ job'[m].id = i
  <2> DEFINE j == job[thread[t].n]
  <2>1. CASE j.app = a /\ j.id = i /\ app[a].phase # "gone"
    <3>1. result'[a][i] \in {"NONE", thread[t].res}
      BY <1>1, <1>6, <2>1, StatusWritten
    <3>2. thread[t].res \notin Terminal
      BY <3>1 DEF Terminal
    <3> QED BY <1>4, <1>6, <2>1, <3>2
  <2>2. CASE ~(j.app = a /\ j.id = i) \/ app[a].phase = "gone"
    <3>1. result'[a][i] \in {"NONE", result[a][i]}
      BY <1>1, <1>6, <2>2, StatusWritten
    <3>2. result[a][i] \in Going /\ app[a].phase # "gone"
      BY <3>1 DEF Abandoned
    <3>3. PICK n : Has(n, a, i)
      BY <1>2, <3>2
    <3>4. CASE n \notin Carried'
      <4>1. PICK u \in Threads : thread[u].n = n /\ SaveStatus(u)
        BY <1>1, <3>2, <3>3, <3>4, CarriedStep
      <4>2. u = t
        BY <1>1, <1>6, <4>1, BecomeFrame, OnePlace, <3>3, <3>4 DEF SaveStatus, Carried
      <4> QED BY <2>2, <3>2, <3>3, <4>1, <4>2
    <3> QED BY <1>3, <3>3, <3>4
  <2> QED BY <2>1, <2>2
<1>7. CASE result[a][i] \notin Going /\ ~(\E t \in Threads : SaveStatus(t))
  <2>1. PICK b \in Apps : Removed(b)
    BY <1>1, <1>7, ResultStep
  <2>2. result'[a][i] \in {"NONE", result[a][i]}
    BY <1>1, <2>1 DEF Removed, TypeOK, ResourcesType
  <2> QED BY <1>7, <2>2
<1> QED BY <1>5, <1>6, <1>7

LEMMA AbandonedStep ==
    ASSUME TypeOK, Abandoned, [Next]_vars
    PROVE  Abandoned'
<1>0. ASSUME NEW b \in Apps, NEW new, Modify(b, new), NEW a \in Apps
      PROVE  app'[a] = IF a = b THEN new ELSE app[a]
  BY <1>0 DEF Modify, TypeOK, ResourcesType
<1>1. ASSUME NEW b \in Apps, Removed(b)
      PROVE  Abandoned'
  BY <1>0, <1>1 DEF Removed, Abandoned, TypeOK, ResourcesType
<1>2. ASSUME \A a \in Apps : app'[a].phase = "gone" => app[a].phase = "gone",
             result' = result
      PROVE  Abandoned'
  BY <1>2 DEF Abandoned
<1>3. \A a \in Apps : app[a] \in Application
  BY DEF TypeOK, ResourcesType
<1>4. ASSUME NEW b \in Apps, UserUpdate(b) \/ UserDelete(b)
      PROVE  Abandoned'
  <2>1. PICK new : Modify(b, new) /\ new.phase # "gone"
    <3>2. [app[b] EXCEPT !.phase = "deleting"].phase = "deleting"
      BY <1>3 DEF Application
    <3>3. CASE UserUpdate(b)
      <4>1. PICK i, bump, bad :
              Modify(b, [app[b] EXCEPT !.rev = @ + 1, !.gen = @ + bump, !.id = i, !.bad = bad])
        BY <3>3 DEF UserUpdate
      <4> DEFINE new == [app[b] EXCEPT !.rev = @ + 1, !.gen = @ + bump, !.id = i, !.bad = bad]
      <4>2. new.phase = app[b].phase
        BY <1>3 DEF Application
      <4>3. app[b].phase = "live"
        BY <3>3 DEF UserUpdate
      <4> HIDE DEF new
      <4>4. Modify(b, new) /\ new.phase # "gone"
        BY <4>1, <4>2, <4>3 DEF new
      <4> QED BY <4>4
    <3>4. CASE UserDelete(b)
      BY <3>2, <3>4 DEF UserDelete
    <3> QED BY <1>4, <3>3, <3>4
  <2> QED BY <1>0, <1>2, <1>4, <2>1 DEF UserUpdate, UserDelete
<1>5. ASSUME NEW b, NEW i, NEW r, SaveInlineStatus(b, i, r), b \in Apps, result' = result
      PROVE  Abandoned'
  <2>1. [app[b] EXCEPT !.ogen = app[b].gen, !.sid = i, !.res = r].phase = app[b].phase
    BY <1>3, <1>5 DEF Application
  <2> QED BY <1>0, <1>2, <1>5, <2>1 DEF SaveInlineStatus
<1>6. ASSUME NEW b, NEW i, NEW r, NEW keep, SaveStatusObject(b, i, r, keep), b \in Apps, app' = app
      PROVE  Abandoned'
  BY <1>6 DEF SaveStatusObject, Abandoned, TypeOK, ResourcesType
<1>7. ASSUME NEW t \in Threads, NEW kind,
             \/ SaveInline(t) \/ SaveStatus(t)
             \/ SaveInlineFails(t, kind) \/ SaveStatusFails(t, kind)
      PROVE  Abandoned'
  <2>1. job[thread[t].n].app \in Apps
    BY <1>7, BusyType DEF SaveInline, SaveStatus, SaveInlineFails, SaveStatusFails, Job, TypeOK
  <2> QED
    BY <1>2, <1>5, <1>6, <1>7, <2>1 DEF SaveInline, SaveStatus, SaveInlineFails, SaveStatusFails
<1>8. CASE UNCHANGED <<app, result>>
  BY <1>8 DEF Abandoned
<1>9. CASE ~Environment /\ ~Reports
  BY <1>8, <1>9 DEF Next, vars, WatcherSteps, SkipEvent, InitiateDeploy, Consume, BuildSpec, Rewatch,
     Reconnect, DeployerSteps, TakeJob, Deploy, SchedulerSteps, RunCheck, Expire, Restart, Start,
     Failures, WatcherFaults, HandleEventFails, BuildSpecFails, RewatchFails, DeployerFaults,
     DeployFails, SchedulerFaults, CheckFails, Crash, apiVars
<1>10. CASE Environment
  BY <1>1, <1>4, <1>8, <1>10 DEF Environment, PodsChange
<1> QED BY <1>7, <1>9, <1>10 DEF Reports

\* A status that says a deploy goes on tells the truth, as long as nothing fails: one
\* of its id is in the daemon (crd/status.py, called by all three threads).
THEOREM OrphanNever == Spec => []NoOrphan
<1> DEFINE Inv == IInv /\ Alive /\ Abandoned /\ NoOrphan
<1>1. Init => Inv
  <2> SUFFICES ASSUME Init PROVE Inv OBVIOUS
  <2>1. IInv
    BY InitInv
  <2>2. Alive
    BY DEF Init, DaemonInit, Alive, Healthy, At
  <2>3. Abandoned /\ NoOrphan
    BY DEF Init, ResourcesInit, Abandoned, NoOrphan
  <2> QED BY <2>1, <2>2, <2>3
<1>2. Inv /\ [Next]_vars => Inv'
  BY InvStep, AliveStep, AbandonedStep, OrphanStep DEF IInv
<1>3. Inv => NoOrphan
  OBVIOUS
<1> QED BY <1>1, <1>2, <1>3, PTL DEF Spec

-----------------------------------------------------------------------------
(* One update, one deploy. *)

\* Of the snapshots of one update only the first can need a deploy: what the daemon
\* writes into the Application makes it one of a status, and a user's change makes
\* it one of another update.  It comes once, and before the job made of it.
Fresh(a) ==
    /\ \A k \in DOMAIN stream[a] : NeedsDeploy(stream[a][k]) =>
         /\ \A n \in 1..jobs : job[n].app = a => job[n].rev < stream[a][k].rev
         /\ \A l \in DOMAIN stream[a] : l < k => stream[a][l].rev < stream[a][k].rev
    /\ NeedsDeploy(app[a]) =>
         /\ \A k \in DOMAIN stream[a] : stream[a][k].rev = app[a].rev => stream[a][k] = app[a]
         /\ app[a] # seen[a] => \A n \in 1..jobs : job[n].app = a => job[n].rev < app[a].rev

JobsApart ==
    \A n, m \in 1..jobs : n < m /\ job[n].app = job[m].app => job[n].rev < job[m].rev

OnceInv == faults = 0 => JobsApart /\ \A a \in Apps : Fresh(a)

LEMMA RevTypes ==
    ASSUME TypeOK
    PROVE  /\ jobs \in Nat
           /\ \A a \in Apps : /\ app[a] \in Application /\ app[a].rev \in Nat
                              /\ stream[a] \in Seq(Application)
                              /\ Len(stream[a]) \in Nat /\ DOMAIN stream[a] = 1..Len(stream[a])
                              /\ \A k \in DOMAIN stream[a] :
                                   stream[a][k] \in Application /\ stream[a][k].rev \in Nat
           /\ \A n \in 1..jobs : job[n] \in Job /\ job[n].app \in Apps /\ job[n].rev \in Nat
<1>1. \A x \in Application : x.rev \in Nat
  BY DEF Application
<1>2. \A a \in Apps : app[a] \in Application /\ stream[a] \in Seq(Application)
  BY DEF TypeOK, ResourcesType
<1>3. ASSUME NEW a \in Apps, NEW k \in DOMAIN stream[a] PROVE stream[a][k] \in Application
  <2>1. stream[a] \in Seq(Application)
    BY <1>2
  <2> QED BY <2>1
<1>4. ASSUME NEW a \in Apps PROVE Len(stream[a]) \in Nat /\ DOMAIN stream[a] = 1..Len(stream[a])
  <2>1. stream[a] \in Seq(Application)
    BY <1>2
  <2> QED BY <2>1
<1>5. jobs \in 0..MaxJobs /\ job \in [1..MaxJobs -> Job]
  BY DEF TypeOK, DaemonType, Tickets
<1>6. \A n \in 1..jobs : job[n] \in Job
  BY <1>5, JobsAssumption DEF JobsAssumption
<1> QED BY <1>1, <1>2, <1>3, <1>4, <1>5, <1>6 DEF Job

\* An Application is modified: by its user, or so that it needs no deploy.
LEMMA FreshModify ==
    ASSUME TypeOK, EventsInOrder, JobsInOrder, \A b \in Apps : Fresh(b),
           job' = job, jobs' = jobs, seen' = seen,
           NEW a \in Apps, NEW new \in Application, Modify(a, new),
           new.rev = app[a].rev + 1 \/ (new.rev = app[a].rev /\ ~NeedsDeploy(new))
    PROVE  \A b \in Apps : Fresh(b)'
<1> USE RevTypes
<1>1. /\ app'[a] = new
      /\ \A b \in Apps : b # a => app'[b] = app[b] /\ stream'[b] = stream[b]
  BY DEF Modify, TypeOK, ResourcesType
<1>2. ASSUME NEW b \in Apps, b # a
      PROVE  Fresh(b)'
  <2>1. Fresh(b) /\ app'[b] = app[b] /\ stream'[b] = stream[b]
    BY <1>1, <1>2
  <2> QED BY <2>1 DEF Fresh
<1>3. CASE new = app[a]
  <2>1. app'[a] = app[a] /\ stream'[a] = stream[a] /\ Fresh(a)
    BY <1>1, <1>3 DEF Modify
  <2>2. Fresh(a)'
    BY <2>1 DEF Fresh
  <2> QED BY <1>2, <2>2
<1>4. CASE new # app[a]
  <2>1. stream'[a] = Append(stream[a], new)
    BY <1>4 DEF Modify, TypeOK, ResourcesType
  <2>2. /\ DOMAIN stream'[a] = 1..(Len(stream[a]) + 1)
        /\ \A k \in DOMAIN stream[a] : stream'[a][k] = stream[a][k]
        /\ stream'[a][Len(stream[a]) + 1] = new
    BY <2>1
  <2>3. \A k \in DOMAIN stream'[a] :
          \/ k \in DOMAIN stream[a] /\ stream'[a][k] = stream[a][k]
          \/ k = Len(stream[a]) + 1 /\ stream'[a][k] = new
    BY <2>2
  <2>4. /\ \A k \in DOMAIN stream[a] : stream[a][k].rev <= app[a].rev
        /\ \A n \in 1..jobs : job[n].app = a => job[n].rev <= app[a].rev
    BY DEF EventsInOrder, EventsOf, JobsInOrder
  <2>5. NeedsDeploy(new) =>
          /\ \A k \in DOMAIN stream[a] : stream[a][k].rev < new.rev
          /\ \A n \in 1..jobs : job[n].app = a => job[n].rev < new.rev
    BY <2>4
  <2>6. ASSUME NEW k \in DOMAIN stream'[a], NeedsDeploy(stream'[a][k])
        PROVE  /\ \A n \in 1..jobs : job[n].app = a => job[n].rev < stream'[a][k].rev
               /\ \A l \in DOMAIN stream'[a] : l < k => stream'[a][l].rev < stream'[a][k].rev
    <3>1. CASE k \in DOMAIN stream[a] /\ stream'[a][k] = stream[a][k]
      <4>1. \A l \in DOMAIN stream'[a] :
              l < k => l \in DOMAIN stream[a] /\ stream'[a][l] = stream[a][l]
        BY <2>3, <3>1
      <4> QED BY <2>6, <3>1, <4>1 DEF Fresh
    <3>2. CASE k = Len(stream[a]) + 1 /\ stream'[a][k] = new
      <4>1. \A l \in DOMAIN stream'[a] :
              l < k => l \in DOMAIN stream[a] /\ stream'[a][l] = stream[a][l]
        BY <2>3, <3>2
      <4> QED BY <2>5, <2>6, <3>2, <4>1
    <3> QED BY <2>3, <3>1, <3>2
  <2>7. NeedsDeploy(new) =>
          /\ \A k \in DOMAIN stream'[a] : stream'[a][k].rev = new.rev => stream'[a][k] = new
          /\ \A n \in 1..jobs : job[n].app = a => job[n].rev < new.rev
    BY <2>3, <2>5
  <2>8. Fresh(a)'
    BY <1>1, <2>6, <2>7 DEF Fresh, NeedsDeploy, SkipStatusEvent
  <2> QED BY <1>2, <2>8
<1> QED BY <1>3, <1>4

\* A new watch lists an Application that was not yet delivered as it is.
LEMMA FreshRelist ==
    ASSUME TypeOK, \A b \in Apps : Fresh(b), job' = job, jobs' = jobs, seen' = seen, app' = app,
           \A a \in Apps : stream'[a] = Relisted(a, seen[a])
    PROVE  \A a \in Apps : Fresh(a)'
<1> SUFFICES ASSUME NEW a \in Apps PROVE Fresh(a)'
  OBVIOUS
<1>1. \A k \in DOMAIN stream'[a] :
        k = 1 /\ DOMAIN stream'[a] = {1} /\ stream'[a][k] = app[a] /\ app[a] # seen[a]
  <2>1. CASE app[a].phase = "gone" \/ app[a] = seen[a]
    <3>1. stream'[a] = << >>
      BY <2>1 DEF Relisted
    <3> QED BY <3>1
  <2>2. CASE ~(app[a].phase = "gone" \/ app[a] = seen[a])
    <3>1. stream'[a] = <<app[a]>>
      BY <2>2 DEF Relisted
    <3> QED BY <2>2, <3>1
  <2> QED BY <2>1, <2>2
<1>2. Fresh(a)
  OBVIOUS
<1> QED BY <1>1, <1>2 DEF Fresh, NeedsDeploy, SkipStatusEvent

\* What a taken event leaves of the others.
LEMMA Consumed ==
    ASSUME TypeOK, NEW a \in Apps, Consume(a)
    PROVE  /\ app' = app
           /\ \A b \in Apps : b # a => stream'[b] = stream[b] /\ seen'[b] = seen[b]
           /\ 1 \in DOMAIN stream[a] /\ Head(stream[a]) = stream[a][1]
           /\ seen'[a] = IF stream[a][1].phase = "gone" THEN Unseen ELSE stream[a][1]
           /\ \A k \in DOMAIN stream'[a] :
                /\ k \in Nat /\ k + 1 \in DOMAIN stream[a] /\ 1 < k + 1
                /\ stream'[a][k] = stream[a][k + 1]
<1>1. stream[a] \in Seq(Application) /\ stream[a] # << >>
  BY DEF Consume, TypeOK, ResourcesType
<1>2. 1 \in DOMAIN stream[a] /\ Head(stream[a]) = stream[a][1]
  BY <1>1
<1>3. stream'[a] = Tail(stream[a])
  BY DEF Consume, TypeOK, ResourcesType
<1>4. \A k \in DOMAIN stream'[a] :
        /\ k \in Nat /\ k + 1 \in DOMAIN stream[a] /\ 1 < k + 1
        /\ stream'[a][k] = stream[a][k + 1]
  BY <1>1, <1>3
<1> QED BY <1>2, <1>4 DEF Consume, TypeOK, ResourcesType

\* An event is taken, and perhaps a job made of it.
LEMMA FreshConsume ==
    ASSUME TypeOK, EventsInOrder, \A b \in Apps : Fresh(b), JobsApart,
           NEW a \in Apps, Consume(a),
           \/ job' = job /\ jobs' = jobs
           \/ /\ NeedsDeploy(Head(stream[a]))
              /\ jobs' = jobs + 1
              /\ \A n \in 1..jobs : job'[n] = job[n]
              /\ job'[jobs + 1].app = a /\ job'[jobs + 1].rev = Head(stream[a]).rev
    PROVE  JobsApart' /\ \A b \in Apps : Fresh(b)'
<1> USE RevTypes, Consumed
<1> DEFINE e == stream[a][1]
<1>1. \A n \in 1..jobs' :
        \/ n \in 1..jobs /\ job'[n] = job[n]
        \/ /\ n = jobs + 1 /\ NeedsDeploy(e)
           /\ job'[n].app = a /\ job'[n].rev = e.rev
  OBVIOUS
<1>2. ASSUME NEW b \in Apps, b # a
      PROVE  Fresh(b)'
  <2>1. Fresh(b) /\ app'[b] = app[b] /\ stream'[b] = stream[b] /\ seen'[b] = seen[b]
    BY <1>2
  <2>2. \A n \in 1..jobs' : job'[n].app = b => n \in 1..jobs /\ job'[n] = job[n]
    BY <1>1, <1>2
  <2> QED BY <2>1, <2>2 DEF Fresh
<1>3. NeedsDeploy(e) => \A n \in 1..jobs : job[n].app = a => job[n].rev < e.rev
  BY DEF Fresh
<1>4. JobsApart'
  <2> SUFFICES ASSUME NEW n \in 1..jobs', NEW m \in 1..jobs', n < m, job'[n].app = job'[m].app
               PROVE  job'[n].rev < job'[m].rev
    BY DEF JobsApart
  <2>1. n \in 1..jobs /\ job'[n] = job[n]
    BY <1>1
  <2>2. CASE m \in 1..jobs /\ job'[m] = job[m]
    BY <2>1, <2>2 DEF JobsApart
  <2>3. CASE /\ m = jobs + 1 /\ NeedsDeploy(e)
             /\ job'[m].app = a /\ job'[m].rev = e.rev
    BY <1>3, <2>1, <2>3
  <2> QED BY <1>1, <2>2, <2>3
<1>5. Fresh(a)'
  <2>1. ASSUME NEW k \in DOMAIN stream'[a], NeedsDeploy(stream'[a][k])
        PROVE  /\ \A n \in 1..jobs' : job'[n].app = a => job'[n].rev < stream'[a][k].rev
               /\ \A l \in DOMAIN stream'[a] : l < k => stream'[a][l].rev < stream'[a][k].rev
    <3>1. k + 1 \in DOMAIN stream[a] /\ stream'[a][k] = stream[a][k + 1] /\ 1 < k + 1
      OBVIOUS
    <3>2. /\ \A n \in 1..jobs : job[n].app = a => job[n].rev < stream[a][k + 1].rev
          /\ \A l \in DOMAIN stream[a] : l < k + 1 => stream[a][l].rev < stream[a][k + 1].rev
      BY <2>1, <3>1 DEF Fresh
    <3>3. e.rev < stream[a][k + 1].rev
      BY <3>1, <3>2
    <3>4. \A n \in 1..jobs' : job'[n].app = a => job'[n].rev < stream'[a][k].rev
      BY <1>1, <3>1, <3>2, <3>3
    <3>5. ASSUME NEW l \in DOMAIN stream'[a], l < k
          PROVE  stream'[a][l].rev < stream'[a][k].rev
      <4>1. l + 1 \in DOMAIN stream[a] /\ stream'[a][l] = stream[a][l + 1] /\ l + 1 < k + 1
        BY <3>1, <3>5
      <4> QED BY <3>1, <3>2, <4>1
    <3> QED BY <3>4, <3>5
  <2>2. ASSUME NeedsDeploy(app[a]), NEW k \in DOMAIN stream'[a], stream'[a][k].rev = app[a].rev
        PROVE  stream'[a][k] = app[a]
    BY <2>2 DEF Fresh
  <2>3. ASSUME NeedsDeploy(app[a]), app[a] # seen'[a], NEW n \in 1..jobs', job'[n].app = a
        PROVE  job'[n].rev < app[a].rev
    <3>1. e.rev <= app[a].rev /\ (e.rev = app[a].rev => e = app[a])
      BY <2>3 DEF Fresh, EventsInOrder, EventsOf
    <3>2. e # app[a]
      BY <2>3 DEF NeedsDeploy
    <3>3. e.rev < app[a].rev
      BY <3>1, <3>2
    <3>4. CASE n \in 1..jobs /\ job'[n] = job[n]
      <4>1. job[n].rev <= e.rev
        BY <2>3, <3>4 DEF EventsInOrder, EventsOf
      <4> QED BY <3>3, <3>4, <4>1
    <3>5. CASE n = jobs + 1 /\ job'[n].rev = e.rev
      BY <3>3, <3>5
    <3> QED BY <1>1, <3>4, <3>5
  <2> QED BY <2>1, <2>2, <2>3 DEF Fresh, NeedsDeploy, SkipStatusEvent
<1> QED BY <1>2, <1>4, <1>5

\* What the user's and the daemon's writes make of an Application.
LEMMA Writes ==
    ASSUME TypeOK, NEW a \in Apps
    PROVE  /\ UserUpdate(a) =>
                \E new \in Application : Modify(a, new) /\ new.rev = app[a].rev + 1
           /\ UserDelete(a) \/ Removed(a) =>
                \E new \in Application :
                  Modify(a, new) /\ new.rev = app[a].rev /\ ~NeedsDeploy(new)
           /\ \A i \in Ids, r \in Results : SaveInlineStatus(a, i, r) =>
                \/ app[a].id # i /\ app' = app /\ stream' = stream
                \/ \E new \in Application :
                     Modify(a, new) /\ new.rev = app[a].rev /\ ~NeedsDeploy(new)
<1>0. app[a] \in Application /\ app[a].rev \in Nat
  BY RevTypes
<1>1. ASSUME UserUpdate(a)
      PROVE  \E new \in Application : Modify(a, new) /\ new.rev = app[a].rev + 1
  <2>1. PICK i \in Ids, bump \in {0, 1}, bad \in BOOLEAN :
          Modify(a, [app[a] EXCEPT !.rev = @ + 1, !.gen = @ + bump, !.id = i, !.bad = bad])
    BY <1>1 DEF UserUpdate
  <2> DEFINE new == [app[a] EXCEPT !.rev = @ + 1, !.gen = @ + bump, !.id = i, !.bad = bad]
  <2>2. app[a].rev + 1 \in 0..MaxRev /\ app[a].gen + bump \in Nat
    BY <1>0, <1>1, MaxRevAssumption DEF UserUpdate, Application, MaxRevAssumption
  <2>3. new \in Application /\ new.rev = app[a].rev + 1
    BY <1>0, <2>2 DEF Application
  <2>4. Modify(a, new)
    BY <2>1
  <2> HIDE DEF new
  <2> QED BY <2>3, <2>4
<1>2. ASSUME NEW p \in {"deleting", "gone"}, Modify(a, [app[a] EXCEPT !.phase = p])
      PROVE  \E new \in Application :
               Modify(a, new) /\ new.rev = app[a].rev /\ ~NeedsDeploy(new)
  <2> DEFINE new == [app[a] EXCEPT !.phase = p]
  <2>1. new \in Application /\ new.rev = app[a].rev /\ new.phase = p
    BY <1>0 DEF Application, Phases
  <2>2. Modify(a, new)
    BY <1>2
  <2> HIDE DEF new
  <2> QED BY <2>1, <2>2 DEF NeedsDeploy
<1>3. ASSUME NEW i \in Ids, NEW r \in Results, SaveInlineStatus(a, i, r), app[a].id = i
      PROVE  \E new \in Application :
               Modify(a, new) /\ new.rev = app[a].rev /\ ~NeedsDeploy(new)
  <2> DEFINE new == [app[a] EXCEPT !.ogen = app[a].gen, !.sid = i, !.res = r]
  <2>1. new \in Application /\ new.rev = app[a].rev
    BY <1>0, InlineStatusRecord
  <2>2. new.ogen = new.gen /\ new.sid = new.id
    BY <1>0, <1>3 DEF Application
  <2>3. Modify(a, new)
    BY <1>3 DEF SaveInlineStatus
  <2> HIDE DEF new
  <2> QED BY <2>1, <2>2, <2>3 DEF NeedsDeploy, SkipStatusEvent
<1>4. UserDelete(a) \/ Removed(a) =>
        \E new \in Application : Modify(a, new) /\ new.rev = app[a].rev /\ ~NeedsDeploy(new)
  BY <1>2 DEF UserDelete, Removed
<1>5. \A i \in Ids, r \in Results : SaveInlineStatus(a, i, r) =>
        \/ app[a].id # i /\ app' = app /\ stream' = stream
        \/ \E new \in Application : Modify(a, new) /\ new.rev = app[a].rev /\ ~NeedsDeploy(new)
  BY <1>3 DEF SaveInlineStatus
<1> QED BY <1>1, <1>4, <1>5

LEMMA OnceStep ==
    ASSUME IInv, Alive, OnceInv, [Next]_vars
    PROVE  OnceInv'
<1> SUFFICES ASSUME faults' = 0 PROVE JobsApart' /\ \A a \in Apps : Fresh(a)'
  BY DEF OnceInv
<1>1. TypeOK /\ EventsInOrder /\ JobsInOrder /\ faults = 0 /\ [CalmNext]_vars
  BY CalmStep DEF IInv
<1>2. JobsApart /\ \A a \in Apps : Fresh(a)
  BY <1>1 DEF OnceInv
<1>3. ASSUME job' = job, jobs' = jobs
      PROVE  JobsApart'
  BY <1>2, <1>3 DEF JobsApart
<1>4. ASSUME job' = job, jobs' = jobs, app' = app, stream' = stream, seen' = seen
      PROVE  \A a \in Apps : Fresh(a)'
  BY <1>2, <1>4 DEF Fresh
<1>5. CASE Environment /\ UNCHANGED daemonVars
  <2>1. job' = job /\ jobs' = jobs
    BY <1>5 DEF daemonVars
  <2>2. ASSUME NEW a \in Apps, UserUpdate(a) \/ UserDelete(a) \/ Removed(a)
        PROVE  \A b \in Apps : Fresh(b)'
    <3>1. seen' = seen
      BY <2>2 DEF UserUpdate, UserDelete, Removed
    <3> QED BY <1>1, <1>2, <2>1, <2>2, <3>1, Writes, FreshModify
  <2>3. ASSUME NEW a \in Apps, PodsChange(a)
        PROVE  \A b \in Apps : Fresh(b)'
    BY <1>4, <2>1, <2>3 DEF PodsChange
  <2> QED BY <1>3, <1>5, <2>1, <2>2, <2>3 DEF Environment
<1>6. ASSUME NEW t \in Threads, SaveInline(t) \/ SaveStatus(t)
      PROVE  JobsApart' /\ \A a \in Apps : Fresh(a)'
  <2> DEFINE j == job[thread[t].n]
  <2>1. job' = job /\ jobs' = jobs /\ seen' = seen
    BY <1>6 DEF SaveInline, SaveStatus
  <2>2. j.app \in Apps /\ j.id \in Ids /\ thread[t].res \in Results
    BY <1>1, <1>6, BusyType DEF SaveInline, SaveStatus, TypeOK, Job
  <2>3. CASE SaveInlineStatus(j.app, j.id, thread[t].res)
    BY <1>1, <1>2, <1>3, <1>4, <2>1, <2>2, <2>3, Writes, FreshModify
  <2>4. CASE app' = app /\ stream' = stream
    BY <1>3, <1>4, <2>1, <2>4
  <2> QED BY <1>6, <2>3, <2>4 DEF SaveInline, SaveStatus
<1>7. ASSUME NEW a \in Apps, SkipEvent(a)
      PROVE  JobsApart' /\ \A b \in Apps : Fresh(b)'
  <2>1. job' = job /\ jobs' = jobs /\ Consume(a)
    BY <1>7 DEF SkipEvent, daemonVars
  <2> QED BY <1>1, <1>2, <2>1, FreshConsume
<1>8. ASSUME NEW a \in Apps, InitiateDeploy(a)
      PROVE  JobsApart' /\ \A b \in Apps : Fresh(b)'
  <2>1. /\ Consume(a) /\ NeedsDeploy(Head(stream[a])) /\ jobs' = jobs + 1
        /\ job' = [job EXCEPT ![jobs + 1] = JobOf(a, Head(stream[a]))]
    BY <1>8 DEF InitiateDeploy
  <2>4. jobs + 1 \in Tickets
    BY <1>1, <1>8, JobsAssumption, RevTypes DEF InitiateDeploy, JobsAssumption, Tickets
  <2>2. /\ \A n \in 1..jobs : job'[n] = job[n]
        /\ job'[jobs + 1] = JobOf(a, Head(stream[a]))
    BY <1>1, <2>1, <2>4, RevTypes DEF TypeOK, DaemonType
  <2>3. job'[jobs + 1].app = a /\ job'[jobs + 1].rev = Head(stream[a]).rev
    BY <2>2 DEF JobOf
  <2> QED BY <1>1, <1>2, <2>1, <2>2, <2>3, FreshConsume
<1>9. CASE Rewatch \/ Reconnect
  <2>1. /\ job' = job /\ jobs' = jobs /\ app' = app /\ seen' = seen
        /\ \A a \in Apps : stream'[a] = Relisted(a, seen[a])
    BY <1>9 DEF Rewatch, Reconnect, daemonVars
  <2> QED BY <1>1, <1>2, <1>3, <2>1, FreshRelist
<1>10. CASE BuildSpec \/ DeployerSteps \/ SchedulerSteps \/ UNCHANGED vars
  <2>1. job' = job /\ jobs' = jobs /\ app' = app /\ stream' = stream /\ seen' = seen
    BY <1>10 DEF BuildSpec, DeployerSteps, TakeJob, Deploy, SchedulerSteps, RunCheck, Expire,
       apiVars, vars
  <2> QED BY <1>3, <1>4, <2>1
<1> QED
  BY <1>1, <1>5, <1>6, <1>7, <1>8, <1>9, <1>10 DEF CalmNext, WatcherSteps

LEMMA OnceInit == Init => IInv /\ Alive /\ OnceInv
<1> SUFFICES ASSUME Init PROVE IInv /\ Alive /\ OnceInv OBVIOUS
<1>1. IInv
  BY InitInv
<1>2. Alive
  BY DEF Init, DaemonInit, Alive, Healthy, At
<1>3. jobs = 0
  BY DEF Init, DaemonInit
<1>4. JobsApart
  BY <1>3 DEF JobsApart
<1>5. ASSUME NEW a \in Apps
      PROVE  Fresh(a)
  <2>1. app[a] = Created /\ stream[a] = <<Created>>
    BY DEF Init, ResourcesInit
  <2>2. DOMAIN stream[a] = {1} /\ stream[a][1] = Created
    BY <2>1
  <2> QED BY <1>3, <2>1, <2>2 DEF Fresh
<1> QED BY <1>1, <1>2, <1>4, <1>5 DEF OnceInv

LEMMA OnceInductive == Spec => [](IInv /\ Alive /\ OnceInv)
<1>1. IInv /\ Alive /\ OnceInv /\ [Next]_vars => (IInv /\ Alive /\ OnceInv)'
  BY InvStep, AliveStep, OnceStep DEF IInv
<1> QED BY <1>1, OnceInit, PTL DEF Spec

\* One update of a user starts one deploy, until something fails: no status the daemon
\* writes into the Application, no list of a new watch and no id that is used again
\* starts another (_skip_status_event in crd/watcher.py).
THEOREM UpdatesDeployOnce == Spec => [](faults = 0 => OneDeployPerUpdate)
<1>1. IInv /\ Alive /\ OnceInv => (faults = 0 => OneDeployPerUpdate)
  <2> SUFFICES ASSUME IInv, OnceInv, faults = 0, NEW n \in 1..jobs, NEW m \in 1..jobs,
                      job[n].app = job[m].app, job[n].rev = job[m].rev, n # m
               PROVE  FALSE
    BY DEF OneDeployPerUpdate
  <2>1. job[n].rev \in Nat /\ (n < m \/ m < n)
    BY RevTypes DEF IInv
  <2> QED BY <2>1 DEF OnceInv, JobsApart
<1> QED BY <1>1, OnceInductive, PTL

-----------------------------------------------------------------------------
(* The two places that show a result. *)

\* Where no id is used again, the number of the update and its id are the same.
OwnIds ==
    /\ \A a \in Apps :
         /\ app[a].id = app[a].rev /\ app[a].sid <= app[a].rev
         /\ \A k \in DOMAIN stream[a] : stream[a][k].id = stream[a][k].rev
    /\ \A n \in 1..jobs : job[n].id = job[n].rev

\* Without the flag nothing is written into an Application.
InlineOnly ==
    ~InlineStatus =>
      /\ \A t \in Threads : thread[t].pc # "inline"
      /\ \A a \in Apps : app[a].sid = 0

\* A status shows what was reported last for a job of its id.
StatusesReported ==
    \A a \in Apps, i \in Ids :
      result[a][i] # "NONE" =>
        \E n \in 1..jobs : job[n].app = a /\ job[n].id = i /\ result[a][i] = reported[n]

\* So does an Application that carries the status of its own id: that of the job made
\* of its last update, or what a thread between the two writes is about to report.
Writing(t, n) == thread[t].n = n /\ thread[t].pc = "status"
OwnStatus(a) ==
    app[a].sid = app[a].id =>
      /\ \E n \in 1..jobs : job[n].app = a /\ job[n].rev = app[a].rev
      /\ \A n \in 1..jobs : job[n].app = a /\ job[n].rev = app[a].rev =>
           /\ \A t \in Threads : Writing(t, n) => app[a].res = thread[t].res
           /\ (\A t \in Threads : ~Writing(t, n)) => app[a].res = reported[n]

AgreeInv ==
    faults = 0 => OwnIds /\ InlineOnly /\ StatusesReported /\ \A a \in Apps : OwnStatus(a)

\* A thread that writes has a job, and no other thread has it.
LEMMA WriterHasJob ==
    ASSUME IInv, NEW t \in Threads, thread[t].pc \in {"inline", "status"}
    PROVE  /\ thread[t].n \in 1..jobs /\ thread[t].n \in Tickets
           /\ \A u \in Threads : u # t => thread[u].n # thread[t].n
<1>1. TypeOK /\ thread[t].n \in Tickets /\ thread[t].n <= jobs /\ jobs \in Nat
  BY IdleHasNoJob, OnePlace, RevTypes DEF IInv
<1> QED BY <1>1, OnePlace DEF Tickets, IInv

\* What a thread writes into the Application, if it is there and carries the id of the job.
LEMMA InlineWritten ==
    ASSUME TypeOK, NEW t \in Threads, SaveInline(t), NEW a \in Apps
    PROVE  LET j == job[thread[t].n] IN
           \/ app'[a] = app[a] /\ Become(t, AfterException(t, "api"))
           \/ /\ app'[a] = app[a] /\ Become(t, [thread[t] EXCEPT !.pc = "status"])
              /\ j.app # a \/ j.id # app[a].id
           \/ /\ Become(t, [thread[t] EXCEPT !.pc = "status"])
              /\ j.app = a /\ j.id = app[a].id
              /\ app'[a].rev = app[a].rev /\ app'[a].id = app[a].id
              /\ app'[a].sid = app[a].id /\ app'[a].res = thread[t].res
<1>0. app[a] \in Application
  BY DEF TypeOK, ResourcesType
<1> DEFINE j == job[thread[t].n]
           new == [app[a] EXCEPT !.ogen = app[a].gen, !.sid = j.id, !.res = thread[t].res]
<1>1. j.app \in Apps
  BY BusyType DEF SaveInline, TypeOK, Job
<1>2. ASSUME NEW b \in Apps, NEW x, Modify(b, x)
      PROVE  app'[b] = x /\ (a # b => app'[a] = app[a])
  BY <1>2 DEF Modify, TypeOK, ResourcesType
<1>3. new.rev = app[a].rev /\ new.id = app[a].id /\ new.sid = j.id /\ new.res = thread[t].res
  BY <1>0 DEF Application
<1>4. \/ app' = app /\ Become(t, AfterException(t, "api"))
      \/ /\ SaveInlineStatus(j.app, j.id, thread[t].res)
         /\ Become(t, [thread[t] EXCEPT !.pc = "status"])
  BY DEF SaveInline
<1>5. CASE SaveInlineStatus(j.app, j.id, thread[t].res) /\ j.app = a /\ j.id = app[a].id
  <2>1. Modify(a, new)
    BY <1>5 DEF SaveInlineStatus
  <2> HIDE DEF new, j
  <2>2. app'[a] = new
    BY <1>2, <2>1
  <2>3. /\ app'[a].rev = app[a].rev /\ app'[a].id = app[a].id
        /\ app'[a].sid = app[a].id /\ app'[a].res = thread[t].res
    BY <1>3, <1>5, <2>2
  <2>4. app' = app => app'[a] = app[a]
    OBVIOUS
  <2> QED BY <1>4, <1>5, <2>3, <2>4 DEF j
<1>6. CASE SaveInlineStatus(j.app, j.id, thread[t].res) /\ (j.app # a \/ j.id # app[a].id)
  <2>1. app'[a] = app[a]
    BY <1>1, <1>2, <1>6 DEF SaveInlineStatus
  <2> HIDE DEF new, j
  <2> QED BY <1>4, <1>6, <2>1 DEF j
<1> HIDE DEF new, j
<1> QED BY <1>4, <1>5, <1>6 DEF j

\* What users and controllers change of an Application.
LEMMA EnvironmentWrites ==
    ASSUME TypeOK, Environment, NEW a \in Apps
    PROVE  \/ /\ app'[a].rev = app[a].rev /\ app'[a].id = app[a].id
              /\ app'[a].sid = app[a].sid /\ app'[a].res = app[a].res
           \/ /\ app'[a].rev = app[a].rev + 1 /\ app'[a].sid = app[a].sid
              /\ ReuseIds \/ app'[a].id = app'[a].rev
<1>0. app[a] \in Application
  BY DEF TypeOK, ResourcesType
<1> DEFINE Same == /\ app'[a].rev = app[a].rev /\ app'[a].id = app[a].id
                   /\ app'[a].sid = app[a].sid /\ app'[a].res = app[a].res
<1>1. ASSUME NEW b \in Apps, NEW new, Modify(b, new)
      PROVE  app'[b] = new /\ (a # b => app'[a] = app[a])
  BY <1>1 DEF Modify, TypeOK, ResourcesType
<1>2. ASSUME NEW b \in Apps, NEW p, Modify(b, [app[b] EXCEPT !.phase = p])
      PROVE  Same
  <2>1. CASE a # b
    BY <1>1, <1>2, <2>1
  <2>2. CASE a = b
    <3>1. app'[a] = [app[a] EXCEPT !.phase = p]
      BY <1>1, <1>2, <2>2
    <3> QED BY <1>0, <3>1 DEF Application
  <2> QED BY <2>1, <2>2
<1>3. ASSUME NEW b \in Apps, UserDelete(b) \/ Removed(b)
      PROVE  Same
  BY <1>2, <1>3 DEF UserDelete, Removed
<1>4. ASSUME UserUpdate(a)
      PROVE  /\ app'[a].rev = app[a].rev + 1 /\ app'[a].sid = app[a].sid
             /\ ReuseIds \/ app'[a].id = app'[a].rev
  <2>1. PICK i \in Ids, bump \in {0, 1}, bad \in BOOLEAN :
          /\ ReuseIds \/ i = app[a].rev + 1
          /\ Modify(a, [app[a] EXCEPT !.rev = @ + 1, !.gen = @ + bump, !.id = i, !.bad = bad])
    BY <1>4 DEF UserUpdate
  <2> DEFINE new == [app[a] EXCEPT !.rev = @ + 1, !.gen = @ + bump, !.id = i, !.bad = bad]
  <2>2. new.rev = app[a].rev + 1 /\ new.sid = app[a].sid /\ new.id = i
    BY <1>0 DEF Application
  <2>3. Modify(a, new)
    BY <2>1
  <2> HIDE DEF new
  <2> QED BY <1>1, <2>1, <2>2, <2>3
<1>5. ASSUME NEW b \in Apps, UserUpdate(b), a # b
      PROVE  Same
  BY <1>1, <1>5 DEF UserUpdate
<1>6. ASSUME NEW b \in Apps, PodsChange(b)
      PROVE  Same
  BY <1>6 DEF PodsChange
<1> QED BY <1>3, <1>4, <1>5, <1>6 DEF Environment

\* How the steps without failures change an Application.
LEMMA AppStep ==
    ASSUME TypeOK, [CalmNext]_vars, NEW a \in Apps
    PROVE  \/ /\ app'[a].rev = app[a].rev /\ app'[a].id = app[a].id
              /\ app'[a].sid = app[a].sid
           \/ /\ app'[a].rev = app[a].rev + 1 /\ app'[a].sid = app[a].sid
              /\ ReuseIds \/ app'[a].id = app'[a].rev
           \/ /\ app'[a].rev = app[a].rev /\ app'[a].id = app[a].id
              /\ app'[a].sid = app[a].id
              /\ \E t \in Threads : SaveInline(t)
<1>1. CASE app' = app
  BY <1>1
<1>2. CASE \/ WatcherSteps \/ Reconnect \/ DeployerSteps \/ SchedulerSteps \/ UNCHANGED vars
           \/ \E t \in Threads : SaveStatus(t)
  <2>1. app' = app
    BY <1>2 DEF vars, SaveStatus, WatcherSteps, SkipEvent, InitiateDeploy, Consume, BuildSpec,
       Rewatch, Reconnect, DeployerSteps, TakeJob, Deploy, SchedulerSteps, RunCheck, Expire,
       apiVars
  <2> QED BY <1>1, <2>1
<1>3. CASE Environment
  BY <1>3, EnvironmentWrites
<1>4. ASSUME NEW t \in Threads, SaveInline(t)
      PROVE  \/ app'[a] = app[a]
             \/ /\ app'[a].rev = app[a].rev /\ app'[a].id = app[a].id
                /\ app'[a].sid = app[a].id
  BY <1>4, InlineWritten
<1> QED BY <1>2, <1>3, <1>4 DEF CalmNext

\* An event on its way was on its way before, or shows the Application as it is now.
LEMMA EventStep ==
    ASSUME TypeOK, [CalmNext]_vars, NEW a \in Apps, NEW k \in DOMAIN stream'[a]
    PROVE  \/ stream'[a][k] = app'[a]
           \/ \E l \in DOMAIN stream[a] : stream'[a][k] = stream[a][l]
<1>0. stream[a] \in Seq(Application) /\ Len(stream[a]) \in Nat /\ DOMAIN stream[a] = 1..Len(stream[a])
  BY RevTypes
<1>1. CASE stream'[a] = stream[a]
  BY <1>1
<1>2. ASSUME NEW b \in Apps, NEW new, Modify(b, new)
      PROVE  \/ stream'[a][k] = app'[a]
             \/ \E l \in DOMAIN stream[a] : stream'[a][k] = stream[a][l]
  <2>1. CASE new # app[b] /\ a = b
    <3>1. stream'[a] = Append(stream[a], new) /\ app'[a] = new
      BY <1>2, <2>1 DEF Modify, TypeOK, ResourcesType
    <3>2. (k \in DOMAIN stream[a] /\ stream'[a][k] = stream[a][k]) \/ stream'[a][k] = new
      BY <1>0, <3>1
    <3> QED BY <3>1, <3>2
  <2>2. CASE ~(new # app[b] /\ a = b)
    <3>1. stream'[a] = stream[a]
      BY <1>2, <2>2 DEF Modify, TypeOK, ResourcesType
    <3> QED BY <1>1, <3>1
  <2> QED BY <2>1, <2>2
<1>3. ASSUME NEW b \in Apps, Consume(b)
      PROVE  \/ stream'[a][k] = app'[a]
             \/ \E l \in DOMAIN stream[a] : stream'[a][k] = stream[a][l]
  BY <1>1, <1>3, Consumed
<1>4. CASE Environment
  BY <1>1, <1>2, <1>4 DEF Environment, UserUpdate, UserDelete, Removed, PodsChange
<1>5. ASSUME NEW t \in Threads, SaveInline(t) \/ SaveStatus(t)
      PROVE  \/ stream'[a][k] = app'[a]
             \/ \E l \in DOMAIN stream[a] : stream'[a][k] = stream[a][l]
  <2>1. job[thread[t].n].app \in Apps
    BY <1>5, BusyType DEF SaveInline, SaveStatus, TypeOK, Job
  <2> QED BY <1>1, <1>2, <1>5, <2>1 DEF SaveInline, SaveStatus, SaveInlineStatus
<1>6. CASE Rewatch \/ Reconnect
  <2>1. stream'[a] = Relisted(a, seen[a]) /\ app' = app
    BY <1>6 DEF Rewatch, Reconnect
  <2>2. stream'[a] = << >> \/ stream'[a] = <<app[a]>>
    BY <2>1 DEF Relisted
  <2> QED BY <2>1, <2>2
<1>7. CASE BuildSpec \/ DeployerSteps \/ SchedulerSteps \/ UNCHANGED vars
  BY <1>1, <1>7 DEF BuildSpec, DeployerSteps, TakeJob, Deploy, SchedulerSteps, RunCheck, Expire,
     apiVars, vars
<1> QED
  BY <1>3, <1>4, <1>5, <1>6, <1>7
  DEF CalmNext, WatcherSteps, SkipEvent, InitiateDeploy

LEMMA OwnIdsStep ==
    ASSUME TypeOK, [CalmNext]_vars, OwnIds, ~ReuseIds
    PROVE  OwnIds'
<1> USE RevTypes
<1>1. ASSUME NEW a \in Apps
      PROVE  app'[a].id = app'[a].rev /\ app'[a].sid <= app'[a].rev
  <2>1. app[a].id = app[a].rev /\ app[a].sid <= app[a].rev /\ app[a].sid \in Nat
    BY DEF OwnIds, Application
  <2>2. \/ /\ app'[a].rev = app[a].rev /\ app'[a].id = app[a].id /\ app'[a].sid = app[a].sid
        \/ /\ app'[a].rev = app[a].rev + 1 /\ app'[a].sid = app[a].sid
           /\ app'[a].id = app'[a].rev
        \/ /\ app'[a].rev = app[a].rev /\ app'[a].id = app[a].id /\ app'[a].sid = app[a].id
    BY AppStep, Zenon
  <2> QED BY <2>1, <2>2
<1>2. ASSUME NEW a \in Apps, NEW k \in DOMAIN stream'[a]
      PROVE  stream'[a][k].id = stream'[a][k].rev
  BY <1>1, EventStep DEF OwnIds
<1>3. ASSUME NEW a \in Apps, InitiateDeploy(a), NEW n \in 1..jobs'
      PROVE  job'[n].id = job'[n].rev
  <2>1. /\ Consume(a) /\ jobs' = jobs + 1
        /\ job' = [job EXCEPT ![jobs + 1] = JobOf(a, Head(stream[a]))]
    BY <1>3 DEF InitiateDeploy
  <2>2. Head(stream[a]).id = Head(stream[a]).rev
    BY <2>1, Consumed DEF OwnIds
  <2>3. n = jobs + 1 \/ (n # jobs + 1 /\ n \in 1..jobs)
    BY <2>1
  <2>4. n \in DOMAIN job
    BY <1>3, <2>1, <2>3, JobsAssumption
    DEF InitiateDeploy, TypeOK, DaemonType, Tickets, JobsAssumption
  <2> QED BY <2>1, <2>2, <2>3, <2>4 DEF OwnIds, JobOf
<1>4. CASE job' = job /\ jobs' = jobs
  BY <1>1, <1>2, <1>4 DEF OwnIds
<1>5. CASE ~(\E a \in Apps : InitiateDeploy(a))
  <2>1. job' = job /\ jobs' = jobs
    BY <1>5 DEF CalmNext, vars, daemonVars, SaveInline, SaveStatus, WatcherSteps, SkipEvent,
       BuildSpec, Rewatch, Reconnect, DeployerSteps, TakeJob, Deploy, SchedulerSteps, RunCheck,
       Expire
  <2> QED BY <1>4, <2>1
<1> QED BY <1>1, <1>2, <1>3, <1>5 DEF OwnIds

LEMMA InlineOnlyStep ==
    ASSUME TypeOK, [CalmNext]_vars, InlineOnly
    PROVE  InlineOnly'
<1> SUFFICES ASSUME ~InlineStatus
             PROVE  /\ \A t \in Threads : thread'[t].pc # "inline"
                    /\ \A a \in Apps : app'[a].sid = 0
  BY DEF InlineOnly
<1>1. /\ \A t \in Threads : thread[t].pc # "inline"
      /\ \A a \in Apps : app[a].sid = 0
  BY DEF InlineOnly
<1>2. \A t \in Threads : ~SaveInline(t)
  BY <1>1 DEF SaveInline
<1>3. \A a \in Apps : app'[a].sid = 0
  BY <1>1, <1>2, AppStep
<1>4. ASSUME NEW t \in Threads, NEW state, Become(t, state), state.pc # "inline"
      PROVE  \A u \in Threads : thread'[u].pc # "inline"
  BY <1>1, <1>4, BecomeFrame
<1>5. \A n, r : Report(n, r).pc # "inline" /\ At("idle").pc # "inline"
  BY DEF Report, FirstWrite, At
<1>6. ASSUME NEW t \in Threads
      PROVE  AfterReport(t).pc # "inline"
  BY <1>5, GoesOn DEF AfterReport
<1>7. CASE thread' = thread
  BY <1>1, <1>3, <1>7
<1>8. CASE \E t \in Threads : SaveStatus(t)
  BY <1>3, <1>4, <1>6, <1>8 DEF SaveStatus
<1>9. CASE WatcherSteps \/ DeployerSteps \/ SchedulerSteps
  <2>1. thread' = thread
        \/ \E t \in Threads : Become(t, At("idle")) \/ \E n, r : Become(t, Report(n, r))
    BY <1>9 DEF WatcherSteps, SkipEvent, InitiateDeploy, BuildSpec, Rewatch, daemonVars,
       DeployerSteps, TakeJob, Deploy, SchedulerSteps, RunCheck, Expire, Threads
  <2> QED BY <1>3, <1>4, <1>5, <1>7, <2>1
<1> QED BY <1>2, <1>7, <1>8, <1>9 DEF CalmNext, Reconnect, vars, daemonVars

LEMMA StatusesReportedStep ==
    ASSUME IInv, Abandoned, OwnIds, StatusesReported, [CalmNext]_vars, [Next]_vars
    PROVE  StatusesReported'
<1>0. TypeOK
  BY DEF IInv
<1> SUFFICES ASSUME NEW a \in Apps, NEW i \in Ids, result'[a][i] # "NONE"
             PROVE  \E n \in 1..jobs' :
                      job'[n].app = a /\ job'[n].id = i /\ result'[a][i] = reported'[n]
  BY DEF StatusesReported
<1>1. ASSUME NEW n \in 1..jobs, job[n].app = a, job[n].id = i, result'[a][i] = reported'[n]
      PROVE  \E m \in 1..jobs' :
               job'[m].app = a /\ job'[m].id = i /\ result'[a][i] = reported'[m]
  BY <1>0, <1>1, JobsKept
<1>2. ASSUME reported' = reported, result'[a][i] = result[a][i]
      PROVE  \E m \in 1..jobs' :
               job'[m].app = a /\ job'[m].id = i /\ result'[a][i] = reported'[m]
  BY <1>1, <1>2 DEF StatusesReported
<1>3. ASSUME NEW t \in Threads, SaveStatus(t)
      PROVE  \E m \in 1..jobs' :
               job'[m].app = a /\ job'[m].id = i /\ result'[a][i] = reported'[m]
  <2> DEFINE n == thread[t].n
             j == job[n]
  <2>1. n \in 1..jobs /\ n \in Tickets
    BY <1>3, WriterHasJob DEF SaveStatus
  <2>2. reported' = [reported EXCEPT ![n] = thread[t].res]
    BY <1>3 DEF SaveStatus
  <2>3. reported'[n] = thread[t].res /\ \A m \in Tickets : m # n => reported'[m] = reported[m]
    BY <1>0, <2>1, <2>2 DEF TypeOK, DaemonType
  <2>4. app[a].phase # "gone"
    BY <1>0, <1>3, StatusWritten DEF Abandoned
  <2>5. CASE j.app = a /\ j.id = i
    <3>1. result'[a][i] = thread[t].res
      BY <1>0, <1>3, <2>4, <2>5, StatusWritten
    <3> QED BY <1>1, <2>1, <2>3, <2>5, <3>1
  <2>6. CASE ~(j.app = a /\ j.id = i)
    <3>1. result'[a][i] = result[a][i]
      BY <1>0, <1>3, <2>4, <2>6, StatusWritten
    <3>2. PICK m \in 1..jobs : job[m].app = a /\ job[m].id = i /\ result[a][i] = reported[m]
      BY <3>1 DEF StatusesReported
    <3>3. m \in Tickets
      BY <1>0, JobsAssumption DEF TypeOK, DaemonType, Tickets, JobsAssumption
    <3> QED BY <1>1, <2>3, <2>6, <3>1, <3>2, <3>3
  <2> QED BY <2>5, <2>6
<1>4. CASE ~(\E t \in Threads : SaveStatus(t))
  <2>1. reported' = reported
    BY <1>4 DEF CalmNext, vars, daemonVars, SaveInline, WatcherSteps, SkipEvent, InitiateDeploy,
       BuildSpec, Rewatch, Reconnect, DeployerSteps, TakeJob, Deploy, SchedulerSteps, RunCheck,
       Expire
  <2>2. result' = result \/ \E b \in Apps : Removed(b)
    BY <1>0, <1>4, ResultStep
  <2>3. result'[a][i] = result[a][i]
    <3>1. ASSUME NEW b \in Apps, Removed(b)
          PROVE  result'[a][i] = result[a][i]
      <4>1. result' = [result EXCEPT ![b] = [k \in Ids |-> "NONE"]]
        BY <3>1 DEF Removed
      <4>2. a = b => result'[a][i] = "NONE"
        BY <1>0, <4>1 DEF TypeOK, ResourcesType
      <4>3. a # b => result'[a] = result[a]
        BY <4>1, <1>0 DEF TypeOK, ResourcesType
      <4> QED BY <4>2, <4>3
    <3> QED BY <2>2, <3>1
  <2> QED BY <1>2, <2>1, <2>3
<1> QED BY <1>3, <1>4

\* What an Application shows is kept by a step after which the same threads are about
\* to report the same on the job it shows.
LEMMA OwnStatusKept ==
    ASSUME TypeOK, [Next]_vars, NEW a \in Apps, OwnStatus(a), jobs' = jobs,
           app'[a].rev = app[a].rev, app'[a].id = app[a].id, app'[a].sid = app[a].sid,
           app'[a].res = app[a].res,
           \A n \in 1..jobs : job[n].app = a /\ job[n].rev = app[a].rev =>
             /\ reported'[n] = reported[n]
             /\ \A t \in Threads : \/ thread'[t] = thread[t]
                                   \/ ~Writing(t, n) /\ ~Writing(t, n)'
    PROVE  OwnStatus(a)'
<1>1. \A n \in 1..jobs : job'[n] = job[n]
  BY JobsKept
<1>2. \A t \in Threads, n \in 1..jobs :
        job[n].app = a /\ job[n].rev = app[a].rev =>
          (Writing(t, n) <=> Writing(t, n)') /\ (Writing(t, n) => thread'[t] = thread[t])
  BY DEF Writing
<1> QED BY <1>1, <1>2 DEF OwnStatus

LEMMA OwnStatusStep ==
    ASSUME IInv, JobsApart, JobsApart', OwnIds, InlineOnly, [CalmNext]_vars, [Next]_vars,
           ~ReuseIds, NEW a \in Apps, OwnStatus(a)
    PROVE  OwnStatus(a)'
<1>0. TypeOK /\ app[a].id \in Nat \ {0} /\ app[a].rev \in Nat /\ jobs \in Nat
  <2>1. TypeOK
    BY DEF IInv
  <2> QED BY <2>1, RevTypes DEF Application, Ids
<1>1. \A n, m \in 1..jobs : job[n].app = a /\ job[m].app = a /\ job[n].rev = job[m].rev => n = m
  BY <1>0, RevTypes DEF JobsApart
<1>2. CASE Environment /\ UNCHANGED daemonVars
  <2>1. jobs' = jobs /\ reported' = reported /\ thread' = thread
    BY <1>2 DEF daemonVars
  <2>2. CASE app'[a].rev = app[a].rev + 1 /\ app'[a].sid = app[a].sid /\ app'[a].id = app'[a].rev
    <3>1. app[a].sid \in Nat /\ app[a].sid <= app[a].rev
      BY <1>0, RevTypes DEF OwnIds, Application
    <3>2. app'[a].sid # app'[a].id
      BY <1>0, <2>2, <3>1
    <3> QED BY <3>2 DEF OwnStatus
  <2>3. CASE /\ app'[a].rev = app[a].rev /\ app'[a].id = app[a].id
             /\ app'[a].sid = app[a].sid /\ app'[a].res = app[a].res
    BY <1>0, <2>1, <2>3, OwnStatusKept
  <2> QED BY <1>0, <1>2, <2>2, <2>3, EnvironmentWrites
<1>3. ASSUME NEW t \in Threads, SaveInline(t)
      PROVE  OwnStatus(a)'
  <2> DEFINE n == thread[t].n
  <2>1. /\ jobs' = jobs /\ reported' = reported /\ job' = job
        /\ thread[t].pc = "inline" /\ InlineStatus
        /\ n \in 1..jobs /\ n # 0
        /\ \A u \in Threads : u # t => thread[u].n # n
    BY <1>0, <1>3, WriterHasJob DEF SaveInline, InlineOnly
  <2>2. CASE app'[a] = app[a] /\ Become(t, AfterException(t, "api"))
    <3>1. AfterException(t, "api").pc # "status"
      BY <2>1 DEF AfterException, At, Report, FirstWrite
    <3>2. \A u \in Threads :
            thread'[u] = thread[u] \/ (thread[u].pc # "status" /\ thread'[u].pc # "status")
      BY <1>0, <2>1, <2>2, <3>1, BecomeFrame
    <3> QED BY <1>0, <2>1, <2>2, <3>2, OwnStatusKept DEF Writing
  <2>3. ASSUME Become(t, [thread[t] EXCEPT !.pc = "status"])
        PROVE  /\ thread'[t].pc = "status" /\ thread'[t].n = n /\ thread'[t].res = thread[t].res
               /\ \A u \in Threads : u # t => thread'[u] = thread[u]
    <3>1. /\ thread'[t] = [thread[t] EXCEPT !.pc = "status"]
          /\ \A u \in Threads : u # t => thread'[u] = thread[u]
      BY <1>0, <2>3, BecomeFrame
    <3> QED BY <1>0, <3>1, GoesOn
  <2>4. CASE /\ app'[a] = app[a] /\ Become(t, [thread[t] EXCEPT !.pc = "status"])
             /\ job[n].app # a \/ job[n].id # app[a].id
    <3>1. \A m \in 1..jobs : job[m].app = a /\ job[m].rev = app[a].rev => m # n
      BY <2>4 DEF OwnIds
    <3> QED BY <1>0, <2>1, <2>3, <2>4, <3>1, OwnStatusKept DEF Writing
  <2>5. CASE /\ Become(t, [thread[t] EXCEPT !.pc = "status"])
             /\ job[n].app = a /\ job[n].id = app[a].id
             /\ app'[a].rev = app[a].rev /\ app'[a].id = app[a].id
             /\ app'[a].sid = app[a].id /\ app'[a].res = thread[t].res
    <3>1. job[n].rev = app[a].rev
      BY <2>1, <2>5 DEF OwnIds
    <3>2. \A m \in 1..jobs : job[m].app = a /\ job[m].rev = app[a].rev => m = n
      BY <1>1, <2>1, <2>5, <3>1
    <3>3. \A u \in Threads : Writing(u, n)' <=> u = t
      BY <2>1, <2>3, <2>5 DEF Writing
    <3> QED BY <2>1, <2>3, <2>5, <3>1, <3>2, <3>3 DEF OwnStatus
  <2> QED BY <1>0, <1>3, <2>2, <2>4, <2>5, InlineWritten
<1>4. ASSUME NEW t \in Threads, SaveStatus(t)
      PROVE  OwnStatus(a)'
  <2>1. PICK n \in 1..jobs :
          /\ jobs' = jobs /\ job' = job /\ app' = app
          /\ thread[t].pc = "status" /\ Become(t, AfterReport(t))
          /\ n = thread[t].n /\ n \in Tickets
          /\ \A u \in Threads : u # t => thread[u].n # n
    BY <1>0, <1>4, WriterHasJob DEF SaveStatus
  <2>2. /\ reported'[n] = thread[t].res
        /\ \A m \in Tickets : m # n => reported'[m] = reported[m]
    BY <1>0, <1>4, <2>1 DEF SaveStatus, TypeOK, DaemonType
  <2>3. 1..jobs \subseteq Tickets
    BY <1>0, JobsAssumption DEF TypeOK, DaemonType, Tickets, JobsAssumption
  <2>4. AfterReport(t).pc # "status"
    BY <1>0, GoesOn DEF AfterReport, At
  <2>5. /\ thread'[t].pc # "status"
        /\ \A u \in Threads : u # t => thread'[u] = thread[u]
    BY <1>0, <2>1, <2>4, BecomeFrame
  <2>6. /\ \A u \in Threads : ~Writing(u, n)'
        /\ \A u \in Threads, m \in 1..jobs :
             m # n => (Writing(u, m)' <=> Writing(u, m)) /\ (Writing(u, m) => thread'[u] = thread[u])
    BY <2>1, <2>5 DEF Writing
  <2>7. Writing(t, n)
    BY <2>1 DEF Writing
  <2> SUFFICES ASSUME app[a].sid = app[a].id, NEW m \in 1..jobs, job[m].app = a,
                      job[m].rev = app[a].rev
               PROVE  /\ \A u \in Threads : Writing(u, m)' => app[a].res = thread'[u].res
                      /\ (\A u \in Threads : ~Writing(u, m)') => app[a].res = reported'[m]
    BY <2>1 DEF OwnStatus
  <2>8. CASE m = n
    <3>1. app[a].res = thread[t].res
      BY <2>7, <2>8 DEF OwnStatus
    <3> QED BY <2>2, <2>6, <2>8, <3>1
  <2>9. CASE m # n
    BY <2>2, <2>3, <2>6, <2>9 DEF OwnStatus
  <2> QED BY <2>8, <2>9
\* A report that begins does so with the Application.
<1>5. ASSUME InlineStatus, NEW t \in Threads, thread[t].pc # "status", NEW state, Become(t, state),
             state.pc # "status", app' = app, jobs' = jobs, reported' = reported
      PROVE  OwnStatus(a)'
  <2>1. \A u \in Threads :
          thread'[u] = thread[u] \/ (thread[u].pc # "status" /\ thread'[u].pc # "status")
    BY <1>0, <1>5, BecomeFrame
  <2> QED BY <1>0, <1>5, <2>1, OwnStatusKept DEF Writing
<1>6. InlineStatus => \A n, r : Report(n, r).pc # "status" /\ At("idle").pc # "status"
  BY DEF Report, FirstWrite, At
<1>7. CASE ~InlineStatus
  <2>1. app'[a].sid = 0 /\ app'[a].id # 0
    <3>1. InlineOnly'
      BY <1>0, InlineOnlyStep
    <3>2. app'[a].id \in Ids
      BY <1>0, TypeStep, RevTypes DEF TypeOK, ResourcesType, Application
    <3> QED BY <1>7, <3>1, <3>2 DEF InlineOnly, Ids
  <2> QED BY <2>1 DEF OwnStatus
<1>8. ASSUME InlineStatus, NEW b \in Apps, InitiateDeploy(b)
      PROVE  OwnStatus(a)'
  <2>1. /\ jobs' = jobs + 1 /\ reported' = reported /\ app' = app
        /\ thread["watcher"].pc = "idle" /\ Become("watcher", Report(jobs + 1, "INITIATED"))
    BY <1>8 DEF InitiateDeploy, Consume
  <2>2. \A m \in 1..jobs : job'[m] = job[m] /\ m \in 1..jobs'
    BY <1>0, JobsKept
  <2>3. \A u \in Threads, m \in 1..jobs :
          (Writing(u, m)' <=> Writing(u, m)) /\ (Writing(u, m) => thread'[u] = thread[u])
    BY <1>0, <1>6, <1>8, <2>1, BecomeFrame DEF Writing, Threads
  <2> SUFFICES ASSUME app[a].sid = app[a].id
               PROVE  /\ \E m \in 1..jobs' : job'[m].app = a /\ job'[m].rev = app[a].rev
                      /\ \A m \in 1..jobs' : job'[m].app = a /\ job'[m].rev = app[a].rev =>
                           /\ \A u \in Threads : Writing(u, m)' => app[a].res = thread'[u].res
                           /\ (\A u \in Threads : ~Writing(u, m)') => app[a].res = reported[m]
    BY <2>1 DEF OwnStatus
  <2>4. PICK first \in 1..jobs : job[first].app = a /\ job[first].rev = app[a].rev
    BY DEF OwnStatus
  <2>5. \A m \in 1..jobs' : job'[m].app = a /\ job'[m].rev = app[a].rev => m \in 1..jobs
    <3>1. ASSUME job'[jobs + 1].app = a, job'[jobs + 1].rev = app[a].rev
          PROVE  FALSE
      <4>1. /\ first \in 1..jobs' /\ jobs + 1 \in 1..jobs' /\ first < jobs + 1
            /\ job'[first].app = a /\ job'[first].rev = app[a].rev
        BY <1>0, <2>1, <2>2, <2>4
      <4>2. job'[first].rev < job'[jobs + 1].rev
        BY <3>1, <4>1 DEF JobsApart
      <4> QED BY <1>0, <3>1, <4>1, <4>2
    <3> QED BY <1>0, <2>1, <3>1
  <2> QED BY <2>2, <2>3, <2>4, <2>5 DEF OwnStatus
<1>9. CASE InlineStatus /\ (BuildSpec \/ Rewatch \/ DeployerSteps \/ \E n \in Tickets : RunCheck(n))
  BY <1>5, <1>6, <1>9
  DEF BuildSpec, Rewatch, DeployerSteps, TakeJob, Deploy, RunCheck, apiVars, Threads
<1>10. CASE \/ UNCHANGED vars \/ Reconnect \/ \E b \in Apps : SkipEvent(b)
            \/ \E n \in Tickets : Expire(n)
  <2>1. thread' = thread /\ app' = app /\ jobs' = jobs /\ reported' = reported
    BY <1>10 DEF vars, Reconnect, SkipEvent, Consume, Expire, daemonVars, apiVars
  <2> QED BY <1>0, <2>1, OwnStatusKept
<1> QED
  BY <1>2, <1>3, <1>4, <1>7, <1>8, <1>9, <1>10 DEF CalmNext, WatcherSteps, SchedulerSteps

LEMMA AgreeStep ==
    ASSUME IInv, Alive, Abandoned, OnceInv, AgreeInv, ~ReuseIds, [Next]_vars
    PROVE  AgreeInv'
<1> SUFFICES ASSUME faults' = 0
             PROVE  OwnIds' /\ InlineOnly' /\ StatusesReported' /\ \A a \in Apps : OwnStatus(a)'
  BY DEF AgreeInv
<1>1. TypeOK /\ faults = 0 /\ [CalmNext]_vars
  BY CalmStep DEF IInv
<1>2. OwnIds /\ InlineOnly /\ StatusesReported /\ (\A a \in Apps : OwnStatus(a)) /\ JobsApart
  BY <1>1 DEF AgreeInv, OnceInv
<1>3. JobsApart'
  BY OnceStep DEF OnceInv
<1> QED
  BY <1>1, <1>2, <1>3, OwnIdsStep, InlineOnlyStep, StatusesReportedStep, OwnStatusStep

\* Where every id is used for one update, the status in the Application and the
\* ApplicationStatus of its id agree whenever no thread is between the two writes
\* (crd/status.py), until something fails.
THEOREM StatusesAgree == ~ReuseIds /\ Spec => []InlineAgrees
<1> SUFFICES ASSUME ~ReuseIds PROVE Spec => []InlineAgrees OBVIOUS
<1> DEFINE Inv == IInv /\ Alive /\ OnceInv /\ Abandoned /\ AgreeInv
<1>1. Init => Inv
  <2> SUFFICES ASSUME Init PROVE Abandoned /\ AgreeInv
    BY OnceInit
  <2>1. \A a \in Apps : app[a] = Created /\ stream[a] = <<Created>>
    BY DEF Init, ResourcesInit
  <2>2. Created.id = 1 /\ Created.rev = 1 /\ Created.sid = 0
    BY DEF Created
  <2>3. jobs = 0 /\ \A t \in Threads : thread[t].pc = "idle"
    BY DEF Init, DaemonInit, At
  <2>4. ASSUME NEW a \in Apps
        PROVE  DOMAIN stream[a] = {1} /\ stream[a][1] = Created
    <3>1. stream[a] = <<Created>>
      BY <2>1
    <3> QED BY <3>1
  <2>5. OwnIds
    BY <2>1, <2>2, <2>3, <2>4 DEF OwnIds
  <2>6. InlineOnly
    BY <2>1, <2>2, <2>3 DEF InlineOnly
  <2>7. \A a \in Apps : OwnStatus(a)
    BY <2>1, <2>2 DEF OwnStatus
  <2>8. StatusesReported /\ Abandoned
    BY DEF Init, ResourcesInit, StatusesReported, Abandoned
  <2> QED BY <2>5, <2>6, <2>7, <2>8 DEF AgreeInv
<1>2. Inv /\ [Next]_vars => Inv'
  BY InvStep, AliveStep, OnceStep, AbandonedStep, AgreeStep DEF IInv
<1>3. Inv => InlineAgrees
  <2> SUFFICES ASSUME Inv, faults = 0, NEW a \in Apps, app[a].sid = app[a].id,
                      \A t \in Threads : thread[t].pc = "status" => job[thread[t].n].id # app[a].id,
                      result[a][app[a].id] # "NONE"
               PROVE  result[a][app[a].id] = app[a].res
    BY DEF InlineAgrees
  <2>1. OwnIds /\ StatusesReported /\ OwnStatus(a)
    BY DEF AgreeInv
  <2>2. app[a].id \in Ids
    BY RevTypes DEF IInv, Application
  <2>3. PICK n \in 1..jobs : /\ job[n].app = a /\ job[n].id = app[a].id
                             /\ result[a][app[a].id] = reported[n]
    BY <2>1, <2>2 DEF StatusesReported
  <2>4. job[n].rev = app[a].rev
    BY <2>1, <2>3 DEF OwnIds
  <2>5. \A t \in Threads : ~Writing(t, n)
    BY <2>3 DEF Writing
  <2> QED BY <2>1, <2>3, <2>4, <2>5 DEF OwnStatus
<1> QED BY <1>1, <1>2, <1>3, PTL DEF Spec
===============================================================================
