---------------------------- MODULE BootstrapProofs ----------------------------
(***************************************************************************)
(* Proofs about Bootstrap, for any Applications and any number of deploys  *)
(* and failures.  Each Application has one deploy, which is in one place   *)
(* at a time; so what is collected of an Application is of that deploy,    *)
(* and nobody else changes its Deployment.                                 *)
(***************************************************************************)
EXTENDS Bootstrap, FiniteSetTheorems, SequenceTheorems, TLAPS

-----------------------------------------------------------------------------
(* Sequences without repetition. *)

Members(s) == {s[k] : k \in DOMAIN s}
Distinct(s) == \A k, l \in DOMAIN s : s[k] = s[l] => k = l

LEMMA MembersOf ==
    ASSUME NEW S, NEW s \in Seq(S)
    PROVE  Members(s) \subseteq S
BY DEF Members

LEMMA SeqGrows ==
    ASSUME NEW S, NEW T, S \subseteq T, NEW s \in Seq(S)
    PROVE  s \in Seq(T)
<1>1. Len(s) \in Nat /\ s \in [1..Len(s) -> S]
  OBVIOUS
<1>2. s \in [1..Len(s) -> T]
  BY <1>1
<1> QED
  BY <1>1, <1>2

LEMMA TailMembers ==
    ASSUME NEW S, NEW s \in Seq(S), s # << >>, Distinct(s)
    PROVE  /\ Tail(s) \in Seq(S) /\ Distinct(Tail(s))
           /\ Head(s) \in Members(s) /\ Head(s) \in S
           /\ Members(Tail(s)) = Members(s) \ {Head(s)}
<1>1. /\ Len(s) \in Nat /\ Len(s) # 0 /\ DOMAIN s = 1..Len(s)
      /\ Head(s) = s[1] /\ Head(s) \in S
      /\ Tail(s) \in Seq(S) /\ Len(Tail(s)) = Len(s) - 1
      /\ DOMAIN Tail(s) = 1..(Len(s) - 1)
      /\ \A i \in 1..(Len(s) - 1) : Tail(s)[i] = s[i + 1]
  OBVIOUS
<1>2. Distinct(Tail(s))
  BY <1>1 DEF Distinct
<1>3. ASSUME NEW x \in Members(Tail(s))
      PROVE  x \in Members(s) \ {Head(s)}
  <2>1. PICK k \in 1..(Len(s) - 1) : x = s[k + 1]
    BY <1>1, <1>3 DEF Members
  <2>2. k + 1 \in DOMAIN s /\ k + 1 # 1 /\ 1 \in DOMAIN s
    BY <1>1
  <2> QED
    BY <1>1, <2>1, <2>2 DEF Members, Distinct
<1>4. ASSUME NEW x \in Members(s), x # Head(s)
      PROVE  x \in Members(Tail(s))
  <2>1. PICK k \in 1..Len(s) : x = s[k]
    BY <1>1, <1>4 DEF Members
  <2>2. k - 1 \in 1..(Len(s) - 1) /\ (k - 1) + 1 = k
    BY <1>1, <1>4, <2>1
  <2>3. Tail(s)[k - 1] = x
    BY <1>1, <2>1, <2>2
  <2> QED
    BY <1>1, <2>2, <2>3 DEF Members
<1>5. Head(s) \in Members(s)
  BY <1>1 DEF Members
<1> QED
  BY <1>1, <1>2, <1>3, <1>4, <1>5

LEMMA AppendMembers ==
    ASSUME NEW S, NEW s \in Seq(S), NEW x \in S, Distinct(s), x \notin Members(s)
    PROVE  /\ Append(s, x) \in Seq(S) /\ Distinct(Append(s, x))
           /\ Members(Append(s, x)) = Members(s) \union {x}
<1> DEFINE new == Append(s, x)
<1>1. /\ Len(s) \in Nat /\ DOMAIN s = 1..Len(s)
      /\ new \in Seq(S) /\ DOMAIN new = 1..(Len(s) + 1)
      /\ \A i \in 1..Len(s) : new[i] = s[i]
      /\ new[Len(s) + 1] = x
  OBVIOUS
<1> HIDE DEF new
<1>2. \A i \in DOMAIN new : i \in DOMAIN s \/ i = Len(s) + 1
  BY <1>1
<1>3. Distinct(new)
  BY <1>1, <1>2 DEF Distinct, Members
<1>4. Members(new) = Members(s) \union {x}
  <2>1. \A y \in Members(new) : y \in Members(s) \union {x}
    BY <1>1, <1>2 DEF Members
  <2>2. Members(s) \subseteq Members(new)
    BY <1>1 DEF Members
  <2>3. x \in Members(new)
    BY <1>1 DEF Members
  <2> QED
    BY <2>1, <2>2, <2>3
<1> QED
  BY <1>1, <1>3, <1>4 DEF new

\* What Find lists: no Application twice.
LEMMA ListedOnce ==
    ASSUME NEW S \in SUBSET Apps, NEW s \in SetToAllKPermutations(S)
    PROVE  s \in Seq(Apps) /\ Distinct(s)
<1>1. PICK T \in SUBSET S : s \in SetToSeqs(T)
  BY DEF SetToAllKPermutations
<1>2. Cardinality(T) \in Nat
  BY FiniteAssumption, FS_Subset, FS_CardinalityType
<1>3. s \in [1..Cardinality(T) -> T] /\ \A i, j \in 1..Cardinality(T) : i # j => s[i] # s[j]
  BY <1>1 DEF SetToSeqs
<1>4. s \in Seq(Apps)
  BY <1>2, <1>3
<1>5. Distinct(s)
  BY <1>3 DEF Distinct
<1> QED
  BY <1>4, <1>5

-----------------------------------------------------------------------------
LEMMA QueueMembers == Queued = Members(queue) /\ (OnePlace => Distinct(queue))
BY DEF Queued, Members, OnePlace, Distinct

-----------------------------------------------------------------------------
(* A step of a thread, as far as the deploys tell. *)

ThreadRecord ==
    [pc : {"idle", "rewatch", "dead", "inline", "status", "build", "deploy"},
     n : Nat, res : Results \union {"NONE"}]

\* Thread t goes on to s, with the deploy it has, or none, or one that waited.
Move(t, s) ==
    /\ thread' = [thread EXCEPT ![t] = s]
    /\ s \in ThreadRecord
    /\ jobs' = jobs /\ job' = job /\ todo' = todo /\ first' = first
    /\ faults' \in Nat /\ faults' >= faults
    /\ \A a \in Apps : Gone(a) => Gone(a)'
    /\ \A a \in Apps : k8s[a].n # 0 => Gone(a)' \/ k8s'[a].n # 0
    /\ \A n \in 1..jobs : n # thread[t].n => reported'[n] = reported[n]
    /\ s.n \in {0, thread[t].n} \union Queued \union tasks
    /\ \A n \in 1..jobs : n # thread[t].n /\ n # s.n =>
         (n \in Queued' <=> n \in Queued) /\ (n \in tasks' => n \in tasks)
    /\ s.n # thread[t].n => s.n \notin Queued' \union tasks'
    /\ \A a \in Apps : collected'[a] # collected[a] =>
         /\ collected'[a] # "NONE"
         /\ \E m \in {thread[t].n, s.n} \ {0} : a = job[m].app

LEMMA Moved ==
    ASSUME IInv, NEW t \in Threads, NEW s, Move(t, s)
    PROVE  /\ thread'[t] = s
           /\ \A u \in Threads \ {t} : thread'[u] = thread[u]
           /\ thread[t].n \in 0..jobs /\ s.n \in 0..jobs /\ jobs \in Nat
           /\ \A n, m \in 1..jobs : job[n].app = job[m].app => n = m
           /\ \A n \in 1..jobs : job[n].app \in Apps
<1>1. DOMAIN thread = Threads /\ thread[t].n \in Nat /\ jobs \in Nat
  BY JobsAssumption DEF IInv, TypeOK
<1>2. Queued \subseteq 1..jobs /\ tasks \subseteq 1..jobs
  BY DEF IInv, TypeOK, Queued
<1>3. thread[t].n \in 0..jobs
  BY <1>1 DEF IInv, OnePlace
<1>4. s.n \in 0..jobs
  <2>1. s.n \in {0, thread[t].n} \union Queued \union tasks
    BY DEF Move
  <2>2. 0 \in 0..jobs /\ Queued \subseteq 0..jobs /\ tasks \subseteq 0..jobs
    BY <1>1, <1>2
  <2> QED
    BY <1>3, <2>1, <2>2
<1> QED
  BY <1>1, <1>3, <1>4 DEF Move, IInv, OneJob, TypeOK

\* A deploy that the step is not about stays where it is, with what is known of it.
LEMMA Unmoved ==
    ASSUME IInv, NEW t \in Threads, NEW s, Move(t, s),
           NEW n \in 1..jobs, n # thread[t].n, n # s.n
    PROVE  /\ \A u \in Threads : thread'[u].n = n <=> thread[u].n = n
           /\ \A u \in Threads : thread[u].n = n => thread'[u] = thread[u]
           /\ n \in Queued' <=> n \in Queued
           /\ n \in tasks' => n \in tasks
           /\ reported'[n] = reported[n]
           /\ collected'[job[n].app] = collected[job[n].app]
<1>1. /\ thread'[t] = s
      /\ \A u \in Threads \ {t} : thread'[u] = thread[u]
      /\ thread[t].n \in 0..jobs /\ s.n \in 0..jobs /\ jobs \in Nat
      /\ \A m, l \in 1..jobs : job[m].app = job[l].app => m = l
      /\ job[n].app \in Apps
  BY Moved
<1>2. /\ n \in Queued' <=> n \in Queued
      /\ n \in tasks' => n \in tasks
      /\ reported'[n] = reported[n]
  BY DEF Move
<1>3. collected'[job[n].app] = collected[job[n].app]
  <2>1. \A m \in {thread[t].n, s.n} \ {0} : m \in 1..jobs /\ m # n
    BY <1>1
  <2> QED
    BY <1>1, <2>1 DEF Move
<1> QED
  BY <1>1, <1>2, <1>3

LEMMA SuccessKept ==
    ASSUME IInv, NEW t \in Threads, NEW s, NEW held, Move(t, s), OwnDeployment',
           held = thread[t].n,
           held # 0 /\ thread[t].res = "SUCCESS" =>
             \/ Gone(job[held].app)'
             \/ s.n = held /\ s.res = "SUCCESS"
             \/ faults' > 0
             \/ reported'[held] = "SUCCESS" /\ Nowhere(held)',
           \A n \in 1..jobs :
             collected'[job[n].app] = "SUCCESS" /\ collected[job[n].app] # "SUCCESS" =>
               \/ Gone(job[n].app)'
               \/ first /\ s.n = n /\ s.res = "SUCCESS"
               \/ k8s'[job[n].app].n = n /\ reported'[n] = "SUCCESS" /\ Nowhere(n)'
    PROVE  SuccessIsReal'
<1>1. /\ thread'[t] = s
      /\ \A u \in Threads \ {t} : thread'[u] = thread[u]
      /\ thread[t].n \in 0..jobs /\ s.n \in 0..jobs /\ jobs \in Nat
      /\ \A n, m \in 1..jobs : job[n].app = job[m].app => n = m
      /\ \A n \in 1..jobs : job[n].app \in Apps
  BY Moved
<1>2. /\ jobs' = jobs /\ job' = job /\ first' = first
      /\ \A a \in Apps : Gone(a) => Gone(a)'
      /\ faults \in Nat /\ faults' \in Nat /\ faults' >= faults
  BY DEF Move, IInv, TypeOK
<1> SUFFICES ASSUME NEW n \in 1..jobs, collected'[job[n].app] = "SUCCESS", ~Gone(job[n].app)'
             PROVE  /\ k8s'[job[n].app].n = n
                    /\ \/ reported'[n] = "SUCCESS" /\ Nowhere(n)'
                       \/ first' /\ \E u \in Threads : thread'[u].n = n /\ thread'[u].res = "SUCCESS"
                       \/ first' /\ faults' > 0
  BY <1>2 DEF SuccessIsReal
<1>3. CASE collected[job[n].app] # "SUCCESS"
  <2>1. CASE first /\ s.n = n /\ s.res = "SUCCESS"
    <3>1. k8s'[job[n].app].n = n
      BY <1>1, <1>2, <2>1 DEF OwnDeployment
    <3> QED
      BY <1>1, <1>2, <2>1, <3>1
  <2> QED
    BY <1>3, <2>1
<1>4. CASE collected[job[n].app] = "SUCCESS"
  <2>1. ~Gone(job[n].app)
    BY <1>1, <1>2
  <2>2. k8s[job[n].app].n = n
    BY <1>4, <2>1 DEF IInv, SuccessIsReal
  <2>3. k8s'[job[n].app].n = n
    <3>1. k8s'[job[n].app].n # 0
      BY <1>1, <2>2 DEF Move
    <3> QED
      BY <1>1, <1>2, <3>1 DEF OwnDeployment
  <2>4. CASE first /\ faults > 0
    BY <1>2, <2>3, <2>4
  <2>5. CASE first /\ \E u \in Threads : thread[u].n = n /\ thread[u].res = "SUCCESS"
    <3>1. PICK u \in Threads : thread[u].n = n /\ thread[u].res = "SUCCESS"
      BY <2>5
    <3>2. CASE u # t
      BY <1>1, <1>2, <2>3, <2>5, <3>1, <3>2
    <3>3. CASE u = t
      <4>1. thread[t].n = n /\ thread[t].n # 0 /\ thread[t].res = "SUCCESS"
        BY <3>1, <3>3
      <4>2. \/ s.n = n /\ s.res = "SUCCESS"
            \/ faults' > 0
            \/ reported'[n] = "SUCCESS" /\ Nowhere(n)'
        BY <1>2, <4>1
      <4> QED
        BY <1>1, <1>2, <2>3, <2>5, <3>3, <4>2
    <3> QED
      BY <3>2, <3>3
  <2>6. CASE reported[n] = "SUCCESS" /\ Nowhere(n)
    <3>1. n # thread[t].n /\ n # s.n
      BY <1>1, <2>6 DEF Nowhere, Move
    <3>2. reported'[n] = "SUCCESS" /\ Nowhere(n)'
      BY <2>6, <3>1, Unmoved DEF Nowhere
    <3> QED
      BY <2>3, <3>2
  <2> QED
    BY <1>4, <2>1, <2>4, <2>5, <2>6 DEF IInv, SuccessIsReal
<1> QED
  BY <1>3, <1>4

LEMMA CollectedKept ==
    ASSUME IInv, NEW t \in Threads, NEW s, Move(t, s),
           t = "watcher" => thread[t].n # 0,
           t = "watcher" /\ s.n # thread[t].n =>
             s.pc = "rewatch" \/ collected'[job[thread[t].n].app] # "NONE"
    PROVE  NoneForgotten' /\ OnlyInitiated'
<1>1. /\ thread'[t] = s
      /\ \A u \in Threads \ {t} : thread'[u] = thread[u]
      /\ thread[t].n \in 0..jobs /\ s.n \in 0..jobs /\ jobs \in Nat
      /\ \A n \in 1..jobs : job[n].app \in Apps
  BY Moved
<1>2. /\ jobs' = jobs /\ job' = job /\ first' = first
      /\ \A a \in Apps : collected[a] # "NONE" => collected'[a] # "NONE"
  BY DEF Move
<1>3. OnlyInitiated'
  <2> SUFFICES ASSUME NEW a \in Apps, collected'[a] # "NONE"
               PROVE  \E n \in 1..jobs : job[n].app = a
    BY <1>2 DEF OnlyInitiated
  <2>1. CASE collected[a] # "NONE"
    BY <2>1 DEF IInv, OnlyInitiated
  <2>2. CASE collected'[a] # collected[a]
    <3>1. PICK m \in {thread[t].n, s.n} \ {0} : a = job[m].app
      BY <2>2 DEF Move
    <3> QED
      BY <1>1, <3>1
  <2> QED
    BY <2>1, <2>2
<1>4. NoneForgotten'
  <2> SUFFICES ASSUME NEW n \in 1..jobs,
                      first' \/ (thread'["watcher"].n # n /\ thread'["watcher"].pc # "rewatch")
               PROVE  collected'[job[n].app] # "NONE"
    BY <1>2 DEF NoneForgotten, Main
  <2>1. CASE first \/ (Main.n # n /\ Main.pc # "rewatch")
    BY <1>1, <1>2, <2>1 DEF IInv, NoneForgotten
  <2>2. CASE t # "watcher"
    <3>1. "watcher" \in Threads \ {t}
      BY <2>2 DEF Threads
    <3> QED
      BY <1>1, <1>2, <2>1, <3>1 DEF Main
  <2>3. CASE t = "watcher" /\ ~first
    <3>1. thread[t].pc # "rewatch"
      BY <2>3 DEF IInv, ThreadsInTurn
    <3> QED
      BY <1>1, <1>2, <2>1, <2>3, <3>1 DEF Main
  <2> QED
    BY <2>1, <2>2, <2>3
<1> QED
  BY <1>3, <1>4

LEMMA LatestKept ==
    ASSUME IInv, NEW t \in Threads, NEW s, Move(t, s),
           faults' = 0 =>
             \A n \in {thread[t].n, s.n} \ {0} : Gone(job[n].app)' \/ Latest(n)'
    PROVE  AllLatest'
<1>1. /\ thread[t].n \in 0..jobs /\ s.n \in 0..jobs /\ jobs \in Nat
      /\ \A n \in 1..jobs : job[n].app \in Apps
  BY Moved
<1>2. /\ jobs' = jobs /\ job' = job /\ first' = first
      /\ \A a \in Apps : Gone(a) => Gone(a)'
      /\ faults' = 0 => faults = 0
  BY DEF Move, IInv, TypeOK
<1> SUFFICES ASSUME faults' = 0, NEW n \in 1..jobs
             PROVE  Gone(job[n].app)' \/ Latest(n)'
  BY <1>2 DEF AllLatest, Gone
<1>3. CASE n \in {thread[t].n, s.n}
  BY <1>3
<1>4. CASE n \notin {thread[t].n, s.n} /\ ~Gone(job[n].app)'
  <2>1. Latest(n)
    BY <1>1, <1>2, <1>4 DEF IInv, AllLatest
  <2>2. /\ \A u \in Threads : thread'[u].n = n <=> thread[u].n = n
        /\ \A u \in Threads : thread[u].n = n => thread'[u] = thread[u]
        /\ n \in Queued' <=> n \in Queued
        /\ reported'[n] = reported[n]
        /\ collected'[job[n].app] = collected[job[n].app]
    BY <1>4, Unmoved
  <2>3. "watcher" \in Threads /\ "deployer" \in Threads
    BY DEF Threads
  <2> QED
    BY <1>2, <2>1, <2>2, <2>3 DEF Latest, Reporting, Main
<1> QED
  BY <1>3, <1>4

LEMMA PlaceKept ==
    ASSUME IInv, NEW t \in Threads, NEW s, NEW held, Move(t, s), held = thread[t].n,
           held # 0, s.n \in {0, held}, queue' = queue, tasks' = tasks
    PROVE  /\ OnePlace'
           /\ s.n = 0 => Nowhere(held)'
<1>1. /\ thread'[t] = s
      /\ \A u \in Threads \ {t} : thread'[u] = thread[u]
      /\ held \in 1..jobs /\ s.n \in 0..jobs /\ jobs \in Nat /\ jobs' = jobs
  <2>1. /\ thread'[t] = s
        /\ \A u \in Threads \ {t} : thread'[u] = thread[u]
        /\ thread[t].n \in 0..jobs /\ s.n \in 0..jobs /\ jobs \in Nat
    BY Moved
  <2>2. jobs' = jobs
    BY DEF Move
  <2> QED
    BY <2>1, <2>2
<1>2. Queued' = Queued
  BY DEF Queued
<1>3. \A u \in Threads : thread'[u].n = thread[u].n \/ (u = t /\ thread'[u].n = 0)
  BY <1>1
<1>4. OnePlace'
  <2>1. \A u, v \in Threads : thread'[u].n = thread'[v].n /\ thread'[u].n # 0 => u = v
    BY <1>3 DEF IInv, OnePlace
  <2>2. \A u \in Threads : thread'[u].n <= jobs' /\ thread'[u].n \notin Queued' \union tasks'
    <3>1. 0 \notin Queued \union tasks
      BY DEF IInv, TypeOK, Queued
    <3> QED
      BY <1>1, <1>2, <1>3, <3>1 DEF IInv, OnePlace
  <2> QED
    BY <1>2, <2>1, <2>2 DEF IInv, OnePlace
<1>5. ASSUME s.n = 0
      PROVE  Nowhere(held)'
  <2>1. held \notin Queued \union tasks /\ \A u \in Threads \ {t} : thread[u].n # held
    BY <1>1 DEF IInv, OnePlace
  <2> QED
    BY <1>1, <1>2, <1>5, <2>1 DEF Nowhere
<1> QED
  BY <1>4, <1>5

LEMMA DeploymentKept ==
    ASSUME IInv, NEW t \in Threads, NEW s, NEW held, Move(t, s), held = thread[t].n,
           \A a \in Apps : k8s'[a].n # 0 =>
             k8s'[a].n = k8s[a].n \/ (k8s'[a].n = held /\ job[held].app = a),
           s.n # 0 /\ s.res = "SUCCESS" =>
             Gone(job[s.n].app)' \/ k8s'[job[s.n].app].n = s.n
    PROVE  OwnDeployment'
<1>1. /\ thread'[t] = s
      /\ \A u \in Threads \ {t} : thread'[u] = thread[u]
      /\ held \in 0..jobs /\ s.n \in 0..jobs /\ jobs \in Nat
      /\ \A n, m \in 1..jobs : job[n].app = job[m].app => n = m
      /\ \A n \in 1..jobs : job[n].app \in Apps
  BY Moved
<1>2. /\ jobs' = jobs /\ job' = job
      /\ \A a \in Apps : Gone(a) => Gone(a)'
      /\ \A a \in Apps : k8s[a].n # 0 => Gone(a)' \/ k8s'[a].n # 0
  BY DEF Move
<1>3. \A a \in Apps : k8s'[a].n # 0 => k8s'[a].n \in 1..jobs /\ job[k8s'[a].n].app = a
  BY <1>1 DEF IInv, OwnDeployment
<1>4. ASSUME NEW u \in Threads, thread'[u].n # 0, thread'[u].res = "SUCCESS",
             ~(app'[job[thread'[u].n].app].phase = "gone")
      PROVE  k8s'[job[thread'[u].n].app].n = thread'[u].n
  <2>1. CASE u = t
    BY <1>1, <1>2, <1>4, <2>1 DEF Gone
  <2>2. CASE u # t
    <3>1. thread'[u] = thread[u] /\ thread[u].n \in 1..jobs
      BY <1>1, <1>4, <2>2 DEF IInv, OnePlace, TypeOK
    <3>2. k8s[job[thread[u].n].app].n = thread[u].n
      BY <1>1, <1>2, <1>4, <3>1 DEF IInv, OwnDeployment, Gone
    <3>3. k8s'[job[thread[u].n].app].n # 0
      BY <1>1, <1>2, <1>4, <3>1, <3>2 DEF Gone
    <3> QED
      BY <1>1, <1>3, <3>1, <3>3
  <2> QED
    BY <2>1, <2>2
<1>5. \A u \in Threads : thread'[u].n # 0 /\ thread'[u].res = "SUCCESS" =>
        \/ app'[job[thread'[u].n].app].phase = "gone"
        \/ k8s'[job[thread'[u].n].app].n = thread'[u].n
  BY <1>4
<1> QED
  BY <1>2, <1>3, <1>5 DEF OwnDeployment, Gone

\* The places and results a thread may have.
Fits(t, s) ==
    /\ s.n = 0 <=> s.pc \in {"idle", "rewatch", "dead"}
    /\ s.n # 0 /\ t = "watcher" =>
         /\ s.pc # "deploy" /\ s.res \in {"INITIATED", "FAILED"}
         /\ s.pc = "build" => s.res = "INITIATED"
    /\ s.n # 0 /\ t = "deployer" =>
         /\ s.pc # "build" /\ s.res \in {"RUNNING", "SUCCESS", "FAILED"}
         /\ s.pc = "deploy" => s.res = "RUNNING"
    /\ s.n # 0 /\ t = "scheduler" =>
         s.pc \in {"inline", "status"} /\ s.res \in {"SUCCESS", "FAILED"}

LEMMA ThreadsFit ==
    ASSUME IInv
    PROVE  \A t \in Threads : Fits(t, thread[t])
BY DEF IInv, ThreadsInTurn, Reporting, Fits

LEMMA FitsInTurn ==
    ASSUME \A u \in Threads : Fits(u, thread'[u])
    PROVE  ThreadsInTurn'
<1>1. \A u \in Threads : Fits(u, thread'[u])
  OBVIOUS
<1>2. "watcher" \in Threads /\ "deployer" \in Threads /\ "scheduler" \in Threads
  BY DEF Threads
<1>3. \A u \in Threads : thread'[u].n = 0 <=> thread'[u].pc \in {"idle", "rewatch", "dead"}
  BY <1>1 DEF Fits
<1>4. Fits("watcher", thread'["watcher"]) /\ Fits("deployer", thread'["deployer"])
      /\ Fits("scheduler", thread'["scheduler"])
  BY <1>1, <1>2
<1> QED
  BY <1>3, <1>4 DEF ThreadsInTurn, Reporting, Fits

LEMMA TurnKept ==
    ASSUME IInv, NEW t \in Threads, NEW s, Move(t, s), Fits(t, s)
    PROVE  ThreadsInTurn'
BY Moved, ThreadsFit, FitsInTurn

LEMMA MainKept ==
    ASSUME IInv, NEW t \in Threads, NEW s, Move(t, s), main' = main, main \notin Exits,
           t = "watcher" => thread[t].n # 0
    PROVE  MainInTurn' /\ OneJob'
<1>1. jobs' = jobs /\ job' = job /\ todo' = todo
  BY DEF Move
<1>2. OneJob'
  BY <1>1 DEF IInv, OneJob
<1>3. main \in {"find", "wait", "exit 0"} => thread'["watcher"].pc = "idle"
  <2>1. main \in {"find", "wait", "exit 0"} => t # "watcher"
    BY DEF IInv, MainInTurn, ThreadsInTurn, Main
  <2>2. "watcher" \in Threads
    BY DEF Threads
  <2> QED
    BY <2>1, <2>2, Moved DEF IInv, MainInTurn, Main
<1> QED
  BY <1>1, <1>2, <1>3 DEF IInv, MainInTurn, Main, Exits

LEMMA TypeKept ==
    ASSUME IInv, NEW t \in Threads, NEW s, Move(t, s),
           DOMAIN app' = Apps, \A a \in Apps : "phase" \in DOMAIN app'[a],
           DOMAIN k8s' = Apps, \A a \in Apps : DOMAIN k8s'[a] = {"n", "rev", "ready"},
           queue' \in Seq(1..jobs), tasks' \subseteq 1..jobs,
           DOMAIN reported' = Tickets, DOMAIN collected' = Apps
    PROVE  TypeOK'
<1>1. thread' \in [Threads -> ThreadRecord]
  BY DEF Move, IInv, TypeOK, ThreadRecord
<1> QED
  BY <1>1 DEF Move, IInv, TypeOK, ThreadRecord

\* What the step makes of its own deploy, once the thread's place is a fit one.
Settles(t, s, held) ==
    /\ held = thread[t].n /\ Fits(t, s)
    /\ main' = main /\ main \notin Exits
    /\ t = "watcher" =>
         /\ held # 0
         /\ s.n # held => s.pc = "rewatch" \/ collected'[job[held].app] # "NONE"
    /\ \A a \in Apps : k8s'[a].n # 0 =>
         k8s'[a].n = k8s[a].n \/ (k8s'[a].n = held /\ job[held].app = a)
    /\ s.n # 0 /\ s.res = "SUCCESS" =>
         Gone(job[s.n].app)' \/ k8s'[job[s.n].app].n = s.n
    /\ held # 0 /\ thread[t].res = "SUCCESS" =>
         \/ Gone(job[held].app)'
         \/ s.n = held /\ s.res = "SUCCESS"
         \/ faults' > 0
         \/ reported'[held] = "SUCCESS" /\ Nowhere(held)'
    /\ \A n \in 1..jobs :
         collected'[job[n].app] = "SUCCESS" /\ collected[job[n].app] # "SUCCESS" =>
           \/ Gone(job[n].app)'
           \/ first /\ s.n = n /\ s.res = "SUCCESS"
           \/ k8s'[job[n].app].n = n /\ reported'[n] = "SUCCESS" /\ Nowhere(n)'
    /\ faults' = 0 =>
         \A n \in {held, s.n} \ {0} : Gone(job[n].app)' \/ Latest(n)'

LEMMA MoveKeeps ==
    ASSUME IInv, NEW t \in Threads, NEW s, NEW held, Move(t, s), Settles(t, s, held),
           TypeOK', OnePlace'
    PROVE  IInv'
<1>1. OwnDeployment'
  <2>1. held = thread[t].n
    BY DEF Settles
  <2>2. \A a \in Apps : k8s'[a].n # 0 =>
          k8s'[a].n = k8s[a].n \/ (k8s'[a].n = held /\ job[held].app = a)
    BY DEF Settles
  <2>3. s.n # 0 /\ s.res = "SUCCESS" => Gone(job[s.n].app)' \/ k8s'[job[s.n].app].n = s.n
    BY DEF Settles
  <2> QED
    BY <2>1, <2>2, <2>3, DeploymentKept
<1>2. ThreadsInTurn'
  BY TurnKept DEF Settles
<1>3. MainInTurn' /\ OneJob'
  BY MainKept DEF Settles
<1>4. SuccessIsReal'
  BY <1>1, SuccessKept DEF Settles
<1>5. NoneForgotten' /\ OnlyInitiated'
  BY CollectedKept DEF Settles
<1>6. AllLatest'
  BY LatestKept DEF Settles
<1> QED
  BY <1>1, <1>2, <1>3, <1>4, <1>5, <1>6 DEF IInv

-----------------------------------------------------------------------------
(* What the calls write. *)

\* A report changes the status of an Application, never whether there is one.
LEMMA StatusWritten ==
    ASSUME TypeOK, NEW a \in Apps, NEW i, NEW r, SaveInlineStatus(a, i, r)
    PROVE  /\ DOMAIN app' = Apps /\ \A b \in Apps : "phase" \in DOMAIN app'[b]
           /\ \A b \in Apps : app'[b].phase = app[b].phase
<1>1. CASE app' = [app EXCEPT ![a] = [app[a] EXCEPT !.ogen = app[a].gen, !.sid = i, !.res = r]]
  <2> DEFINE new == [app[a] EXCEPT !.ogen = app[a].gen, !.sid = i, !.res = r]
  <2>1. "phase" \in DOMAIN new /\ new.phase = app[a].phase
    BY DEF TypeOK
  <2>2. app' = [app EXCEPT ![a] = new]
    BY <1>1
  <2> HIDE DEF new
  <2> QED
    BY <2>1, <2>2 DEF TypeOK
<1>2. CASE app' = app
  BY <1>2 DEF TypeOK
<1> QED
  BY <1>1, <1>2 DEF SaveInlineStatus, Modify

LEMMA DeploymentWritten ==
    ASSUME TypeOK, NEW a \in Apps, NEW n, NEW rev, ApplyDeployment(a, n, rev)
    PROVE  /\ DOMAIN k8s' = Apps /\ \A b \in Apps : DOMAIN k8s'[b] = {"n", "rev", "ready"}
           /\ \A b \in Apps \ {a} : k8s'[b] = k8s[b]
           /\ k8s'[a].n = IF Gone(a) THEN k8s[a].n ELSE n
<1>1. CASE Gone(a)
  BY <1>1 DEF ApplyDeployment, TypeOK, Gone
<1>2. CASE ~Gone(a)
  <2> DEFINE ready == k8s[a].ready /\ k8s[a].rev = rev
             new == [n |-> n, rev |-> rev, ready |-> ready]
  <2>1. k8s' = [k8s EXCEPT ![a] = new]
    BY <1>2 DEF ApplyDeployment, Gone
  <2> HIDE DEF ready
  <2>2. DOMAIN new = {"n", "rev", "ready"} /\ new.n = n
    OBVIOUS
  <2> HIDE DEF new
  <2> QED
    BY <1>2, <2>1, <2>2 DEF TypeOK
<1> QED
  BY <1>1, <1>2

LEMMA EnvironmentWrites ==
    ASSUME TypeOK, Environment
    PROVE  /\ DOMAIN app' = Apps /\ \A b \in Apps : "phase" \in DOMAIN app'[b]
           /\ DOMAIN k8s' = Apps /\ \A b \in Apps : DOMAIN k8s'[b] = {"n", "rev", "ready"}
           /\ \A b \in Apps : Gone(b) => Gone(b)'
           /\ \A b \in Apps : k8s'[b].n = k8s[b].n \/ (k8s'[b].n = 0 /\ Gone(b)')
<1>1. PICK a \in Apps : UserUpdate(a) \/ UserDelete(a) \/ Removed(a) \/ PodsChange(a)
  BY DEF Environment
<1>2. CASE UserUpdate(a)
  <2>1. PICK i \in Ids, bump \in {0, 1}, bad \in BOOLEAN :
          app' = [app EXCEPT ![a] = [app[a] EXCEPT !.rev = @ + 1, !.gen = @ + bump,
                                                   !.id = i, !.bad = bad]]
    BY <1>2 DEF UserUpdate, Modify
  <2> DEFINE new == [app[a] EXCEPT !.rev = @ + 1, !.gen = @ + bump, !.id = i, !.bad = bad]
  <2>2. "phase" \in DOMAIN new /\ new.phase = app[a].phase
    BY DEF TypeOK
  <2>3. app' = [app EXCEPT ![a] = new]
    BY <2>1
  <2>4. k8s' = k8s
    BY <1>2 DEF UserUpdate
  <2> HIDE DEF new
  <2>5. /\ DOMAIN app' = Apps
        /\ \A b \in Apps : "phase" \in DOMAIN app'[b] /\ app'[b].phase = app[b].phase
    BY <2>2, <2>3 DEF TypeOK
  <2> QED
    BY <2>4, <2>5 DEF TypeOK, Gone
<1>3. CASE UserDelete(a)
  <2>1. app[a].phase # "gone" /\ k8s' = k8s
        /\ app' = [app EXCEPT ![a] = [app[a] EXCEPT !.phase = "deleting"]]
    BY <1>3 DEF UserDelete, Modify
  <2>2. /\ DOMAIN app' = Apps
        /\ \A b \in Apps : "phase" \in DOMAIN app'[b] /\ (b # a => app'[b] = app[b])
    BY <2>1 DEF TypeOK
  <2> QED
    BY <2>1, <2>2 DEF TypeOK, Gone
<1>4. CASE Removed(a)
  <2>1. /\ app' = [app EXCEPT ![a] = [app[a] EXCEPT !.phase = "gone"]]
        /\ k8s' = [k8s EXCEPT ![a] = NoDeployment]
    BY <1>4 DEF Removed, Modify
  <2>2. /\ DOMAIN app' = Apps
        /\ \A b \in Apps : "phase" \in DOMAIN app'[b] /\ (b # a => app'[b] = app[b])
        /\ app'[a].phase = "gone"
    BY <2>1 DEF TypeOK
  <2>3. /\ DOMAIN k8s' = Apps
        /\ \A b \in Apps : DOMAIN k8s'[b] = {"n", "rev", "ready"} /\ (b # a => k8s'[b] = k8s[b])
        /\ k8s'[a].n = 0
    BY <2>1 DEF TypeOK, NoDeployment
  <2> QED
    BY <2>2, <2>3 DEF Gone
<1>5. CASE PodsChange(a)
  <2>1. app' = app /\ k8s' = [k8s EXCEPT ![a].ready = ~@]
    BY <1>5 DEF PodsChange
  <2> QED
    BY <2>1 DEF TypeOK, Gone
<1> QED
  BY <1>1, <1>2, <1>3, <1>4, <1>5

\* The collector gets the report that starts, if it is called first.
LEMMA Collects ==
    ASSUME TypeOK, NEW t \in Threads, NEW s, thread' = [thread EXCEPT ![t] = s], CollectStarts
    PROVE  /\ main' = main /\ todo' = todo /\ first' = first
           /\ collected' = IF first /\ s.pc = FirstWrite /\ s # thread[t]
                           THEN [collected EXCEPT ![job[s.n].app] = s.res]
                           ELSE collected
<1>1. thread'[t] = s /\ \A u \in Threads \ {t} : thread'[u] = thread[u]
  BY DEF TypeOK
<1>2. \A u \in Threads : Starts(u) <=> u = t /\ s.pc = FirstWrite /\ s # thread[t]
  BY <1>1 DEF Starts
<1>3. CASE first /\ s.pc = FirstWrite /\ s # thread[t]
  <2>1. (CHOOSE u \in Threads : Starts(u)) = t
    BY <1>2, <1>3
  <2>2. \E u \in Threads : Starts(u)
    BY <1>2, <1>3
  <2> QED
    BY <1>1, <1>3, <2>1, <2>2 DEF CollectStarts, Store
<1>4. CASE ~(first /\ s.pc = FirstWrite /\ s # thread[t])
  BY <1>2, <1>4 DEF CollectStarts
<1> QED
  BY <1>3, <1>4 DEF CollectStarts

LEMMA CollectsNothing ==
    ASSUME thread' = thread, CollectStarts
    PROVE  main' = main /\ todo' = todo /\ first' = first /\ collected' = collected
BY DEF CollectStarts, Starts

-----------------------------------------------------------------------------
(* Steps that raise. *)

LEMMA NumberedFromOne == \A n \in 1..jobs : n # 0
OBVIOUS

LEMMA NoneNumberedZero ==
    ASSUME IInv
    PROVE  0 \notin Queued \union tasks
BY DEF IInv, TypeOK, Queued

LEMMA Held ==
    ASSUME IInv, NEW t \in Threads, thread[t].pc \in {"inline", "status", "build", "deploy"}
    PROVE  /\ thread[t].n \in 1..jobs /\ thread[t].n # 0
           /\ job[thread[t].n].app \in Apps
           /\ thread[t].n \notin Queued \union tasks
           /\ \A u \in Threads : thread[u].n = thread[t].n => u = t
           /\ thread[t].n \in Tickets
<1>1. /\ thread \in [Threads -> ThreadRecord]
      /\ jobs \in 0..MaxJobs
      /\ \A n \in 1..jobs : job[n].app \in Apps
  BY DEF IInv, TypeOK, ThreadRecord
<1>2. thread[t].n \in Nat
  BY <1>1 DEF ThreadRecord
<1>3. /\ thread[t].n # 0
      /\ thread[t].n <= jobs /\ thread[t].n \notin Queued \union tasks
      /\ \A u \in Threads : thread[u].n = thread[t].n => u = t
  BY DEF IInv, ThreadsInTurn, OnePlace
<1>4. jobs \in Nat /\ jobs <= MaxJobs
  BY <1>1, JobsAssumption
<1>5. thread[t].n \in 1..jobs /\ thread[t].n \in Tickets
  BY <1>2, <1>3, <1>4, JobsAssumption DEF Tickets
<1> QED
  BY <1>1, <1>3, <1>5

\* What an exception makes of a thread with a deploy.
Thrown(t, s, held) ==
    /\ held = thread[t].n
    /\ s \in ThreadRecord /\ Fits(t, s)
    /\ s.n \in {0, held}
    /\ s.n # 0 => s.res = "FAILED"
    /\ t = "watcher" => s.pc = "rewatch"

LEMMA ExceptionGoes ==
    ASSUME IInv, NEW t \in Threads, NEW kind, thread[t].n # 0
    PROVE  Thrown(t, AfterException(t, kind), thread[t].n)
<1> DEFINE s == AfterException(t, kind)
<1>1. /\ At("rewatch") \in ThreadRecord /\ At("idle") \in ThreadRecord /\ At("dead") \in ThreadRecord
      /\ At("rewatch").n = 0 /\ At("idle").n = 0 /\ At("dead").n = 0
      /\ At("rewatch").pc = "rewatch" /\ At("idle").pc = "idle" /\ At("dead").pc = "dead"
  BY DEF At, ThreadRecord
<1>2. /\ Report(thread[t].n, "FAILED") \in ThreadRecord
      /\ Report(thread[t].n, "FAILED").n = thread[t].n
      /\ Report(thread[t].n, "FAILED").res = "FAILED"
      /\ Report(thread[t].n, "FAILED").pc \in {"inline", "status"}
  BY DEF Report, FirstWrite, ThreadRecord, IInv, TypeOK, Results
<1>3. CASE t = "watcher"
  BY <1>1, <1>3 DEF AfterException, Fits, Thrown
<1>4. CASE t = "deployer" /\ thread[t].res # "FAILED"
  BY <1>2, <1>4 DEF AfterException, Fits, Thrown
<1>5. CASE t # "watcher" /\ ~(t = "deployer" /\ thread[t].res # "FAILED")
  <2>1. s = At("idle") \/ s = At("dead")
    BY <1>5 DEF AfterException
  <2>2. Fits(t, s)
    BY <1>1, <1>5, <2>1 DEF Fits
  <2> HIDE DEF s
  <2>3. s \in ThreadRecord /\ s.n = 0
    BY <1>1, <2>1
  <2>4. Thrown(t, s, thread[t].n)
    BY <1>5, <2>2, <2>3 DEF Thrown
  <2> QED
    BY <2>4 DEF s
<1> QED
  BY <1>3, <1>4, <1>5 DEF Thrown

\* A step that raises, and counts as a failure or is about an Application that is gone.
Raises(t, s, held) ==
    /\ thread' = [thread EXCEPT ![t] = s]
    /\ main' = main /\ main \notin Exits /\ todo' = todo /\ first' = first
    /\ collected' = IF first /\ s.pc = FirstWrite /\ s # thread[t]
                    THEN [collected EXCEPT ![job[s.n].app] = s.res] ELSE collected
    /\ DOMAIN app' = Apps /\ \A a \in Apps : "phase" \in DOMAIN app'[a]
    /\ \A a \in Apps : app'[a].phase = app[a].phase
    /\ DOMAIN k8s' = Apps /\ \A a \in Apps : DOMAIN k8s'[a] = {"n", "rev", "ready"}
    /\ \A a \in Apps : k8s'[a].n = k8s[a].n \/ (k8s'[a].n = held /\ job[held].app = a)
    /\ jobs' = jobs /\ job' = job /\ queue' = queue /\ tasks' = tasks
    /\ reported' = reported \/ \E r : reported' = [reported EXCEPT ![held] = r]
    /\ (faults' = faults /\ Gone(job[held].app)) \/ faults' = faults + 1

LEMMA RaisingStep ==
    ASSUME IInv, NEW t \in Threads, NEW held, NEW s, Thrown(t, s, held), Raises(t, s, held),
           thread[t].pc \in {"inline", "status", "build", "deploy"}
    PROVE  IInv'
<1>1. /\ held \in 1..jobs /\ held # 0 /\ held \in Tickets /\ job[held].app \in Apps
      /\ \A n \in 1..jobs : n \in Tickets
      /\ faults \in Nat
      /\ DOMAIN reported = Tickets /\ DOMAIN collected = Apps
  <2>1. \A n \in 1..jobs : n \in Tickets
    BY JobsAssumption DEF IInv, TypeOK, Tickets
  <2>2. held = thread[t].n
    BY DEF Thrown
  <2> QED
    BY <2>1, <2>2, Held DEF IInv, TypeOK
<1>2. /\ s \in ThreadRecord /\ Fits(t, s) /\ s.n \in {0, held}
      /\ s.n # 0 => s.res = "FAILED"
      /\ t = "watcher" => s.pc = "rewatch"
      /\ s.pc = FirstWrite => s.n = held
      /\ held = thread[t].n
  BY <1>1 DEF Thrown, Fits, FirstWrite
<1>3. /\ \A a \in Apps : Gone(a)' <=> Gone(a)
      /\ Queued' = Queued
  <2>1. \A a \in Apps : app'[a].phase = app[a].phase
    BY DEF Raises
  <2>2. queue' = queue
    BY DEF Raises
  <2> QED
    BY <2>1, <2>2 DEF Gone, Queued
<1>4. \A a \in Apps : collected'[a] # collected[a] =>
        a = job[held].app /\ collected'[a] = "FAILED" /\ s.n = held
  BY <1>1, <1>2 DEF Raises
<1>5. \A n \in 1..jobs : n # held => reported'[n] = reported[n]
  <2>1. CASE reported' = reported
    BY <2>1
  <2>2. CASE \E r : reported' = [reported EXCEPT ![held] = r]
    BY <1>1, <2>2
  <2> QED
    BY <2>1, <2>2 DEF Raises
<1>6. Move(t, s)
  <2>1. \A a \in Apps : k8s[a].n # 0 => Gone(a)' \/ k8s'[a].n # 0
    <3>1. \A a \in Apps : k8s'[a].n = k8s[a].n \/ (k8s'[a].n = held /\ job[held].app = a)
      BY DEF Raises
    <3> QED
      BY <1>1, <3>1
  <2>2. faults' \in Nat /\ faults' >= faults
    <3>1. faults' = faults \/ faults' = faults + 1
      BY DEF Raises
    <3> QED
      BY <1>1, <3>1
  <2>3. \A a \in Apps : collected'[a] # collected[a] =>
          collected'[a] # "NONE" /\ \E m \in {held, s.n} \ {0} : a = job[m].app
    BY <1>1, <1>4
  <2>4. s.n \in {0, held} \union Queued \union tasks
    BY <1>2
  <2>5. s.n # held => s.n \notin Queued' \union tasks'
    <3>1. 0 \notin Queued \union tasks
      BY DEF IInv, TypeOK, Queued
    <3> QED
      BY <1>2, <1>3, <3>1 DEF Raises
  <2>6. tasks' = tasks
    BY DEF Raises
  <2> QED
    BY <1>2, <1>3, <1>5, <2>1, <2>2, <2>3, <2>4, <2>5, <2>6 DEF Move, Raises
<1>7. OnePlace'
  BY <1>1, <1>2, <1>6, PlaceKept DEF Raises
<1>8. TypeOK'
  <2>1. DOMAIN reported' = Tickets
    BY <1>1 DEF Raises
  <2>2. DOMAIN collected' = Apps
    BY <1>1 DEF Raises
  <2>3. queue' \in Seq(1..jobs) /\ tasks' \subseteq 1..jobs
    BY DEF IInv, TypeOK, Raises
  <2> QED
    BY <1>6, <2>1, <2>2, <2>3, TypeKept DEF Raises
<1>9. Settles(t, s, held)
  <2>1. Gone(job[held].app)' \/ faults' > 0
    <3>1. CASE faults' = faults /\ Gone(job[held].app)
      <4>1. job' = job
        BY DEF Raises
      <4> QED
        BY <1>1, <1>3, <3>1, <4>1 DEF Gone
    <3>2. CASE faults' = faults + 1
      BY <1>1, <3>2
    <3> QED
      BY <3>1, <3>2 DEF Raises
  <2>2. \A n \in 1..jobs :
          ~(collected'[job[n].app] = "SUCCESS" /\ collected[job[n].app] # "SUCCESS")
    BY <1>4 DEF IInv, TypeOK
  <2>3. faults' = 0 => \A n \in {held, s.n} \ {0} : Gone(job[n].app)' \/ Latest(n)'
    BY <1>2, <2>1
  <2>4. s.n # 0 => s.res # "SUCCESS"
    BY <1>2
  <2> QED
    BY <1>1, <1>2, <2>1, <2>2, <2>3, <2>4 DEF Settles, Raises
<1> QED
  BY <1>6, <1>7, <1>8, <1>9, MoveKeeps

LEMMA SaveRaises ==
    ASSUME IInv, main \notin Exits, NEW t \in Threads, NEW kind, CollectStarts,
           SaveInlineFails(t, kind) \/ SaveStatusFails(t, kind)
    PROVE  IInv'
<1> PICK held, s : held = thread[t].n /\ s = AfterException(t, kind)
  OBVIOUS
<1> DEFINE a == job[held].app
<1>1. /\ thread[t].pc \in {"inline", "status"}
      /\ thread' = [thread EXCEPT ![t] = s]
      /\ jobs' = jobs /\ job' = job /\ queue' = queue /\ tasks' = tasks /\ k8s' = k8s
      /\ faults' = faults + 1
      /\ reported' = reported \/ reported' = [reported EXCEPT ![held] = thread[t].res]
      /\ app' = app \/ SaveInlineStatus(a, job[held].id, thread[t].res)
  BY DEF SaveInlineFails, SaveStatusFails, Become, Fault
<1>2. TypeOK /\ a \in Apps
  BY <1>1, Held DEF IInv
<1>3. /\ DOMAIN app' = Apps /\ \A b \in Apps : "phase" \in DOMAIN app'[b]
      /\ \A b \in Apps : app'[b].phase = app[b].phase
  <2>1. CASE app' = app
    BY <1>2, <2>1 DEF TypeOK
  <2>2. CASE SaveInlineStatus(a, job[held].id, thread[t].res)
    BY <1>2, <2>2, StatusWritten
  <2> QED
    BY <1>1, <2>1, <2>2
<1>4. /\ main' = main /\ todo' = todo /\ first' = first
      /\ collected' = IF first /\ s.pc = FirstWrite /\ s # thread[t]
                      THEN [collected EXCEPT ![job[s.n].app] = s.res] ELSE collected
  BY <1>1, <1>2, Collects
<1>5. /\ DOMAIN k8s' = Apps /\ \A b \in Apps : DOMAIN k8s'[b] = {"n", "rev", "ready"}
      /\ \A b \in Apps : k8s'[b].n = k8s[b].n
  BY <1>1, <1>2 DEF TypeOK
<1>6. Raises(t, s, held)
  BY <1>1, <1>3, <1>4, <1>5 DEF Raises
<1>7. thread[t].pc \in {"inline", "status", "build", "deploy"}
  BY <1>1
<1>8. thread[t].n # 0
  BY <1>1, Held
<1>9. Thrown(t, s, held)
  BY <1>8, ExceptionGoes
<1> QED
  BY <1>6, <1>7, <1>9, RaisingStep

LEMMA GoneRaises ==
    ASSUME IInv, main \notin Exits, NEW t \in Threads, CollectStarts, SaveInline(t),
           Gone(job[thread[t].n].app)
    PROVE  IInv'
<1> PICK held, s : held = thread[t].n /\ s = AfterException(t, "api")
  OBVIOUS
<1>1. /\ thread[t].pc = "inline"
      /\ thread' = [thread EXCEPT ![t] = s]
      /\ jobs' = jobs /\ job' = job /\ queue' = queue /\ tasks' = tasks
      /\ faults' = faults /\ reported' = reported /\ app' = app /\ k8s' = k8s
  BY DEF SaveInline, Become, Gone
<1>2. TypeOK
  BY DEF IInv
<1>3. /\ main' = main /\ todo' = todo /\ first' = first
      /\ collected' = IF first /\ s.pc = FirstWrite /\ s # thread[t]
                      THEN [collected EXCEPT ![job[s.n].app] = s.res] ELSE collected
  BY <1>1, <1>2, Collects
<1>4. /\ DOMAIN k8s' = Apps /\ \A b \in Apps : DOMAIN k8s'[b] = {"n", "rev", "ready"}
      /\ \A b \in Apps : k8s'[b].n = k8s[b].n
      /\ DOMAIN app' = Apps /\ \A b \in Apps : "phase" \in DOMAIN app'[b]
      /\ \A b \in Apps : app'[b].phase = app[b].phase
  BY <1>1, <1>2 DEF TypeOK
<1>5. Raises(t, s, held)
  BY <1>1, <1>3, <1>4 DEF Raises
<1>6. thread[t].pc \in {"inline", "status", "build", "deploy"}
  BY <1>1
<1>8. thread[t].n # 0
  BY <1>1, Held
<1>9. Thrown(t, s, held)
  BY <1>8, ExceptionGoes
<1> QED
  BY <1>5, <1>6, <1>9, RaisingStep

LEMMA DeployRaises ==
    ASSUME IInv, main \notin Exits, NEW kind, CollectStarts, DeployFails(kind)
    PROVE  IInv'
<1> DEFINE t == "deployer"
<1> PICK held, s : held = thread[t].n /\ s = AfterException(t, kind)
  OBVIOUS
<1> DEFINE a == job[held].app
<1>1. /\ t \in Threads /\ thread[t].pc = "deploy"
      /\ thread' = [thread EXCEPT ![t] = s]
      /\ jobs' = jobs /\ job' = job /\ queue' = queue /\ tasks' = tasks /\ app' = app
      /\ faults' = faults + 1 /\ reported' = reported
      /\ k8s' = k8s \/ ApplyDeployment(a, held, job[held].rev)
  BY DEF DeployFails, Become, Fault, Threads
<1>2. TypeOK /\ a \in Apps
  BY <1>1, Held DEF IInv
<1>3. /\ DOMAIN k8s' = Apps /\ \A b \in Apps : DOMAIN k8s'[b] = {"n", "rev", "ready"}
      /\ \A b \in Apps : k8s'[b].n = k8s[b].n \/ (k8s'[b].n = held /\ a = b)
  <2>1. CASE k8s' = k8s
    BY <1>2, <2>1 DEF TypeOK
  <2>2. CASE ApplyDeployment(a, held, job[held].rev)
    BY <1>2, <2>2, DeploymentWritten
  <2> QED
    BY <1>1, <2>1, <2>2
<1>4. /\ main' = main /\ todo' = todo /\ first' = first
      /\ collected' = IF first /\ s.pc = FirstWrite /\ s # thread[t]
                      THEN [collected EXCEPT ![job[s.n].app] = s.res] ELSE collected
  BY <1>1, <1>2, Collects
<1>5. /\ DOMAIN app' = Apps /\ \A b \in Apps : "phase" \in DOMAIN app'[b]
      /\ \A b \in Apps : app'[b].phase = app[b].phase
  BY <1>1, <1>2 DEF TypeOK
<1>6. Raises(t, s, held)
  BY <1>1, <1>3, <1>4, <1>5 DEF Raises
<1>8. thread[t].n # 0
  BY <1>1, Held
<1>9. Thrown(t, s, held)
  BY <1>1, <1>8, ExceptionGoes
<1> QED
  BY <1>1, <1>6, <1>9, RaisingStep

LEMMA BuildRaises ==
    ASSUME IInv, main \notin Exits, NEW kind, BuildFails(kind)
    PROVE  IInv'
<1> DEFINE t == "watcher"
<1> PICK held, s : held = thread[t].n /\ s = AfterException(t, kind)
  OBVIOUS
<1>1. /\ t \in Threads /\ thread[t].pc = "build"
      /\ thread' = [thread EXCEPT ![t] = s]
      /\ s.pc = "rewatch" /\ "rewatch" # FirstWrite
      /\ jobs' = jobs /\ job' = job /\ queue' = queue /\ tasks' = tasks
      /\ app' = app /\ k8s' = k8s /\ faults' = faults + 1 /\ reported' = reported
      /\ main' = main /\ todo' = todo /\ first' = first /\ collected' = collected
  BY DEF BuildFails, Become, Fault, Threads, AfterException, At, Main, FirstWrite, apiVars
<1>2. TypeOK
  BY DEF IInv
<1>3. /\ DOMAIN k8s' = Apps /\ \A b \in Apps : DOMAIN k8s'[b] = {"n", "rev", "ready"}
      /\ \A b \in Apps : k8s'[b].n = k8s[b].n
      /\ DOMAIN app' = Apps /\ \A b \in Apps : "phase" \in DOMAIN app'[b]
      /\ \A b \in Apps : app'[b].phase = app[b].phase
  BY <1>1, <1>2 DEF TypeOK
<1>4. Raises(t, s, held)
  BY <1>1, <1>3 DEF Raises
<1>8. thread[t].n # 0
  BY <1>1, Held
<1>9. Thrown(t, s, held)
  BY <1>1, <1>8, ExceptionGoes
<1> QED
  BY <1>1, <1>4, <1>9, RaisingStep

-----------------------------------------------------------------------------
(* Steps that report. *)

LEMMA LatestHeld ==
    ASSUME NEW t \in Threads, NEW s, NEW n, s.n = n, n # 0, OnePlace',
           thread'[t] = s, job' = job, first' = first,
           first /\ s.pc \in {"inline", "status"} => collected'[job[n].app] = s.res,
           t = "watcher" /\ s.pc = "build" =>
             /\ reported'[n] = "INITIATED"
             /\ collected'[job[n].app] \in {"INITIATED", "DEPLOY_SCHEDULED"},
           t = "deployer" /\ s.pc = "deploy" => collected'[job[n].app] = reported'[n]
    PROVE  Latest(n)'
<1>1. \A u \in Threads : thread'[u].n = n => u = t
  BY DEF OnePlace
<1>2. n \notin Queued' /\ thread'[t].n = n
  BY DEF OnePlace
<1>3. "watcher" \in Threads /\ "deployer" \in Threads
  BY DEF Threads
<1> QED
  BY <1>1, <1>2, <1>3 DEF Latest, Reporting, Main

LEMMA LatestResting ==
    ASSUME NEW n, n \notin Queued', \A t \in Threads : thread'[t].n # n,
           job' = job, collected'[job[n].app] = reported'[n]
    PROVE  Latest(n)'
<1>1. "watcher" \in Threads /\ "deployer" \in Threads
  BY DEF Threads
<1> QED
  BY <1>1 DEF Latest, Main

LEMMA InlineSaved ==
    ASSUME IInv, main \notin Exits, NEW t \in Threads, CollectStarts, SaveInline(t),
           ~Gone(job[thread[t].n].app)
    PROVE  IInv'
<1>0. PICK held, s : held = thread[t].n /\ s = [thread[t] EXCEPT !.pc = "status"]
  OBVIOUS
<1> DEFINE a == job[held].app
<1>1. /\ held = thread[t].n /\ thread[t].pc = "inline" /\ thread' = [thread EXCEPT ![t] = s]
      /\ SaveInlineStatus(a, job[held].id, thread[t].res)
      /\ jobs' = jobs /\ job' = job /\ queue' = queue /\ tasks' = tasks
      /\ faults' = faults /\ reported' = reported /\ k8s' = k8s
  BY <1>0 DEF SaveInline, Become, Gone
<1>2. TypeOK
  BY DEF IInv
<1>3. /\ held \in 1..jobs /\ held # 0 /\ a \in Apps
      /\ thread[t] \in ThreadRecord
      /\ faults \in Nat /\ DOMAIN reported = Tickets /\ DOMAIN collected = Apps
      /\ queue \in Seq(1..jobs) /\ tasks \subseteq 1..jobs
  BY <1>1, <1>2, Held DEF TypeOK, ThreadRecord
<1>4. s \in ThreadRecord /\ s.n = held /\ s.res = thread[t].res /\ s.pc = "status"
  BY <1>0, <1>3 DEF ThreadRecord
<1>5. /\ main' = main /\ todo' = todo /\ first' = first
      /\ collected' = IF first /\ s.pc = FirstWrite /\ s # thread[t]
                      THEN [collected EXCEPT ![job[s.n].app] = s.res] ELSE collected
  BY <1>1, <1>2, Collects
<1>6. /\ DOMAIN app' = Apps /\ \A b \in Apps : "phase" \in DOMAIN app'[b]
      /\ \A b \in Apps : app'[b].phase = app[b].phase
      /\ DOMAIN k8s' = Apps /\ \A b \in Apps : DOMAIN k8s'[b] = {"n", "rev", "ready"}
  BY <1>1, <1>2, <1>3, StatusWritten DEF TypeOK
<1>7. \A b \in Apps : Gone(b)' <=> Gone(b)
  BY <1>6 DEF Gone
<1>8. Fits(t, s)
  <2>1. Fits(t, thread[t])
    BY ThreadsFit
  <2> QED
    BY <1>1, <1>3, <1>4, <2>1 DEF Fits
<1>9. \A b \in Apps : collected'[b] # collected[b] => first /\ b = a /\ collected'[b] = s.res
  BY <1>3, <1>4, <1>5
<1>10. DOMAIN collected' = Apps /\ s.res # "NONE"
  BY <1>3, <1>4, <1>5, <1>8 DEF Fits, Threads
<1>11. Move(t, s)
  <2>1. Queued' = Queued
    BY <1>1 DEF Queued
  <2>2. \A b \in Apps : k8s[b].n # 0 => Gone(b)' \/ k8s'[b].n # 0
    BY <1>1
  <2>3. \A b \in Apps : collected'[b] # collected[b] =>
          collected'[b] # "NONE" /\ \E m \in {held, s.n} \ {0} : b = job[m].app
    BY <1>3, <1>9, <1>10
  <2>4. faults' \in Nat /\ faults' >= faults
    <3>1. faults' = faults /\ faults \in Nat
      BY <1>1, <1>3
    <3> QED
      BY <3>1
  <2> QED
    BY <1>1, <1>3, <1>4, <1>5, <1>7, <2>1, <2>2, <2>3, <2>4 DEF Move
<1>12. OnePlace'
  BY <1>1, <1>3, <1>4, <1>11, PlaceKept
<1>13. TypeOK'
  BY <1>1, <1>3, <1>6, <1>10, <1>11, TypeKept
<1>14. faults' = 0 => Gone(a)' \/ Latest(held)'
  <2> SUFFICES ASSUME faults = 0, ~Gone(a)
               PROVE  Latest(held)'
    BY <1>1, <1>3, <1>7
  <2>1. first => collected[a] = s.res
    BY <1>1, <1>3, <1>4 DEF IInv, AllLatest, Latest, Reporting
  <2>2. first => collected'[a] = s.res
    BY <1>3, <1>9, <2>1
  <2>3. thread'[t] = s
    BY <1>11, Moved
  <2> QED
    BY <1>1, <1>3, <1>4, <1>5, <1>12, <2>2, <2>3, LatestHeld
<1>15. \A n \in 1..jobs : collected'[job[n].app] # collected[job[n].app] => first /\ n = held
  BY <1>3, <1>9, <1>11, Moved
<1>16. thread[t].res = "SUCCESS" => Gone(a) \/ k8s[a].n = held
  BY <1>1, <1>3 DEF IInv, OwnDeployment
<1>17. Settles(t, s, held)
  <2>1. \A b \in Apps : k8s'[b].n = k8s[b].n
    BY <1>1
  <2>2. s.res = "SUCCESS" => Gone(job[held].app)' \/ k8s'[job[held].app].n = held
    BY <1>1, <1>3, <1>4, <1>7, <1>16 DEF Gone
  <2>3. \A n \in 1..jobs :
          collected'[job[n].app] = "SUCCESS" /\ collected[job[n].app] # "SUCCESS" =>
            first /\ s.n = n /\ s.res = "SUCCESS"
    BY <1>3, <1>4, <1>9, <1>15
  <2>4. faults' = 0 => \A n \in {held, s.n} \ {0} : Gone(job[n].app)' \/ Latest(n)'
    BY <1>1, <1>4, <1>14 DEF Gone
  <2> QED
    BY <1>1, <1>3, <1>4, <1>5, <1>8, <2>1, <2>2, <2>3, <2>4 DEF Settles
<1> QED
  BY <1>11, <1>12, <1>13, <1>17, MoveKeeps

LEMMA StatusSaved ==
    ASSUME IInv, main \notin Exits, NEW t \in Threads, CollectEnds(t), SaveStatus(t)
    PROVE  IInv'
<1>0. PICK held, s, r : held = thread[t].n /\ s = AfterReport(t) /\ r = thread[t].res
  OBVIOUS
<1> DEFINE a == job[held].app
<1>1. /\ held = thread[t].n /\ r = thread[t].res /\ thread[t].pc = "status"
      /\ thread' = [thread EXCEPT ![t] = s]
      /\ jobs' = jobs /\ job' = job /\ queue' = queue /\ tasks' = tasks
      /\ faults' = faults /\ app' = app /\ k8s' = k8s
      /\ reported' = [reported EXCEPT ![held] = r]
  BY <1>0 DEF SaveStatus, Become
<1>2. TypeOK
  BY DEF IInv
<1>3. /\ held \in 1..jobs /\ held # 0 /\ a \in Apps /\ held \in Tickets
      /\ thread[t] \in ThreadRecord
      /\ faults \in Nat /\ DOMAIN reported = Tickets /\ DOMAIN collected = Apps
      /\ queue \in Seq(1..jobs) /\ tasks \subseteq 1..jobs
      /\ \A n \in 1..jobs : n \in Tickets
  <2>1. \A n \in 1..jobs : n \in Tickets
    BY <1>2, JobsAssumption DEF TypeOK, Tickets
  <2> QED
    BY <1>1, <1>2, <2>1, Held DEF TypeOK, ThreadRecord
<1>4. Fits(t, thread[t])
  BY ThreadsFit
<1>5. \/ t = "watcher" /\ r = "INITIATED" /\ s = [thread[t] EXCEPT !.pc = "build"]
      \/ t = "deployer" /\ r = "RUNNING" /\ s = [thread[t] EXCEPT !.pc = "deploy"]
      \/ s = At("idle") /\ (t = "watcher" => r # "INITIATED")
  BY <1>0 DEF AfterReport
<1>6. /\ s \in ThreadRecord /\ Fits(t, s)
      /\ \/ s.n = held /\ t = "watcher" /\ s.pc = "build" /\ s.res = "INITIATED" /\ r = s.res
         \/ s.n = held /\ t = "deployer" /\ s.pc = "deploy" /\ s.res = "RUNNING" /\ r = s.res
         \/ s.n = 0 /\ s.res = "NONE"
  <2>0. held = thread[t].n /\ r = thread[t].res
    BY <1>1
  <2>1. CASE t = "watcher" /\ r = "INITIATED" /\ s = [thread[t] EXCEPT !.pc = "build"]
    BY <1>3, <2>0, <2>1 DEF Fits, ThreadRecord
  <2>2. CASE t = "deployer" /\ r = "RUNNING" /\ s = [thread[t] EXCEPT !.pc = "deploy"]
    BY <1>3, <2>0, <2>2 DEF Fits, ThreadRecord
  <2>3. CASE s = At("idle") /\ (t = "watcher" => r # "INITIATED")
    BY <2>3 DEF At, Fits, ThreadRecord
  <2> QED
    BY <1>5, <2>1, <2>2, <2>3
<1>7. /\ main' = main /\ todo' = todo /\ first' = first
      /\ collected' = IF first THEN collected ELSE [collected EXCEPT ![a] = r]
  BY <1>0 DEF CollectEnds, Store
<1>8. /\ DOMAIN app' = Apps /\ \A b \in Apps : "phase" \in DOMAIN app'[b]
      /\ DOMAIN k8s' = Apps /\ \A b \in Apps : DOMAIN k8s'[b] = {"n", "rev", "ready"}
      /\ \A b \in Apps : Gone(b)' <=> Gone(b)
  BY <1>1, <1>2 DEF TypeOK, Gone
<1>9. \A b \in Apps : collected'[b] # collected[b] => ~first /\ b = a /\ collected'[b] = r
  BY <1>3, <1>7
<1>10. DOMAIN collected' = Apps /\ r # "NONE" /\ DOMAIN reported' = Tickets /\ reported'[held] = r
  BY <1>1, <1>3, <1>4, <1>7 DEF Fits, Threads
<1>11. Move(t, s)
  <2>1. Queued' = Queued
    BY <1>1 DEF Queued
  <2>2. \A b \in Apps : k8s[b].n # 0 => Gone(b)' \/ k8s'[b].n # 0
    BY <1>1
  <2>3. \A b \in Apps : collected'[b] # collected[b] =>
          collected'[b] # "NONE" /\ \E m \in {held, s.n} \ {0} : b = job[m].app
    BY <1>3, <1>9, <1>10
  <2>4. faults' \in Nat /\ faults' >= faults
    <3>1. faults' = faults /\ faults \in Nat
      BY <1>1, <1>3
    <3> QED
      BY <3>1
  <2>5. \A n \in 1..jobs : n # held => reported'[n] = reported[n]
    BY <1>1, <1>3
  <2>6. s.n \in {0, held}
    BY <1>6
  <2>7. s.n # held => s.n \notin Queued' \union tasks'
    <3>1. 0 \notin Queued \union tasks
      BY NoneNumberedZero
    <3> QED
      BY <1>1, <2>1, <2>6, <3>1
  <2> QED
    BY <1>1, <1>3, <1>6, <1>7, <1>8, <2>1, <2>2, <2>3, <2>4, <2>5, <2>6, <2>7 DEF Move
<1>12. OnePlace' /\ (s.n = 0 => Nowhere(held)')
  BY <1>1, <1>3, <1>6, <1>11, PlaceKept
<1>13. TypeOK'
  BY <1>1, <1>3, <1>8, <1>10, <1>11, TypeKept
<1>14. faults = 0 /\ ~Gone(a) => collected'[a] = r
  <2>1. faults = 0 /\ ~Gone(a) /\ first => collected[a] = r
    BY <1>1, <1>3 DEF IInv, AllLatest, Latest, Reporting
  <2> QED
    BY <1>3, <1>7, <2>1
<1>15. faults' = 0 => Gone(a)' \/ Latest(held)'
  <2> SUFFICES ASSUME faults = 0, ~Gone(a)
               PROVE  Latest(held)'
    BY <1>1, <1>3, <1>8
  <2>1. collected'[a] = r /\ reported'[held] = r
    BY <1>10, <1>14
  <2>2. CASE s.n = 0
    <3>1. held \notin Queued' /\ \A u \in Threads : thread'[u].n # held
      BY <1>12, <2>2 DEF Nowhere
    <3> QED
      BY <1>1, <2>1, <3>1, LatestResting
  <2>3. CASE s.n = held
    <3>1. s.pc \notin {"inline", "status"} /\ r = s.res
      BY <1>3, <1>6, <2>3
    <3>2. t = "watcher" /\ s.pc = "build" => r = "INITIATED"
      BY <1>3, <1>6, <2>3
    <3>3. thread'[t] = s
      BY <1>11, Moved
    <3> QED
      BY <1>1, <1>3, <1>7, <1>12, <2>1, <2>3, <3>1, <3>2, <3>3, LatestHeld
  <2> QED
    BY <1>6, <2>2, <2>3
<1>16. \A n \in 1..jobs : collected'[job[n].app] # collected[job[n].app] => ~first /\ n = held
  BY <1>3, <1>9, <1>11, Moved
<1>17. r = "SUCCESS" => Gone(a) \/ k8s[a].n = held
  BY <1>1, <1>3 DEF IInv, OwnDeployment
<1>18. r = "SUCCESS" => s.n = 0
  BY <1>3, <1>6
<1>19. Settles(t, s, held)
  <2>1. \A b \in Apps : k8s'[b].n = k8s[b].n
    BY <1>1
  <2>2. s.res # "SUCCESS"
    BY <1>6
  <2>3. ASSUME NEW n \in 1..jobs,
               collected'[job[n].app] = "SUCCESS", collected[job[n].app] # "SUCCESS"
        PROVE  \/ Gone(job[n].app)'
               \/ k8s'[job[n].app].n = n /\ reported'[n] = "SUCCESS" /\ Nowhere(n)'
    <3>1. n = held /\ r = "SUCCESS"
      BY <1>3, <1>9, <1>16, <2>3
    <3> QED
      BY <1>1, <1>3, <1>8, <1>10, <1>12, <1>17, <1>18, <3>1 DEF Gone
  <2>4. faults' = 0 => \A n \in {held, s.n} \ {0} : Gone(job[n].app)' \/ Latest(n)'
    BY <1>1, <1>6, <1>15 DEF Gone
  <2>5. r = "SUCCESS" => reported'[held] = "SUCCESS" /\ Nowhere(held)'
    BY <1>10, <1>12, <1>18
  <2>6. t = "watcher" /\ s.n # held => collected'[a] # "NONE"
    <3>1. first => collected[a] # "NONE"
      BY <1>3 DEF IInv, NoneForgotten
    <3> QED
      BY <1>3, <1>7, <1>10, <3>1
  <2> QED
    BY <1>1, <1>3, <1>6, <1>7, <2>1, <2>2, <2>3, <2>4, <2>5, <2>6 DEF Settles
<1> QED
  BY <1>11, <1>12, <1>13, <1>19, MoveKeeps

-----------------------------------------------------------------------------
(* The main thread builds the AppSpec. *)

LEMMA SamePlace ==
    ASSUME IInv, NEW t \in Threads, NEW s, thread' = [thread EXCEPT ![t] = s],
           s.n = thread[t].n, queue' = queue, tasks' = tasks, jobs' = jobs
    PROVE  OnePlace' /\ Queued' = Queued
<1>1. \A u \in Threads : thread'[u].n = thread[u].n
  BY DEF IInv, TypeOK
<1>2. Queued' = Queued
  BY DEF Queued
<1> QED
  BY <1>1, <1>2 DEF IInv, OnePlace

\* What is in common to the outcomes of a build: only the collector and the queue
\* are written.
Builds(s, held) ==
    /\ held = thread["watcher"].n /\ thread["watcher"].pc = "build"
    /\ thread' = [thread EXCEPT !["watcher"] = s]
    /\ jobs' = jobs /\ job' = job /\ tasks' = tasks /\ faults' = faults
    /\ app' = app /\ k8s' = k8s /\ reported' = reported
    /\ main' = main /\ main \notin Exits /\ todo' = todo /\ first' = first
    /\ \A b \in Apps : collected'[b] # collected[b] =>
         b = job[held].app /\ collected'[b] \in {"FAILED", "DEPLOY_SCHEDULED"}
    /\ DOMAIN collected' = Apps

LEMMA BuildKeeps ==
    ASSUME IInv, NEW s, NEW held, Builds(s, held),
           s \in ThreadRecord, Fits("watcher", s), s.n \in {0, held},
           queue' \in Seq(1..jobs), OnePlace',
           \A n \in 1..jobs : n # held => (n \in Queued' <=> n \in Queued),
           s.n # held => collected'[job[held].app] # "NONE",
           faults = 0 /\ ~Gone(job[held].app) => Latest(held)'
    PROVE  IInv'
<1> DEFINE t == "watcher"
<1>1. /\ held = thread[t].n /\ t \in Threads /\ TypeOK
      /\ held \in 1..jobs /\ held # 0 /\ job[held].app \in Apps
  <2>1. held = thread[t].n /\ t \in Threads /\ thread[t].pc = "build"
    BY DEF Builds, Threads
  <2> QED
    BY <2>1, Held DEF IInv
<1>2. /\ thread' = [thread EXCEPT ![t] = s]
      /\ jobs' = jobs /\ job' = job /\ todo' = todo /\ first' = first
      /\ tasks' = tasks /\ faults' = faults /\ reported' = reported
      /\ app' = app /\ k8s' = k8s
      /\ main' = main /\ main \notin Exits
  BY DEF Builds
<1>3. /\ \A b \in Apps : collected'[b] # collected[b] =>
           /\ b = job[held].app
           /\ collected'[b] # "NONE" /\ collected'[b] # "SUCCESS"
      /\ DOMAIN collected' = Apps
  BY DEF Builds
<1>4. faults \in Nat /\ tasks \subseteq 1..jobs /\ DOMAIN reported = Tickets
  BY <1>1 DEF TypeOK
<1>5. /\ DOMAIN app' = Apps /\ \A b \in Apps : "phase" \in DOMAIN app'[b]
      /\ DOMAIN k8s' = Apps /\ \A b \in Apps : DOMAIN k8s'[b] = {"n", "rev", "ready"}
      /\ \A b \in Apps : Gone(b)' <=> Gone(b)
  BY <1>1, <1>2 DEF TypeOK, Gone
<1>6. s.n # held => s.n \notin Queued' \union tasks'
  <2>1. Queued' \subseteq 1..jobs /\ tasks' \subseteq 1..jobs
    <3>1. Members(queue') \subseteq 1..jobs
      BY MembersOf
    <3>2. tasks' \subseteq 1..jobs
      BY <1>2, <1>4
    <3> QED
      BY <3>1, <3>2 DEF Queued, Members
  <2> QED
    BY <2>1
<1>7. Move(t, s)
  <2>1. \A b \in Apps : k8s[b].n # 0 => Gone(b)' \/ k8s'[b].n # 0
    BY <1>2
  <2>2. \A b \in Apps : collected'[b] # collected[b] =>
          collected'[b] # "NONE" /\ \E m \in {held, s.n} \ {0} : b = job[m].app
    BY <1>1, <1>3
  <2>3. faults' \in Nat /\ faults' >= faults
    BY <1>2, <1>4
  <2> QED
    BY <1>1, <1>2, <1>5, <1>6, <2>1, <2>2, <2>3 DEF Move
<1>8. TypeOK'
  <2>1. tasks' \subseteq 1..jobs /\ DOMAIN reported' = Tickets
    BY <1>2, <1>4
  <2> QED
    BY <1>1, <1>3, <1>5, <1>7, <2>1, TypeKept
<1>9. thread[t].res # "SUCCESS" /\ (s.n # 0 => s.res # "SUCCESS")
  <2>1. Fits(t, thread[t])
    BY <1>1, ThreadsFit
  <2> QED
    BY <1>1, <2>1 DEF Fits
<1>10. Settles(t, s, held)
  <2>1. \A n \in 1..jobs :
          ~(collected'[job[n].app] = "SUCCESS" /\ collected[job[n].app] # "SUCCESS")
    BY <1>1, <1>3 DEF TypeOK
  <2>2. faults' = 0 => \A n \in {held, s.n} \ {0} : Gone(job[n].app)' \/ Latest(n)'
    BY <1>1, <1>2, <1>5 DEF Gone
  <2>3. \A b \in Apps : k8s'[b].n = k8s[b].n
    BY <1>2
  <2> QED
    BY <1>1, <1>2, <1>9, <2>1, <2>2, <2>3 DEF Settles
<1> QED
  BY <1>1, <1>7, <1>8, <1>10, MoveKeeps

LEMMA BuildStep ==
    ASSUME IInv, main \notin Exits, Build
    PROVE  IInv'
<1> DEFINE t == "watcher"
<1>0. PICK held : held = thread[t].n
  OBVIOUS
<1> DEFINE a == job[held].app
<1>1. /\ held = thread[t].n /\ t \in Threads /\ TypeOK /\ thread[t].pc = "build"
      /\ held \in 1..jobs /\ held # 0 /\ a \in Apps
      /\ held \notin Queued \union tasks
      /\ \A u \in Threads : thread[u].n = held => u = t
  <2>1. held = thread[t].n /\ t \in Threads /\ thread[t].pc = "build"
    BY <1>0 DEF Build, Main, Threads
  <2> QED
    BY <2>1, Held DEF IInv
<1>2. /\ jobs' = jobs /\ job' = job /\ todo' = todo /\ first' = first
      /\ tasks' = tasks /\ faults' = faults /\ reported' = reported
      /\ app' = app /\ k8s' = k8s /\ main' = main
  BY DEF Build, apiVars
<1>3. /\ queue \in Seq(1..jobs) /\ DOMAIN collected = Apps /\ thread[t] \in ThreadRecord
      /\ thread \in [Threads -> ThreadRecord]
      /\ 0 \notin Queued \union tasks
  BY <1>1, NoneNumberedZero DEF TypeOK, ThreadRecord
<1>4. /\ Fits(t, thread[t]) /\ OnePlace
      /\ faults = 0 /\ ~Gone(a) =>
           reported[held] = "INITIATED" /\ collected[a] \in {"INITIATED", "DEPLOY_SCHEDULED"}
      /\ first => collected[a] # "NONE"
  <2>1. Fits(t, thread[t]) /\ OnePlace
    BY <1>1, ThreadsFit DEF IInv
  <2>2. faults = 0 /\ ~Gone(a) =>
          reported[held] = "INITIATED" /\ collected[a] \in {"INITIATED", "DEPLOY_SCHEDULED"}
    BY <1>1 DEF IInv, AllLatest, Latest, Main
  <2>3. first => collected[a] # "NONE"
    BY <1>1 DEF IInv, NoneForgotten
  <2> QED
    BY <2>1, <2>2, <2>3
<1>5. CASE job[held].bad
  <2>1. PICK s : s = Report(held, "FAILED")
    OBVIOUS
  <2>2. /\ s \in ThreadRecord /\ Fits(t, s) /\ s.n = held /\ s.res = "FAILED"
        /\ s.pc \in {"inline", "status"}
    BY <1>1, <2>1 DEF Report, FirstWrite, Fits, ThreadRecord, TypeOK, Results
  <2>3. /\ thread' = [thread EXCEPT ![t] = s] /\ queue' = queue
        /\ collected' = IF first THEN [collected EXCEPT ![a] = "FAILED"] ELSE collected
    BY <1>0, <1>5, <2>1 DEF Build, Become, Main, Store
  <2>4. Builds(s, held)
    BY <1>1, <1>2, <1>3, <2>3 DEF Builds
  <2>5. OnePlace' /\ Queued' = Queued
    BY <1>1, <1>2, <2>2, <2>3, SamePlace
  <2>6. thread'[t] = s /\ (first => collected'[a] = s.res)
    BY <1>1, <1>3, <2>2, <2>3
  <2>7. Latest(held)'
    BY <1>1, <1>2, <2>2, <2>5, <2>6, LatestHeld
  <2> QED
    BY <1>3, <2>2, <2>3, <2>4, <2>5, <2>7, BuildKeeps
<1>6. CASE ~job[held].bad /\ collected[a] # "DEPLOY_SCHEDULED"
  <2>1. PICK s : s = thread[t]
    OBVIOUS
  <2>2. /\ s \in ThreadRecord /\ Fits(t, s) /\ s.n = held /\ s.pc = "build"
    BY <1>1, <1>3, <1>4, <2>1
  <2>3. /\ thread' = thread /\ queue' = queue
        /\ collected' = [collected EXCEPT ![a] = "DEPLOY_SCHEDULED"]
    BY <1>0, <1>6 DEF Build, Enqueue, Main, Store
  <2>4. thread' = [thread EXCEPT ![t] = s]
    BY <1>1, <1>3, <2>1, <2>3
  <2>5. Builds(s, held)
    BY <1>1, <1>2, <1>3, <2>3, <2>4 DEF Builds
  <2>6. OnePlace' /\ Queued' = Queued
    BY <1>1, <1>2, <2>2, <2>3, <2>4, SamePlace
  <2>7. faults = 0 /\ ~Gone(a) => Latest(held)'
    <3>1. collected'[a] = "DEPLOY_SCHEDULED" /\ thread'[t] = s
      BY <1>1, <1>3, <2>1, <2>3
    <3>2. faults = 0 /\ ~Gone(a) => reported'[held] = "INITIATED"
      BY <1>2, <1>4
    <3> QED
      BY <1>1, <1>2, <2>2, <2>6, <3>1, <3>2, LatestHeld
  <2> QED
    BY <1>3, <2>2, <2>3, <2>5, <2>6, <2>7, BuildKeeps
<1>7. CASE ~job[held].bad /\ collected[a] = "DEPLOY_SCHEDULED"
  <2>1. PICK s : s = At("idle")
    OBVIOUS
  <2>2. s \in ThreadRecord /\ Fits(t, s) /\ s.n = 0 /\ s.pc = "idle"
    BY <2>1 DEF At, Fits, ThreadRecord
  <2>3. /\ thread' = [thread EXCEPT ![t] = s] /\ queue' = Append(queue, held)
        /\ collected' = collected
    BY <1>0, <1>7, <2>1 DEF Build, Enqueue, Become, Main
  <2>4. Builds(s, held)
    BY <1>1, <1>2, <1>3, <2>3 DEF Builds
  <2>5. Queued = Members(queue) /\ Distinct(queue)
    BY <1>4, QueueMembers
  <2>6. /\ queue' \in Seq(1..jobs) /\ Distinct(queue')
        /\ Members(queue') = Queued \union {held}
    <3>1. PICK S, q : S = 1..jobs /\ q = queue
      OBVIOUS
    <3>2. held \in S /\ q \in Seq(S) /\ Distinct(q) /\ held \notin Members(q)
      BY <1>1, <1>3, <2>5, <3>1
    <3>3. /\ Append(q, held) \in Seq(S) /\ Distinct(Append(q, held))
          /\ Members(Append(q, held)) = Members(q) \union {held}
      BY <3>2, AppendMembers
    <3>4. queue' = Append(q, held)
      BY <2>3, <3>1
    <3> QED
      BY <2>5, <3>1, <3>3, <3>4
  <2>7. Queued' = Queued \union {held}
    BY <2>6 DEF Queued, Members
  <2>8. /\ thread'[t].n = 0 /\ \A u \in Threads \ {t} : thread'[u] = thread[u]
        /\ \A u \in Threads : thread'[u].n # held
    BY <1>1, <1>3, <2>2, <2>3
  <2>9. OnePlace'
    <3>1. \A k, l \in DOMAIN queue' : queue'[k] = queue'[l] => k = l
      BY <2>6 DEF Distinct
    <3>2. \A u, v \in Threads : thread'[u].n = thread'[v].n /\ thread'[u].n # 0 => u = v
      BY <1>4, <2>8 DEF OnePlace
    <3>3. \A u \in Threads : thread'[u].n <= jobs' /\ thread'[u].n \notin Queued' \union tasks'
      <4>1. 0 <= jobs'
        BY <1>1, <1>2, JobsAssumption DEF TypeOK
      <4> QED
        BY <1>1, <1>2, <1>3, <1>4, <2>7, <2>8, <4>1 DEF OnePlace
    <3>4. Queued' \intersect tasks' = {}
      BY <1>1, <1>2, <1>4, <2>7 DEF OnePlace
    <3> QED
      BY <3>1, <3>2, <3>3, <3>4 DEF OnePlace
  <2>10. faults = 0 /\ ~Gone(a) => Latest(held)'
    <3>1. "watcher" \in Threads /\ "deployer" \in Threads
      BY DEF Threads
    <3> SUFFICES ASSUME faults = 0, ~Gone(a)
                 PROVE  Latest(held)'
      OBVIOUS
    <3>2. reported'[held] = "INITIATED" /\ collected'[a] = "DEPLOY_SCHEDULED" /\ held \in Queued'
      BY <1>2, <1>4, <1>7, <2>3, <2>7
    <3> QED
      BY <1>2, <2>8, <3>1, <3>2 DEF Latest, Main
  <2>11. collected'[a] # "NONE"
    BY <1>7, <2>3
  <2>12. \A n \in 1..jobs : n # held => (n \in Queued' <=> n \in Queued)
    BY <2>7
  <2> QED
    BY <2>2, <2>4, <2>6, <2>9, <2>10, <2>11, <2>12, BuildKeeps
<1> QED
  BY <1>5, <1>6, <1>7

-----------------------------------------------------------------------------
(* Steps that take a deploy from the queue or from the scheduler. *)

\* An idle thread takes deploy m, and its report starts.
Takes(t, s, m) ==
    /\ thread[t].pc = "idle" /\ t # "watcher"
    /\ thread' = [thread EXCEPT ![t] = s]
    /\ s.n = m /\ s.pc = FirstWrite /\ s.res \in Results /\ s \in ThreadRecord /\ Fits(t, s)
    /\ jobs' = jobs /\ job' = job /\ faults' = faults
    /\ app' = app /\ k8s' = k8s /\ reported' = reported
    /\ CollectStarts
    /\ m \in Queued \union tasks
    /\ queue' \in Seq(1..jobs) /\ Distinct(queue')
    /\ Queued' = Queued \ {m} /\ tasks' = tasks \ {m}
    /\ s.res = "SUCCESS" => Gone(job[m].app) \/ k8s[job[m].app].n = m

LEMMA TakeKeeps ==
    ASSUME IInv, main \notin Exits, NEW t \in Threads, NEW s, NEW m, Takes(t, s, m)
    PROVE  IInv'
<1>1. /\ thread[t].n = 0 /\ t # "watcher"
      /\ thread' = [thread EXCEPT ![t] = s]
      /\ s.n = m /\ s.res \in Results /\ s \in ThreadRecord /\ Fits(t, s)
      /\ jobs' = jobs /\ job' = job /\ faults' = faults
      /\ app' = app /\ k8s' = k8s /\ reported' = reported
  BY DEF Takes, IInv, ThreadsInTurn
<1>2. /\ m \in Queued \union tasks
      /\ queue' \in Seq(1..jobs) /\ Distinct(queue')
      /\ Queued' = Queued \ {m} /\ tasks' = tasks \ {m}
      /\ s.res = "SUCCESS" => Gone(job[m].app) \/ k8s[job[m].app].n = m
  BY DEF Takes
<1>3. /\ TypeOK /\ OnePlace /\ Queued \subseteq 1..jobs /\ tasks \subseteq 1..jobs
      /\ thread \in [Threads -> ThreadRecord]
      /\ faults \in Nat /\ DOMAIN reported = Tickets /\ DOMAIN collected = Apps
  <2>1. Queued \subseteq 1..jobs
    BY MembersOf DEF IInv, TypeOK, Queued, Members
  <2> QED
    BY <2>1 DEF IInv, TypeOK, ThreadRecord
<1>4. m \in 1..jobs /\ m # 0 /\ job[m].app \in Apps /\ jobs \in Nat
  <2>1. m \in 1..jobs
    BY <1>2, <1>3
  <2>2. jobs \in Nat /\ job[m].app \in Apps
    BY <1>3, <2>1, JobsAssumption DEF TypeOK
  <2> QED
    BY <2>1, <2>2
<1>5. /\ main' = main /\ todo' = todo /\ first' = first
      /\ collected' = IF first THEN [collected EXCEPT ![job[m].app] = s.res] ELSE collected
  <2>1. s.pc = FirstWrite /\ s # thread[t] /\ CollectStarts
    BY <1>1, <1>4 DEF Takes
  <2> QED
    BY <1>1, <1>3, <2>1, Collects
<1>6. \A b \in Apps : collected'[b] # collected[b] =>
        first /\ b = job[m].app /\ collected'[b] = s.res
  BY <1>3, <1>5
<1>7. DOMAIN collected' = Apps /\ s.res # "NONE" /\ (first => collected'[job[m].app] = s.res)
  BY <1>1, <1>3, <1>4, <1>5 DEF Results
<1>8. /\ DOMAIN app' = Apps /\ \A b \in Apps : "phase" \in DOMAIN app'[b]
      /\ DOMAIN k8s' = Apps /\ \A b \in Apps : DOMAIN k8s'[b] = {"n", "rev", "ready"}
      /\ \A b \in Apps : Gone(b)' <=> Gone(b)
  BY <1>1, <1>3 DEF TypeOK, Gone
<1>9. Move(t, s)
  <2>1. \A b \in Apps : k8s[b].n # 0 => Gone(b)' \/ k8s'[b].n # 0
    BY <1>1
  <2>2. \A b \in Apps : collected'[b] # collected[b] =>
          collected'[b] # "NONE" /\ \E l \in {thread[t].n, s.n} \ {0} : b = job[l].app
    BY <1>1, <1>4, <1>6, <1>7
  <2>3. faults' \in Nat /\ faults' >= faults
    BY <1>1, <1>3
  <2>4. \A n \in 1..jobs : n # s.n =>
          (n \in Queued' <=> n \in Queued) /\ (n \in tasks' => n \in tasks)
    BY <1>1, <1>2
  <2>5. s.n \in Queued \union tasks /\ s.n \notin Queued' \union tasks'
    BY <1>1, <1>2
  <2> QED
    BY <1>1, <1>5, <1>8, <2>1, <2>2, <2>3, <2>4, <2>5 DEF Move
<1>10. thread'[t].n = m /\ \A u \in Threads \ {t} : thread'[u] = thread[u]
  BY <1>1, <1>9, Moved
<1>11. OnePlace'
  <2>1. \A k, l \in DOMAIN queue' : queue'[k] = queue'[l] => k = l
    BY <1>2 DEF Distinct
  <2>2. \A u \in Threads : thread[u].n # m
    BY <1>2, <1>3 DEF OnePlace
  <2>3. \A u, v \in Threads : thread'[u].n = thread'[v].n /\ thread'[u].n # 0 => u = v
    BY <1>3, <1>10, <2>2 DEF OnePlace
  <2>4. \A u \in Threads : thread'[u].n <= jobs' /\ thread'[u].n \notin Queued' \union tasks'
    <3>1. m <= jobs
      BY <1>4
    <3>2. \A u \in Threads : thread[u].n <= jobs /\ thread[u].n \notin Queued \union tasks
      BY <1>3 DEF OnePlace
    <3> QED
      BY <1>1, <1>2, <1>10, <3>1, <3>2
  <2>5. Queued' \intersect tasks' = {}
    BY <1>2, <1>3 DEF OnePlace
  <2> QED
    BY <2>1, <2>3, <2>4, <2>5 DEF OnePlace
<1>12. TypeOK'
  <2>1. tasks' \subseteq 1..jobs /\ DOMAIN reported' = Tickets
    BY <1>1, <1>2, <1>3
  <2> QED
    BY <1>2, <1>7, <1>8, <1>9, <2>1, TypeKept
<1>13. Latest(m)'
  <2>1. s.pc \in {"inline", "status"}
    BY DEF Takes, FirstWrite
  <2>2. thread'[t] = s
    BY <1>9, Moved
  <2> QED
    BY <1>1, <1>4, <1>5, <1>7, <1>11, <2>1, <2>2, LatestHeld
<1>14. \A n \in 1..jobs : collected'[job[n].app] # collected[job[n].app] => first /\ n = m
  BY <1>4, <1>6, <1>9, Moved
<1>15. \A held : held = 0 => Settles(t, s, held)
  <2> SUFFICES ASSUME NEW held, held = 0
               PROVE  Settles(t, s, held)
    OBVIOUS
  <2>1. \A b \in Apps : k8s'[b].n = k8s[b].n
    BY <1>1
  <2>2. s.res = "SUCCESS" => Gone(job[s.n].app)' \/ k8s'[job[s.n].app].n = s.n
    BY <1>1, <1>2 DEF Gone
  <2>3. \A n \in 1..jobs :
          collected'[job[n].app] = "SUCCESS" /\ collected[job[n].app] # "SUCCESS" =>
            first /\ s.n = n /\ s.res = "SUCCESS"
    BY <1>1, <1>4, <1>6, <1>14
  <2>4. \A n \in {held, s.n} \ {0} : Latest(n)'
    BY <1>1, <1>13
  <2> QED
    BY <1>1, <1>5, <2>1, <2>2, <2>3, <2>4 DEF Settles
<1>16. PICK held : held = 0
  OBVIOUS
<1>17. Settles(t, s, held)
  BY <1>15, <1>16
<1> QED
  BY <1>9, <1>11, <1>12, <1>17, MoveKeeps

LEMMA TakeJobStep ==
    ASSUME IInv, main \notin Exits, TakeJob, CollectStarts
    PROVE  IInv'
<1> DEFINE t == "deployer"
<1>1. PICK m, s, S, q : m = Head(queue) /\ s = Report(m, "RUNNING") /\ S = 1..jobs /\ q = queue
  OBVIOUS
<1>2. /\ t \in Threads /\ thread[t].pc = "idle" /\ t # "watcher"
      /\ thread' = [thread EXCEPT ![t] = s]
      /\ q # << >> /\ queue' = Tail(q)
      /\ jobs' = jobs /\ job' = job /\ faults' = faults /\ tasks' = tasks
      /\ app' = app /\ k8s' = k8s /\ reported' = reported
  BY <1>1 DEF TakeJob, Become, apiVars, Threads
<1>3. Queued = Members(q) /\ Distinct(q) /\ q \in Seq(S) /\ m = Head(q)
  BY <1>1, QueueMembers DEF IInv, TypeOK
<1>4. /\ Tail(q) \in Seq(S) /\ Distinct(Tail(q))
      /\ m \in Members(q) /\ m \in S
      /\ Members(Tail(q)) = Members(q) \ {m}
  BY <1>2, <1>3, TailMembers
<1>5. Queued' = Queued \ {m} /\ m \in Queued
  <2>1. Queued' = Members(queue')
    BY DEF Queued, Members
  <2> QED
    BY <1>2, <1>3, <1>4, <2>1
<1>6. tasks' = tasks \ {m}
  BY <1>2, <1>5 DEF IInv, OnePlace
<1>7. m \in Nat /\ m # 0
  BY <1>1, <1>4, JobsAssumption DEF IInv, TypeOK
<1>8. /\ s.n = m /\ s.pc = FirstWrite /\ s.res = "RUNNING" /\ "RUNNING" \in Results
      /\ s \in ThreadRecord /\ Fits(t, s)
  BY <1>1, <1>7 DEF Report, FirstWrite, ThreadRecord, Fits, Results
<1>9. Takes(t, s, m)
  <2>1. queue' \in Seq(1..jobs) /\ Distinct(queue')
    BY <1>1, <1>2, <1>4
  <2>2. s.res # "SUCCESS" /\ s.res \in Results
    BY <1>8
  <2> QED
    BY <1>2, <1>5, <1>6, <1>8, <2>1, <2>2 DEF Takes
<1> QED
  BY <1>2, <1>9, TakeKeeps

LEMMA RunCheckStep ==
    ASSUME IInv, main \notin Exits, NEW n \in Tickets, RunCheck(n), CollectStarts
    PROVE  IInv'
<1> DEFINE t == "scheduler"
<1>1. PICK s : /\ thread' = [thread EXCEPT ![t] = s]
               /\ \/ Ready(n) /\ s = Report(n, "SUCCESS")
                  \/ s = Report(n, "FAILED")
  BY DEF RunCheck, Become
<1>2. /\ t \in Threads /\ thread[t].pc = "idle" /\ t # "watcher" /\ n \in tasks
      /\ jobs' = jobs /\ job' = job /\ faults' = faults /\ tasks' = tasks \ {n}
      /\ app' = app /\ k8s' = k8s /\ reported' = reported /\ queue' = queue
  BY DEF RunCheck, End, apiVars, Threads
<1>3. n \in 1..jobs /\ n \in Nat /\ n # 0 /\ job[n].app \in Apps
  BY <1>2, JobsAssumption DEF IInv, TypeOK
<1>4. Queued' = Queued \ {n} /\ Distinct(queue') /\ queue' \in Seq(1..jobs)
  <2>1. Queued' = Queued
    BY <1>2 DEF Queued
  <2>2. n \notin Queued
    BY <1>2 DEF IInv, OnePlace
  <2>3. Distinct(queue) /\ queue \in Seq(1..jobs)
    BY QueueMembers DEF IInv, TypeOK
  <2> QED
    BY <1>2, <2>1, <2>2, <2>3
<1>5. /\ s.n = n /\ s.pc = FirstWrite /\ s.res \in {"SUCCESS", "FAILED"}
      /\ s \in ThreadRecord /\ Fits(t, s)
      /\ s.res = "SUCCESS" => Ready(n)
  <2>1. CASE Ready(n) /\ s = Report(n, "SUCCESS")
    BY <1>3, <2>1 DEF Report, FirstWrite, ThreadRecord, Fits, Results
  <2>2. CASE s = Report(n, "FAILED")
    BY <1>3, <2>2 DEF Report, FirstWrite, ThreadRecord, Fits, Results
  <2> QED
    BY <1>1, <2>1, <2>2
<1>6. s.res = "SUCCESS" => Gone(job[n].app) \/ k8s[job[n].app].n = n
  <2> SUFFICES ASSUME Ready(n)
               PROVE  k8s[job[n].app].n = n
    BY <1>5
  <2>1. k8s[job[n].app].n # 0
    BY DEF Ready
  <2>2. k8s[job[n].app].n \in 1..jobs /\ job[k8s[job[n].app].n].app = job[n].app
    BY <1>3, <2>1 DEF IInv, OwnDeployment
  <2> QED
    BY <1>3, <2>2 DEF IInv, OneJob
<1>7. s.res \in Results
  BY <1>5 DEF Results
<1>8. Takes(t, s, n)
  BY <1>1, <1>2, <1>4, <1>5, <1>6, <1>7 DEF Takes
<1> QED
  BY <1>2, <1>8, TakeKeeps

LEMMA CheckRaises ==
    ASSUME IInv, main \notin Exits, NEW n \in Tickets, NEW kind, CheckFails(n, kind), CollectStarts
    PROVE  IInv'
<1> DEFINE t == "scheduler"
<1>1. PICK s : /\ thread' = [thread EXCEPT ![t] = s]
               /\ s = At("idle") \/ s = At("dead")
  BY DEF CheckFails, Become
<1>2. /\ t \in Threads /\ t # "watcher" /\ thread[t].n = 0
      /\ jobs' = jobs /\ job' = job /\ faults' = faults + 1 /\ tasks' = tasks \ {n}
      /\ app' = app /\ k8s' = k8s /\ reported' = reported /\ queue' = queue
  BY DEF CheckFails, Fault, apiVars, Threads, IInv, ThreadsInTurn
<1>3. /\ s \in ThreadRecord /\ s.n = 0 /\ Fits(t, s) /\ s.pc # FirstWrite
  BY <1>1 DEF At, ThreadRecord, Fits, FirstWrite
<1>4. /\ TypeOK /\ OnePlace /\ tasks \subseteq 1..jobs /\ jobs \in Nat
      /\ faults \in Nat /\ DOMAIN reported = Tickets /\ DOMAIN collected = Apps
      /\ queue \in Seq(1..jobs) /\ thread \in [Threads -> ThreadRecord]
  BY JobsAssumption DEF IInv, TypeOK, ThreadRecord
<1>5. main' = main /\ todo' = todo /\ first' = first /\ collected' = collected
  BY <1>1, <1>2, <1>3, <1>4, Collects
<1>6. /\ DOMAIN app' = Apps /\ \A b \in Apps : "phase" \in DOMAIN app'[b]
      /\ DOMAIN k8s' = Apps /\ \A b \in Apps : DOMAIN k8s'[b] = {"n", "rev", "ready"}
      /\ \A b \in Apps : Gone(b)' <=> Gone(b)
  BY <1>2, <1>4 DEF TypeOK, Gone
<1>7. Queued' = Queued
  BY <1>2 DEF Queued
<1>8. Move(t, s)
  <2>1. \A b \in Apps : k8s[b].n # 0 => Gone(b)' \/ k8s'[b].n # 0
    BY <1>2
  <2>2. faults' \in Nat /\ faults' >= faults
    BY <1>2, <1>4
  <2>3. s.n = thread[t].n /\ s.n \in {0, thread[t].n}
    BY <1>2, <1>3
  <2> QED
    BY <1>1, <1>2, <1>3, <1>5, <1>6, <1>7, <2>1, <2>2, <2>3 DEF Move
<1>9. OnePlace'
  <2>1. \A u \in Threads : thread'[u].n = thread[u].n
    BY <1>1, <1>2, <1>3, <1>4
  <2> QED
    BY <1>2, <1>4, <1>7, <2>1 DEF OnePlace
<1>10. TypeOK'
  <2>1. /\ DOMAIN reported' = Tickets /\ DOMAIN collected' = Apps
        /\ queue' \in Seq(1..jobs) /\ tasks' \subseteq 1..jobs
    BY <1>2, <1>4, <1>5
  <2> QED
    BY <1>2, <1>6, <1>8, <2>1, TypeKept
<1>11. PICK held : held = 0
  OBVIOUS
<1>12. Settles(t, s, held)
  <2>1. \A n1 \in {held, s.n} \ {0} : FALSE
    BY <1>3, <1>11
  <2>2. \A b \in Apps : k8s'[b].n = k8s[b].n
    BY <1>2
  <2> QED
    BY <1>2, <1>3, <1>5, <1>11, <2>1, <2>2 DEF Settles
<1> QED
  BY <1>2, <1>8, <1>9, <1>10, <1>12, MoveKeeps

LEMMA DeployStep ==
    ASSUME IInv, main \notin Exits, Deploy, CollectStarts
    PROVE  IInv'
<1> DEFINE t == "deployer"
<1>0. PICK held : held = thread[t].n
  OBVIOUS
<1> DEFINE a == job[held].app
<1>1. PICK s : /\ thread' = [thread EXCEPT ![t] = s]
               /\ \/ s = Report(held, "SUCCESS") /\ tasks' = tasks
                  \/ s = At("idle") /\ tasks' = tasks \union {held}
  BY <1>0 DEF Deploy, Become, Schedule
<1>2. /\ held = thread[t].n /\ t \in Threads /\ t # "watcher" /\ thread[t].pc = "deploy"
      /\ ApplyDeployment(a, held, job[held].rev)
      /\ jobs' = jobs /\ job' = job /\ faults' = faults
      /\ app' = app /\ reported' = reported /\ queue' = queue
  BY <1>0 DEF Deploy, Threads
<1>3. /\ TypeOK /\ OnePlace /\ tasks \subseteq 1..jobs /\ jobs \in Nat
      /\ faults \in Nat /\ DOMAIN reported = Tickets /\ DOMAIN collected = Apps
      /\ queue \in Seq(1..jobs) /\ thread \in [Threads -> ThreadRecord]
  BY JobsAssumption DEF IInv, TypeOK, ThreadRecord
<1>4. /\ held \in 1..jobs /\ held # 0 /\ held \in Nat /\ a \in Apps
      /\ held \notin Queued \union tasks
      /\ \A u \in Threads : thread[u].n = held => u = t
  <2>1. held \in 1..jobs /\ held # 0 /\ a \in Apps
        /\ held \notin Queued \union tasks
        /\ \A u \in Threads : thread[u].n = held => u = t
    BY <1>2, Held
  <2> QED
    BY <1>3, <2>1
<1>5. \/ /\ s.n = held /\ s.res = "SUCCESS" /\ s.pc = FirstWrite /\ tasks' = tasks
         /\ s.pc \in {"inline", "status"} /\ s \in ThreadRecord /\ Fits(t, s)
      \/ /\ s.n = 0 /\ s.res = "NONE" /\ s.pc = "idle" /\ tasks' = tasks \union {held}
         /\ s \in ThreadRecord /\ Fits(t, s)
  <2>1. CASE s = Report(held, "SUCCESS") /\ tasks' = tasks
    BY <1>4, <2>1 DEF Report, FirstWrite, ThreadRecord, Fits, Results
  <2>2. CASE s = At("idle") /\ tasks' = tasks \union {held}
    BY <2>2 DEF At, ThreadRecord, Fits
  <2> QED
    BY <1>1, <2>1, <2>2
<1>6. /\ DOMAIN k8s' = Apps /\ \A b \in Apps : DOMAIN k8s'[b] = {"n", "rev", "ready"}
      /\ \A b \in Apps \ {a} : k8s'[b] = k8s[b]
      /\ k8s'[a].n = IF Gone(a) THEN k8s[a].n ELSE held
  BY <1>2, <1>3, <1>4, DeploymentWritten
<1>7. /\ DOMAIN app' = Apps /\ \A b \in Apps : "phase" \in DOMAIN app'[b]
      /\ \A b \in Apps : Gone(b)' <=> Gone(b)
  BY <1>2, <1>3 DEF TypeOK, Gone
<1>8. /\ main' = main /\ todo' = todo /\ first' = first
      /\ collected' = IF first /\ s.pc = FirstWrite /\ s # thread[t]
                      THEN [collected EXCEPT ![job[s.n].app] = s.res] ELSE collected
  BY <1>1, <1>2, <1>3, Collects
<1>9. thread[t].res # "SUCCESS" /\ Fits(t, thread[t])
  <2>1. Fits(t, thread[t])
    BY <1>2, ThreadsFit
  <2> QED
    BY <1>2, <1>4, <2>1 DEF Fits
<1>10. s.n = held \/ collected' = collected
  BY <1>5, <1>8 DEF FirstWrite
<1>11. \A b \in Apps : collected'[b] # collected[b] =>
         first /\ b = a /\ collected'[b] = "SUCCESS" /\ s.n = held /\ s.res = "SUCCESS"
  BY <1>3, <1>5, <1>8, <1>10, <1>4
<1>12. DOMAIN collected' = Apps /\ Queued' = Queued /\ tasks' \in {tasks, tasks \union {held}}
  BY <1>2, <1>3, <1>5, <1>8 DEF Queued
<1>13. Move(t, s)
  <2>1. \A b \in Apps : k8s[b].n # 0 => Gone(b)' \/ k8s'[b].n # 0
    BY <1>4, <1>6, <1>7
  <2>2. faults' \in Nat /\ faults' >= faults
    BY <1>2, <1>3
  <2>3. \A b \in Apps : collected'[b] # collected[b] =>
          collected'[b] # "NONE" /\ \E l \in {held, s.n} \ {0} : b = job[l].app
    BY <1>4, <1>11
  <2>4. \A n \in 1..jobs : n # held =>
          (n \in Queued' <=> n \in Queued) /\ (n \in tasks' => n \in tasks)
    BY <1>12
  <2>5. s.n \in {0, held} /\ (s.n # held => s.n \notin Queued' \union tasks')
    <3>1. 0 \notin Queued \union tasks
      BY NoneNumberedZero
    <3> QED
      BY <1>4, <1>5, <1>12, <3>1
  <2>6. s \in ThreadRecord
    BY <1>5
  <2> QED
    BY <1>1, <1>2, <1>7, <1>8, <2>1, <2>2, <2>3, <2>4, <2>5, <2>6 DEF Move
<1>14. thread'[t] = s /\ \A u \in Threads \ {t} : thread'[u] = thread[u]
  BY <1>2, <1>13, Moved
<1>15. OnePlace'
  <2>1. \A u \in Threads : thread'[u].n = thread[u].n \/ (u = t /\ thread'[u].n = 0)
    BY <1>2, <1>5, <1>14
  <2>2. \A u, v \in Threads : thread'[u].n = thread'[v].n /\ thread'[u].n # 0 => u = v
    BY <1>3, <2>1 DEF OnePlace
  <2>3. \A u \in Threads : thread'[u].n <= jobs' /\ thread'[u].n \notin Queued' \union tasks'
    <3>1. 0 \notin Queued \union tasks /\ 0 <= jobs
      BY <1>3, NoneNumberedZero
    <3>2. \A u \in Threads : thread[u].n <= jobs /\ thread[u].n \notin Queued \union tasks
      BY <1>3 DEF OnePlace
    <3>3. CASE tasks' = tasks
      BY <1>2, <1>12, <2>1, <3>1, <3>2, <3>3
    <3>4. CASE s.n = 0 /\ tasks' = tasks \union {held}
      <4>1. \A u \in Threads : thread'[u].n # held
        BY <1>4, <1>14, <3>4
      <4> QED
        BY <1>2, <1>12, <2>1, <3>1, <3>2, <3>4, <4>1
    <3> QED
      BY <1>5, <3>3, <3>4
  <2>4. Queued' \intersect tasks' = {}
    BY <1>3, <1>4, <1>12 DEF OnePlace
  <2> QED
    BY <1>2, <1>3, <2>2, <2>3, <2>4 DEF OnePlace
<1>16. TypeOK'
  <2>1. tasks' \subseteq 1..jobs
    BY <1>3, <1>4, <1>12
  <2>2. queue' \in Seq(1..jobs) /\ DOMAIN reported' = Tickets
    BY <1>2, <1>3
  <2> QED
    BY <1>2, <1>6, <1>7, <1>12, <1>13, <2>1, <2>2, TypeKept
<1>17. faults' = 0 => Gone(a)' \/ Latest(held)'
  <2> SUFFICES ASSUME faults = 0, ~Gone(a)
               PROVE  Latest(held)'
    BY <1>2, <1>4, <1>7
  <2>1. CASE s.n = held /\ s.res = "SUCCESS" /\ s.pc = FirstWrite
    <3>1. s # thread[t] /\ s.pc \in {"inline", "status"}
      BY <1>9, <2>1 DEF FirstWrite
    <3>2. first => collected'[a] = s.res
      BY <1>3, <1>4, <1>8, <2>1, <3>1
    <3> QED
      BY <1>2, <1>4, <1>8, <1>14, <1>15, <2>1, <3>1, <3>2, LatestHeld
  <2>2. CASE s.n = 0
    <3>1. collected[a] = reported[held]
      BY <1>2, <1>4 DEF IInv, AllLatest, Latest
    <3>2. held \notin Queued' /\ \A u \in Threads : thread'[u].n # held
      BY <1>4, <1>12, <1>14, <2>2
    <3>3. collected'[a] = reported'[held]
      BY <1>2, <1>4, <1>10, <2>2, <3>1
    <3> QED
      BY <1>2, <3>2, <3>3, LatestResting
  <2> QED
    BY <1>5, <2>1, <2>2
<1>18. Settles(t, s, held)
  <2>1. \A b \in Apps : k8s'[b].n # 0 => k8s'[b].n = k8s[b].n \/ (k8s'[b].n = held /\ a = b)
    BY <1>6
  <2>2. s.n # 0 => s.n = held
    BY <1>5
  <2>3. Gone(job[held].app)' \/ k8s'[job[held].app].n = held
    BY <1>2, <1>4, <1>6, <1>7 DEF Gone
  <2>4. \A n \in 1..jobs :
          collected'[job[n].app] = "SUCCESS" /\ collected[job[n].app] # "SUCCESS" =>
            first /\ s.n = n /\ s.res = "SUCCESS"
    <3>1. /\ \A n, m \in 1..jobs : job[n].app = job[m].app => n = m
          /\ \A n \in 1..jobs : job[n].app \in Apps
      BY <1>2, <1>13, Moved
    <3> QED
      BY <1>4, <1>11, <3>1
  <2>5. faults' = 0 => \A n \in {held, s.n} \ {0} : Gone(job[n].app)' \/ Latest(n)'
    BY <1>2, <1>5, <1>17 DEF Gone
  <2>6. Fits(t, s)
    BY <1>5
  <2> QED
    BY <1>2, <1>8, <1>9, <2>1, <2>2, <2>3, <2>4, <2>5, <2>6 DEF Settles
<1> QED
  BY <1>2, <1>13, <1>15, <1>16, <1>18, MoveKeeps

-----------------------------------------------------------------------------
(* Steps of the main thread alone, and of everything that is not the daemon. *)

LEMMA MainOnly ==
    ASSUME IInv, UNCHANGED <<app, k8s, thread, job, jobs, queue, tasks, reported, collected, first>>,
           faults' \in Nat, faults' >= faults, todo' \in Seq(Apps), OneJob', MainInTurn'
    PROVE  IInv'
<1>1. /\ app' = app /\ k8s' = k8s /\ thread' = thread /\ job' = job /\ jobs' = jobs
      /\ queue' = queue /\ tasks' = tasks /\ reported' = reported
      /\ collected' = collected /\ first' = first
  OBVIOUS
<1>2. /\ Queued' = Queued /\ Main' = Main
      /\ \A a \in Apps : Gone(a)' <=> Gone(a)
      /\ \A t \in Threads : Reporting(t)' <=> Reporting(t)
  BY <1>1 DEF Queued, Main, Gone, Reporting
<1>3. TypeOK'
  BY <1>1 DEF IInv, TypeOK
<1>4. OnePlace'
  BY <1>1, <1>2 DEF IInv, OnePlace
<1>5. ThreadsInTurn'
  BY <1>1 DEF IInv, ThreadsInTurn, Reporting
<1>6. OwnDeployment'
  BY <1>1 DEF IInv, OwnDeployment, Gone
<1>7. faults \in Nat /\ (faults > 0 => faults' > 0) /\ (faults' = 0 => faults = 0)
  BY DEF IInv, TypeOK
<1>8. SuccessIsReal'
  BY <1>1, <1>2, <1>7 DEF IInv, SuccessIsReal, Nowhere, Gone
<1>9. NoneForgotten' /\ OnlyInitiated'
  BY <1>1, <1>2 DEF IInv, NoneForgotten, OnlyInitiated
<1>10. AllLatest'
  BY <1>1, <1>2, <1>7 DEF IInv, AllLatest, Latest, Gone
<1> QED
  BY <1>3, <1>4, <1>5, <1>6, <1>8, <1>9, <1>10 DEF IInv

LEMMA FindStep ==
    ASSUME IInv, Find
    PROVE  IInv'
<1>1. /\ main = "find" /\ main' = "deploy" /\ faults' = faults
      /\ todo' \in SetToAllKPermutations({a \in Apps : app[a].phase # "gone"})
      /\ UNCHANGED <<app, k8s, thread, job, jobs, queue, tasks, reported, collected, first>>
  BY DEF Find, Go, apiVars, daemonVars
<1>2. todo' \in Seq(Apps) /\ Distinct(todo')
  <2>1. PICK S, l : S = {a \in Apps : app[a].phase # "gone"} /\ l = todo'
    OBVIOUS
  <2>2. l \in SetToAllKPermutations(S)
    BY <1>1, <2>1
  <2>3. l \in Seq(Apps) /\ Distinct(l)
    BY <2>1, <2>2, ListedOnce
  <2> QED
    BY <2>1, <2>3
<1>3. jobs = 0 /\ jobs' = jobs /\ faults \in Nat
  BY <1>1 DEF IInv, MainInTurn, TypeOK
<1>4. OneJob'
  <2>1. \A k, l \in DOMAIN todo' : todo'[k] = todo'[l] => k = l
    BY <1>2 DEF Distinct
  <2>2. \A n \in 1..jobs' : FALSE
    BY <1>3
  <2> QED
    BY <2>1, <2>2 DEF OneJob
<1>5. MainInTurn'
  BY <1>1 DEF MainInTurn
<1>6. faults' \in Nat /\ faults' >= faults
  BY <1>1, <1>3
<1> QED
  BY <1>1, <1>2, <1>4, <1>5, <1>6, MainOnly

\* The steps that end the list, the wait or the process.
NoId == Go("exit 1") /\ UNCHANGED <<apiVars, daemonVars, todo, collected, first>>
Ending == Raise \/ Wait \/ WaitForReadiness \/ NoId \/ \E kind \in {"api", "other"} : FindFails(kind)

LEMMA EndingStep ==
    ASSUME IInv, Ending
    PROVE  IInv'
<1>1. /\ UNCHANGED <<app, k8s, thread, job, jobs, queue, tasks, reported, collected, first>>
      /\ todo' = todo /\ (faults' = faults \/ faults' = faults + 1)
  BY DEF Ending, NoId, Raise, Wait, WaitForReadiness, FindFails, Fault, apiVars, daemonVars
<1>2. \/ main' = "exit 1"
      \/ main' = "wait" /\ Main.pc = "idle" /\ todo = << >>
      \/ main' = "exit 0" /\ main = "wait" /\ AllReady
  BY DEF Ending, NoId, Raise, Wait, WaitForReadiness, FindFails, Go
<1>3. todo \in Seq(Apps) /\ faults \in Nat
  BY DEF IInv, TypeOK
<1>4. OneJob'
  BY <1>1 DEF IInv, OneJob
<1>5. MainInTurn'
  <2>1. Main' = Main /\ (AllReady' <=> AllReady) /\ todo' = todo
    BY <1>1 DEF Main, AllReady
  <2> QED
    BY <1>2, <2>1 DEF IInv, MainInTurn
<1>6. faults' \in Nat /\ faults' >= faults /\ todo' \in Seq(Apps)
  <2>1. faults' = faults \/ faults' = faults + 1
    BY <1>1
  <2> QED
    BY <1>1, <1>3, <2>1
<1> QED
  BY <1>1, <1>4, <1>5, <1>6, MainOnly

LEMMA EnvironmentStep ==
    ASSUME IInv, Environment, UNCHANGED <<daemonVars, main, todo, collected, first>>
    PROVE  IInv'
<1>1. /\ thread' = thread /\ job' = job /\ jobs' = jobs
      /\ queue' = queue /\ tasks' = tasks /\ reported' = reported /\ faults' = faults
      /\ main' = main /\ todo' = todo /\ collected' = collected /\ first' = first
  BY DEF daemonVars
<1>2. /\ DOMAIN app' = Apps /\ \A b \in Apps : "phase" \in DOMAIN app'[b]
      /\ DOMAIN k8s' = Apps /\ \A b \in Apps : DOMAIN k8s'[b] = {"n", "rev", "ready"}
      /\ \A b \in Apps : Gone(b) => Gone(b)'
      /\ \A b \in Apps : k8s'[b].n = k8s[b].n \/ (k8s'[b].n = 0 /\ Gone(b)')
  <2>1. TypeOK
    BY DEF IInv
  <2> QED
    BY <2>1, EnvironmentWrites
<1>3. /\ Queued' = Queued /\ Main' = Main /\ (AllReady' <=> AllReady)
      /\ \A t \in Threads : Reporting(t)' <=> Reporting(t)
  BY <1>1 DEF Queued, Main, Reporting, AllReady
<1>4. TypeOK'
  BY <1>1, <1>2 DEF IInv, TypeOK
<1>5. OnePlace' /\ OneJob'
  BY <1>1, <1>3 DEF IInv, OnePlace, OneJob
<1>6. ThreadsInTurn'
  BY <1>1 DEF IInv, ThreadsInTurn, Reporting
<1>7. MainInTurn'
  BY <1>1, <1>3 DEF IInv, MainInTurn
<1>8. \A n \in 1..jobs : job[n].app \in Apps
  BY DEF IInv, TypeOK
<1>9. \A t \in Threads : thread[t].n # 0 => thread[t].n \in 1..jobs
  <2> SUFFICES ASSUME NEW t \in Threads, thread[t].n # 0
               PROVE  thread[t].n \in 1..jobs
    OBVIOUS
  <2>1. thread[t].pc \in {"inline", "status", "build", "deploy"}
    BY DEF IInv, ThreadsInTurn, TypeOK
  <2> QED
    BY <2>1, Held
<1>10. OwnDeployment'
  <2>1. \A a \in Apps : k8s'[a].n # 0 => k8s'[a].n \in 1..jobs' /\ job'[k8s'[a].n].app = a
    BY <1>1, <1>2 DEF IInv, OwnDeployment
  <2>2. ASSUME NEW t \in Threads, thread[t].n # 0, thread[t].res = "SUCCESS"
        PROVE  Gone(job[thread[t].n].app)' \/ k8s'[job[thread[t].n].app].n = thread[t].n
    <3>1. job[thread[t].n].app \in Apps
      BY <1>8, <1>9, <2>2
    <3>2. Gone(job[thread[t].n].app) \/ k8s[job[thread[t].n].app].n = thread[t].n
      BY <2>2 DEF IInv, OwnDeployment
    <3> QED
      BY <1>1, <1>2, <3>1, <3>2 DEF Gone
  <2> QED
    BY <1>1, <2>1, <2>2 DEF OwnDeployment, Gone
<1>11. SuccessIsReal'
  <2> SUFFICES ASSUME NEW n \in 1..jobs, collected[job[n].app] = "SUCCESS", ~Gone(job[n].app)'
               PROVE  /\ k8s'[job[n].app].n = n
                      /\ \/ reported[n] = "SUCCESS" /\ Nowhere(n)
                         \/ first /\ \E t \in Threads : thread[t].n = n /\ thread[t].res = "SUCCESS"
                         \/ first /\ faults > 0
    BY <1>1, <1>3 DEF SuccessIsReal, Nowhere, Gone
  <2>1. ~Gone(job[n].app) /\ k8s'[job[n].app].n = k8s[job[n].app].n
    BY <1>1, <1>2, <1>8 DEF Gone
  <2> QED
    BY <2>1 DEF IInv, SuccessIsReal
<1>12. NoneForgotten' /\ OnlyInitiated'
  BY <1>1, <1>3 DEF IInv, NoneForgotten, OnlyInitiated
<1>13. AllLatest'
  <2> SUFFICES ASSUME faults = 0, NEW n \in 1..jobs, ~Gone(job[n].app)'
               PROVE  Latest(n)'
    BY <1>1 DEF AllLatest, Gone
  <2>1. Latest(n)
    BY <1>1, <1>2, <1>8 DEF IInv, AllLatest, Gone
  <2> QED
    BY <1>1, <1>3, <2>1 DEF Latest
<1> QED
  BY <1>4, <1>5, <1>6, <1>7, <1>10, <1>11, <1>12, <1>13 DEF IInv

-----------------------------------------------------------------------------
(* The next Application. *)

\* Deploy m, of Application a, is the next one: q was the list, s the thread's report.
Initiates(m, a, s, q) ==
    /\ m = jobs + 1 /\ jobs < MaxJobs /\ a = Head(q) /\ q = todo /\ q # << >>
    /\ s = Report(m, "INITIATED")
    /\ Main.pc = "idle" /\ main = "deploy" /\ main' = main
    /\ jobs' = m /\ todo' = Tail(q)
    /\ \E j : j.app = a /\ job' = [job EXCEPT ![m] = j]
    /\ thread' = [thread EXCEPT !["watcher"] = s]
    /\ collected' = IF first THEN [collected EXCEPT ![a] = "INITIATED"] ELSE collected
    /\ UNCHANGED apiVars
    /\ UNCHANGED <<queue, tasks, expired, reported, faults, first>>

LEMMA InitiateBegins ==
    ASSUME Initiate
    PROVE  NoId \/ \E m, a, s, q : Initiates(m, a, s, q)
<1> SUFFICES ASSUME ~NoId
             PROVE  \E m, a, s, q : Initiates(m, a, s, q)
  OBVIOUS
<1> DEFINE m == jobs + 1
           a == Head(todo)
           s == Report(jobs + 1, "INITIATED")
           j == [app |-> a, rev |-> app[a].rev, gen |-> app[a].gen,
                 id |-> app[a].id, bad |-> app[a].bad]
<1>1. /\ main = "deploy" /\ Main.pc = "idle" /\ todo # << >>
      /\ jobs < MaxJobs /\ jobs' = m
      /\ job' = [job EXCEPT ![m] = j]
      /\ thread' = [thread EXCEPT !["watcher"] = s]
      /\ todo' = Tail(todo)
      /\ collected' = IF first THEN [collected EXCEPT ![a] = "INITIATED"] ELSE collected
      /\ main' = main
      /\ UNCHANGED apiVars
      /\ UNCHANGED <<queue, tasks, expired, reported, faults, first>>
  BY DEF Initiate, NoId, Go, daemonVars, Become, Store
<1>2. j.app = a
  OBVIOUS
<1> HIDE DEF j
<1>3. Initiates(m, a, s, todo)
  BY <1>1, <1>2 DEF Initiates
<1> QED
  BY <1>3

LEMMA InitiateKeeps ==
    ASSUME IInv, NEW m, NEW a, NEW s, NEW q, Initiates(m, a, s, q)
    PROVE  IInv'
<1> DEFINE w == "watcher"
<1>1. /\ queue' = queue /\ tasks' = tasks /\ reported' = reported /\ faults' = faults
      /\ first' = first /\ app' = app /\ k8s' = k8s /\ jobs' = m /\ todo' = Tail(q) /\ q = todo
      /\ thread' = [thread EXCEPT ![w] = s]
      /\ collected' = IF first THEN [collected EXCEPT ![a] = "INITIATED"] ELSE collected
  BY DEF Initiates, apiVars
<1>2. /\ jobs \in Nat /\ m = jobs + 1 /\ m \in Nat /\ m <= MaxJobs /\ m # 0
      /\ \A n \in 1..m : n = m \/ (n \in 1..jobs /\ n # m)
      /\ m \in 1..m /\ \A n \in 1..jobs : n \in 1..m /\ n # m /\ n \in Tickets
      /\ m \in Tickets /\ m \in 0..MaxJobs /\ m \notin 1..jobs
  <2>1. jobs \in Nat /\ MaxJobs \in Nat /\ m = jobs + 1 /\ jobs < MaxJobs
    BY JobsAssumption DEF IInv, TypeOK, Initiates
  <2> QED
    BY <2>1 DEF Tickets
<1>3. /\ s.n = m /\ s.pc = FirstWrite /\ s.pc \in {"inline", "status"} /\ s.res = "INITIATED"
      /\ s \in ThreadRecord /\ Fits(w, s)
  <2>1. s = Report(m, "INITIATED")
    BY DEF Initiates
  <2> QED
    BY <1>2, <2>1 DEF Report, FirstWrite, ThreadRecord, Fits, Results
<1>4. /\ q \in Seq(Apps) /\ Distinct(q) /\ a = Head(q) /\ q # << >>
  BY DEF Initiates, IInv, TypeOK, OneJob, Distinct
<1>5. /\ Tail(q) \in Seq(Apps) /\ Distinct(Tail(q)) /\ a \in Members(q) /\ a \in Apps
      /\ Members(Tail(q)) = Members(q) \ {a}
  BY <1>4, TailMembers
<1>6. /\ DOMAIN job' = Tickets /\ job'[m].app = a
      /\ \A n \in 1..jobs : job'[n] = job[n]
  <2>1. PICK j : j.app = a /\ job' = [job EXCEPT ![m] = j]
    BY DEF Initiates
  <2>2. DOMAIN job = Tickets
    BY DEF IInv, TypeOK
  <2> QED
    BY <1>2, <2>1, <2>2
<1>7. \A n \in 1..jobs : job[n].app \in Apps /\ job[n].app # a
  <2>1. PICK k \in DOMAIN q : a = q[k]
    BY <1>5 DEF Members
  <2> QED
    BY <1>1, <2>1 DEF IInv, TypeOK, OneJob
<1>8. /\ Queued \subseteq 1..jobs /\ tasks \subseteq 1..jobs /\ Queued' = Queued
      /\ m \notin Queued \union tasks
  <2>1. Members(queue) \subseteq 1..jobs /\ tasks \subseteq 1..jobs
    BY MembersOf DEF IInv, TypeOK
  <2> QED
    BY <1>1, <1>2, <2>1 DEF Queued, Members
<1>9. /\ thread'[w] = s /\ w \in Threads
      /\ \A u \in Threads \ {w} : thread'[u] = thread[u]
      /\ thread[w].n = 0
      /\ \A u \in Threads : thread[u].n <= jobs /\ thread[u].n # m
  <2>1. thread[w].n = 0 /\ w \in Threads
    BY DEF Initiates, Main, IInv, ThreadsInTurn, Threads
  <2>2. \A u \in Threads : thread[u].n \in Nat
    BY DEF IInv, TypeOK
  <2>3. \A u \in Threads : thread[u].n <= jobs
    BY DEF IInv, OnePlace
  <2>4. \A u \in Threads : thread[u].n # m
    BY <1>2, <2>2, <2>3
  <2>5. DOMAIN thread = Threads
    BY DEF IInv, TypeOK
  <2> QED
    BY <1>1, <2>1, <2>3, <2>4, <2>5
<1>10. /\ \A n \in 1..jobs, u \in Threads : thread'[u].n = n <=> thread[u].n = n
       /\ \A n \in 1..jobs, u \in Threads : thread[u].n = n => thread'[u] = thread[u]
       /\ \A n \in 1..jobs : collected'[job[n].app] = collected[job[n].app]
  <2>1. 0 \notin 1..jobs
    BY <1>2
  <2>2. DOMAIN collected = Apps
    BY DEF IInv, TypeOK
  <2>3. \A n \in 1..jobs : collected'[job[n].app] = collected[job[n].app]
    BY <1>1, <1>7, <2>2
  <2> QED
    BY <1>2, <1>3, <1>9, <2>1, <2>3
<1>11. TypeOK'
  <2>1. thread' \in [Threads -> ThreadRecord]
    BY <1>1, <1>3 DEF IInv, TypeOK, ThreadRecord
  <2>2. \A n \in 1..m : job'[n].app \in Apps
    BY <1>2, <1>5, <1>6, <1>7
  <2>3. queue \in Seq(1..m)
    <3>1. queue \in Seq(1..jobs)
      BY DEF IInv, TypeOK
    <3>2. 1..jobs \subseteq 1..m
      BY <1>2
    <3> QED
      BY <3>1, <3>2, SeqGrows
  <2>4. tasks \subseteq 1..m
    BY <1>2, <1>8
  <2>5. DOMAIN collected' = Apps
    BY <1>1 DEF IInv, TypeOK
  <2> QED
    BY <1>1, <1>2, <1>5, <1>6, <2>1, <2>2, <2>3, <2>4, <2>5 DEF IInv, TypeOK, ThreadRecord
<1>12. OnePlace'
  <2>1. \A u, v \in Threads : thread'[u].n = thread'[v].n /\ thread'[u].n # 0 => u = v
    BY <1>3, <1>9 DEF IInv, OnePlace
  <2>2. \A u \in Threads : thread'[u].n <= m /\ thread'[u].n \notin Queued \union tasks
    <3>1. \A u \in Threads : thread[u].n \in Nat /\ thread[u].n <= m
      BY <1>2, <1>9 DEF IInv, TypeOK
    <3>2. \A u \in Threads : thread[u].n \notin Queued \union tasks
      BY DEF IInv, OnePlace
    <3>3. m <= m
      BY <1>2
    <3> QED
      BY <1>3, <1>8, <1>9, <3>1, <3>2, <3>3
  <2> QED
    BY <1>1, <1>8, <2>1, <2>2 DEF IInv, OnePlace
<1>13. OneJob'
  <2>1. \A n, l \in 1..m : job'[n].app = job'[l].app => n = l
    BY <1>2, <1>6, <1>7 DEF IInv, OneJob
  <2>2. \A k, l \in DOMAIN Tail(q) : Tail(q)[k] = Tail(q)[l] => k = l
    BY <1>5 DEF Distinct
  <2>3. \A k \in DOMAIN Tail(q) : Tail(q)[k] \in Members(q) /\ Tail(q)[k] # a
    BY <1>5 DEF Members
  <2>4. \A x \in Members(q), n \in 1..jobs : x # job[n].app
    BY <1>1 DEF Members, IInv, OneJob
  <2>5. \A k \in DOMAIN Tail(q), n \in 1..m : Tail(q)[k] # job'[n].app
    BY <1>2, <1>6, <2>3, <2>4
  <2> QED
    BY <1>1, <2>1, <2>2, <2>5 DEF OneJob
<1>14. ThreadsInTurn'
  BY <1>3, <1>9, ThreadsFit, FitsInTurn
<1>15. MainInTurn'
  BY DEF Initiates, MainInTurn
<1>16. OwnDeployment'
  <2>1. \A b \in Apps : k8s[b].n # 0 => k8s[b].n \in 1..m /\ job'[k8s[b].n].app = b
    BY <1>2, <1>6 DEF IInv, OwnDeployment
  <2>2. ASSUME NEW u \in Threads, thread'[u].n # 0, thread'[u].res = "SUCCESS"
        PROVE  Gone(job'[thread'[u].n].app) \/ k8s[job'[thread'[u].n].app].n = thread'[u].n
    <3>1. thread'[u] = thread[u]
      BY <1>3, <1>9, <2>2
    <3>2. thread[u].n \in 1..jobs
      <4>1. thread[u].pc \in {"inline", "status", "build", "deploy"}
        BY <2>2, <3>1 DEF IInv, ThreadsInTurn, TypeOK
      <4> QED
        BY <4>1, Held
    <3> QED
      BY <1>6, <2>2, <3>1, <3>2 DEF IInv, OwnDeployment
  <2> QED
    BY <1>1, <2>1, <2>2 DEF OwnDeployment, Gone
<1>17. collected[a] = "NONE" /\ collected'[a] \in {"NONE", "INITIATED"}
       /\ (first => collected'[a] = "INITIATED")
  <2>1. collected[a] = "NONE"
    BY <1>5, <1>7 DEF IInv, OnlyInitiated
  <2>2. DOMAIN collected = Apps
    BY DEF IInv, TypeOK
  <2> QED
    BY <1>1, <1>5, <2>1, <2>2
<1>18. SuccessIsReal'
  <2> SUFFICES ASSUME NEW n \in 1..m, collected'[job'[n].app] = "SUCCESS", ~Gone(job'[n].app)
               PROVE  /\ k8s[job'[n].app].n = n
                      /\ \/ reported[n] = "SUCCESS" /\ Nowhere(n)'
                         \/ first /\ \E u \in Threads : thread'[u].n = n /\ thread'[u].res = "SUCCESS"
                         \/ first /\ faults > 0
    BY <1>1 DEF SuccessIsReal, Gone
  <2>1. n \in 1..jobs /\ job'[n] = job[n]
    BY <1>2, <1>6, <1>17
  <2>2. collected[job[n].app] = "SUCCESS" /\ ~Gone(job[n].app)
    BY <1>10, <2>1
  <2>3. /\ k8s[job[n].app].n = n
        /\ \/ reported[n] = "SUCCESS" /\ Nowhere(n)
           \/ first /\ \E u \in Threads : thread[u].n = n /\ thread[u].res = "SUCCESS"
           \/ first /\ faults > 0
    BY <2>1, <2>2 DEF IInv, SuccessIsReal
  <2>4. Nowhere(n) => Nowhere(n)'
    BY <1>1, <1>8, <1>10, <2>1 DEF Nowhere
  <2>5. \A u \in Threads : thread[u].n = n => thread'[u] = thread[u]
    BY <1>10, <2>1
  <2> QED
    BY <2>1, <2>3, <2>4, <2>5
<1>19. OnlyInitiated'
  <2> SUFFICES ASSUME NEW b \in Apps, collected'[b] # "NONE"
               PROVE  \E n \in 1..m : job'[n].app = b
    BY <1>1 DEF OnlyInitiated
  <2>1. CASE b = a
    BY <1>2, <1>6, <2>1
  <2>2. CASE b # a
    <3>1. collected[b] # "NONE"
      BY <1>1, <2>2
    <3>2. PICK n \in 1..jobs : job[n].app = b
      BY <3>1 DEF IInv, OnlyInitiated
    <3> QED
      BY <1>2, <1>6, <3>2
  <2> QED
    BY <2>1, <2>2
<1>20. NoneForgotten'
  <2> SUFFICES ASSUME NEW n \in 1..m, first \/ n # m
               PROVE  collected'[job'[n].app] # "NONE"
    BY <1>1, <1>3, <1>9 DEF NoneForgotten, Main
  <2>1. CASE n = m
    BY <1>6, <1>17, <2>1
  <2>2. CASE n # m
    <3>1. n \in 1..jobs /\ Main.n # n /\ Main.pc # "rewatch"
      BY <1>2, <1>9, <2>2 DEF Initiates, Main
    <3>2. collected[job[n].app] # "NONE"
      BY <3>1 DEF IInv, NoneForgotten
    <3> QED
      BY <1>6, <1>10, <3>1, <3>2
  <2> QED
    BY <2>1, <2>2
<1>21. AllLatest'
  <2> SUFFICES ASSUME faults = 0, NEW n \in 1..m, ~Gone(job'[n].app)
               PROVE  Latest(n)'
    BY <1>1 DEF AllLatest, Gone
  <2>1. "watcher" \in Threads /\ "deployer" \in Threads
    BY DEF Threads
  <2>2. CASE n = m
    <3>1. \A u \in Threads : thread'[u].n = m => u = w
      BY <1>9
    <3>2. first => collected'[job'[m].app] = s.res
      BY <1>3, <1>6, <1>17
    <3> QED
      BY <1>1, <1>3, <1>8, <1>9, <2>1, <2>2, <3>1, <3>2 DEF Latest, Reporting, Main
  <2>3. CASE n # m
    <3>1. n \in 1..jobs /\ job'[n] = job[n] /\ ~Gone(job[n].app)
      BY <1>2, <1>6, <2>3
    <3>2. Latest(n)
      BY <3>1 DEF IInv, AllLatest
    <3>3. /\ \A u \in Threads : thread'[u].n = n <=> thread[u].n = n
          /\ \A u \in Threads : thread[u].n = n => thread'[u] = thread[u]
          /\ collected'[job'[n].app] = collected[job[n].app]
      BY <1>10, <3>1
    <3> QED
      BY <1>1, <1>8, <2>1, <3>2, <3>3 DEF Latest, Reporting, Main
  <2> QED
    BY <2>2, <2>3
<1> QED
  BY <1>11, <1>12, <1>13, <1>14, <1>15, <1>16, <1>18, <1>19, <1>20, <1>21 DEF IInv

LEMMA InitiateStep ==
    ASSUME IInv, Initiate
    PROVE  IInv'
<1>1. CASE NoId
  BY <1>1, EndingStep DEF Ending
<1>2. CASE \E m, a, s, q : Initiates(m, a, s, q)
  BY <1>2, InitiateKeeps
<1> QED
  BY <1>1, <1>2, InitiateBegins

-----------------------------------------------------------------------------
(* The invariant. *)

LEMMA NothingMoves ==
    ASSUME IInv,
           UNCHANGED <<app, k8s, thread, job, jobs, queue, tasks, reported, faults,
                       main, todo, collected, first>>
    PROVE  IInv'
<1>1. /\ UNCHANGED <<app, k8s, thread, job, jobs, queue, tasks, reported, collected, first>>
      /\ faults' = faults /\ todo' = todo /\ main' = main
  OBVIOUS
<1>2. OneJob'
  BY <1>1 DEF IInv, OneJob
<1>3. MainInTurn'
  <2>1. Main' = Main /\ (AllReady' <=> AllReady) /\ jobs' = jobs
    BY <1>1 DEF Main, AllReady
  <2> QED
    BY <1>1, <2>1 DEF IInv, MainInTurn
<1>4. todo' \in Seq(Apps)
  BY <1>1 DEF IInv, TypeOK
<1>5. faults' \in Nat /\ faults' >= faults
  <2>1. faults \in Nat
    BY DEF IInv, TypeOK
  <2> QED
    BY <1>1, <2>1
<1> QED
  BY <1>1, <1>2, <1>3, <1>4, <1>5, MainOnly

LEMMA ExpireStep ==
    ASSUME IInv, NEW n \in Tickets, Expire(n), CollectStarts
    PROVE  IInv'
<1>1. UNCHANGED <<app, k8s, thread, job, jobs, queue, tasks, reported, faults>>
  BY DEF Expire, apiVars
<1>2. main' = main /\ todo' = todo /\ first' = first /\ collected' = collected
  BY <1>1, CollectsNothing
<1> QED
  BY <1>1, <1>2, NothingMoves

LEMMA InitSound == Init => IInv
<1> SUFFICES ASSUME Init
             PROVE  IInv
  OBVIOUS
<1>1. /\ thread = [t \in Threads |-> At("idle")]
      /\ jobs = 0 /\ queue = << >> /\ tasks = {} /\ faults = 0
      /\ DOMAIN job = Tickets /\ DOMAIN reported = Tickets
      /\ main = "find" /\ todo = << >> /\ first \in BOOLEAN
      /\ collected = [a \in Apps |-> "NONE"]
  BY DEF Init, DaemonInit
<1>2. /\ \A n \in 1..jobs : FALSE
      /\ Queued = {} /\ jobs \in 0..MaxJobs /\ faults \in Nat
  BY <1>1, JobsAssumption DEF Queued
<1>3. \A t \in Threads : thread[t].n = 0 /\ thread[t].pc = "idle" /\ thread[t] \in ThreadRecord
  BY <1>1 DEF At, ThreadRecord
<1>4. /\ DOMAIN app = Apps /\ \A a \in Apps : "phase" \in DOMAIN app[a]
  <2>1. app \in [Apps -> {[Created EXCEPT !.bad = bad] : bad \in {FALSE, AllowBad}}]
    BY DEF Init
  <2>2. \A bad : "phase" \in DOMAIN [Created EXCEPT !.bad = bad]
    BY DEF Created
  <2> QED
    BY <2>1, <2>2
<1>5. DOMAIN k8s = Apps /\ \A a \in Apps : DOMAIN k8s[a] = {"n", "rev", "ready"} /\ k8s[a].n = 0
  BY DEF Init, NoDeployment
<1>6. TypeOK
  <2>1. thread \in [Threads -> ThreadRecord]
    BY <1>1, <1>3
  <2>2. queue \in Seq(1..jobs) /\ todo \in Seq(Apps) /\ tasks \subseteq 1..jobs
    BY <1>1
  <2>3. DOMAIN collected = Apps
    BY <1>1
  <2> QED
    BY <1>1, <1>2, <1>4, <1>5, <2>1, <2>2, <2>3 DEF TypeOK, ThreadRecord
<1>7. OnePlace
  <2>1. DOMAIN queue = {} /\ 0 <= jobs
    BY <1>1
  <2> QED
    BY <1>1, <1>2, <1>3, <2>1 DEF OnePlace
<1>8. OneJob
  <2>1. DOMAIN todo = {}
    BY <1>1
  <2> QED
    BY <1>2, <2>1 DEF OneJob
<1>9. "watcher" \in Threads /\ "deployer" \in Threads /\ "scheduler" \in Threads
  BY DEF Threads
<1>10. ThreadsInTurn
  BY <1>3, <1>9 DEF ThreadsInTurn
<1>11. MainInTurn
  BY <1>1, <1>3, <1>9 DEF MainInTurn, Main
<1>12. OwnDeployment
  BY <1>3, <1>5 DEF OwnDeployment
<1>13. SuccessIsReal /\ NoneForgotten /\ AllLatest
  BY <1>2 DEF SuccessIsReal, NoneForgotten, AllLatest
<1>14. OnlyInitiated
  BY <1>1 DEF OnlyInitiated
<1> QED
  BY <1>6, <1>7, <1>8, <1>10, <1>11, <1>12, <1>13, <1>14 DEF IInv

LEMMA NextKeeps == IInv /\ [Next]_vars => IInv'
<1> SUFFICES ASSUME IInv, [Next]_vars
             PROVE  IInv'
  OBVIOUS
<1>1. CASE UNCHANGED vars
  BY <1>1, NothingMoves DEF vars
<1>2. CASE Next
  <2>1. main \notin Exits
    BY <1>2 DEF Next
  <2>2. CASE MainSteps
    <3>1. CASE Raise \/ Wait \/ WaitForReadiness
      BY <3>1, EndingStep DEF Ending
    <3> QED
      BY <2>1, <2>2, <3>1, FindStep, InitiateStep, BuildStep DEF MainSteps
  <2>3. ASSUME NEW t \in Threads, Save(t)
        PROVE  IInv'
    <3>1. CASE SaveStatus(t) /\ CollectEnds(t)
      BY <2>1, <3>1, StatusSaved
    <3>2. CASE SaveInline(t) /\ CollectStarts
      BY <2>1, <3>2, InlineSaved, GoneRaises
    <3> QED
      BY <2>3, <3>1, <3>2 DEF Save
  <2>4. CASE (DeployerSteps \/ SchedulerSteps) /\ CollectStarts
    BY <2>1, <2>4, TakeJobStep, DeployStep, RunCheckStep, ExpireStep
    DEF DeployerSteps, SchedulerSteps
  <2>5. CASE Fails
    <3>1. CASE (DeployerFaults \/ SchedulerFaults) /\ CollectStarts
      BY <2>1, <3>1, DeployRaises, CheckRaises DEF DeployerFaults, SchedulerFaults
    <3>2. ASSUME NEW kind \in {"api", "other"}, BuildFails(kind)
          PROVE  IInv'
      BY <2>1, <3>2, BuildRaises
    <3>3. ASSUME NEW kind \in {"api", "other"}, FindFails(kind)
          PROVE  IInv'
      BY <3>3, EndingStep DEF Ending
    <3>4. ASSUME NEW kind \in {"api", "other"}, NEW t \in Threads,
                 SaveInlineFails(t, kind) \/ SaveStatusFails(t, kind), CollectStarts
          PROVE  IInv'
      BY <2>1, <3>4, SaveRaises
    <3> QED
      BY <2>5, <3>1, <3>2, <3>3, <3>4 DEF Fails
  <2>6. CASE Environment /\ UNCHANGED <<daemonVars, main, todo, collected, first>>
    BY <2>6, EnvironmentStep
  <2> QED
    BY <1>2, <2>2, <2>3, <2>4, <2>5, <2>6 DEF Next
<1> QED
  BY <1>1, <1>2

-----------------------------------------------------------------------------
\* In every reachable state of a bootstrap each deploy is in one place and of an
\* Application of its own, and what is collected of it is its own last status.
THEOREM BootstrapInductive == Spec => []IInv
<1>1. Init => IInv
  BY InitSound
<1>2. IInv /\ [Next]_vars => IInv'
  BY NextKeeps
<1> QED
  BY <1>1, <1>2, PTL DEF Spec

\* An exit code of 0 (Bootstrapper.run) means that every initiated Application has
\* its own Deployment and was reported ready, or is gone.
THEOREM ExitIsHonest == Spec => []ExitMeansDeployed
<1>1. IInv => ExitMeansDeployed
  <2> SUFFICES ASSUME IInv, main = "exit 0"
               PROVE  /\ todo = << >>
                      /\ \A n \in 1..jobs :
                           \/ Gone(job[n].app)
                           \/ /\ k8s[job[n].app].n = n
                              /\ \/ reported[n] = "SUCCESS"
                                 \/ first /\ \E t \in Threads : thread[t].n = n /\ thread[t].res = "SUCCESS"
                                 \/ first /\ faults > 0
    BY DEF ExitMeansDeployed, Gone
  <2>1. todo = << >> /\ Main.pc = "idle" /\ AllReady
    BY DEF IInv, MainInTurn
  <2>2. Main.n = 0
    BY <2>1 DEF IInv, ThreadsInTurn, Main, Threads
  <2>3. ASSUME NEW n \in 1..jobs
        PROVE  collected[job[n].app] = "SUCCESS"
    <3>1. Main.n # n
      BY <2>2, NumberedFromOne
    <3>2. collected[job[n].app] # "NONE"
      BY <2>1, <3>1 DEF IInv, NoneForgotten
    <3>3. job[n].app \in Apps
      BY DEF IInv, TypeOK
    <3> QED
      BY <2>1, <3>2, <3>3 DEF AllReady
  <2> QED
    BY <2>1, <2>3 DEF IInv, SuccessIsReal
<1> QED
  BY <1>1, BootstrapInductive, PTL

\* Without failures what the main thread collected of a deploy is the last status
\* that was reported of it (Bootstrapper._store_status and StatusCollector).
THEOREM CollectionIsLatest == Spec => []CollectsLatest
<1>1. IInv => CollectsLatest
  <2> SUFFICES ASSUME IInv, faults = 0, NEW n \in 1..jobs,
                      \A t \in Threads : thread[t].n # n, ~Gone(job[n].app)
               PROVE  \/ collected[job[n].app] = reported[n]
                      \/ collected[job[n].app] = "DEPLOY_SCHEDULED" /\ reported[n] = "INITIATED"
    BY DEF CollectsLatest, Gone
  <2>1. Latest(n)
    BY DEF IInv, AllLatest
  <2> QED
    BY <2>1 DEF Latest
<1> QED
  BY <1>1, BootstrapInductive, PTL
==============================================================================
