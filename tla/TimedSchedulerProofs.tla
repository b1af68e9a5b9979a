------------------------- MODULE TimedSchedulerProofs -------------------------
(***************************************************************************)
(* Theorems about TimedScheduler, for every number of checks, deadline and *)
(* pace of the scheduler's thread.                                         *)
(***************************************************************************)
EXTENDS TimedScheduler, FiniteSetTheorems, TLAPS

USE ChecksAssumption, TimesAssumption DEF ChecksAssumption, TimesAssumption

-----------------------------------------------------------------------------
(* Sizes. *)

LEMMA CheckCount == Cardinality(Checks) \in Nat
  BY FS_CardinalityType

LEMMA AheadSize ==
    ASSUME NEW c \in Queued, TypeOK
    PROVE  /\ IsFiniteSet(Ahead(c))
           /\ Cardinality(Ahead(c)) \in 1..Cardinality(Checks)
<1>1. Ahead(c) \in SUBSET Checks /\ c \in Ahead(c)
  BY DEF Ahead, Queued, TypeOK
<1>2. /\ IsFiniteSet(Ahead(c))
      /\ Cardinality(Ahead(c)) <= Cardinality(Checks)
  BY <1>1, FS_Subset
<1>3. Cardinality(Ahead(c)) \in Nat /\ Cardinality(Ahead(c)) # 0
  BY <1>1, <1>2, FS_CardinalityType, FS_EmptySet
<1> QED BY <1>2, <1>3, CheckCount

LEMMA OneLookMore ==
    ASSUME NEW n \in Nat, NEW k \in 1..n
    PROVE  /\ MaxLoop * (n - k) \in Nat
           /\ MaxLoop * (n - (k - 1)) = MaxLoop * (n - k) + MaxLoop
           /\ MaxLoop * (n - k) + MaxLoop <= MaxLoop * n
<1>1. PICK j \in Nat : j = n - k
  OBVIOUS
<1>2. PICK i \in Nat : i = k - 1
  OBVIOUS
<1>3. MaxLoop * i \in Nat /\ MaxLoop * j \in Nat
  OBVIOUS
<1>4. MaxLoop * (j + 1) = MaxLoop * j + MaxLoop
  OBVIOUS
<1>5. MaxLoop * (j + 1 + i) = MaxLoop * j + MaxLoop + MaxLoop * i
  OBVIOUS
<1>6. n - (k - 1) = j + 1 /\ n = j + 1 + i
  BY <1>1, <1>2
<1> QED BY <1>1, <1>3, <1>4, <1>5, <1>6

-----------------------------------------------------------------------------
(* The inductive invariant. *)

LEMMA InitInv == Init => IInv
  BY DEF Init, IInv, TypeOK, OverdueInTurn, DueNearDeadline, Queued, Delay

LEMMA TypeStep == TypeOK /\ [Next]_vars => TypeOK'
<1> SUFFICES ASSUME TypeOK, [Next]_vars PROVE TypeOK' OBVIOUS
<1> USE DEF TypeOK, Delay, Ends
<1>1. ASSUME NEW c \in Checks, Add(c) PROVE TypeOK'
  BY <1>1 DEF Add, Put
<1>2. CASE Look
  <2>1. PICK c \in Queued :
          \/ due[c] <= 0 /\ (CallReady(c) \/ CallUnready(c) \/ CallRaises(c))
          \/ due[c] > 0 /\ Again(c) /\ UNCHANGED <<state, left, rest>>
    BY <1>2 DEF Look
  <2>2. c \in Checks /\ loop' = 1
    BY <1>2, <2>1 DEF Look, Queued
  <2> QED
    BY <2>1, <2>2 DEF CallReady, CallUnready, CallRaises, EndAs, Again, Put
<1>3. CASE Tick
  BY <1>3 DEF Tick
<1>4. CASE UNCHANGED vars
  BY <1>4 DEF vars
<1> QED BY <1>1, <1>2, <1>3, <1>4 DEF Next

\* A new check is due later than all that are overdue.
LEMMA AddInv ==
    ASSUME IInv, TypeOK', NEW c \in Checks, Add(c)
    PROVE  OverdueInTurn' /\ DueNearDeadline'
<1> USE DEF IInv, TypeOK
<1>1. /\ Queued' = Queued \union {c}
      /\ due'[c] = 1 /\ left'[c] = FailAfter
      /\ \A d \in Queued : due'[d] = due[d] /\ left'[d] = left[d]
      /\ UNCHANGED loop
  BY DEF Add, Put, Queued
<1>2. OverdueInTurn'
  <2> SUFFICES ASSUME NEW d \in Queued', due'[d] <= 0
               PROVE  -due'[d] < MaxLoop * (Cardinality(Checks) - Cardinality(Ahead(d)')) + Slept'
    BY DEF OverdueInTurn
  <2>1. d \in Queued /\ due'[d] = due[d]
    BY <1>1
  <2>2. Ahead(d)' = Ahead(d)
    BY <1>1, <2>1 DEF Ahead, Queued
  <2>3. Slept' = Slept
    BY <1>1 DEF Slept
  <2> QED BY <2>1, <2>2, <2>3 DEF OverdueInTurn
<1>3. DueNearDeadline'
  BY <1>1 DEF DueNearDeadline, Delay
<1> QED BY <1>2, <1>3

\* A look takes away the first of those ahead of any check that is overdue.
LEMMA LookInv ==
    ASSUME IInv, TypeOK', Look
    PROVE  OverdueInTurn' /\ DueNearDeadline'
<1> USE DEF IInv, TypeOK
<1>1. PICK c \in Queued :
        /\ First(c)
        /\ \/ due[c] <= 0 /\ (CallReady(c) \/ CallUnready(c) \/ CallRaises(c))
           \/ due[c] > 0 /\ Again(c) /\ UNCHANGED <<state, left, rest>>
  BY DEF Look
<1>2. c \in Checks /\ loop = 0 /\ loop' = 1
  BY <1>1 DEF Look, Queued
<1>3. /\ Queued' \subseteq Queued
      /\ Queued \ {c} \subseteq Queued'
      /\ \A d \in Queued \ {c} : due'[d] = due[d] /\ left'[d] = left[d]
  BY <1>1, <1>2 DEF Queued, CallReady, CallUnready, CallRaises, EndAs, Again, Put, Ends
<1>4. c \in Queued' => due'[c] > 0 /\ left'[c] > due'[c] - Delay
  BY <1>1, <1>2 DEF Queued, CallReady, CallUnready, CallRaises, EndAs, Again, Put, Ends,
                    Delay, DueNearDeadline
<1>5. OverdueInTurn'
  <2> SUFFICES ASSUME NEW d \in Queued', due'[d] <= 0
               PROVE  -due'[d] < MaxLoop * (Cardinality(Checks) - Cardinality(Ahead(d)')) + Slept'
    BY DEF OverdueInTurn
  <2>1. d \in Queued /\ d # c /\ due'[d] = due[d]
    BY <1>2, <1>3, <1>4
  <2>2. due[c] <= due[d] /\ c \in Ahead(d)
    BY <1>1, <2>1 DEF First, Ahead
  <2>3. Ahead(d)' = Ahead(d) \ {c}
    BY <1>2, <1>3, <1>4, <2>1 DEF Ahead, Queued
  <2>4. Cardinality(Ahead(d)') = Cardinality(Ahead(d)) - 1
    BY <2>1, <2>2, <2>3, AheadSize, FS_RemoveElement
  <2>5. -due[d] < MaxLoop * (Cardinality(Checks) - Cardinality(Ahead(d))) + MaxLoop
    BY <1>2, <2>1 DEF OverdueInTurn, Slept
  <2>6. -due[d] < MaxLoop * (Cardinality(Checks) - (Cardinality(Ahead(d)) - 1))
    BY <2>1, <2>5, AheadSize, CheckCount, OneLookMore
  <2>7. Slept' = 0
    BY <1>2 DEF Slept
  <2> QED
    BY <2>1, <2>4, <2>6, <2>7, AheadSize, CheckCount, OneLookMore
<1>6. DueNearDeadline'
  BY <1>3, <1>4 DEF DueNearDeadline
<1> QED BY <1>5, <1>6

\* A second is one for all, and one of those the thread may sleep.
LEMMA TickInv ==
    ASSUME IInv, TypeOK', Tick
    PROVE  OverdueInTurn' /\ DueNearDeadline'
<1> USE DEF IInv, TypeOK
<1>1. /\ Queued' = Queued
      /\ \A d \in Queued : due'[d] = due[d] - 1 /\ left'[d] = left[d] - 1
  BY DEF Tick, Queued
<1>2. Slept \in Nat /\ Slept' \in Nat /\ Slept' >= Slept + 1
  <2>1. loop \in 1..MaxLoop /\ loop' \in {0, loop + 1} /\ loop' <= MaxLoop
    BY DEF Tick
  <2>2. Slept = loop - 1
    BY <2>1 DEF Slept
  <2>3. CASE loop' = 0
    <3>1. Slept' = MaxLoop
      BY <2>3 DEF Slept
    <3> QED BY <2>1, <2>2, <3>1
  <2>4. CASE loop' = loop + 1
    <3>1. Slept' = loop
      BY <2>1, <2>4 DEF Slept
    <3> QED BY <2>1, <2>2, <3>1
  <2> QED BY <2>1, <2>3, <2>4
<1>3. OverdueInTurn'
  <2> SUFFICES ASSUME NEW d \in Queued', due'[d] <= 0
               PROVE  -due'[d] < MaxLoop * (Cardinality(Checks) - Cardinality(Ahead(d)')) + Slept'
    BY DEF OverdueInTurn
  <2>1. d \in Queued /\ due[d] \in Int /\ due'[d] = due[d] - 1
    BY <1>1 DEF Queued
  <2>2. Ahead(d)' = Ahead(d)
    BY <1>1, <2>1 DEF Ahead, Queued
  <2>3. MaxLoop * (Cardinality(Checks) - Cardinality(Ahead(d))) \in Nat
    BY <2>1, AheadSize, CheckCount, OneLookMore
  <2>4. CASE due[d] <= 0
    <3>1. -due[d] < MaxLoop * (Cardinality(Checks) - Cardinality(Ahead(d))) + Slept
      BY <2>1, <2>4 DEF OverdueInTurn
    <3> QED BY <1>2, <2>1, <2>2, <2>3, <3>1
  <2>5. CASE due[d] = 1
    BY <1>2, <2>1, <2>2, <2>3, <2>5
  <2> QED BY <2>1, <2>4, <2>5
<1>4. DueNearDeadline'
  BY <1>1 DEF DueNearDeadline, Delay, Queued
<1> QED BY <1>3, <1>4

LEMMA InvStep == IInv /\ [Next]_vars => IInv'
<1> SUFFICES ASSUME IInv, [Next]_vars PROVE IInv' OBVIOUS
<1>1. TypeOK'
  BY TypeStep DEF IInv
<1>2. ASSUME NEW c \in Checks, Add(c) PROVE IInv'
  BY <1>1, <1>2, AddInv DEF IInv
<1>3. CASE Look
  BY <1>1, <1>3, LookInv DEF IInv
<1>4. CASE Tick
  BY <1>1, <1>4, TickInv DEF IInv
<1>5. CASE UNCHANGED vars
  BY <1>5 DEF vars, IInv, TypeOK, OverdueInTurn, DueNearDeadline, Queued, Ahead, Slept
<1> QED BY <1>2, <1>3, <1>4, <1>5 DEF Next

\* The invariant that says how far a check may be overdue, by the checks ahead of it
\* and the seconds since the last look (Scheduler.__call__ looks at one task at a time).
THEOREM TimedInductive == Spec => []IInv
  BY InitInv, InvStep, PTL DEF Spec

\* No check starves: one that is due is called, however often the others are put back
\* and whenever new ones are added (PriorityQueue.get, Scheduler.add).
THEOREM StarvesNever == Spec => []NoStarvation
<1>1. IInv => NoStarvation
  <2> SUFFICES ASSUME IInv, NEW c \in Queued
               PROVE  due[c] > -(MaxLoop * (Others + 1))
    BY DEF NoStarvation
  <2> USE DEF IInv
  <2>1. Others + 1 = Cardinality(Checks)
    BY CheckCount DEF Others
  <2>2. due[c] \in Int /\ Slept \in Nat /\ Slept <= MaxLoop
    BY DEF TypeOK, Queued, Slept
  <2>3. /\ MaxLoop * (Cardinality(Checks) - Cardinality(Ahead(c))) \in Nat
        /\ MaxLoop * (Cardinality(Checks) - Cardinality(Ahead(c))) + MaxLoop
             <= MaxLoop * Cardinality(Checks)
        /\ MaxLoop * Cardinality(Checks) \in Nat
    BY AheadSize, CheckCount, OneLookMore
  <2>4. CASE due[c] <= 0
    <3>1. -due[c] < MaxLoop * (Cardinality(Checks) - Cardinality(Ahead(c))) + Slept
      BY <2>4 DEF OverdueInTurn
    <3> QED BY <2>1, <2>2, <2>3, <3>1
  <2>5. CASE due[c] > 0
    BY <2>1, <2>2, <2>3, <2>5
  <2> QED BY <2>2, <2>4, <2>5
<1> QED BY <1>1, TimedInductive, PTL

\* A verdict is never later than the deadline of its check, the delay of its last call
\* and one look at each of the others (ReadyCheck._fail_after).
THEOREM VerdictTimely == Spec => []TimelyVerdict
<1>1. IInv /\ NoStarvation => TimelyVerdict
  <2> SUFFICES ASSUME IInv, NoStarvation, NEW c \in Queued
               PROVE  left[c] > -(Delay + MaxLoop * (Others + 1))
    BY DEF TimelyVerdict
  <2>1. /\ due[c] \in Int /\ left[c] \in Int
        /\ left[c] > due[c] - Delay
    BY DEF IInv, TypeOK, Queued, DueNearDeadline
  <2>2. due[c] > -(MaxLoop * (Others + 1)) /\ MaxLoop * (Others + 1) \in Int
    BY CheckCount DEF NoStarvation, Others
  <2> QED BY <2>1, <2>2 DEF Delay
<1> QED BY <1>1, TimedInductive, StarvesNever, PTL
===============================================================================
