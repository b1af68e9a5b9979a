---------------------------- MODULE TimedScheduler ----------------------------
(***************************************************************************)
(* deployer/scheduler.py and deployer/kubernetes/ready_check.py again, now *)
(* with their times, which module Scheduler leaves out: a PriorityQueue of *)
(* tasks ordered by when they are due, a thread that looks at the first of *)
(* them and then sleeps, and the deadline of each ReadyCheck.              *)
(*                                                                         *)
(* Times are whole seconds relative to now, so that a state does not hold  *)
(* the clock: a task that is overdue by two seconds is due at -2.          *)
(***************************************************************************)
EXTENDS Integers, FiniteSets

CONSTANTS
    Checks,         \* ReadyChecks, of one deploy each
    FailAfter,      \* _fail_after_seconds when a check is made
    MaxLoop,        \* bound: seconds from one look at the queue to the next
    MaxFaults       \* bound: checks that raise an API error

ASSUME ChecksAssumption == IsFiniteSet(Checks)
ASSUME TimesAssumption == FailAfter \in Nat /\ MaxLoop \in Nat \ {0} /\ MaxFaults \in Nat

VARIABLES
    state,      \* of each check: not yet made, in the queue, or how it ended
    due,        \* execute_at of each check in the queue, from now
    left,       \* _fail_after of each check in the queue, from now
    rest,       \* history: seconds since the check last returned True, up to Delay
    loop        \* seconds since the thread looked at the queue; 0 at the next look

vars == <<state, due, left, rest, loop>>

Delay == 10     \* self.add(task, 10)
Ends == {"SUCCESS", "FAILED", "dropped"}

Init ==
    /\ state = [c \in Checks |-> "new"]
    /\ due = [c \in Checks |-> 0]
    /\ left = [c \in Checks |-> 0]
    /\ rest = [c \in Checks |-> Delay]
    /\ loop = 0

Queued == {c \in Checks : state[c] = "queued"}

MutFirst(c) == \A d \in Queued : due[c] >= due[d]

\* PriorityQueue.get: the least execute_at.  Equal times are taken in any order.
First(c) == \A d \in Queued : due[c] <= due[d]

\* Scheduler.add
Put(c, delay) == due' = [due EXCEPT ![c] = delay]

\* The deployer makes a ReadyCheck and adds it.
Add(c) ==
    /\ state[c] = "new"
    /\ state' = [state EXCEPT ![c] = "queued"]
    /\ Put(c, 1)
    /\ left' = [left EXCEPT ![c] = FailAfter]
    /\ UNCHANGED <<rest, loop>>

\* The check is not looked at again.
EndAs(c, end) ==
    /\ state' = [state EXCEPT ![c] = end]
    /\ due' = [due EXCEPT ![c] = 0]
    /\ left' = [left EXCEPT ![c] = 0]
    /\ rest' = [rest EXCEPT ![c] = Delay]

\* ReadyCheck.__call__ of a check that is ready, ...
CallReady(c) == EndAs(c, "SUCCESS")

\* ... and of one that is not: it fails from its deadline on, and otherwise asks to
\* be called again.
CallUnready(c) ==
    \/ left[c] <= 0 /\ EndAs(c, "FAILED")
    \/ /\ left[c] > 0
       /\ Put(c, Delay)
       /\ rest' = [rest EXCEPT ![c] = 0]
       /\ UNCHANGED <<state, left>>

\* An API error is logged, and the task not put back.
CallRaises(c) ==
    /\ Cardinality({d \in Checks : state[d] = "dropped"}) < MaxFaults
    /\ EndAs(c, "dropped")

MutAgain(c) == Put(c, Delay)

\* A task that is not due yet is added anew, with the delay of a new task.
Again(c) == Put(c, 1)

\* One look at the queue: the first task is called if it is due.
Look ==
    /\ loop = 0
    /\ \E c \in Queued :
         /\ First(c)
         /\ \/ due[c] <= 0 /\ (CallReady(c) \/ CallUnready(c) \/ CallRaises(c))
            \/ due[c] > 0 /\ Again(c) /\ UNCHANGED <<state, left, rest>>
    /\ loop' = 1

\* A second passes while the thread sleeps, works, or waits for a task.
Tick ==
    /\ loop \in 1..MaxLoop
    /\ due' = [c \in Checks |-> IF c \in Queued THEN due[c] - 1 ELSE 0]
    /\ left' = [c \in Checks |-> IF c \in Queued THEN left[c] - 1 ELSE 0]
    /\ rest' = [c \in Checks |-> IF rest[c] < Delay THEN rest[c] + 1 ELSE Delay]
    /\ loop' \in {0, loop + 1} /\ loop' <= MaxLoop
    /\ UNCHANGED state

Next == (\E c \in Checks : Add(c)) \/ Look \/ Tick

Spec == Init /\ [][Next]_vars

-----------------------------------------------------------------------------
Others == Cardinality(Checks) - 1

\* No check starves: one that is due waits at most for the look under way and for
\* one look at each of the others, however often those are put back.
NoStarvation == \A c \in Queued : due[c] > -(MaxLoop * (Others + 1))

\* A verdict is timely: a check whose deadline has passed is gone from the queue
\* once the delay of its last call, and one look at each of the others, are over.
TimelyVerdict == \A c \in Queued : left[c] > -(Delay + MaxLoop * (Others + 1))

\* What makes them inductive: of the checks queued, those that are looked at no later
\* than c; none comes to them while c is overdue, and each look takes one away.
Ahead(c) == {d \in Queued : due[d] <= due[c]}

\* Seconds since the last look, and how many there may be when the next one is due.
Slept == IF loop = 0 THEN MaxLoop ELSE loop - 1

TypeOK ==
    /\ state \in [Checks -> {"new", "queued"} \union Ends]
    /\ due \in [Checks -> Int]
    /\ left \in [Checks -> Int]
    /\ loop \in 0..MaxLoop

OverdueInTurn ==
    \A c \in Queued :
      due[c] <= 0 =>
        -due[c] < MaxLoop * (Cardinality(Checks) - Cardinality(Ahead(c))) + Slept

\* A check is put back only before its deadline, to be due one delay later.
DueNearDeadline == \A c \in Queued : left[c] > due[c] - Delay

IInv == TypeOK /\ OverdueInTurn /\ DueNearDeadline

\* tests/.../test_scheduler.py: a task that is put back is put back "with a 10s delay".
RestsBetweenCalls ==
    [][\A c \in Checks : due[c] <= 0 /\ due'[c] = Delay => rest[c] >= Delay]_vars
===============================================================================
