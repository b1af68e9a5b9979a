---------------------------- MODULE StatusRegister ----------------------------
(***************************************************************************)
(* What a report to the ApplicationStatus objects promises the thread that *)
(* makes it: if it returns, its result was stored, once, between call and  *)
(* return; if it raises, it was stored at most once.  No value changes     *)
(* otherwise, except that a report which has stored its own may evict      *)
(* others.                                                                 *)
(***************************************************************************)
CONSTANTS Writers, Keys, Values, None
VARIABLES value, call

Idle == [key |-> None, val |-> None, stage |-> "idle"]

Init == value = [k \in Keys |-> None] /\ call = [t \in Writers |-> Idle]

Begin(t, k, v) ==
    /\ call[t].stage = "idle"
    /\ call' = [call EXCEPT ![t] = [key |-> k, val |-> v, stage |-> "called"]]
    /\ UNCHANGED value

Stored(t) == value' = [value EXCEPT ![call[t].key] = call[t].val]

Store(t) ==
    /\ call[t].stage = "called"
    /\ Stored(t)
    /\ call' = [call EXCEPT ![t].stage = "stored"]

\* The last eviction may be what the call returns from.
Evict(t, k) ==
    /\ call[t].stage = "stored"
    /\ value' = [value EXCEPT ![k] = None]
    /\ call' \in {call, [call EXCEPT ![t] = Idle]}

Return(t) ==
    /\ call[t].stage = "stored"
    /\ call' = [call EXCEPT ![t] = Idle]
    /\ UNCHANGED value

Raise(t) ==
    /\ call[t].stage # "idle"
    /\ call' = [call EXCEPT ![t] = Idle]
    /\ UNCHANGED value \/ (call[t].stage = "called" /\ Stored(t))

Next ==
    \E t \in Writers :
      \/ \E k \in Keys, v \in Values : Begin(t, k, v)
      \/ Store(t)
      \/ \E k \in Keys : Evict(t, k)
      \/ Return(t)
      \/ Raise(t)

Spec == Init /\ [][Next]_<<value, call>>
===============================================================================
