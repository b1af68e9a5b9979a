--------------------------- MODULE DeployLifecycle ---------------------------
(***************************************************************************)
(* What the results reported for one deploy promise to its observer: they  *)
(* come in the order INITIATED, RUNNING, and then SUCCESS or FAILED, once; *)
(* a deploy may also fail before it is running.  Only where the daemon     *)
(* deploys itself may a SUCCESS be taken back (Retracts).                  *)
(***************************************************************************)
CONSTANTS Deploys, Retracts
VARIABLE phase

Terminal == {"SUCCESS", "FAILED"}

Init == phase = [d \in Deploys |-> "NONE"]

Report(d, from, to) ==
    /\ phase[d] \in from
    /\ phase' = [phase EXCEPT ![d] = to]

Next ==
    \E d \in Deploys :
      \/ Report(d, {"NONE"}, "INITIATED")
      \/ Report(d, {"INITIATED"}, "RUNNING")
      \/ Report(d, {"RUNNING"}, "SUCCESS")
      \/ Report(d, {"INITIATED", "RUNNING"}, "FAILED")
      \/ Retracts /\ Report(d, {"SUCCESS"}, "FAILED")

Spec == Init /\ [][Next]_phase

\* A deploy that was begun is brought to an end.
Finishes == \A d \in Deploys : phase[d] \in {"INITIATED", "RUNNING"} ~> phase[d] \in Terminal
==============================================================================
