---------------------------- MODULE MCStatusStore ----------------------------
(* Instances of StatusStore for TLC. *)
EXTENDS StatusStore

CONSTANTS deployer, scheduler, i1, i2
BothThreads == {deployer, scheduler}
OneThread == {deployer}
TwoIds == {i1, i2}
OneId == {i1}
OneEach == [t \in Threads |-> IF t = deployer THEN {"FAILED"} ELSE {"SUCCESS"}]
==============================================================================
