------------------------------ MODULE MCBootstrap ------------------------------
(* An instance of Bootstrap for TLC: two Applications, one of them the daemon. *)
EXTENDS Bootstrap

CONSTANTS a1, a2
TwoApps == {a1, a2}
Self == {a2}
ApiOther == {"api", "other"}
================================================================================
