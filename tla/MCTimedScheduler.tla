--------------------------- MODULE MCTimedScheduler ---------------------------
(* Instances of TimedScheduler for TLC. *)
EXTENDS TimedScheduler

CONSTANTS c1, c2, c3
OneCheck == {c1}
ThreeChecks == {c1, c2, c3}
===============================================================================
