----------------------------- MODULE MCMonitoring -----------------------------
(* An instance of Monitoring for TLC. *)
EXTENDS Monitoring

TwoDeploys == 1..2
OwnIds == [d \in Deploys |-> d]
===============================================================================
