---------------------------- MODULE MCDeployDaemon ----------------------------
(* Instances of DeployDaemon for TLC. *)
EXTENDS DeployDaemon

CONSTANTS a1, a2
OneApp == {a1}
TwoApps == {a1, a2}
Self == {a2}
NoApps == {}
NoFaults == {}
Api == {"api"}
ApiOther == {"api", "other"}
OnlyCrash == {"crash"}
AllFaults == Faults
===============================================================================
