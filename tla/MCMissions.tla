----------------------------- MODULE MCMissions -----------------------------
(* Instances of Missions for TLC.                                          *)
EXTENDS Missions

AllCommands == {"pause", "resume", "stop"}
UpToThree == 0 .. 3
=============================================================================
