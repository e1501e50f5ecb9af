---------------------------- MODULE MCStatusTasks ----------------------------
(* Instances of StatusTasks small enough for TLC.                          *)
EXTENDS StatusTasks
==============================================================================
