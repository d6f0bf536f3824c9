-------------------------- MODULE MCScheduledTasks --------------------------
(* Instance of ScheduledTasks for TLC.                                     *)
EXTENDS ScheduledTasks, TLC
=============================================================================
