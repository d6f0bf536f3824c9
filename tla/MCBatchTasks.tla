---------------------------- MODULE MCBatchTasks ----------------------------
(* Instance of BatchTasks for TLC.                                         *)
EXTENDS BatchTasks, TLC

MCItems == 1 .. 3
=============================================================================
