----------------------------- MODULE MCTaskView -----------------------------
(* An instance of TaskView for TLC: a task with its iterations and its     *)
(* question, and the one its handoff creates.                              *)
EXTENDS TaskView
CONSTANTS a, b
=============================================================================
