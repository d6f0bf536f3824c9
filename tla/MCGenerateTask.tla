--------------------------- MODULE MCGenerateTask ---------------------------
(* Two clients that reply, twice in all.                                   *)
EXTENDS GenerateTask
=============================================================================
