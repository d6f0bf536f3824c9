--------------------------- MODULE MCSupercarTask ---------------------------
(* Instances of SupercarTask for TLC.                                      *)
EXTENDS SupercarTask
=============================================================================
