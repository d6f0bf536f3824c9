----------------------------- MODULE MCStepTask -----------------------------
(* Instance of StepTask for TLC: a plain step, then a gated one.           *)
EXTENDS StepTask, TLC

PlainThenGated == <<FALSE, TRUE>>
=============================================================================
