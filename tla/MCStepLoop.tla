---------------------------- MODULE MCStepLoop -----------------------------
(* Small instances of StepLoop for TLC.                                     *)
EXTENDS StepLoop
=============================================================================
