----------------------------- MODULE MCFrontEnd -----------------------------
(* The bounds are in the configurations: four instructions make three    *)
(* nested calls and a return, or a misprediction with real buckets around.  *)
EXTENDS FrontEnd
=============================================================================
