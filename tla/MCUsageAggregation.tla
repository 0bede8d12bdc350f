------------------------- MODULE MCUsageAggregation -------------------------
(* Model checking of UsageAggregation; the constants are in the cfg files. *)
EXTENDS UsageAggregation
=============================================================================
