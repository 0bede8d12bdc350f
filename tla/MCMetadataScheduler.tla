------------------------ MODULE MCMetadataScheduler -------------------------
(* Model checking of MetadataScheduler. Everything but the number of       *)
(* refresh requests is finite already; four of them suffice for one in     *)
(* the timer, one in the channel, one about to be sent and one answered.   *)
EXTENDS MetadataScheduler
=============================================================================
