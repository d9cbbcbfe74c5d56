--------------------------- MODULE MCHourPipeline ---------------------------
(* HourPipeline for TLC. *)
EXTENDS HourPipeline

mcSource == {Live, Hist, Leak}
=============================================================================
