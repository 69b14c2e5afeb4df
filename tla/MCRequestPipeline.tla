------------------------- MODULE MCRequestPipeline -------------------------
(* RequestPipeline needs no more than its set of calls, from the cfg.      *)
EXTENDS RequestPipeline
=============================================================================
