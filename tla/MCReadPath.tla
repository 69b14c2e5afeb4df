----------------------------- MODULE MCReadPath -----------------------------
(* ReadPath on small sets, given in the cfg.  No symmetry: the run checks   *)
(* liveness.                                                               *)
EXTENDS ReadPath
=============================================================================
