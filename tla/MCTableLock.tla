---------------------------- MODULE MCTableLock ----------------------------
(* TableLock on the small sets of the cfg.  No symmetry: liveness is       *)
(* checked in the same run.                                                *)
EXTENDS TableLock
=============================================================================
