------------------------- MODULE MCServerLifecycle -------------------------
(* ServerLifecycle is finite as it is; its constants come from the cfg.    *)
EXTENDS ServerLifecycle
=============================================================================
