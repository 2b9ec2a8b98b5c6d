---------------------------- MODULE MCHotReload ----------------------------
(* Model-checking instances of HotReload: the constants its cfgs assign.   *)
EXTENDS HotReload

(* Every edit gets a strictly newer mtime. *)
FineClock == {1}

=============================================================================
