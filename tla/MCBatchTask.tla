---------------------------- MODULE MCBatchTask ----------------------------
(* Model checking of BatchTask on small rings. *)
EXTENDS BatchTaskInv
=============================================================================
