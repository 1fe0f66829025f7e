--------------------------- MODULE MCBatchBuilds ---------------------------
(***************************************************************************)
(* Model checking of DSAbatch_task in two builds, each by itself, on the   *)
(* same variables: in order, with the constants of the configuration, and  *)
(* mixing, with out-of-order recycling.  build is the one of this          *)
(* behaviour.                                                              *)
(***************************************************************************)
EXTENDS MixingBatchInv

VARIABLE build

Mixing == INSTANCE MixingBatch
  WITH OutOfOrder <- TRUE, OUT_OF_ORDER_RECYCLE_T_INIT <- 2

buildvars == <<mvars, build>>

BuildsInit == MixInit /\ build \in {"in_order", "mixing"}

BuildsNext ==
  /\ UNCHANGED build
  /\ \/ build = "in_order" /\ Next /\ UNCHANGED <<rdstrb, desc_count>>
     \/ build = "mixing" /\ Mixing!MixNext

BuildsSpec == BuildsInit /\ [][BuildsNext]_buildvars
=============================================================================
