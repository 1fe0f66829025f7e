-------------------------- MODULE MCSingleOpBuilds --------------------------
(***************************************************************************)
(* Model checking of SingleOp in two builds, each by itself, on the same   *)
(* variables: the default one, which has the constants of the              *)
(* configuration, and the optimised one.  build is the one of this         *)
(* behaviour.                                                              *)
(***************************************************************************)
EXTENDS MCSingleOp

VARIABLES build

\* The hypotheses of the theorems about SingleOp.
ASSUME SafeAssumption == SafeRequests /\ ShortCompares

Optimised == INSTANCE SingleOp
  WITH DESCS_ADDRESS_ALIGNMENT <- TRUE, INTERLEAVED_PAGEFAULT_ENABLE <- TRUE,
       SHORT <- 3, Requests <- MCAlignedRequests, MaxFaults <- 1

bvars == <<vars, build>>

BuildsInit == Init /\ build \in {"default", "optimised"}

Client ==
  /\ UNCHANGED build
  /\ \/ build = "default" /\ ClientStep
     \/ build = "optimised" /\ Optimised!ClientStep
Device ==
  /\ UNCHANGED build
  /\ \/ build = "default" /\ DeviceStep
     \/ build = "optimised" /\ Optimised!DeviceStep

BuildsNext ==
  \/ Client \/ Device
  \/ build = "default" /\ Calls /\ UNCHANGED build
  \/ build = "optimised" /\ Optimised!Calls /\ UNCHANGED build
  \/ pc = "exited" /\ UNCHANGED bvars

BuildsSpec ==
  BuildsInit /\ [][BuildsNext]_bvars /\ WF_bvars(Client) /\ WF_bvars(Device)
=============================================================================
