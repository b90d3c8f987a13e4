----------------------------- MODULE MCGateStore -----------------------------
(***************************************************************************)
(* Instances of GateStore for TLC.                                         *)
(***************************************************************************)
EXTENDS GateStore, TLC

Symmetry == Permutations(Code)
==============================================================================
