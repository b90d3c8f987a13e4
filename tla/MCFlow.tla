------------------------------- MODULE MCFlow -------------------------------
(***************************************************************************)
(* An instance of Flow for TLC.                                            *)
(***************************************************************************)
EXTENDS Flow, TLC

FlowSymmetry == Permutations(Item) \cup Permutations(Writer)
===============================================================================
