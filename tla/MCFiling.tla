------------------------------ MODULE MCFiling ------------------------------
(***************************************************************************)
(* An instance of Filing for TLC: patches that give a project a place,     *)
(* archive it in each of the ways that differ, and bring it back.          *)
(***************************************************************************)
EXTENDS Filing, TLC

Where(f, place) == [g \in Fields |-> IF g = f THEN place ELSE Keep]
Untouched == [g \in Fields |-> Keep]
APatch(status, notes, where) == [status |-> status, notes |-> notes, where |-> where]

SomePatches ==
  {APatch(Keep, FALSE, Where("src_path", "here")), APatch(Active, FALSE, Untouched)}
  \cup {APatch(Archived, notes, w) : notes \in BOOLEAN,
          w \in {Untouched, Where("machines", "here"), Where("src_path", None)}}

ClientSymmetry == Permutations(Client)
===============================================================================
