----------------------------- MODULE MCCaptures -----------------------------
(***************************************************************************)
(* An instance of Captures for TLC: one link, older than the log or yet to *)
(* be made, one handoff, and a reader who asks for everything or for the   *)
(* links.                                                                  *)
(***************************************************************************)
EXTENDS Captures, TLC

\* Two ways to edit a comment, one of which names its writer, and one that changes
\* nothing when the comment has been written by the other.
SomeTexts == {[body |-> "old", origin |-> None], [body |-> "new", origin |-> "web"],
              [body |-> "new", origin |-> None]}

SomeFilters == {[action |-> None, kind |-> None], [action |-> None, kind |-> "link"]}

ClientSymmetry == Permutations(Client)
===============================================================================
