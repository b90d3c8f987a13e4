--------------------------- MODULE MCPlanningRaces ---------------------------
(***************************************************************************)
(* Instances of PlanningRaces for TLC.                                     *)
(***************************************************************************)
EXTENDS PlanningRaces, TLC

StatusPatch(S) == [status : S, archived : {Keep}]
ItemPatch(S)   == [status : S, archived : {Keep}, check_after : {Keep},
                   invalidated_if : {Keep}, project : {Keep}]

SliceStatuses   == StatusPatch({"proposed", "active", "done"})
ProgramStatusesMoved == StatusPatch({Soaking, "holding"})
OpenOrDone      == ItemPatch({"open", "done"})
Soakable        == [status : {"open"}, project : {NoProject}, fields : {SoakField}]
NoRequest       == {}

\* The calls that overlap; the others run, but alone.
SlicesAndSingles == {"slice", "single"}

Symmetry == Permutations(Client) \cup Permutations(Proposal)
==============================================================================
