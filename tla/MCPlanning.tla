------------------------------ MODULE MCPlanning ------------------------------
(***************************************************************************)
(* Instances of Planning for TLC.  Each set of patches is the part of the  *)
(* request types a run explores; everything else of Planning is unchanged. *)
(***************************************************************************)
EXTENDS Planning, TLC

StatusPatch(S) == [status : S, archived : {Keep}]

\* Requests that only move a work item between unfinished and finished.
OpenOrDone == [status : {"open", "done"}, archived : {Keep}, check_after : {Keep},
               invalidated_if : {Keep}, project : {Keep}]

\* A soakable work item, the least a soaks edge needs.
Soakable == [status : {"open"}, project : {NoProject}, fields : {SoakField}]

\* Without the statuses whose part in the rules another one plays.
FewProposalStatuses == StatusPatch({"active", "done", "declined"})
FewProgramStatuses  == StatusPatch({"queued", "holding", Soaking})

\* Answers and reopenings, with and without the archived flag.
AnswerWorkItem == [status : {Keep, "open", "closed"}, archived : Flag, check_after : {Keep},
                   invalidated_if : {Keep}, project : {Keep}]
AnswerProposal == [status : {Keep, "active", "done", "declined"}, archived : Flag]
AnswerProgram  == [status : {Keep, "done"}, archived : Flag]
AnswerCard     == [status : {"Active", "Cut"}, archived : {Keep}]
AnswerCapture  == [archived : Flag]
Unsoakable == [status : {"open"}, project : {NoProject}, fields : {{}}]

NoRequest == {}

GraphSymmetry == Permutations(Program) \cup Permutations(Proposal)
===============================================================================
