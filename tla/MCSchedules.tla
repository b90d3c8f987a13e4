----------------------------- MODULE MCSchedules -----------------------------
(***************************************************************************)
(* Instances of Schedules for TLC.                                         *)
(***************************************************************************)
EXTENDS Schedules, TLC

\* A recurring schedule of either anchor mode, and a one-shot, first anchored today.
EitherMode == [cadence : {2}, anchor_mode : Anchors, anchor_at : {0}]
OneShot    == [cadence : {Once}, anchor_mode : {"completed"}, anchor_at : {0}]
AnyCadence == EitherMode \cup OneShot

PauseAndResume == [cadence : {Keep}, anchor_mode : {Keep}, anchor_at : {Keep},
                   status : {"paused", Active}]
Recadence      == [cadence : {Once, 2}, anchor_mode : {Keep}, anchor_at : {Keep},
                   status : {Keep}]
PauseOrRecadence == PauseAndResume \cup Recadence

Symmetry == Permutations(WorkItem) \cup Permutations(Client)
==============================================================================
