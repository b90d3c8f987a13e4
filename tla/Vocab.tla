-------------------------------- MODULE Vocab --------------------------------
(***************************************************************************)
(* The closed status vocabularies of korg-core/src/vocab.rs, and the cuts  *)
(* of them that the write paths consult.  vocab.rs is the authority: every *)
(* write path validates a status against one of these sets first.          *)
(***************************************************************************)

Parked  == "parked"
Soaking == "soaking"

\* Work items.
WiStatuses       == {"open", "resolved", "done", "closed", Parked}
WiFinished       == {"done", "closed"}
WiUnfinished     == {"open", "resolved", Parked}
WiTerminal       == {"closed"}

\* Sprint proposals.  "Started" is not the complement of "proposed": a slice
\* that was declined or parked does not count as begun.
ProposalStatuses == {"proposed", "active", "done", "declined", Parked}
ProposalLive     == {"proposed", "active", Parked}
ProposalTerminal == {"done", "declined"}
ProposalStarted  == {"active", "done"}

\* Programs.  Liftable are the statuses a starting slice lifts a program out of.
ProgramStatuses  == {"queued", "active", "holding", Soaking, "done", Parked}
ProgramInitial   == "queued"
ProgramTerminal  == {"done"}
ProgramLiftable  == {ProgramInitial, Soaking}

\* Kanban cards.
CardStatuses     == {"Backlog", "Research", "OnDeck", "Active", "Done", "Cut"}
CardTerminal     == {"Done", "Cut"}
==============================================================================
