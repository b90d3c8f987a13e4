------------------------------- MODULE Planning -------------------------------
(***************************************************************************)
(* The planning graph of korg-core: work items, sprint proposals that      *)
(* `covers' them, programs that `includes' proposals and `soaks' work      *)
(* items, and the awaiting-Ken marker any node can carry.  One action per  *)
(* repo function; each is one committed transaction (PlanningRaces splits  *)
(* the transactions into their statements).                                *)
(*                                                                         *)
(* Requests are records: a field equal to Keep is one the caller left out. *)
(* Titles, notes, ranks, tags and the activity feed are not represented;   *)
(* no guard of these functions reads them.                                 *)
(***************************************************************************)
EXTENDS Vocab

CONSTANTS WorkItem, Proposal, Program, Card,
          Capture,           \* links and handoffs: archivable, no status of their own
          Project, NoProject,
          NewWorkItems,      \* the create_work_item requests of an instance
          WorkItemPatches, ProposalPatches, ProgramPatches, CardPatches, CapturePatches,
          Askable            \* the nodes clients ask Ken about

Absent == "absent"           \* the node has not been created
Keep   == "keep"             \* a patch field the request does not carry
Flag   == {"set", "clear", Keep}
SoakField == {"check_after", "invalidated_if"}

Node    == WorkItem \cup Proposal \cup Program \cup Card \cup Capture

\* The full request types; the patches of an instance are a choice from them.
WorkItemPatch == [status : WiStatuses \cup {Keep}, archived : Flag,
                  check_after : Flag, invalidated_if : Flag,
                  project : Project \cup {NoProject, Keep}]
ProposalPatch == [status : ProposalStatuses \cup {Keep}, archived : Flag]
ProgramPatch  == [status : ProgramStatuses \cup {Keep}, archived : Flag]
CardPatch     == [status : CardStatuses \cup {Keep}, archived : Flag]
CapturePatch  == [archived : Flag]

NewWorkItem == [status : WiStatuses, project : Project \cup {NoProject},
                fields : SUBSET SoakField]

\* node.kind is one column: no node is of two kinds.
ASSUME KindsDisjoint ==
  /\ WorkItem \cap Proposal = {} /\ WorkItem \cap Program = {}
  /\ WorkItem \cap Card = {}     /\ WorkItem \cap Capture = {}
  /\ Proposal \cap Program = {}  /\ Proposal \cap Card = {}
  /\ Proposal \cap Capture = {}  /\ Program \cap Card = {}
  /\ Program \cap Capture = {}   /\ Card \cap Capture = {}

ASSUME ProjectAssumption == NoProject \notin Project /\ Keep \notin Project \cup {NoProject}

ASSUME RequestAssumption ==
  /\ NewWorkItems \subseteq NewWorkItem
  /\ Askable \subseteq Node
  /\ WorkItemPatches \subseteq WorkItemPatch
  /\ ProposalPatches \subseteq ProposalPatch
  /\ ProgramPatches  \subseteq ProgramPatch
  /\ CardPatches     \subseteq CardPatch
  /\ CapturePatches  \subseteq CapturePatch

VARIABLES
  status,     \* [Node -> status of its kind, or Absent]
  project,    \* [Node -> the project it is filed in]
  archived,   \* the archived nodes
  awaiting,   \* the nodes whose awaiting_since is not NULL
  soakFields, \* [WorkItem -> the soak fields it states]
  includes,   \* relationship rows <<program, proposal>>
  covers,     \* relationship rows <<proposal, work item>>
  soaks,      \* relationship rows <<program, work item>>
  logged      \* the transition rows the last transaction inserted

edgeVars == <<includes, covers, soaks>>
vars == <<status, project, archived, awaiting, soakFields, includes, covers, soaks, logged>>

AnyStatus == WiStatuses \cup ProposalStatuses \cup ProgramStatuses \cup CardStatuses
               \cup {"filed", Absent}

Transition == [node : Node, from : AnyStatus, to : AnyStatus]

TypeOK ==
  /\ status \in [Node -> AnyStatus]
  /\ \A w \in WorkItem : status[w] \in WiStatuses \cup {Absent}
  /\ \A p \in Proposal : status[p] \in ProposalStatuses \cup {Absent}
  /\ \A g \in Program  : status[g] \in ProgramStatuses \cup {Absent}
  /\ \A c \in Card     : status[c] \in CardStatuses \cup {Absent}
  /\ project \in [Node -> Project \cup {NoProject}]
  /\ archived \subseteq Node
  /\ awaiting \subseteq Node
  /\ soakFields \in [WorkItem -> SUBSET SoakField]
  /\ includes \subseteq Program \X Proposal
  /\ covers \subseteq Proposal \X WorkItem
  /\ soaks \subseteq Program \X WorkItem
  /\ logged \subseteq Transition

Init ==
  /\ status = [n \in Node |-> Absent]
  /\ project = [n \in Node |-> NoProject]
  /\ archived = {}
  /\ awaiting = {}
  /\ soakFields = [w \in WorkItem |-> {}]
  /\ includes = {} /\ covers = {} /\ soaks = {}
  /\ logged = {}

Exists(n) == status[n] # Absent

-------------------------------------------------------------------------------
(***************************************************************************)
(* Faulty variants of definitions below, one per property: what a plausible*)
(* slip in the code would make of them.  The specification uses none.      *)
(***************************************************************************)

\* The lift forgets soaking programs, as it did before soaking existed.
PromotedQueuedOnly(p, st, inc) ==
  {g \in Program : /\ st[p] \in ProposalStarted
                   /\ <<g, p>> \in inc
                   /\ st[g] = ProgramInitial}

\* The lift takes every program that is not active yet.
PromotedFromAnywhere(p, st, inc) ==
  {g \in Program : /\ st[p] \in ProposalStarted
                   /\ <<g, p>> \in inc
                   /\ st[g] \notin {"active", Absent}}

\* Cascaded lifts leave no transition row.
PromotionRowsUnlogged(st, lifted) == {}

\* A declined proposal still waits for its answer.
AnsweredUnlessDeclined(n, st, arch) ==
  \/ n \in arch
  \/ n \in WorkItem /\ st[n] = "closed"
  \/ n \in Proposal /\ st[n] = "done"
  \/ n \in Program /\ st[n] \in ProgramTerminal

-------------------------------------------------------------------------------
(***************************************************************************)
(* Helpers the handlers share.                                             *)
(***************************************************************************)

\* The value of a set-like column after a patch sets, clears or keeps it.
Flagged(set, n, flag) ==
  IF flag = "set" THEN set \cup {n}
  ELSE IF flag = "clear" THEN set \ {n} ELSE set

Patched(old, new) == IF new = Keep THEN old ELSE new

\* record_transition: a row only when the status moved.
TransitionRow(n, from, to) ==
  IF from = to THEN {} ELSE {[node |-> n, from |-> from, to |-> to]}

\* promote_programs_over: the liftable programs over p, if p counts as started.
\* st and inc are the tables as the enclosing transaction sees them.
Promoted(p, st, inc) ==
  {g \in Program : /\ st[p] \in ProposalStarted
                   /\ <<g, p>> \in inc
                   /\ st[g] \in ProgramLiftable}

WithPromotion(st, lifted) == [n \in Node |-> IF n \in lifted THEN "active" ELSE st[n]]

PromotionRows(st, lifted) == {[node |-> g, from |-> st[g], to |-> "active"] : g \in lifted}

\* slices_started
SlicesStarted(S) == \E p \in S : status[p] \in ProposalStarted

\* check_soaking_entry: every slice terminal, and an unfinished soak to wait for.
MaySoak(g) ==
  /\ \A p \in Proposal : <<g, p>> \in includes => status[p] \in ProposalTerminal
  /\ \E w \in WorkItem : <<g, w>> \in soaks /\ status[w] \in WiUnfinished

\* settle_awaiting: the node reached a state only Ken sets.
Answered(n, st, arch) ==
  \/ n \in arch
  \/ n \in WorkItem /\ st[n] = "closed"
  \/ n \in Proposal /\ st[n] \in ProposalTerminal
  \/ n \in Program /\ st[n] \in ProgramTerminal
  \/ n \in Card /\ st[n] \in CardTerminal

Settled(n, st, arch) == IF Answered(n, st, arch) THEN awaiting \ {n} ELSE awaiting

\* list_awaiting: the lane the board shows.
InLane(n) ==
  /\ n \in awaiting
  /\ n \notin archived
  /\ n \in WorkItem => status[n] \notin WiTerminal
  /\ n \in Proposal => status[n] \notin ProposalTerminal
  /\ n \in Program => status[n] \notin ProgramTerminal
  /\ n \in Card => status[n] \notin CardTerminal

\* The single-project rule of `covers': an unfiled work item is not refused.
SameProject(p, w) == project[w] \in {NoProject, project[p]} \/ project[p] = NoProject

-------------------------------------------------------------------------------
(***************************************************************************)
(* Creation.                                                               *)
(***************************************************************************)

\* create_work_item: any valid status is accepted, and no transition is logged.
CreateWorkItem(w, new) ==
  /\ ~Exists(w)
  /\ status' = [status EXCEPT ![w] = new.status]
  /\ project' = [project EXCEPT ![w] = new.project]
  /\ soakFields' = [soakFields EXCEPT ![w] = new.fields]
  /\ logged' = {}
  /\ UNCHANGED <<archived, awaiting, edgeVars>>

\* create_proposal: unknown work items are dropped, a foreign one refuses the call.
CreateProposal(p, pr, requested) ==
  LET covered == {w \in requested : Exists(w)} IN
  /\ ~Exists(p)
  /\ \A w \in covered : project[w] \in {NoProject, pr}
  /\ status' = [status EXCEPT ![p] = "proposed"]
  /\ project' = [project EXCEPT ![p] = pr]
  /\ covers' = covers \cup {<<p, w>> : w \in covered}
  /\ logged' = {}
  /\ UNCHANGED <<archived, awaiting, soakFields, includes, soaks>>

\* create_program: born queued, or active over a slice that has begun.
CreateProgram(g, slices) ==
  /\ ~Exists(g)
  /\ \A p \in slices : Exists(p)
  /\ status' = [status EXCEPT ![g] = IF SlicesStarted(slices) THEN "active"
                                     ELSE ProgramInitial]
  /\ includes' = includes \cup {<<g, p>> : p \in slices}
  /\ logged' = {}
  /\ UNCHANGED <<project, archived, awaiting, soakFields, covers, soaks>>

\* create_card, create_link and create_handoff, as far as this graph sees them.
CreateOther(n, s) ==
  /\ ~Exists(n)
  /\ status' = [status EXCEPT ![n] = s]
  /\ logged' = {}
  /\ UNCHANGED <<project, archived, awaiting, soakFields, edgeVars>>

-------------------------------------------------------------------------------
(***************************************************************************)
(* Edges.                                                                  *)
(***************************************************************************)

\* relate(g, p, "includes"): the promotion runs whether or not the row is new,
\* so a call that only re-ranks an existing slice runs it too.
RelateIncludes(g, p) ==
  LET inc == includes \cup {<<g, p>>}
      lifted == Promoted(p, status, inc)
  IN
  /\ Exists(g) /\ Exists(p)
  /\ includes' = inc
  /\ status' = WithPromotion(status, lifted)
  /\ logged' = PromotionRows(status, lifted)
  /\ UNCHANGED <<project, archived, awaiting, soakFields, covers, soaks>>

\* relate(p, w, "covers")
RelateCovers(p, w) ==
  /\ Exists(p) /\ Exists(w)
  /\ SameProject(p, w)
  /\ covers' = covers \cup {<<p, w>>}
  /\ logged' = {}
  /\ UNCHANGED <<status, project, archived, awaiting, soakFields, includes, soaks>>

\* relate(g, w, "soaks"): both soak fields stated, no live proposal still covering.
RelateSoaks(g, w) ==
  /\ Exists(g) /\ Exists(w)
  /\ soakFields[w] = SoakField
  /\ ~\E p \in Proposal : <<p, w>> \in covers /\ status[p] \in ProposalLive
  /\ soaks' = soaks \cup {<<g, w>>}
  /\ logged' = {}
  /\ UNCHANGED <<status, project, archived, awaiting, soakFields, includes, covers>>

\* unrelate(id): one existing row goes, nothing else moves.
Unrelate(e) ==
  /\ e \in includes \cup covers \cup soaks
  /\ includes' = includes \ {e}
  /\ covers' = covers \ {e}
  /\ soaks' = soaks \ {e}
  /\ logged' = {}
  /\ UNCHANGED <<status, project, archived, awaiting, soakFields>>

-------------------------------------------------------------------------------
(***************************************************************************)
(* Updates.                                                                *)
(***************************************************************************)

\* update_work_item: the covers and soaks edges are not looked at again.
UpdateWorkItem(w, patch) ==
  /\ Exists(w)
  /\ status' = [status EXCEPT ![w] = Patched(@, patch.status)]
  /\ logged' = TransitionRow(w, status[w], status'[w])
  /\ soakFields' = [soakFields EXCEPT ![w] =
       Flagged(Flagged(@, "check_after", patch.check_after),
               "invalidated_if", patch.invalidated_if)]
  /\ project' = [project EXCEPT ![w] = Patched(@, patch.project)]
  /\ archived' = Flagged(archived, w, patch.archived)
  /\ awaiting' = Settled(w, status', archived')
  /\ UNCHANGED edgeVars

\* update_proposal: any status patch runs the promotion, a re-asserted one too.
UpdateProposal(p, patch) ==
  LET st == [status EXCEPT ![p] = Patched(@, patch.status)]
      lifted == IF patch.status = Keep THEN {} ELSE Promoted(p, st, includes)
  IN
  /\ Exists(p)
  /\ status' = WithPromotion(st, lifted)
  /\ logged' = TransitionRow(p, status[p], st[p]) \cup PromotionRows(st, lifted)
  /\ archived' = Flagged(archived, p, patch.archived)
  /\ awaiting' = Settled(p, status', archived')
  /\ UNCHANGED <<project, soakFields, edgeVars>>

\* update_program: the one transition rule is on the way into soaking.
UpdateProgram(g, patch) ==
  /\ Exists(g)
  /\ patch.status = Soaking /\ status[g] # Soaking => MaySoak(g)
  /\ status' = [status EXCEPT ![g] = Patched(@, patch.status)]
  /\ logged' = TransitionRow(g, status[g], status'[g])
  /\ archived' = Flagged(archived, g, patch.archived)
  /\ awaiting' = Settled(g, status', archived')
  /\ UNCHANGED <<project, soakFields, edgeVars>>

\* update_card: no transition row, and the marker is not settled.
UpdateCard(c, patch) ==
  /\ Exists(c)
  /\ status' = [status EXCEPT ![c] = Patched(@, patch.status)]
  /\ archived' = Flagged(archived, c, patch.archived)
  /\ logged' = {}
  /\ UNCHANGED <<project, awaiting, soakFields, edgeVars>>

\* update_link and update_handoff: likewise, with archiving the only lifecycle.
UpdateCapture(n, patch) ==
  /\ Exists(n)
  /\ archived' = Flagged(archived, n, patch.archived)
  /\ logged' = {}
  /\ UNCHANGED <<status, project, awaiting, soakFields, edgeVars>>

\* set_awaiting: any node, in any state, may be asked about or have its ask retracted.
SetAwaiting(n, flag) ==
  /\ Exists(n)
  /\ awaiting' = Flagged(awaiting, n, flag)
  /\ logged' = {}
  /\ UNCHANGED <<status, project, archived, soakFields, edgeVars>>

-------------------------------------------------------------------------------

CreateSome ==
  \/ \E w \in WorkItem, new \in NewWorkItems : CreateWorkItem(w, new)
  \/ \E p \in Proposal, pr \in Project, C \in SUBSET WorkItem : CreateProposal(p, pr, C)
  \/ \E g \in Program, S \in SUBSET Proposal : CreateProgram(g, S)
  \/ \E c \in Card, s \in CardStatuses : CreateOther(c, s)
  \/ \E n \in Capture : CreateOther(n, "filed")

RelateSome ==
  \/ \E g \in Program, p \in Proposal : RelateIncludes(g, p)
  \/ \E p \in Proposal, w \in WorkItem : RelateCovers(p, w)
  \/ \E g \in Program, w \in WorkItem : RelateSoaks(g, w)
  \/ \E e \in includes \cup covers \cup soaks : Unrelate(e)

UpdateSome ==
  \/ \E w \in WorkItem, patch \in WorkItemPatches : UpdateWorkItem(w, patch)
  \/ \E p \in Proposal, patch \in ProposalPatches : UpdateProposal(p, patch)
  \/ \E g \in Program, patch \in ProgramPatches : UpdateProgram(g, patch)
  \/ \E c \in Card, patch \in CardPatches : UpdateCard(c, patch)
  \/ \E n \in Capture, patch \in CapturePatches : UpdateCapture(n, patch)

AskSome == \E n \in Askable, flag \in {"set", "clear"} : SetAwaiting(n, flag)

Next == CreateSome \/ RelateSome \/ UpdateSome \/ AskSome

Spec == Init /\ [][Next]_vars

-------------------------------------------------------------------------------
(***************************************************************************)
(* Properties that hold.                                                   *)
(***************************************************************************)

SlicesOf(g) == {p \in Proposal : <<g, p>> \in includes}

NotStarted(g) == \A p \in SlicesOf(g) : status[p] \notin ProposalStarted

\* A soaking program has no slice in flight: check_soaking_entry admits only
\* terminal slices and promote_programs_over lifts it when one starts.
SoakingMeansIdle ==
  \A g \in Program : status[g] = Soaking => \A p \in SlicesOf(g) : status[p] # "active"

\* No step of relate, unrelate, create_program or update_proposal makes a
\* truthful "queued" untruthful: a program that is queued over slices none of
\* which has begun is lifted by whatever begins one, and none is born queued over
\* a slice that had begun.
QueuedStaysHonest ==
  [][\A g \in Program :
       (status[g] = ProgramInitial /\ NotStarted(g)) \/ status[g] = Absent
         => (status'[g] = ProgramInitial => NotStarted(g)')]_vars

\* holding, done and parked are declared by hand: no slice or edge event moves a
\* program out of them (PROGRAM_LIFTABLE).
DeclaredStatusStands ==
  [][\A g \in Program :
       status[g] \in {"holding", "done", Parked} /\ status'[g] # status[g]
         => /\ UNCHANGED edgeVars
            /\ \A p \in Proposal : status'[p] = status[p]]_vars

\* node_status_transition misses no status change of an existing work item,
\* proposal or program, the cascaded lifts included, and invents none.
EveryChangeLogged ==
  [][logged' = UNION {TransitionRow(n, status[n], status'[n]) :
                        n \in {m \in WorkItem \cup Proposal \cup Program : Exists(m)}}]_vars

\* A work item, proposal or program leaves the awaiting lane only by having its
\* marker cleared, so no later reopening puts an answered ask back in the lane.
LaneExitSettles ==
  [][\A n \in WorkItem \cup Proposal \cup Program :
       InLane(n) /\ ~InLane(n)' => n \notin awaiting']_vars

-------------------------------------------------------------------------------
(***************************************************************************)
(* What the documentation says and the code does not keep.                 *)
(***************************************************************************)

\* docs/api.md's settle table: any node that is archived, or a card that is Done
\* or Cut, has its marker cleared.  update_card, update_link and update_handoff
\* never call settle_awaiting.
EveryLaneExitSettles ==
  [][\A n \in Card \cup Capture : InLane(n) /\ ~InLane(n)' => n \notin awaiting']_vars
===============================================================================
