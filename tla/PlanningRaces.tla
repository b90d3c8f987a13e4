---------------------------- MODULE PlanningRaces ----------------------------
(***************************************************************************)
(* The handlers of Planning that read before they write, as PostgreSQL     *)
(* runs them: concurrent READ COMMITTED transactions.  The variables of    *)
(* Planning hold what is committed; tx holds what each client's open       *)
(* transaction has read and what it will write.                            *)
(*                                                                         *)
(* A statement sees what is committed when it starts, plus its own         *)
(* transaction's writes.  Statements that follow each other with no read   *)
(* that another commit could change are one step, and so is a last lock    *)
(* with its commit.  Slice rows stay locked from the write to the commit.  *)
(***************************************************************************)
EXTENDS Planning

CONSTANTS Client,
          Concurrent  \* the kinds of call that run beside each other; any other
                      \* kind runs alone

ASSUME ConcurrentAssumption ==
  Concurrent \subseteq {"slice", "relate", "program", "item", "create", "single"}

\* The status is what two calls can disagree about: the patches of an instance name
\* nothing else.
ASSUME StatusAlone ==
  /\ \A patch \in WorkItemPatches :
       {patch.archived, patch.check_after, patch.invalidated_if, patch.project} = {Keep}
  /\ \A patch \in ProposalPatches \cup ProgramPatches : patch.archived = Keep

VARIABLE tx    \* what each client's transaction has done so far, and whether it has met
               \* another call: a transaction open at the same time or a single statement

raceVars == <<vars, tx>>

Idle == [call |-> "none"]

Begun(c) == tx[c] # Idle

MayStart(c, call) ==
  /\ ~Begun(c)
  /\ \A d \in Client : Begun(d) => {call, tx[d].call} \subseteq Concurrent

\* The open transactions once something else has run beside them.
Overtaken == [c \in Client |-> IF Begun(c) THEN [tx[c] EXCEPT !.met = TRUE] ELSE Idle]

\* A transaction begins with what it read; it may find others open.
Meets == \E d \in Client : Begun(d)
Start(c, read) == tx' = [Overtaken EXCEPT ![c] = read]

RaceInit ==
  /\ Init
  /\ tx = [c \in Client |-> Idle]

StatusPatches(patches) == {patch.status : patch \in patches} \ {Keep}

-------------------------------------------------------------------------------
\* Faulty variant, used by no action: the lift looks at the slice as committed
\* instead of as just written.
CandidatesAsCommitted(p, st, inc) == PromotionRows(status, Promoted(p, status, inc))

\* What promote_programs_over's first CTE finds: the rows it will log.
Candidates(p, st, inc) == PromotionRows(st, Promoted(p, st, inc))

\* The lift as it is applied at commit: the found programs become active whatever a
\* transaction that committed in between made of them (EvalPlanQual rechecks the
\* row's id, and the status test is on the version the statement first saw).
Lifted(rows) == {r.node : r \in rows}

SliceLocked(p) == \E c \in Client : tx[c].call = "slice" /\ tx[c].at = "found" /\ tx[c].p = p

\* A commit: the rows written, the log rows inserted, the client free again.
Committed(c, st, rows) ==
  /\ status' = st
  /\ logged' = rows
  /\ tx' = [tx EXCEPT ![c] = Idle]

-------------------------------------------------------------------------------
\* update_proposal with a status: the read-before-write of #977.
SliceRead(c, p, to) ==
  /\ MayStart(c, "slice")
  /\ Exists(p)
  /\ Start(c, [call |-> "slice", at |-> "read", p |-> p, to |-> to,
               before |-> status[p], lift |-> {}, met |-> Meets])
  /\ UNCHANGED vars

\* ... the UPDATE, once the row is free, and the search for programs to lift.
SliceWrite(c) ==
  LET p == tx[c].p
      st == [status EXCEPT ![p] = tx[c].to]
  IN
  /\ tx[c].call = "slice" /\ tx[c].at = "read"
  /\ ~SliceLocked(p)
  /\ tx' = [tx EXCEPT ![c].at = "found", ![c].lift = Candidates(p, st, includes)]
  /\ UNCHANGED vars

\* ... the lift, the marker and the commit.
SliceCommit(c) ==
  LET p == tx[c].p
      lift == tx[c].lift
  IN
  /\ tx[c].call = "slice" /\ tx[c].at = "found"
  /\ Committed(c, WithPromotion([status EXCEPT ![p] = tx[c].to], Lifted(lift)),
            TransitionRow(p, tx[c].before, tx[c].to) \cup lift)
  /\ awaiting' = Settled(p, status', archived)
  /\ UNCHANGED <<project, archived, soakFields, edgeVars>>

-------------------------------------------------------------------------------
\* relate(g, p, "includes"): the insert (a second one of the same row waits for the
\* first) and the search.
RelateInsert(c, g, p) ==
  /\ MayStart(c, "relate")
  /\ Exists(g) /\ Exists(p)
  /\ ~\E d \in Client : tx[d].call = "relate" /\ tx[d].g = g /\ tx[d].p = p
  /\ Start(c, [call |-> "relate", g |-> g, p |-> p,
               lift |-> Candidates(p, status, includes \cup {<<g, p>>}), met |-> Meets])
  /\ UNCHANGED vars

RelateCommit(c) ==
  /\ tx[c].call = "relate"
  /\ Committed(c, WithPromotion(status, Lifted(tx[c].lift)), tx[c].lift)
  /\ includes' = includes \cup {<<tx[c].g, tx[c].p>>}
  /\ UNCHANGED <<project, archived, awaiting, soakFields, covers, soaks>>

-------------------------------------------------------------------------------
\* update_program with a status: the read-before-write.
ProgramRead(c, g, to) ==
  /\ MayStart(c, "program")
  /\ Exists(g)
  /\ Start(c, [call |-> "program", at |-> "read", g |-> g, to |-> to,
               before |-> status[g], met |-> Meets])
  /\ UNCHANGED vars

\* ... check_soaking_entry on the way in; a refusal rolls back.
ProgramCheck(c) ==
  /\ tx[c].call = "program" /\ tx[c].at = "read"
  /\ tx' = [tx EXCEPT ![c] =
       IF tx[c].to = Soaking /\ tx[c].before # Soaking /\ ~MaySoak(tx[c].g)
       THEN Idle ELSE [@ EXCEPT !.at = "checked"]]
  /\ UNCHANGED vars

ProgramCommit(c) ==
  LET g == tx[c].g IN
  /\ tx[c].call = "program" /\ tx[c].at = "checked"
  /\ Committed(c, [status EXCEPT ![g] = tx[c].to], TransitionRow(g, tx[c].before, tx[c].to))
  /\ awaiting' = Settled(g, status', archived)
  /\ UNCHANGED <<project, archived, soakFields, edgeVars>>

-------------------------------------------------------------------------------
\* update_work_item with a status.
ItemRead(c, w, to) ==
  /\ MayStart(c, "item")
  /\ Exists(w)
  /\ Start(c, [call |-> "item", w |-> w, to |-> to, before |-> status[w],
               met |-> Meets])
  /\ UNCHANGED vars

ItemCommit(c) ==
  LET w == tx[c].w IN
  /\ tx[c].call = "item"
  /\ Committed(c, [status EXCEPT ![w] = tx[c].to], TransitionRow(w, tx[c].before, tx[c].to))
  /\ awaiting' = Settled(w, status', archived)
  /\ UNCHANGED <<project, archived, soakFields, edgeVars>>

-------------------------------------------------------------------------------
\* create_program: slices_started, then the inserts.
CreateProgramRead(c, g, slices) ==
  /\ MayStart(c, "create")
  /\ ~Exists(g) /\ ~\E d \in Client : tx[d].call = "create" /\ tx[d].g = g
  /\ \A p \in slices : Exists(p)
  /\ Start(c, [call |-> "create", g |-> g, slices |-> slices,
               started |-> SlicesStarted(slices), met |-> Meets])
  /\ UNCHANGED vars

CreateProgramCommit(c) ==
  LET g == tx[c].g IN
  /\ tx[c].call = "create"
  /\ status' = [status EXCEPT ![g] = IF tx[c].started THEN "active" ELSE ProgramInitial]
  /\ includes' = includes \cup {<<g, p>> : p \in tx[c].slices}
  /\ logged' = {}
  /\ tx' = [tx EXCEPT ![c] = Idle]
  /\ UNCHANGED <<project, archived, awaiting, soakFields, covers, soaks>>

-------------------------------------------------------------------------------
\* An error, a deadlock's victim or a lost connection: the transaction rolls back.
Rollback(c) ==
  /\ Begun(c)
  /\ tx' = [tx EXCEPT ![c] = Idle]
  /\ UNCHANGED vars

\* Calls of one statement that decides nothing from what it read.
MayInterrupt == \A d \in Client : Begun(d) => {"single", tx[d].call} \subseteq Concurrent

CreateOthers ==
  /\ MayInterrupt
  /\ \/ \E w \in WorkItem, new \in NewWorkItems : CreateWorkItem(w, new)
     \/ \E p \in Proposal, pr \in Project : CreateProposal(p, pr, {})
  /\ tx' = Overtaken

Edges ==
  /\ MayInterrupt
  /\ \/ \E g \in Program, w \in WorkItem : RelateSoaks(g, w)
     \/ \E e \in includes \cup soaks : Unrelate(e)
  /\ tx' = Overtaken

RaceNext ==
  \/ CreateOthers
  \/ Edges
  \/ \E c \in Client, p \in Proposal, to \in StatusPatches(ProposalPatches) : SliceRead(c, p, to)
  \/ \E c \in Client : SliceWrite(c)
  \/ \E c \in Client : SliceCommit(c)
  \/ \E c \in Client, g \in Program, p \in Proposal : RelateInsert(c, g, p)
  \/ \E c \in Client : RelateCommit(c)
  \/ \E c \in Client, g \in Program, to \in StatusPatches(ProgramPatches) : ProgramRead(c, g, to)
  \/ \E c \in Client : ProgramCheck(c)
  \/ \E c \in Client : ProgramCommit(c)
  \/ \E c \in Client, w \in WorkItem, to \in StatusPatches(WorkItemPatches) : ItemRead(c, w, to)
  \/ \E c \in Client : ItemCommit(c)
  \/ \E c \in Client, g \in Program, S \in SUBSET Proposal : CreateProgramRead(c, g, S)
  \/ \E c \in Client : CreateProgramCommit(c)
  \/ \E c \in Client : Rollback(c)

RaceSpec == RaceInit /\ [][RaceNext]_raceVars

-------------------------------------------------------------------------------
(***************************************************************************)
(* Properties.  QueuedStaysHonest of Planning is checked of RaceSpec too:  *)
(* it holds while slice patches race each other and single statements.     *)
(* Beside relates or program patches there are races that break it.        *)
(***************************************************************************)

\* The statements of a handler add up to its action in Planning: whatever a call that
\* overlapped nothing leaves behind is one step of the atomic specification, and so is
\* every call of one statement.
AloneIsAtomic ==
  [][(\A c \in Client : Begun(c) /\ tx'[c] = Idle => ~tx[c].met) => [Next]_vars]_raceVars
==============================================================================
