--------------------------------- MODULE Board ---------------------------------
(***************************************************************************)
(* board_rollup: the one-call read behind the front page.  It is a dozen   *)
(* statements on the pool, in no transaction, each seeing what is          *)
(* committed when it runs; calls of Planning, and relates of depends_on,   *)
(* commit between any two of them.                                         *)
(*                                                                         *)
(* What the read does with its rows after the last statement is the        *)
(* operators of the section "Assembly".  Orders, titles, comments, the     *)
(* reports and the schedules of the board are left out.                    *)
(***************************************************************************)
EXTENDS Planning, Naturals, FiniteSets

CONSTANTS Dependencies,  \* the depends_on edges that clients relate
          MaxCalls       \* bound: calls that commit before the read is through

ASSUME BoardAssumption ==
  /\ Dependencies \subseteq {e \in Node \X Node : e[1] # e[2]}
  /\ MaxCalls \in Nat

VARIABLES
  dependsOn,  \* relationship rows <<dependent, dependency>>
  board,      \* the next statement of the read, and what the earlier ones returned
  calls,      \* how many calls have committed
  \* What the properties are about; no guard reads these.
  quiet,      \* nothing has been committed since the read began
  lasting     \* what has been holding up what, ever since the read began

boardVars == <<dependsOn, board, calls, quiet, lasting>>

\* What has to finish before something else can, as the panel is meant to say it: an
\* unmet dependency of a live proposal, or of a work item it covers that is to be done.
ToDo(n) ==
  /\ n \notin archived
  /\ status[n] \in WiUnfinished \cup ProposalLive \cup (ProgramStatuses \ {"done"})

HoldsUp(b, d, p) ==
  /\ <<d, b>> \in dependsOn
  /\ p \notin archived /\ status[p] \in ProposalLive
  /\ d = p \/ (d \in WorkItem /\ <<p, d>> \in covers /\ ToDo(d))
  /\ b \in WorkItem \cup Proposal \cup Program /\ ToDo(b)

HeldUp == {t \in Proposal \X Node \X Node : HoldsUp(t[3], t[2], t[1])}

NothingRead ==
  [at |-> "programs", programs |-> {}, programs_hidden |-> {}, slices |-> {}, rows |-> {},
   soaks |-> {}, edges |-> {}, deps |-> {}, unmet |-> {}, owners |-> {},
   proposals_hidden |-> {}, awaiting |-> {}, depth |-> {}]

-------------------------------------------------------------------------------
(***************************************************************************)
(* Faulty variants, one per property; the specification uses none.         *)
(***************************************************************************)

\* A live set spelled out by hand, before proposals could be parked.
ShownBeforeParked(row) == ~row.archived /\ row.status \in {"proposed", "active"}

\* Only what the proposal itself depends on.
DepsOfProposals(ids) == {<<e[1], e[1], e[2]>> : e \in {x \in dependsOn : x[1] \in ids}}

-------------------------------------------------------------------------------
(***************************************************************************)
(* What each statement returns of the tables as they are.                  *)
(***************************************************************************)

\* list_programs with its defaults, and what they hide: archived first, then done.
ProgramItems == {g \in Program : Exists(g) /\ g \notin archived /\ status[g] \notin ProgramTerminal}
ProgramsHidden ==
  [archived |-> Cardinality({g \in Program : Exists(g) /\ g \in archived}),
   done     |-> Cardinality({g \in Program : g \notin archived /\ status[g] = "done"})]

\* The includes edges of those programs.
SliceEdges(programs) == {e \in includes : e[1] \in programs}

\* covered_bucket_filters: one count for each status of a work item.
Buckets(p) == [s \in WiStatuses |-> Cardinality({w \in WorkItem : <<p, w>> \in covers /\ status[w] = s})]

\* The one pass over proposals: the live ones and the slices of the live programs.
Rows(slices) ==
  {[node |-> p, status |-> status[p], project |-> project[p], archived |-> p \in archived,
    covered |-> Buckets(p)] :
     p \in {q \in Proposal : Exists(q) /\ (\/ status[q] \in ProposalLive /\ q \notin archived
                                          \/ \E e \in slices : e[2] = q)}}

\* program_soaks_for
Soaks(programs) == {<<e[1], e[2], status[e[2]]>> : e \in {x \in soaks : x[1] \in programs}}

\* The edges with both ends among the board's rows.
EdgesWithin(ids) == {e \in dependsOn \cup includes \cup covers \cup soaks : {e[1], e[2]} \subseteq ids}

\* board_blockers' first statement: <<proposal, dependent, blocker>>, the dependent being
\* the proposal or an unfinished, unarchived work item it covers.
Deps(ids) ==
  {<<e[1], e[1], e[2]>> : e \in {x \in dependsOn : x[1] \in ids}}
  \cup UNION {{<<c[1], e[1], e[2]>> : e \in {x \in dependsOn : x[1] = c[2]}} :
                c \in {x \in covers : /\ x[1] \in ids
                                     /\ status[x[2]] \notin WiFinished
                                     /\ x[2] \notin archived}}

Blockers(deps) == {d[3] : d \in deps}

\* Its second: those that are unarchived and unfinished, by the vocabulary of their kind;
\* a kind without a lifecycle blocks nothing.
Unmet(ids) ==
  {n \in ids : /\ n \notin archived
               /\ \/ n \in WorkItem /\ status[n] \notin WiFinished
                  \/ n \in Proposal /\ status[n] \notin ProposalTerminal
                  \/ n \in Program /\ status[n] \notin ProgramTerminal}

\* Its third: who covers them.  Rows come in no order, and the last one counts.
CoversOf(ids) == {e \in covers : e[2] \in ids}
SomeOwners(ids) ==
  {S \in SUBSET CoversOf(ids) :
     \A w \in {e[2] : e \in CoversOf(ids)} : Cardinality({e \in S : e[2] = w}) = 1}

\* proposal_omitted
ProposalsHidden ==
  [archived |-> Cardinality({p \in Proposal : Exists(p) /\ p \in archived}),
   done     |-> Cardinality({p \in Proposal : p \notin archived /\ status[p] = "done"}),
   declined |-> Cardinality({p \in Proposal : p \notin archived /\ status[p] = "declined"})]

\* planning_rollup, for one project
DepthOf(j) ==
  LET wi == {w \in WorkItem : /\ Exists(w) /\ w \notin archived
                              /\ status[w] # "closed" /\ project[w] = j}
  IN [proposals |-> Cardinality({p \in Proposal : /\ p \notin archived /\ project[p] = j
                                                  /\ status[p] \in ProposalLive}),
      wi_total |-> Cardinality(wi),
      wi_in_proposal |-> Cardinality({w \in wi : \E p \in Proposal :
                           <<p, w>> \in covers /\ status[p] \in ProposalLive})]

-------------------------------------------------------------------------------
(***************************************************************************)
(* Assembly.                                                               *)
(***************************************************************************)

Shown(row) == ~row.archived /\ row.status \in ProposalLive

LiveIds == {row.node : row \in {r \in board.rows : Shown(r)}}

\* The two panels of proposals.
Active == {row \in board.rows : ~row.archived /\ row.status = "active"}
Queue  == {row \in board.rows : Shown(row) /\ row.status \in {"proposed", Parked}}

\* blocked, and the programs that already put the two ends in order.
Blocked == {d \in board.deps : d[3] \in board.unmet}
Owner(b) == IF \E e \in board.owners : e[2] = b
            THEN (CHOOSE e \in board.owners : e[2] = b)[1] ELSE b
SequencedBy(d) ==
  {g \in board.programs : {<<g, d[1]>>, <<g, Owner(d[3])>>} \subseteq board.slices}

-------------------------------------------------------------------------------
(***************************************************************************)
(* The steps of the read, and everybody else.                              *)
(***************************************************************************)

Read(statement, field, value, next) ==
  /\ board.at = statement
  /\ board' = [board EXCEPT !.at = next, ![field] = value]
  /\ UNCHANGED <<vars, dependsOn, calls>>

ReadPrograms ==
  /\ Read("programs", "programs", ProgramItems, "programs_hidden")
  /\ quiet' = TRUE
  /\ lasting' = HeldUp

ReadRest ==
  /\ \/ Read("programs_hidden", "programs_hidden", ProgramsHidden, "slices")
     \/ Read("slices", "slices", SliceEdges(board.programs), "rows")
     \/ Read("rows", "rows", Rows(board.slices), "soaks")
     \/ Read("soaks", "soaks", Soaks(board.programs), "edges")
     \/ Read("edges", "edges", EdgesWithin(LiveIds), "deps")
     \/ /\ Deps(LiveIds) # {}
        /\ Read("deps", "deps", Deps(LiveIds), "unmet")
     \/ /\ Deps(LiveIds) = {}
        /\ Read("deps", "deps", {}, "proposals_hidden")
     \/ Read("unmet", "unmet", Unmet(Blockers(board.deps)), "owners")
     \/ \E S \in SomeOwners(Blockers(board.deps)) : Read("owners", "owners", S, "proposals_hidden")
     \/ Read("proposals_hidden", "proposals_hidden", ProposalsHidden, "awaiting")
     \/ Read("awaiting", "awaiting", {n \in Node : InLane(n)}, "depth")
     \/ Read("depth", "depth", [j \in Project |-> DepthOf(j)], "answered")
  /\ UNCHANGED <<quiet, lasting>>

\* relate and unrelate with depends_on
RelateDependsOn(e) ==
  /\ Exists(e[1]) /\ Exists(e[2])
  /\ dependsOn' = dependsOn \cup {e}
  /\ UNCHANGED vars

UnrelateDependsOn(e) ==
  /\ e \in dependsOn
  /\ dependsOn' = dependsOn \ {e}
  /\ UNCHANGED vars

\* A call commits.
Commit ==
  /\ calls < MaxCalls
  /\ board.at # "answered"
  /\ calls' = calls + 1
  /\ \/ Next /\ UNCHANGED dependsOn
     \/ \E e \in Dependencies : RelateDependsOn(e) \/ UnrelateDependsOn(e)
  /\ quiet' = FALSE
  /\ lasting' = lasting \cap HeldUp'
  /\ UNCHANGED board

BoardNext == ReadPrograms \/ ReadRest \/ Commit

\* The read comes to a graph that any calls have built.
BoardInit ==
  /\ Init
  /\ dependsOn = {}
  /\ board = NothingRead
  /\ calls = 0
  /\ quiet = FALSE
  /\ lasting = {}

BoardSpec == BoardInit /\ [][BoardNext]_<<vars, boardVars>>

-------------------------------------------------------------------------------
(***************************************************************************)
(* Properties.                                                             *)
(***************************************************************************)

Count(S) == Cardinality(S)
Total(b) == b["open"] + b["resolved"] + b["done"] + b["closed"] + b[Parked]

\* `There is no counters block': a consumer adds the panels up itself.  A board read
\* while nothing was committed accounts for every proposal and every program exactly
\* once, in a panel or in what is omitted; its queue depth is its panels', a row's
\* buckets add up to what it covers, and it names every unmet dependency and no other.
QuietBoardsAddUp ==
  board.at = "answered" /\ quiet =>
    LET hidden == board.proposals_hidden
        phidden == board.programs_hidden
    IN
    /\ Count(Active) + Count(Queue) + hidden.archived + hidden.done + hidden.declined
         = Count({p \in Proposal : Exists(p)})
    /\ Count(board.programs) + phidden.archived + phidden.done
         = Count({g \in Program : Exists(g)})
    /\ \A j \in Project :
         /\ board.depth[j].proposals = Count({r \in Active \cup Queue : r.project = j})
         /\ board.depth[j].wi_in_proposal <= board.depth[j].wi_total
    /\ \A e \in board.slices : \E r \in board.rows : r.node = e[2]
    /\ \A r \in board.rows : Total(r.covered) = Count({e \in covers : e[1] = r.node})
    /\ Blocked = HeldUp
    /\ \A d \in Blocked : \A g \in SequencedBy(d) :
         \E p \in Proposal : /\ {<<g, d[1]>>, <<g, p>>} \subseteq includes
                             /\ p = d[3] \/ <<p, d[3]>> \in covers

\* However torn the read, a dependency that was unmet from its first statement to its
\* last is on the board, and whatever is shown as held up is in a panel beside it.
LastingBlockersAreShown ==
  board.at = "answered" =>
    /\ lasting \subseteq Blocked
    /\ \A d \in Blocked : \E r \in Active \cup Queue : r.node = d[1]
================================================================================
