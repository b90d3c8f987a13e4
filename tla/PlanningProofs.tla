---------------------------- MODULE PlanningProofs ----------------------------
(***************************************************************************)
(* What holds of the planning graph for every set of nodes, projects and   *)
(* requests: of Planning, where each call is one step; of PlanningRaces,   *)
(* where the statements of calls interleave; and of the board, whose read  *)
(* calls interrupt.                                                        *)
(***************************************************************************)
EXTENDS PlanningRaces, Board, FiniteSetTheorems, TLAPS

(***************************************************************************)
(* Type correctness.                                                       *)
(***************************************************************************)

LEMMA FlaggedTyped ==
  ASSUME NEW S, NEW set \in SUBSET S, NEW n \in S, NEW flag
  PROVE  Flagged(set, n, flag) \in SUBSET S
  BY DEF Flagged

\* settle_awaiting only ever takes a node out of the marked set.
LEMMA SettledTyped ==
  ASSUME NEW n, NEW st, NEW arch, awaiting \subseteq Node
  PROVE  Settled(n, st, arch) \subseteq Node
  BY DEF Settled

\* The part of TypeOK about the status column, as a predicate of the column.
StatusTyped(st) ==
  /\ st \in [Node -> AnyStatus]
  /\ \A w \in WorkItem : st[w] \in WiStatuses \cup {Absent}
  /\ \A p \in Proposal : st[p] \in ProposalStatuses \cup {Absent}
  /\ \A g \in Program  : st[g] \in ProgramStatuses \cup {Absent}
  /\ \A c \in Card     : st[c] \in CardStatuses \cup {Absent}

\* A status of its own kind's vocabulary keeps the column typed.
LEMMA WorkItemStatusTyped ==
  ASSUME NEW st, StatusTyped(st), NEW w \in WorkItem, NEW s \in WiStatuses \cup {Absent}
  PROVE  StatusTyped([st EXCEPT ![w] = s])
  BY KindsDisjoint DEF StatusTyped, Node, AnyStatus

LEMMA ProposalStatusTyped ==
  ASSUME NEW st, StatusTyped(st), NEW p \in Proposal, NEW s \in ProposalStatuses \cup {Absent}
  PROVE  StatusTyped([st EXCEPT ![p] = s])
  BY KindsDisjoint DEF StatusTyped, Node, AnyStatus

LEMMA ProgramStatusTyped ==
  ASSUME NEW st, StatusTyped(st), NEW g \in Program, NEW s \in ProgramStatuses \cup {Absent}
  PROVE  StatusTyped([st EXCEPT ![g] = s])
  BY KindsDisjoint DEF StatusTyped, Node, AnyStatus

LEMMA CardStatusTyped ==
  ASSUME NEW st, StatusTyped(st), NEW c \in Card, NEW s \in CardStatuses \cup {Absent}
  PROVE  StatusTyped([st EXCEPT ![c] = s])
  BY KindsDisjoint DEF StatusTyped, Node, AnyStatus

LEMMA CaptureStatusTyped ==
  ASSUME NEW st, StatusTyped(st), NEW k \in Capture
  PROVE  StatusTyped([st EXCEPT ![k] = "filed"])
  BY KindsDisjoint DEF StatusTyped, Node, AnyStatus

\* Lifting programs to active keeps it typed too.
LEMMA PromotionTyped ==
  ASSUME NEW st, StatusTyped(st), NEW lifted \in SUBSET Program
  PROVE  StatusTyped(WithPromotion(st, lifted))
  <1>1. "active" \in ProgramStatuses /\ "active" \in AnyStatus
    BY DEF AnyStatus, ProgramStatuses
  <1>. QED  BY <1>1, KindsDisjoint DEF StatusTyped, WithPromotion, Node

\* The rows of a cascaded lift are typed.
LEMMA PromotionRowsTyped ==
  ASSUME NEW st, StatusTyped(st), NEW lifted \in SUBSET Program
  PROVE  PromotionRows(st, lifted) \subseteq Transition
  <1>1. "active" \in AnyStatus
    BY DEF AnyStatus, ProgramStatuses
  <1>. QED  BY <1>1 DEF StatusTyped, PromotionRows, Transition, Node

\* Every step keeps every column and edge table within its type.
LEMMA TypeStep == TypeOK /\ [Next]_vars => TypeOK'
<1>. SUFFICES ASSUME TypeOK, [Next]_vars PROVE TypeOK'
  OBVIOUS
<1>. USE DEF TypeOK, edgeVars
<1>a. StatusTyped(status)
  BY DEF StatusTyped
<1>b. ASSUME StatusTyped(status'), logged' \subseteq Transition,
             project' \in [Node -> Project \cup {NoProject}],
             archived' \subseteq Node, awaiting' \subseteq Node,
             soakFields' \in [WorkItem -> SUBSET SoakField],
             includes' \subseteq Program \X Proposal,
             covers' \subseteq Proposal \X WorkItem,
             soaks' \subseteq Program \X WorkItem
      PROVE  TypeOK'
  BY <1>b DEF StatusTyped
<1>1. ASSUME NEW w \in WorkItem, NEW new \in NewWorkItems, CreateWorkItem(w, new)
      PROVE  TypeOK'
  <2>1. new \in NewWorkItem
    BY RequestAssumption
  <2>2. StatusTyped(status')
    BY <1>1, <1>a, <2>1, WorkItemStatusTyped DEF CreateWorkItem, NewWorkItem
  <2>. QED  BY <1>1, <1>b, <2>1, <2>2 DEF CreateWorkItem, NewWorkItem, Transition
<1>2. ASSUME NEW p \in Proposal, NEW pr \in Project, NEW C \in SUBSET WorkItem,
             CreateProposal(p, pr, C)
      PROVE  TypeOK'
  <2>1. StatusTyped(status')
    BY <1>2, <1>a, ProposalStatusTyped DEF CreateProposal, ProposalStatuses
  <2>2. {<<p, w>> : w \in {w \in C : Exists(w)}} \subseteq Proposal \X WorkItem
    OBVIOUS
  <2>3. covers' \subseteq Proposal \X WorkItem
    BY <1>2, <2>2 DEF CreateProposal
  <2>4. project' \in [Node -> Project \cup {NoProject}]
    BY <1>2 DEF CreateProposal
  <2>. QED  BY <1>2, <1>b, <2>1, <2>3, <2>4 DEF CreateProposal, Transition
<1>3. ASSUME NEW g \in Program, NEW S \in SUBSET Proposal, CreateProgram(g, S)
      PROVE  TypeOK'
  <2>1. StatusTyped(status')
    BY <1>3, <1>a, ProgramStatusTyped DEF CreateProgram, ProgramStatuses, ProgramInitial
  <2>2. {<<g, p>> : p \in S} \subseteq Program \X Proposal
    OBVIOUS
  <2>3. includes' \subseteq Program \X Proposal
    BY <1>3, <2>2 DEF CreateProgram
  <2>. QED  BY <1>3, <1>b, <2>1, <2>3 DEF CreateProgram, Transition
<1>4. ASSUME NEW c \in Card, NEW s \in CardStatuses, CreateOther(c, s)
      PROVE  TypeOK'
  <2>1. StatusTyped(status')
    BY <1>4, <1>a, CardStatusTyped DEF CreateOther
  <2>. QED  BY <1>4, <1>b, <2>1 DEF CreateOther, Transition
<1>5. ASSUME NEW k \in Capture, CreateOther(k, "filed")
      PROVE  TypeOK'
  <2>1. StatusTyped(status')
    BY <1>5, <1>a, CaptureStatusTyped DEF CreateOther
  <2>. QED  BY <1>5, <1>b, <2>1 DEF CreateOther, Transition
<1>6. ASSUME NEW g \in Program, NEW p \in Proposal, RelateIncludes(g, p)
      PROVE  TypeOK'
  <2>. DEFINE lifted == Promoted(p, status, includes \cup {<<g, p>>})
  <2>1. lifted \in SUBSET Program
    BY DEF Promoted
  <2>2. StatusTyped(status')
    BY <1>6, <1>a, <2>1, PromotionTyped DEF RelateIncludes
  <2>3. logged' \subseteq Transition
    BY <1>6, <1>a, <2>1, PromotionRowsTyped DEF RelateIncludes
  <2>4. includes' \subseteq Program \X Proposal
    BY <1>6 DEF RelateIncludes
  <2>5. UNCHANGED <<project, archived, awaiting, soakFields, covers, soaks>>
    BY <1>6 DEF RelateIncludes
  <2>. QED  BY <1>b, <2>2, <2>3, <2>4, <2>5
<1>7. ASSUME NEW p \in Proposal, NEW w \in WorkItem, RelateCovers(p, w)
      PROVE  TypeOK'
  <2>1. covers' \subseteq Proposal \X WorkItem
    BY <1>7 DEF RelateCovers
  <2>. QED  BY <1>7, <1>a, <1>b, <2>1 DEF RelateCovers, Transition
<1>8. ASSUME NEW g \in Program, NEW w \in WorkItem, RelateSoaks(g, w)
      PROVE  TypeOK'
  BY <1>8, <1>a, <1>b DEF RelateSoaks, Transition
<1>9. ASSUME NEW e, Unrelate(e)
      PROVE  TypeOK'
  BY <1>9, <1>a, <1>b DEF Unrelate, Transition
<1>10. ASSUME NEW w \in WorkItem, NEW patch \in WorkItemPatches, UpdateWorkItem(w, patch)
       PROVE  TypeOK'
  <2>1. patch \in WorkItemPatch /\ w \in Node
    BY RequestAssumption DEF Node
  <2>2. Patched(status[w], patch.status) \in WiStatuses \cup {Absent}
    BY <2>1 DEF Patched, WorkItemPatch
  <2>3. StatusTyped(status')
    BY <1>10, <1>a, <2>2, WorkItemStatusTyped DEF UpdateWorkItem
  <2>4. logged' \subseteq Transition
    BY <1>10, <2>1, <2>3 DEF UpdateWorkItem, StatusTyped, TransitionRow, Transition
  <2>5. soakFields' \in [WorkItem -> SUBSET SoakField]
    <3>1. /\ "check_after" \in SoakField /\ "invalidated_if" \in SoakField
          /\ soakFields[w] \in SUBSET SoakField
      BY DEF SoakField
    <3>2. Flagged(soakFields[w], "check_after", patch.check_after) \in SUBSET SoakField
      BY <3>1, FlaggedTyped
    <3>3. Flagged(Flagged(soakFields[w], "check_after", patch.check_after),
                  "invalidated_if", patch.invalidated_if) \in SUBSET SoakField
      BY <3>1, <3>2, FlaggedTyped
    <3>. QED  BY <1>10, <3>3 DEF UpdateWorkItem
  <2>6. project' \in [Node -> Project \cup {NoProject}]
    BY <1>10, <2>1 DEF UpdateWorkItem, WorkItemPatch, Patched
  <2>7. archived' \subseteq Node
    BY <1>10, <2>1, FlaggedTyped DEF UpdateWorkItem
  <2>8. awaiting' \subseteq Node
    BY <1>10, SettledTyped DEF UpdateWorkItem
  <2>. QED  BY <1>10, <1>b, <2>3, <2>4, <2>5, <2>6, <2>7, <2>8 DEF UpdateWorkItem
<1>11. ASSUME NEW p \in Proposal, NEW patch \in ProposalPatches, UpdateProposal(p, patch)
       PROVE  TypeOK'
  <2>. DEFINE st == [status EXCEPT ![p] = Patched(@, patch.status)]
              lifted == IF patch.status = Keep THEN {} ELSE Promoted(p, st, includes)
  <2>1. patch \in ProposalPatch /\ p \in Node
    BY RequestAssumption DEF Node
  <2>2. Patched(status[p], patch.status) \in ProposalStatuses \cup {Absent}
    BY <2>1 DEF Patched, ProposalPatch
  <2>3. StatusTyped(st)
    BY <1>a, <2>2, ProposalStatusTyped
  <2>4. lifted \in SUBSET Program
    BY DEF Promoted
  <2>5. StatusTyped(status')
    <3>1. status' = WithPromotion(st, lifted)
      BY <1>11 DEF UpdateProposal
    <3>. QED  BY <2>3, <2>4, <3>1, PromotionTyped
  <2>6. logged' \subseteq Transition
    <3>1. logged' = TransitionRow(p, status[p], st[p]) \cup PromotionRows(st, lifted)
      BY <1>11 DEF UpdateProposal
    <3>2. st[p] \in AnyStatus /\ status[p] \in AnyStatus
      BY <2>1, <2>3 DEF StatusTyped
    <3>3. TransitionRow(p, status[p], st[p]) \subseteq Transition
      BY <2>1, <3>2 DEF TransitionRow, Transition
    <3>. QED  BY <2>3, <2>4, <3>1, <3>3, PromotionRowsTyped
  <2>7. archived' \subseteq Node
    BY <1>11, <2>1, FlaggedTyped DEF UpdateProposal
  <2>8. awaiting' \subseteq Node
    BY <1>11, SettledTyped DEF UpdateProposal
  <2>. QED  BY <1>11, <1>b, <2>5, <2>6, <2>7, <2>8 DEF UpdateProposal
<1>12. ASSUME NEW g \in Program, NEW patch \in ProgramPatches, UpdateProgram(g, patch)
       PROVE  TypeOK'
  <2>1. patch \in ProgramPatch /\ g \in Node
    BY RequestAssumption DEF Node
  <2>2. Patched(status[g], patch.status) \in ProgramStatuses \cup {Absent}
    BY <2>1 DEF Patched, ProgramPatch
  <2>3. StatusTyped(status')
    BY <1>12, <1>a, <2>2, ProgramStatusTyped DEF UpdateProgram
  <2>4. logged' \subseteq Transition
    BY <1>12, <2>1, <2>3 DEF UpdateProgram, StatusTyped, TransitionRow, Transition
  <2>5. archived' \subseteq Node
    BY <1>12, <2>1, FlaggedTyped DEF UpdateProgram
  <2>6. awaiting' \subseteq Node
    BY <1>12, SettledTyped DEF UpdateProgram
  <2>. QED  BY <1>12, <1>b, <2>3, <2>4, <2>5, <2>6 DEF UpdateProgram
<1>13. ASSUME NEW c \in Card, NEW patch \in CardPatches, UpdateCard(c, patch)
       PROVE  TypeOK'
  <2>1. patch \in CardPatch /\ c \in Node
    BY RequestAssumption DEF Node
  <2>2. Patched(status[c], patch.status) \in CardStatuses \cup {Absent}
    BY <2>1 DEF Patched, CardPatch
  <2>3. StatusTyped(status')
    BY <1>13, <1>a, <2>2, CardStatusTyped DEF UpdateCard
  <2>4. archived' \subseteq Node
    BY <1>13, <2>1, FlaggedTyped DEF UpdateCard
  <2>. QED  BY <1>13, <1>b, <2>3, <2>4 DEF UpdateCard, Transition
<1>14. ASSUME NEW k \in Capture, NEW patch \in CapturePatches, UpdateCapture(k, patch)
       PROVE  TypeOK'
  <2>1. k \in Node
    BY DEF Node
  <2>2. archived' \subseteq Node
    BY <1>14, <2>1, FlaggedTyped DEF UpdateCapture
  <2>. QED  BY <1>14, <1>a, <1>b, <2>2 DEF UpdateCapture, Transition
<1>15. ASSUME NEW n \in Askable, NEW flag \in {"set", "clear"}, SetAwaiting(n, flag)
       PROVE  TypeOK'
  <2>1. awaiting' \subseteq Node
    BY <1>15, RequestAssumption, FlaggedTyped DEF SetAwaiting
  <2>. QED  BY <1>15, <1>a, <1>b, <2>1 DEF SetAwaiting, Transition
<1>16. CASE UNCHANGED vars
  BY <1>16 DEF vars
<1>. QED
  BY <1>1, <1>2, <1>3, <1>4, <1>5, <1>6, <1>7, <1>8, <1>9, <1>10, <1>11, <1>12,
     <1>13, <1>14, <1>15, <1>16
  DEF Next, CreateSome, RelateSome, UpdateSome, AskSome

LEMMA PlanningTypeInit == Init => TypeOK
<1>. SUFFICES ASSUME Init PROVE TypeOK
  OBVIOUS
<1>1. \A n \in WorkItem \cup Proposal \cup Program \cup Card : n \in Node /\ status[n] = Absent
  BY DEF Init, Node
<1>2. soakFields \in [WorkItem -> SUBSET SoakField]
  BY DEF Init
<1>. QED  BY <1>1, <1>2 DEF Init, TypeOK, AnyStatus, Transition

\* The planning graph is well typed: each kind of node keeps to its own closed
\* vocabulary through every create, patch and cascaded lift.
THEOREM PlanningTypeCorrect == Spec => []TypeOK
<1>. QED  BY PlanningTypeInit, TypeStep, PTL DEF Spec

-------------------------------------------------------------------------------
(***************************************************************************)
(* The soaking gate and the lift.                                          *)
(***************************************************************************)

\* Who a slice change lifts: the programs over it that were liftable, when the
\* slice counts as started after the change.
LEMMA LiftedStatus ==
  ASSUME NEW st, StatusTyped(st), NEW inc, NEW p, NEW n \in Node
  PROVE  WithPromotion(st, Promoted(p, st, inc))[n] =
           IF n \in Promoted(p, st, inc) THEN "active" ELSE st[n]
  BY DEF WithPromotion

\* A slice of a soaking program is not active once the lift has run.
LEMMA LiftKeepsSoakingIdle ==
  ASSUME NEW st, StatusTyped(st), NEW inc, NEW p \in Proposal, NEW g \in Program,
         NEW q \in Proposal, <<g, q>> \in inc,
         st[g] = Soaking /\ st[q] = "active" => q = p,
         WithPromotion(st, Promoted(p, st, inc))[g] = Soaking
  PROVE  WithPromotion(st, Promoted(p, st, inc))[q] # "active"
  <1>. DEFINE lifted == Promoted(p, st, inc)
  <1>1. g \in Node /\ q \in Node /\ q \notin lifted
    BY KindsDisjoint DEF Node, Promoted
  <1>2. g \notin lifted /\ st[g] = Soaking /\ WithPromotion(st, lifted)[q] = st[q]
    BY <1>1, LiftedStatus DEF Soaking
  <1>3. SUFFICES ASSUME st[q] = "active" PROVE FALSE
    BY <1>2
  <1>4. g \in lifted
    BY <1>2, <1>3 DEF Promoted, ProposalStarted, ProgramLiftable
  <1>. QED  BY <1>2, <1>4

LEMMA SoakingStep == TypeOK /\ SoakingMeansIdle /\ [Next]_vars => SoakingMeansIdle'
<1>. SUFFICES ASSUME TypeOK, SoakingMeansIdle, [Next]_vars,
                     NEW g \in Program, status'[g] = Soaking,
                     NEW q \in Proposal, <<g, q>> \in includes'
              PROVE  status'[q] # "active"
  BY DEF SoakingMeansIdle, SlicesOf
<1>. USE KindsDisjoint DEF Node
<1>a. StatusTyped(status)
  BY DEF TypeOK, StatusTyped
<1>b. status[g] = Soaking /\ <<g, q>> \in includes => status[q] # "active"
  BY DEF SoakingMeansIdle, SlicesOf
<1>c. ASSUME status'[g] = status[g], status'[q] \in {status[q], "proposed"},
             includes' \subseteq includes
      PROVE  status'[q] # "active"
  BY <1>b, <1>c
<1>1. ASSUME NEW w \in WorkItem, NEW new \in NewWorkItems, CreateWorkItem(w, new)
      PROVE  status'[q] # "active"
  BY <1>1, <1>a, <1>c DEF CreateWorkItem, edgeVars, StatusTyped
<1>2. ASSUME NEW p \in Proposal, NEW pr \in Project, NEW C \in SUBSET WorkItem,
             CreateProposal(p, pr, C)
      PROVE  status'[q] # "active"
  BY <1>2, <1>a, <1>c DEF CreateProposal, StatusTyped
<1>3. ASSUME NEW h \in Program, NEW S \in SUBSET Proposal, CreateProgram(h, S)
      PROVE  status'[q] # "active"
  <2>1. h # g /\ status'[g] = status[g] /\ status'[q] = status[q]
    BY <1>3, <1>a DEF CreateProgram, StatusTyped, ProgramInitial, Soaking
  <2>2. <<g, q>> \in includes
    BY <1>3, <2>1 DEF CreateProgram
  <2>. QED  BY <1>b, <2>1, <2>2
<1>4. ASSUME NEW n \in Card \cup Capture, NEW s, CreateOther(n, s)
      PROVE  status'[q] # "active"
  BY <1>4, <1>a, <1>c DEF CreateOther, edgeVars, StatusTyped
<1>5. ASSUME NEW h \in Program, NEW p \in Proposal, RelateIncludes(h, p)
      PROVE  status'[q] # "active"
  <2>1. /\ status' = WithPromotion(status, Promoted(p, status, includes'))
        /\ includes' = includes \cup {<<h, p>>}
    BY <1>5 DEF RelateIncludes
  <2>2. status[g] = Soaking /\ status[q] = "active" => q = p
    BY <1>b, <2>1
  <2>. QED  BY <1>a, <2>1, <2>2, LiftKeepsSoakingIdle
<1>6. ASSUME NEW p \in Proposal, NEW w \in WorkItem, RelateCovers(p, w)
      PROVE  status'[q] # "active"
  BY <1>6, <1>c DEF RelateCovers
<1>7. ASSUME NEW h \in Program, NEW w \in WorkItem, RelateSoaks(h, w)
      PROVE  status'[q] # "active"
  BY <1>7, <1>c DEF RelateSoaks
<1>8. ASSUME NEW e, Unrelate(e)
      PROVE  status'[q] # "active"
  BY <1>8, <1>c DEF Unrelate
<1>9. ASSUME NEW w \in WorkItem, NEW patch \in WorkItemPatches, UpdateWorkItem(w, patch)
      PROVE  status'[q] # "active"
  BY <1>9, <1>a, <1>c DEF UpdateWorkItem, edgeVars, StatusTyped
<1>10. ASSUME NEW p \in Proposal, NEW patch \in ProposalPatches, UpdateProposal(p, patch)
       PROVE  status'[q] # "active"
  <2>. DEFINE st == [status EXCEPT ![p] = Patched(@, patch.status)]
              lifted == IF patch.status = Keep THEN {} ELSE Promoted(p, st, includes)
  <2>1. status' = WithPromotion(st, lifted) /\ includes' = includes
    BY <1>10 DEF UpdateProposal, edgeVars
  <2>2. Patched(status[p], patch.status) \in ProposalStatuses \cup {Absent}
    BY <1>a, RequestAssumption DEF Patched, ProposalPatch, StatusTyped
  <2>3. StatusTyped(st)
    BY <1>a, <2>2, ProposalStatusTyped
  <2>4. CASE patch.status = Keep
    <3>1. status' = status
      BY <2>1, <2>4, <1>a DEF WithPromotion, Patched, StatusTyped
    <3>. QED  BY <3>1, <2>1, <1>b
  <2>5. CASE patch.status # Keep
    <3>1. st[g] = status[g] /\ (q # p => st[q] = status[q])
      BY <1>a DEF StatusTyped
    <3>2. st[g] = Soaking /\ st[q] = "active" => q = p
      BY <1>b, <2>1, <3>1
    <3>. QED  BY <2>1, <2>3, <2>5, <3>2, LiftKeepsSoakingIdle
  <2>. QED  BY <2>4, <2>5
<1>11. ASSUME NEW h \in Program, NEW patch \in ProgramPatches, UpdateProgram(h, patch)
       PROVE  status'[q] # "active"
  <2>1. status'[q] = status[q] /\ includes' = includes
    BY <1>11, <1>a DEF UpdateProgram, edgeVars, StatusTyped
  <2>2. CASE status[g] = Soaking
    BY <1>b, <2>1, <2>2
  <2>3. CASE status[g] # Soaking
    <3>1. h = g /\ patch.status = Soaking
      BY <1>11, <1>a, <2>3 DEF UpdateProgram, StatusTyped, Patched
    <3>2. status[q] \in ProposalTerminal
      BY <1>11, <2>1, <2>3, <3>1 DEF UpdateProgram, MaySoak
    <3>. QED  BY <2>1, <3>2 DEF ProposalTerminal
  <2>. QED  BY <2>2, <2>3
<1>12. ASSUME NEW c \in Card, NEW patch \in CardPatches, UpdateCard(c, patch)
       PROVE  status'[q] # "active"
  BY <1>12, <1>a, <1>c DEF UpdateCard, edgeVars, StatusTyped
<1>13. ASSUME NEW k \in Capture, NEW patch \in CapturePatches, UpdateCapture(k, patch)
       PROVE  status'[q] # "active"
  BY <1>13, <1>c DEF UpdateCapture, edgeVars
<1>14. ASSUME NEW n \in Askable, NEW flag, SetAwaiting(n, flag)
       PROVE  status'[q] # "active"
  BY <1>14, <1>c DEF SetAwaiting, edgeVars
<1>15. CASE UNCHANGED vars
  BY <1>15, <1>c DEF vars
<1>. QED
  BY <1>1, <1>2, <1>3, <1>4, <1>5, <1>6, <1>7, <1>8, <1>9, <1>10, <1>11, <1>12,
     <1>13, <1>14, <1>15
  DEF Next, CreateSome, RelateSome, UpdateSome, AskSome

\* A soaking program never has a slice in flight, through any sequence of
\* patches, relates and unrelates of any number of programs and slices.
THEOREM SoakingIsIdle == Spec => []SoakingMeansIdle
<1>1. Init => SoakingMeansIdle
  BY DEF Init, SoakingMeansIdle, SlicesOf
<1>. QED  BY <1>1, PlanningTypeCorrect, SoakingStep, PTL DEF Spec

-------------------------------------------------------------------------------
(***************************************************************************)
(* What no step does: the action properties.                               *)
(***************************************************************************)

\* What the steps need of the state: marks are on nodes that exist, and so are slices.
GraphInv ==
  /\ TypeOK
  /\ \A n \in awaiting : Exists(n)
  /\ \A e \in includes : Exists(e[1])

-------------------------------------------------------------------------------
(***************************************************************************)
(* What each action does to the status column.                             *)
(***************************************************************************)

\* A creation touches the status of a node that was not there.
LEMMA CreateMoves ==
  ASSUME TypeOK, CreateSome
  PROVE  \E n \in Node : /\ ~Exists(n) /\ status'[n] # Absent
                         /\ \A m \in Node \ {n} : status'[m] = status[m]
                         /\ logged' = {} /\ archived' = archived /\ awaiting' = awaiting
                         /\ n \in Proposal => status'[n] = "proposed"
                         /\ n \in Program \/ includes' = includes
                         /\ \A e \in includes' \ includes : e[1] = n
                         /\ n \in Program =>
                              \/ status'[n] = "active"
                              \/ \A e \in includes' \ includes : status[e[2]] \notin ProposalStarted
<1>. USE DEF Node, TypeOK
<1>1. ASSUME NEW w \in WorkItem, NEW new \in NewWorkItems, CreateWorkItem(w, new)
      PROVE  \E n \in Node : /\ ~Exists(n) /\ status'[n] # Absent
                             /\ \A m \in Node \ {n} : status'[m] = status[m]
                             /\ logged' = {} /\ archived' = archived /\ awaiting' = awaiting
                             /\ n \in Proposal => status'[n] = "proposed"
                             /\ n \in Program \/ includes' = includes
                             /\ \A e \in includes' \ includes : e[1] = n
                             /\ n \notin Program
  <2>1. new.status \in WiStatuses
    BY RequestAssumption DEF NewWorkItem
  <2>2. new.status # Absent
    BY <2>1 DEF WiStatuses, Parked, Absent
  <2>3. status'[w] = new.status /\ \A m \in Node \ {w} : status'[m] = status[m]
    BY <1>1 DEF CreateWorkItem
  <2>4. w \in Node /\ w \notin Proposal /\ w \notin Program
    BY KindsDisjoint
  <2>. QED  BY <1>1, <2>2, <2>3, <2>4 DEF CreateWorkItem, edgeVars
<1>2. ASSUME NEW p \in Proposal, NEW pr \in Project, NEW C \in SUBSET WorkItem,
             CreateProposal(p, pr, C)
      PROVE  \E n \in Node : /\ ~Exists(n) /\ status'[n] # Absent
                             /\ \A m \in Node \ {n} : status'[m] = status[m]
                             /\ logged' = {} /\ archived' = archived /\ awaiting' = awaiting
                             /\ n \in Proposal => status'[n] = "proposed"
                             /\ n \in Program \/ includes' = includes
                             /\ \A e \in includes' \ includes : e[1] = n
                             /\ n \notin Program
  <2>1. status'[p] = "proposed" /\ \A m \in Node \ {p} : status'[m] = status[m]
    BY <1>2 DEF CreateProposal
  <2>2. p \in Node /\ p \notin Program
    BY KindsDisjoint
  <2>. QED  BY <1>2, <2>1, <2>2 DEF CreateProposal, Absent
<1>3. ASSUME NEW g \in Program, NEW S \in SUBSET Proposal, CreateProgram(g, S)
      PROVE  /\ g \in Node /\ ~Exists(g) /\ status'[g] # Absent
             /\ \A m \in Node \ {g} : status'[m] = status[m]
             /\ logged' = {} /\ archived' = archived /\ awaiting' = awaiting
             /\ g \notin Proposal
             /\ \A e \in includes' \ includes : e[1] = g
             /\ \/ status'[g] = "active"
                \/ \A e \in includes' \ includes : status[e[2]] \notin ProposalStarted
  <2>1. /\ status'[g] = IF SlicesStarted(S) THEN "active" ELSE ProgramInitial
        /\ \A m \in Node \ {g} : status'[m] = status[m]
    BY <1>3 DEF CreateProgram
  <2>2. \A e \in includes' \ includes : e[1] = g /\ e[2] \in S
    BY <1>3 DEF CreateProgram
  <2>3. g \in Node /\ g \notin Proposal
    BY KindsDisjoint
  <2>4. status'[g] # "active" => \A e \in includes' \ includes : status[e[2]] \notin ProposalStarted
    BY <2>1, <2>2 DEF SlicesStarted
  <2>5. status'[g] # Absent
    BY <2>1 DEF Absent, ProgramInitial
  <2>. QED  BY <1>3, <2>1, <2>2, <2>3, <2>4, <2>5 DEF CreateProgram
<1>4. ASSUME NEW n \in Card \cup Capture, NEW s, s \in CardStatuses \/ s = "filed", CreateOther(n, s)
      PROVE  /\ n \in Node /\ ~Exists(n) /\ status'[n] # Absent
             /\ \A m \in Node \ {n} : status'[m] = status[m]
             /\ logged' = {} /\ archived' = archived /\ awaiting' = awaiting
             /\ n \notin Proposal /\ n \notin Program /\ includes' = includes
  <2>1. status'[n] = s /\ \A m \in Node \ {n} : status'[m] = status[m]
    BY <1>4 DEF CreateOther
  <2>2. s # Absent
    BY <1>4 DEF CardStatuses, Absent
  <2>. QED  BY <1>4, <2>1, <2>2, KindsDisjoint DEF CreateOther, edgeVars
<1>5. CASE \E w \in WorkItem, new \in NewWorkItems : CreateWorkItem(w, new)
  BY <1>1, <1>5
<1>6. CASE \E p \in Proposal, pr \in Project, C \in SUBSET WorkItem : CreateProposal(p, pr, C)
  BY <1>2, <1>6
<1>7. CASE \E g \in Program, S \in SUBSET Proposal : CreateProgram(g, S)
  BY <1>3, <1>7
<1>8. CASE \/ \E c \in Card, s \in CardStatuses : CreateOther(c, s)
           \/ \E n \in Capture : CreateOther(n, "filed")
  <2>1. PICK n \in Card \cup Capture, s \in CardStatuses \cup {"filed"} : CreateOther(n, s)
    BY <1>8
  <2>. QED  BY <1>4, <2>1
<1>. QED  BY <1>5, <1>6, <1>7, <1>8 DEF CreateSome

\* The lift of a relate or of a status patch: exactly the liftable programs over p go
\* to active, when p counts as started, and each has its row.
LEMMA LiftMoves ==
  ASSUME NEW st, StatusTyped(st), NEW inc, NEW p \in Proposal
  PROVE  LET lifted == Promoted(p, st, inc) IN
         /\ lifted \subseteq Program
         /\ \A g \in lifted : st[g] \in ProgramLiftable
         /\ \A n \in Node : WithPromotion(st, lifted)[n] = IF n \in lifted THEN "active" ELSE st[n]
         /\ st[p] \in ProposalStarted =>
              \A g \in Program : <<g, p>> \in inc /\ st[g] \in ProgramLiftable => g \in lifted
         /\ PromotionRows(st, lifted) =
              UNION {TransitionRow(g, st[g], WithPromotion(st, lifted)[g]) : g \in lifted}
<1>. DEFINE lifted == Promoted(p, st, inc)
<1>1. /\ lifted \subseteq Program
      /\ \A g \in lifted : st[g] \in ProgramLiftable
      /\ st[p] \in ProposalStarted =>
           \A g \in Program : <<g, p>> \in inc /\ st[g] \in ProgramLiftable => g \in lifted
  BY DEF Promoted
<1>2. \A n \in Node : WithPromotion(st, lifted)[n] = IF n \in lifted THEN "active" ELSE st[n]
  BY DEF WithPromotion
<1>3. \A g \in lifted : TransitionRow(g, st[g], WithPromotion(st, lifted)[g])
                         = {[node |-> g, from |-> st[g], to |-> "active"]}
  BY <1>1, <1>2 DEF TransitionRow, ProgramLiftable, ProgramInitial, Soaking, Node
<1>4. PromotionRows(st, lifted) =
        UNION {TransitionRow(g, st[g], WithPromotion(st, lifted)[g]) : g \in lifted}
  BY <1>3 DEF PromotionRows
<1>. QED  BY <1>1, <1>2, <1>4

\* update_proposal, with the program statuses as they were: its own row changes first,
\* and no program is among what that touches.
PatchedProposal(p, patch) == [status EXCEPT ![p] = Patched(@, patch.status)]
LiftedBy(p, patch) ==
  IF patch.status = Keep THEN {} ELSE Promoted(p, PatchedProposal(p, patch), includes)

LEMMA ProposalMoves ==
  ASSUME TypeOK, NEW p \in Proposal, NEW patch \in ProposalPatches, UpdateProposal(p, patch)
  PROVE  /\ LiftedBy(p, patch) \subseteq Program
         /\ \A g \in LiftedBy(p, patch) : status[g] \in ProgramLiftable
         /\ Patched(status[p], patch.status) \in ProposalStatuses
         /\ \A n \in Node :
              status'[n] = IF n \in LiftedBy(p, patch) THEN "active"
                           ELSE IF n = p THEN Patched(status[p], patch.status) ELSE status[n]
         /\ status'[p] \in ProposalStarted =>
              \/ status'[p] = status[p]
              \/ \A g \in Program : <<g, p>> \in includes /\ status[g] \in ProgramLiftable
                                       => g \in LiftedBy(p, patch)
         /\ logged' = TransitionRow(p, status[p], status'[p])
                        \cup UNION {TransitionRow(g, status[g], status'[g]) : g \in LiftedBy(p, patch)}
<1>. USE DEF Node
<1>. DEFINE st == PatchedProposal(p, patch)
            lifted == LiftedBy(p, patch)
<1>a. StatusTyped(status) /\ Exists(p)
  BY DEF TypeOK, StatusTyped, UpdateProposal
<1>1. Patched(status[p], patch.status) \in ProposalStatuses
  BY <1>a, RequestAssumption DEF Patched, ProposalPatch, StatusTyped, Exists
<1>2. StatusTyped(st)
  BY <1>a, <1>1, ProposalStatusTyped DEF PatchedProposal
<1>3. /\ st[p] = Patched(status[p], patch.status)
      /\ \A n \in Node \ {p} : st[n] = status[n]
      /\ \A g \in Program : g # p /\ st[g] = status[g]
  BY <1>a, KindsDisjoint DEF PatchedProposal, StatusTyped
<1>4. /\ status' = WithPromotion(st, lifted)
      /\ logged' = TransitionRow(p, status[p], st[p]) \cup PromotionRows(st, lifted)
  BY DEF UpdateProposal, PatchedProposal, LiftedBy
<1>5. CASE patch.status = Keep
  <2>1. lifted = {}
    BY <1>5 DEF LiftedBy
  <2>2. \A n \in Node : status'[n] = st[n]
    BY <1>4, <2>1 DEF WithPromotion
  <2>3. PromotionRows(st, lifted) = {}
    BY <2>1 DEF PromotionRows
  <2>4. Patched(status[p], patch.status) = status[p]
    BY <1>5 DEF Patched
  <2>5. \A n \in Node : status'[n] = IF n = p THEN Patched(status[p], patch.status) ELSE status[n]
    BY <1>3, <2>2
  <2>6. logged' = TransitionRow(p, status[p], status'[p])
    BY <1>4, <2>2, <2>3
  <2>7. LiftedBy(p, patch) = {}
    BY <2>1
  <2>8. status'[p] = status[p]
    BY <2>4, <2>5
  <2>. QED  BY <1>1, <2>5, <2>6, <2>7, <2>8
<1>6. CASE patch.status # Keep
  <2>1. lifted = Promoted(p, st, includes)
    BY <1>6 DEF LiftedBy
  <2>. HIDE DEF st
  <2>2. /\ lifted \subseteq Program
        /\ \A g \in lifted : st[g] \in ProgramLiftable
        /\ \A n \in Node : WithPromotion(st, lifted)[n] = IF n \in lifted THEN "active" ELSE st[n]
        /\ st[p] \in ProposalStarted =>
             \A g \in Program : <<g, p>> \in includes /\ st[g] \in ProgramLiftable => g \in lifted
        /\ PromotionRows(st, lifted) =
             UNION {TransitionRow(g, st[g], WithPromotion(st, lifted)[g]) : g \in lifted}
    BY <1>2, <2>1, LiftMoves
  <2>. HIDE DEF lifted
  <2>3. p \notin lifted /\ status'[p] = st[p]
    BY <1>3, <1>4, <2>2
  <2>4. \A g \in lifted : st[g] = status[g]
    BY <1>3, <2>2
  <2>5. UNION {TransitionRow(g, st[g], WithPromotion(st, lifted)[g]) : g \in lifted}
          = UNION {TransitionRow(g, status[g], status'[g]) : g \in lifted}
    BY <1>4, <2>4
  <2>6. logged' = TransitionRow(p, status[p], status'[p])
                    \cup UNION {TransitionRow(g, status[g], status'[g]) : g \in lifted}
    BY <1>4, <2>2, <2>3, <2>5
  <2>7. \A n \in Node : status'[n] = IF n \in lifted THEN "active" ELSE st[n]
    BY <1>4, <2>2
  <2>8. lifted = LiftedBy(p, patch)
    BY DEF lifted
  <2>. QED  BY <1>1, <1>3, <2>2, <2>3, <2>4, <2>6, <2>7, <2>8
<1>. QED  BY <1>5, <1>6

\* relate with includes
LEMMA RelateMoves ==
  ASSUME TypeOK, NEW g \in Program, NEW p \in Proposal, RelateIncludes(g, p)
  PROVE  \E lifted \in SUBSET Program :
         /\ \A h \in lifted : status[h] \in ProgramLiftable
         /\ \A n \in Node : status'[n] = IF n \in lifted THEN "active" ELSE status[n]
         /\ status[p] \in ProposalStarted =>
              \A h \in Program : <<h, p>> \in includes' /\ status[h] \in ProgramLiftable => h \in lifted
         /\ logged' = UNION {TransitionRow(h, status[h], status'[h]) : h \in lifted}
<1>1. StatusTyped(status)
  BY DEF TypeOK, StatusTyped
<1>2. /\ status' = WithPromotion(status, Promoted(p, status, includes'))
      /\ logged' = PromotionRows(status, Promoted(p, status, includes'))
  BY DEF RelateIncludes
<1>. QED  BY <1>1, <1>2, LiftMoves

\* A patch of another kind moves the one row.
LEMMA ItemMoves ==
  ASSUME TypeOK, NEW w \in WorkItem, NEW patch \in WorkItemPatches, UpdateWorkItem(w, patch)
  PROVE  /\ Exists(w) /\ status'[w] \in WiStatuses
         /\ \A n \in Node \ {w} : status'[n] = status[n]
         /\ logged' = TransitionRow(w, status[w], status'[w])
  BY RequestAssumption DEF TypeOK, UpdateWorkItem, Node, Patched, WorkItemPatch, Exists

LEMMA ProgramMoves ==
  ASSUME TypeOK, NEW g \in Program, NEW patch \in ProgramPatches, UpdateProgram(g, patch)
  PROVE  /\ Exists(g) /\ status'[g] \in ProgramStatuses
         /\ \A n \in Node \ {g} : status'[n] = status[n]
         /\ logged' = TransitionRow(g, status[g], status'[g])
  BY RequestAssumption DEF TypeOK, UpdateProgram, Node, Patched, ProgramPatch, Exists

LEMMA CardMoves ==
  ASSUME TypeOK, NEW c \in Card, NEW patch \in CardPatches, UpdateCard(c, patch)
  PROVE  /\ Exists(c) /\ status'[c] \in CardStatuses
         /\ \A n \in Node \ {c} : status'[n] = status[n]
  BY RequestAssumption DEF TypeOK, UpdateCard, Node, Patched, CardPatch, Exists
\* Everybody else leaves every status alone, logs nothing and adds no slice.
Quiet ==
  /\ status' = status /\ logged' = {}
  /\ includes' \subseteq includes

\* Next, by what it does to the status column.
LEMMA StepKinds ==
  ASSUME TypeOK, Next
  PROVE  \/ CreateSome
         \/ \E g \in Program, p \in Proposal : RelateIncludes(g, p)
         \/ \E w \in WorkItem, patch \in WorkItemPatches : UpdateWorkItem(w, patch)
         \/ \E p \in Proposal, patch \in ProposalPatches : UpdateProposal(p, patch)
         \/ \E g \in Program, patch \in ProgramPatches : UpdateProgram(g, patch)
         \/ \E c \in Card, patch \in CardPatches : UpdateCard(c, patch)
         \/ \E k \in Capture, patch \in CapturePatches : UpdateCapture(k, patch) /\ Quiet
         \/ \E n \in Askable, flag \in {"set", "clear"} : SetAwaiting(n, flag) /\ Quiet
         \/ Quiet /\ UNCHANGED <<archived, awaiting>>
<1>1. ASSUME NEW p \in Proposal, NEW w \in WorkItem, RelateCovers(p, w)
      PROVE  Quiet /\ UNCHANGED <<archived, awaiting>>
  BY <1>1 DEF RelateCovers, Quiet
<1>2. ASSUME NEW g \in Program, NEW w \in WorkItem, RelateSoaks(g, w)
      PROVE  Quiet /\ UNCHANGED <<archived, awaiting>>
  BY <1>2 DEF RelateSoaks, Quiet
<1>3. ASSUME NEW e, Unrelate(e)
      PROVE  Quiet /\ UNCHANGED <<archived, awaiting>>
  BY <1>3 DEF Unrelate, Quiet
<1>4. ASSUME NEW k \in Capture, NEW patch \in CapturePatches, UpdateCapture(k, patch)
      PROVE  Quiet
  BY <1>4 DEF UpdateCapture, Quiet, edgeVars
<1>5. ASSUME NEW n \in Askable, NEW flag \in {"set", "clear"}, SetAwaiting(n, flag)
      PROVE  Quiet
  BY <1>5 DEF SetAwaiting, Quiet, edgeVars
<1>. QED  BY <1>1, <1>2, <1>3, <1>4, <1>5 DEF Next, RelateSome, UpdateSome, AskSome

-------------------------------------------------------------------------------
(***************************************************************************)
(* The invariant.                                                          *)
(***************************************************************************)

\* No step makes a node disappear.
LEMMA NodesStay ==
  ASSUME TypeOK, [Next]_vars, NEW n \in Node, Exists(n)
  PROVE  status'[n] # Absent
<1>. USE DEF Exists, Node
<1>1. CASE CreateSome
  BY <1>1, CreateMoves
<1>2. ASSUME NEW g \in Program, NEW p \in Proposal, RelateIncludes(g, p)
      PROVE  status'[n] # Absent
  BY <1>2, RelateMoves DEF Absent
<1>3. ASSUME NEW w \in WorkItem, NEW patch \in WorkItemPatches, UpdateWorkItem(w, patch)
      PROVE  status'[n] # Absent
  BY <1>3, ItemMoves DEF Absent, WiStatuses, Parked
<1>4. ASSUME NEW p \in Proposal, NEW patch \in ProposalPatches, UpdateProposal(p, patch)
      PROVE  status'[n] # Absent
  BY <1>4, ProposalMoves DEF Absent, ProposalStatuses, Parked
<1>5. ASSUME NEW g \in Program, NEW patch \in ProgramPatches, UpdateProgram(g, patch)
      PROVE  status'[n] # Absent
  BY <1>5, ProgramMoves DEF Absent, ProgramStatuses, Parked, Soaking
<1>6. ASSUME NEW c \in Card, NEW patch \in CardPatches, UpdateCard(c, patch)
      PROVE  status'[n] # Absent
  BY <1>6, CardMoves DEF Absent, CardStatuses
<1>7. CASE Quiet \/ UNCHANGED vars
  BY <1>7 DEF Quiet, vars
<1>. QED  BY <1>1, <1>2, <1>3, <1>4, <1>5, <1>6, <1>7, StepKinds

LEMMA GraphStep == GraphInv /\ [Next]_vars => GraphInv'
<1>. SUFFICES ASSUME GraphInv, [Next]_vars PROVE GraphInv'
  OBVIOUS
<1>a. TypeOK /\ TypeOK'
  BY TypeStep DEF GraphInv
<1>b. \A n \in Node : Exists(n) => status'[n] # Absent
  BY <1>a, NodesStay
<1>1. ASSUME NEW n \in awaiting' PROVE status'[n] # Absent
  <2>1. n \in awaiting \/ (\E m \in Node : Exists(m) /\ n = m)
    <3>1. CASE CreateSome
      BY <1>1, <1>a, <3>1, CreateMoves
    <3>2. ASSUME NEW g \in Program, NEW p \in Proposal, RelateIncludes(g, p)
          PROVE  n \in awaiting
      BY <1>1, <3>2 DEF RelateIncludes
    <3>3. ASSUME NEW w \in WorkItem, NEW patch \in WorkItemPatches, UpdateWorkItem(w, patch)
          PROVE  n \in awaiting
      BY <1>1, <3>3 DEF UpdateWorkItem, Settled
    <3>4. ASSUME NEW p \in Proposal, NEW patch \in ProposalPatches, UpdateProposal(p, patch)
          PROVE  n \in awaiting
      BY <1>1, <3>4 DEF UpdateProposal, Settled
    <3>5. ASSUME NEW g \in Program, NEW patch \in ProgramPatches, UpdateProgram(g, patch)
          PROVE  n \in awaiting
      BY <1>1, <3>5 DEF UpdateProgram, Settled
    <3>6. ASSUME NEW c \in Card, NEW patch \in CardPatches, UpdateCard(c, patch)
          PROVE  n \in awaiting
      BY <1>1, <3>6 DEF UpdateCard
    <3>7. ASSUME NEW k \in Capture, NEW patch \in CapturePatches, UpdateCapture(k, patch)
          PROVE  n \in awaiting
      BY <1>1, <3>7 DEF UpdateCapture
    <3>8. ASSUME NEW m \in Askable, NEW flag \in {"set", "clear"}, SetAwaiting(m, flag)
          PROVE  n \in awaiting \/ (Exists(m) /\ n = m)
      BY <1>1, <3>8 DEF SetAwaiting, Flagged
    <3>9. CASE UNCHANGED <<archived, awaiting>> \/ UNCHANGED vars
      BY <1>1, <3>9 DEF vars
    <3>. QED
      BY <1>a, <3>1, <3>2, <3>3, <3>4, <3>5, <3>6, <3>7, <3>8, <3>9, StepKinds, RequestAssumption
  <2>. QED  BY <1>a, <1>b, <2>1 DEF GraphInv, TypeOK
<1>2. ASSUME NEW e \in includes' PROVE status'[e[1]] # Absent
  <2>1. e[1] \in Node
    BY <1>a, <1>2 DEF TypeOK, Node
  <2>2. CASE e \in includes
    BY <1>b, <2>1, <2>2 DEF GraphInv
  <2>3. CASE e \notin includes
    <3>1. CASE CreateSome
      BY <1>a, <1>2, <2>3, <3>1, CreateMoves
    <3>2. ASSUME NEW g \in Program, NEW p \in Proposal, RelateIncludes(g, p)
          PROVE  status'[e[1]] # Absent
      BY <1>2, <1>b, <2>1, <2>3, <3>2 DEF RelateIncludes
    <3>3. CASE /\ ~CreateSome
               /\ ~\E g \in Program, p \in Proposal : RelateIncludes(g, p)
      <4>1. includes' \subseteq includes
        BY <1>a, <3>3, StepKinds
        DEF Quiet, UpdateWorkItem, UpdateProposal, UpdateProgram, UpdateCard, edgeVars, vars
      <4>. QED  BY <1>2, <2>3, <4>1
    <3>. QED  BY <3>1, <3>2, <3>3
  <2>. QED  BY <2>2, <2>3
<1>. QED  BY <1>a, <1>1, <1>2 DEF GraphInv, Exists

LEMMA GraphInvariant == Spec => []GraphInv
<1>1. Init => GraphInv
  <2>1. Init => TypeOK
    BY PlanningTypeInit
  <2>. QED  BY <2>1 DEF Init, GraphInv
<1>. QED  BY <1>1, GraphStep, PTL DEF Spec
-------------------------------------------------------------------------------
(***************************************************************************)
(* The action properties.                                                  *)
(***************************************************************************)

LEMMA DeclaredStep ==
  ASSUME TypeOK, [Next]_vars, NEW g \in Program,
         status[g] \in {"holding", "done", Parked}, status'[g] # status[g]
  PROVE  UNCHANGED edgeVars /\ \A p \in Proposal : status'[p] = status[p]
<1>. USE DEF Node
<1>a. Exists(g) /\ status[g] \notin ProgramLiftable
  BY DEF Exists, Absent, Parked, ProgramLiftable, ProgramInitial, Soaking
<1>1. ~CreateSome
  BY <1>a, CreateMoves DEF Exists
<1>2. ASSUME NEW h \in Program, NEW p \in Proposal, RelateIncludes(h, p) PROVE FALSE
  BY <1>a, <1>2, RelateMoves
<1>3. ASSUME NEW w \in WorkItem, NEW patch \in WorkItemPatches, UpdateWorkItem(w, patch) PROVE FALSE
  BY <1>3, ItemMoves, KindsDisjoint
<1>4. ASSUME NEW p \in Proposal, NEW patch \in ProposalPatches, UpdateProposal(p, patch) PROVE FALSE
  BY <1>a, <1>4, ProposalMoves, KindsDisjoint
<1>5. ASSUME NEW h \in Program, NEW patch \in ProgramPatches, UpdateProgram(h, patch)
      PROVE  UNCHANGED edgeVars /\ \A p \in Proposal : status'[p] = status[p]
  BY <1>5, ProgramMoves, KindsDisjoint DEF UpdateProgram
<1>6. ASSUME NEW c \in Card, NEW patch \in CardPatches, UpdateCard(c, patch) PROVE FALSE
  BY <1>6, CardMoves, KindsDisjoint
<1>7. ~Quiet /\ ~UNCHANGED vars
  BY DEF Quiet, vars
<1>. QED  BY <1>1, <1>2, <1>3, <1>4, <1>5, <1>6, <1>7, StepKinds

\* holding, done and parked are moved by no slice and by no edge, whatever programs
\* share a slice (PROGRAM_LIFTABLE).
THEOREM DeclarationsStand == Spec => DeclaredStatusStands
<1>1. TypeOK /\ [Next]_vars
        => [\A g \in Program :
              status[g] \in {"holding", "done", Parked} /\ status'[g] # status[g]
                => /\ UNCHANGED edgeVars
                   /\ \A p \in Proposal : status'[p] = status[p]]_vars
  BY DeclaredStep
<1>. QED  BY <1>1, PlanningTypeCorrect, PTL DEF Spec, DeclaredStatusStands

-------------------------------------------------------------------------------
LEMMA HonestStep ==
  ASSUME GraphInv, [Next]_vars, NEW g \in Program,
         (status[g] = ProgramInitial /\ NotStarted(g)) \/ status[g] = Absent,
         status'[g] = ProgramInitial,
         NEW q \in Proposal, <<g, q>> \in includes'
  PROVE  status'[q] \notin ProposalStarted
<1>. USE DEF Node
<1>a. TypeOK /\ g \in Node /\ q \in Node /\ g # q
  BY KindsDisjoint DEF GraphInv
<1>b. <<g, q>> \in includes => status[q] \notin ProposalStarted /\ status[g] = ProgramInitial
  BY DEF GraphInv, Exists, NotStarted, SlicesOf
<1>c. ASSUME status'[g] = status[g], status'[q] = status[q], <<g, q>> \in includes
      PROVE  status'[q] \notin ProposalStarted
  BY <1>b, <1>c
<1>1. CASE CreateSome
  <2>1. PICK n \in Node :
           /\ ~Exists(n)
           /\ \A m \in Node \ {n} : status'[m] = status[m]
           /\ n \in Proposal => status'[n] = "proposed"
           /\ \A e \in includes' \ includes : e[1] = n
           /\ n \in Program =>
                \/ status'[n] = "active"
                \/ \A e \in includes' \ includes : status[e[2]] \notin ProposalStarted
    BY <1>a, <1>1, CreateMoves
  <2>2. CASE <<g, q>> \in includes
    <3>1. status'[q] = status[q] \/ status'[q] = "proposed"
      BY <2>1, <1>a
    <3>. QED  BY <3>1, <2>2, <1>b DEF ProposalStarted
  <2>3. CASE <<g, q>> \notin includes
    <3>1. g = n /\ status'[q] = status[q]
      BY <2>1, <2>3, <1>a
    <3>2. status[q] \notin ProposalStarted
      BY <2>1, <2>3, <3>1 DEF ProgramInitial
    <3>. QED  BY <3>1, <3>2
  <2>. QED  BY <2>2, <2>3
<1>2. ASSUME NEW h \in Program, NEW p \in Proposal, RelateIncludes(h, p)
      PROVE  status'[q] \notin ProposalStarted
  <2>1. PICK lifted \in SUBSET Program :
           /\ \A n \in Node : status'[n] = IF n \in lifted THEN "active" ELSE status[n]
           /\ status[p] \in ProposalStarted =>
                \A k \in Program : <<k, p>> \in includes' /\ status[k] \in ProgramLiftable => k \in lifted
    BY <1>a, <1>2, RelateMoves
  <2>2. g \notin lifted /\ q \notin lifted
    BY <2>1, <1>a, KindsDisjoint DEF ProgramInitial
  <2>3. status'[g] = status[g] /\ status'[q] = status[q]
    BY <2>1, <2>2, <1>a
  <2>4. CASE <<g, q>> \in includes
    BY <2>3, <2>4, <1>c
  <2>5. CASE <<g, q>> \notin includes
    <3>1. q = p
      BY <1>2, <2>5 DEF RelateIncludes
    <3>2. status[g] \in ProgramLiftable
      BY <2>3 DEF ProgramLiftable
    <3>. QED  BY <2>1, <2>2, <2>3, <3>1, <3>2
  <2>. QED  BY <2>4, <2>5
<1>3. ASSUME NEW w \in WorkItem, NEW patch \in WorkItemPatches, UpdateWorkItem(w, patch)
      PROVE  status'[q] \notin ProposalStarted
  BY <1>3, <1>a, <1>c, ItemMoves, KindsDisjoint DEF UpdateWorkItem, edgeVars
<1>4. ASSUME NEW p \in Proposal, NEW patch \in ProposalPatches, UpdateProposal(p, patch)
      PROVE  status'[q] \notin ProposalStarted
  <2>0. includes' = includes
    BY <1>4 DEF UpdateProposal, edgeVars
  <2>1. /\ g \notin LiftedBy(p, patch) /\ q \notin LiftedBy(p, patch)
        /\ status'[g] = status[g]
    BY <1>4, <1>a, ProposalMoves, KindsDisjoint DEF ProgramInitial
  <2>2. CASE q # p
    BY <1>4, <1>a, <1>c, <2>0, <2>1, <2>2, ProposalMoves
  <2>3. CASE q = p
    <3>1. status[g] \in ProgramLiftable
      BY <2>1 DEF ProgramLiftable
    <3>. QED  BY <1>4, <1>a, <1>b, <2>0, <2>1, <2>3, <3>1, ProposalMoves
  <2>. QED  BY <2>2, <2>3
<1>5. ASSUME NEW h \in Program, NEW patch \in ProgramPatches, UpdateProgram(h, patch)
      PROVE  status'[q] \notin ProposalStarted
  <2>1. status'[q] = status[q] /\ includes' = includes
    BY <1>5, <1>a, ProgramMoves, KindsDisjoint DEF UpdateProgram, edgeVars
  <2>. QED  BY <1>b, <2>1
<1>6. ASSUME NEW c \in Card, NEW patch \in CardPatches, UpdateCard(c, patch)
      PROVE  status'[q] \notin ProposalStarted
  BY <1>6, <1>a, <1>c, CardMoves, KindsDisjoint DEF UpdateCard, edgeVars
<1>7. CASE Quiet \/ UNCHANGED vars
  BY <1>7, <1>c DEF Quiet, vars
<1>. QED  BY <1>a, <1>1, <1>2, <1>3, <1>4, <1>5, <1>6, <1>7, StepKinds

\* A program that is queued over slices none of which has begun is lifted by whatever
\* begins one, and none is born queued over one that had.
THEOREM QueuedIsHonest == Spec => QueuedStaysHonest
<1>1. GraphInv /\ [Next]_vars
        => [\A g \in Program :
              (status[g] = ProgramInitial /\ NotStarted(g)) \/ status[g] = Absent
                => (status'[g] = ProgramInitial => NotStarted(g)')]_vars
  BY HonestStep DEF NotStarted, SlicesOf
<1>. QED  BY <1>1, GraphInvariant, PTL DEF Spec, QueuedStaysHonest

-------------------------------------------------------------------------------
Lifecycled == WorkItem \cup Proposal \cup Program

LEMMA ExitStep ==
  ASSUME GraphInv, [Next]_vars, NEW n \in Lifecycled, InLane(n), ~InLane(n)', n \in awaiting'
  PROVE  FALSE
<1>. USE DEF Node, Lifecycled
<1>a. TypeOK /\ n \in Node /\ Exists(n) /\ n \notin Card
  BY KindsDisjoint DEF GraphInv, InLane
<1>b. n \in archived' \/ status'[n] # status[n]
  BY DEF InLane
<1>c. /\ n \notin archived
      /\ \/ n \in archived'
         \/ n \in WorkItem /\ status'[n] = "closed"
         \/ n \in Proposal /\ status'[n] \in ProposalTerminal
         \/ n \in Program /\ status'[n] \in ProgramTerminal
  BY <1>a DEF InLane, WiTerminal
<1>d. ASSUME awaiting' = Settled(n, status', archived') PROVE FALSE
  BY <1>c, <1>d DEF Settled, Answered
<1>e. ASSUME NEW m, NEW flag, archived' = Flagged(archived, m, flag), n # m PROVE n \notin archived'
  BY <1>c, <1>e DEF Flagged
<1>1. ~CreateSome
  BY <1>a, <1>b, <1>c, CreateMoves
<1>2. ASSUME NEW h \in Program, NEW p \in Proposal, RelateIncludes(h, p) PROVE FALSE
  <2>1. archived' = archived
    BY <1>2 DEF RelateIncludes
  <2>2. status'[n] = "active" /\ n \in Program
    BY <1>a, <1>b, <1>c, <1>2, <2>1, RelateMoves
  <2>. QED  BY <1>c, <2>1, <2>2, KindsDisjoint DEF ProgramTerminal
<1>3. ASSUME NEW w \in WorkItem, NEW patch \in WorkItemPatches, UpdateWorkItem(w, patch) PROVE FALSE
  <2>1. archived' = Flagged(archived, w, patch.archived) /\ awaiting' = Settled(w, status', archived')
    BY <1>3 DEF UpdateWorkItem
  <2>2. n = w
    BY <1>3, <1>a, <1>b, <1>e, <2>1, ItemMoves
  <2>. QED  BY <1>d, <2>1, <2>2
<1>4. ASSUME NEW p \in Proposal, NEW patch \in ProposalPatches, UpdateProposal(p, patch) PROVE FALSE
  <2>1. archived' = Flagged(archived, p, patch.archived) /\ awaiting' = Settled(p, status', archived')
    BY <1>4 DEF UpdateProposal
  <2>2. CASE n = p
    BY <1>d, <2>1, <2>2
  <2>3. CASE n # p
    <3>1. n \notin archived'
      BY <1>e, <2>1, <2>3
    <3>2. status'[n] = "active" /\ n \in Program
      BY <1>4, <1>a, <1>b, <2>3, <3>1, ProposalMoves
    <3>. QED  BY <1>c, <3>1, <3>2, KindsDisjoint DEF ProgramTerminal
  <2>. QED  BY <2>2, <2>3
<1>5. ASSUME NEW g \in Program, NEW patch \in ProgramPatches, UpdateProgram(g, patch) PROVE FALSE
  <2>1. archived' = Flagged(archived, g, patch.archived) /\ awaiting' = Settled(g, status', archived')
    BY <1>5 DEF UpdateProgram
  <2>2. n = g
    BY <1>5, <1>a, <1>b, <1>e, <2>1, ProgramMoves
  <2>. QED  BY <1>d, <2>1, <2>2
<1>6. ASSUME NEW c \in Card, NEW patch \in CardPatches, UpdateCard(c, patch) PROVE FALSE
  <2>1. archived' = Flagged(archived, c, patch.archived) /\ n # c
    BY <1>6, <1>a DEF UpdateCard
  <2>. QED  BY <1>6, <1>a, <1>b, <1>e, <2>1, CardMoves
<1>7. ASSUME NEW k \in Capture, NEW patch \in CapturePatches, UpdateCapture(k, patch), Quiet PROVE FALSE
  <2>1. archived' = Flagged(archived, k, patch.archived) /\ n # k
    BY <1>7, KindsDisjoint DEF UpdateCapture
  <2>. QED  BY <1>7, <1>b, <1>e, <2>1 DEF Quiet
<1>8. ASSUME NEW m \in Askable, NEW flag \in {"set", "clear"}, SetAwaiting(m, flag), Quiet PROVE FALSE
  BY <1>8, <1>b, <1>c DEF SetAwaiting, Quiet
<1>9. CASE (Quiet /\ UNCHANGED <<archived, awaiting>>) \/ UNCHANGED vars
  BY <1>9, <1>b, <1>c DEF Quiet, vars
<1>. QED  BY <1>a, <1>1, <1>2, <1>3, <1>4, <1>5, <1>6, <1>7, <1>8, <1>9, StepKinds

\* An ask leaves the lane only with its marker: no later reopening of a work item, a
\* proposal or a program brings an answered one back (settle_awaiting).
THEOREM LaneExitsSettle == Spec => LaneExitSettles
<1>1. GraphInv /\ [Next]_vars
        => [\A n \in WorkItem \cup Proposal \cup Program :
              InLane(n) /\ ~InLane(n)' => n \notin awaiting']_vars
  BY ExitStep DEF Lifecycled
<1>. QED  BY <1>1, GraphInvariant, PTL DEF Spec, LaneExitSettles

-------------------------------------------------------------------------------
\* The nodes whose transitions are logged.
Recorded == {m \in WorkItem \cup Proposal \cup Program : Exists(m)}

\* The log of a step is the log of the nodes it moved.
LEMMA RowsOfTheMoved ==
  ASSUME NEW M \in SUBSET Recorded, \A n \in Recorded \ M : status'[n] = status[n]
  PROVE  UNION {TransitionRow(n, status[n], status'[n]) : n \in M}
           = UNION {TransitionRow(n, status[n], status'[n]) : n \in Recorded}
<1>1. \A n \in Recorded \ M : TransitionRow(n, status[n], status'[n]) = {}
  BY DEF TransitionRow
<1>. QED  BY <1>1

LEMMA LogStep ==
  ASSUME GraphInv, Next
  PROVE  logged' = UNION {TransitionRow(n, status[n], status'[n]) : n \in Recorded}
<1>a. TypeOK /\ Recorded \subseteq Node
  BY DEF GraphInv, Recorded, Node
<1>0. ASSUME NEW n \in Recorded, \A m \in Recorded \ {n} : status'[m] = status[m],
             logged' = TransitionRow(n, status[n], status'[n])
      PROVE  logged' = UNION {TransitionRow(m, status[m], status'[m]) : m \in Recorded}
  <2>1. UNION {TransitionRow(m, status[m], status'[m]) : m \in {n}}
          = UNION {TransitionRow(m, status[m], status'[m]) : m \in Recorded}
    BY <1>0, RowsOfTheMoved
  <2>2. UNION {TransitionRow(m, status[m], status'[m]) : m \in {n}} = TransitionRow(n, status[n], status'[n])
    OBVIOUS
  <2>. QED  BY <1>0, <2>1, <2>2
<1>q. ASSUME logged' = {}, \A m \in Recorded : status'[m] = status[m]
      PROVE  logged' = UNION {TransitionRow(m, status[m], status'[m]) : m \in Recorded}
  BY <1>q DEF TransitionRow
<1>1. CASE CreateSome
  <2>1. logged' = {} /\ \A m \in Recorded : status'[m] = status[m]
    BY <1>a, <1>1, CreateMoves DEF Recorded
  <2>. QED  BY <2>1, <1>q
<1>2. ASSUME NEW g \in Program, NEW p \in Proposal, RelateIncludes(g, p)
      PROVE  logged' = UNION {TransitionRow(n, status[n], status'[n]) : n \in Recorded}
  <2>1. PICK lifted \in SUBSET Program :
           /\ \A h \in lifted : status[h] \in ProgramLiftable
           /\ \A n \in Node : status'[n] = IF n \in lifted THEN "active" ELSE status[n]
           /\ logged' = UNION {TransitionRow(h, status[h], status'[h]) : h \in lifted}
    BY <1>a, <1>2, RelateMoves
  <2>2. lifted \subseteq Recorded
    BY <2>1 DEF Recorded, Exists, ProgramLiftable, ProgramInitial, Soaking, Absent
  <2>3. \A n \in Recorded \ lifted : status'[n] = status[n]
    BY <1>a, <2>1
  <2>. QED  BY <2>1, <2>2, <2>3, RowsOfTheMoved
<1>3. ASSUME NEW w \in WorkItem, NEW patch \in WorkItemPatches, UpdateWorkItem(w, patch)
      PROVE  logged' = UNION {TransitionRow(n, status[n], status'[n]) : n \in Recorded}
  <2>1. w \in Recorded /\ logged' = TransitionRow(w, status[w], status'[w])
        /\ \A m \in Recorded \ {w} : status'[m] = status[m]
    BY <1>a, <1>3, ItemMoves DEF Recorded
  <2>. QED  BY <2>1, <1>0
<1>4. ASSUME NEW p \in Proposal, NEW patch \in ProposalPatches, UpdateProposal(p, patch)
      PROVE  logged' = UNION {TransitionRow(n, status[n], status'[n]) : n \in Recorded}
  <2>. DEFINE lifted == LiftedBy(p, patch)
  <2>0. p \in Recorded
    BY <1>4 DEF UpdateProposal, Recorded
  <2>1. /\ lifted \subseteq Program
        /\ \A h \in lifted : status[h] \in ProgramLiftable
        /\ \A n \in Node : n \notin lifted /\ n # p => status'[n] = status[n]
        /\ logged' = TransitionRow(p, status[p], status'[p])
                       \cup UNION {TransitionRow(h, status[h], status'[h]) : h \in lifted}
    BY <1>a, <1>4, ProposalMoves
  <2>. HIDE DEF lifted
  <2>2. {p} \cup lifted \subseteq Recorded
    BY <2>0, <2>1 DEF Recorded, Exists, ProgramLiftable, ProgramInitial, Soaking, Absent
  <2>3. \A n \in Recorded \ ({p} \cup lifted) : status'[n] = status[n]
    BY <1>a, <2>1
  <2>4. UNION {TransitionRow(n, status[n], status'[n]) : n \in {p} \cup lifted}
          = TransitionRow(p, status[p], status'[p])
              \cup UNION {TransitionRow(h, status[h], status'[h]) : h \in lifted}
    OBVIOUS
  <2>5. UNION {TransitionRow(n, status[n], status'[n]) : n \in {p} \cup lifted}
          = UNION {TransitionRow(n, status[n], status'[n]) : n \in Recorded}
    BY <2>2, <2>3, RowsOfTheMoved
  <2>. QED  BY <2>1, <2>4, <2>5
<1>5. ASSUME NEW g \in Program, NEW patch \in ProgramPatches, UpdateProgram(g, patch)
      PROVE  logged' = UNION {TransitionRow(n, status[n], status'[n]) : n \in Recorded}
  <2>1. g \in Recorded /\ logged' = TransitionRow(g, status[g], status'[g])
        /\ \A m \in Recorded \ {g} : status'[m] = status[m]
    BY <1>a, <1>5, ProgramMoves DEF Recorded
  <2>. QED  BY <2>1, <1>0
<1>6. ASSUME NEW c \in Card, NEW patch \in CardPatches, UpdateCard(c, patch)
      PROVE  logged' = UNION {TransitionRow(n, status[n], status'[n]) : n \in Recorded}
  <2>1. logged' = {}
    BY <1>6 DEF UpdateCard
  <2>2. \A m \in Recorded : status'[m] = status[m]
    BY <1>a, <1>6, CardMoves, KindsDisjoint DEF Recorded
  <2>. QED  BY <2>1, <2>2, <1>q
<1>7. CASE Quiet
  BY <1>7, <1>q DEF Quiet
<1>. QED  BY <1>a, <1>1, <1>2, <1>3, <1>4, <1>5, <1>6, <1>7, StepKinds

\* The log has a row for every status change of a work item, a proposal or a program,
\* the lifts that a started slice causes included, and for nothing else.
THEOREM ChangesAreLogged == Spec => EveryChangeLogged
<1>1. GraphInv /\ [Next]_vars
        => [logged' = UNION {TransitionRow(n, status[n], status'[n]) :
              n \in {m \in WorkItem \cup Proposal \cup Program : Exists(m)}}]_vars
  BY LogStep DEF Recorded
<1>. QED  BY <1>1, GraphInvariant, PTL DEF Spec, EveryChangeLogged

-------------------------------------------------------------------------------
(***************************************************************************)
(* What the open transactions hold.                                        *)
(***************************************************************************)

LiftRow == [node : Program, from : AnyStatus, to : AnyStatus]

SliceCall   == [call : {"slice"}, at : {"read", "found"}, p : Proposal,
                to : StatusPatches(ProposalPatches), before : AnyStatus,
                lift : SUBSET LiftRow, met : BOOLEAN]
RelateCall  == [call : {"relate"}, g : Program, p : Proposal, lift : SUBSET LiftRow,
                met : BOOLEAN]
ProgramCall == [call : {"program"}, at : {"read", "checked"}, g : Program,
                to : StatusPatches(ProgramPatches), before : AnyStatus, met : BOOLEAN]
ItemCall    == [call : {"item"}, w : WorkItem, to : StatusPatches(WorkItemPatches),
                before : AnyStatus, met : BOOLEAN]
CreateCall  == [call : {"create"}, g : Program, slices : SUBSET Proposal,
                started : BOOLEAN, met : BOOLEAN]

Call == SliceCall \cup RelateCall \cup ProgramCall \cup ItemCall \cup CreateCall

RaceTypeOK == TypeOK /\ tx \in [Client -> {Idle} \cup Call]

\* What a call has read is still so.
UpToDate(c) ==
  /\ tx[c].call = "slice" =>
       /\ Exists(tx[c].p) /\ tx[c].before = status[tx[c].p]
       /\ tx[c].at = "found" =>
            tx[c].lift = Candidates(tx[c].p, [status EXCEPT ![tx[c].p] = tx[c].to], includes)
  /\ tx[c].call = "relate" =>
       /\ Exists(tx[c].g) /\ Exists(tx[c].p)
       /\ tx[c].lift = Candidates(tx[c].p, status, includes \cup {<<tx[c].g, tx[c].p>>})
  /\ tx[c].call = "program" =>
       /\ Exists(tx[c].g) /\ tx[c].before = status[tx[c].g]
       /\ tx[c].at = "checked" /\ tx[c].to = Soaking /\ tx[c].before # Soaking => MaySoak(tx[c].g)
  /\ tx[c].call = "item" => Exists(tx[c].w) /\ tx[c].before = status[tx[c].w]
  /\ tx[c].call = "create" =>
       /\ ~Exists(tx[c].g)
       /\ \A p \in tx[c].slices : Exists(p)
       /\ tx[c].started = SlicesStarted(tx[c].slices)

\* A call that has met no other has the database to itself.
AloneInv ==
  \A c \in Client : Begun(c) /\ ~tx[c].met =>
    /\ \A d \in Client \ {c} : ~Begun(d)
    /\ UpToDate(c)

LEMMA CallKinds ==
  ASSUME RaceTypeOK, NEW c \in Client
  PROVE  /\ tx[c].call = "slice"   => tx[c] \in SliceCall
         /\ tx[c].call = "relate"  => tx[c] \in RelateCall
         /\ tx[c].call = "program" => tx[c] \in ProgramCall
         /\ tx[c].call = "item"    => tx[c] \in ItemCall
         /\ tx[c].call = "create"  => tx[c] \in CreateCall
         /\ tx[c].call \in {"slice", "relate", "program", "item", "create"} => Begun(c)
         /\ Begun(c) => tx[c] \in Call
<1>1. tx[c] \in {Idle} \cup Call
  BY DEF RaceTypeOK
<1>2. tx[c] = Idle => tx[c].call = "none"
  BY DEF Idle
<1>3. \A r \in SliceCall : r.call = "slice"
  BY DEF SliceCall
<1>4. \A r \in RelateCall : r.call = "relate"
  BY DEF RelateCall
<1>5. \A r \in ProgramCall : r.call = "program"
  BY DEF ProgramCall
<1>6. \A r \in ItemCall : r.call = "item"
  BY DEF ItemCall
<1>7. \A r \in CreateCall : r.call = "create"
  BY DEF CreateCall
<1>. QED  BY <1>1, <1>2, <1>3, <1>4, <1>5, <1>6, <1>7 DEF Call, Begun

\* Meeting another call changes nothing else of a transaction.
LEMMA MetTyped ==
  ASSUME NEW r \in Call
  PROVE  /\ [r EXCEPT !.met = TRUE] \in Call
         /\ [r EXCEPT !.met = TRUE].met
         /\ [r EXCEPT !.met = TRUE] # Idle
<1>1. CASE r \in SliceCall
  <2>1. [r EXCEPT !.met = TRUE] \in SliceCall
    BY <1>1 DEF SliceCall
  <2>. QED  BY <1>1, <2>1 DEF Call, SliceCall, Idle
<1>2. CASE r \in RelateCall
  <2>1. [r EXCEPT !.met = TRUE] \in RelateCall
    BY <1>2 DEF RelateCall
  <2>. QED  BY <1>2, <2>1 DEF Call, RelateCall, Idle
<1>3. CASE r \in ProgramCall
  <2>1. [r EXCEPT !.met = TRUE] \in ProgramCall
    BY <1>3 DEF ProgramCall
  <2>. QED  BY <1>3, <2>1 DEF Call, ProgramCall, Idle
<1>4. CASE r \in ItemCall
  <2>1. [r EXCEPT !.met = TRUE] \in ItemCall
    BY <1>4 DEF ItemCall
  <2>. QED  BY <1>4, <2>1 DEF Call, ItemCall, Idle
<1>5. CASE r \in CreateCall
  <2>1. [r EXCEPT !.met = TRUE] \in CreateCall
    BY <1>5 DEF CreateCall
  <2>. QED  BY <1>5, <2>1 DEF Call, CreateCall, Idle
<1>. QED  BY <1>1, <1>2, <1>3, <1>4, <1>5 DEF Call

LEMMA OvertakenTyped ==
  ASSUME RaceTypeOK
  PROVE  /\ Overtaken \in [Client -> {Idle} \cup Call]
         /\ \A d \in Client : Begun(d) => Overtaken[d].met /\ Overtaken[d] # Idle
         /\ \A d \in Client : ~Begun(d) => Overtaken[d] = Idle
         /\ \A d \in Client : Begun(d) => Overtaken[d] = [tx[d] EXCEPT !.met = TRUE]
<1>1. \A d \in Client : Begun(d) => tx[d] \in Call
  BY CallKinds
<1>2. \A d \in Client : Overtaken[d] = IF Begun(d) THEN [tx[d] EXCEPT !.met = TRUE] ELSE Idle
  BY DEF Overtaken
<1>3. \A d \in Client : Begun(d) => Overtaken[d] \in Call /\ Overtaken[d].met /\ Overtaken[d] # Idle
  BY <1>1, <1>2, MetTyped
<1>4. \A d \in Client : Overtaken[d] \in {Idle} \cup Call
  BY <1>2, <1>3
<1>5. Overtaken = [d \in Client |-> Overtaken[d]]
  BY DEF Overtaken
<1>. QED  BY <1>2, <1>3, <1>4, <1>5

\* The programs a search found are what its rows name.
LEMMA CandidatesFound ==
  ASSUME NEW st, StatusTyped(st), NEW p, NEW inc
  PROVE  /\ Candidates(p, st, inc) \subseteq LiftRow
         /\ Lifted(Candidates(p, st, inc)) = Promoted(p, st, inc)
<1>1. "active" \in AnyStatus
  BY DEF AnyStatus, ProgramStatuses
<1>2. Candidates(p, st, inc) = {[node |-> g, from |-> st[g], to |-> "active"] : g \in Promoted(p, st, inc)}
  BY DEF Candidates, PromotionRows
<1>3. Promoted(p, st, inc) \subseteq Program
  BY DEF Promoted
<1>4. \A g \in Promoted(p, st, inc) : [node |-> g, from |-> st[g], to |-> "active"] \in LiftRow
  BY <1>1, <1>3 DEF LiftRow, StatusTyped, Node
<1>5. \A g \in Promoted(p, st, inc) : [node |-> g, from |-> st[g], to |-> "active"].node = g
  OBVIOUS
<1>6. Candidates(p, st, inc) \subseteq LiftRow
  BY <1>2, <1>4
<1>. DEFINE row(g) == [node |-> g, from |-> st[g], to |-> "active"]
            S == Promoted(p, st, inc)
<1>7. \A g \in S : row(g).node = g
  BY <1>5
<1>8. Candidates(p, st, inc) = {row(g) : g \in S}
  BY <1>2
<1>. HIDE DEF row, S
<1>9. {r.node : r \in {row(g) : g \in S}} = S
  BY <1>7
<1>10. Lifted(Candidates(p, st, inc)) = S
  BY <1>8, <1>9 DEF Lifted
<1>. QED  BY <1>6, <1>10 DEF S

LEMMA LiftedTyped ==
  ASSUME NEW rows \in SUBSET LiftRow
  PROVE  Lifted(rows) \subseteq Program /\ rows \subseteq Transition
  BY DEF Lifted, LiftRow, Transition, Node

\* A status a patch carries is one of its kind.
LEMMA StatusPatchTyped ==
  /\ StatusPatches(ProposalPatches) \subseteq ProposalStatuses
  /\ StatusPatches(ProgramPatches) \subseteq ProgramStatuses
  /\ StatusPatches(WorkItemPatches) \subseteq WiStatuses
  BY RequestAssumption DEF StatusPatches, ProposalPatch, ProgramPatch, WorkItemPatch

\* ... and the patch that carries it says nothing else.
LEMMA PatchOfStatus ==
  /\ \A to \in StatusPatches(ProposalPatches) : to # Keep /\
       \E patch \in ProposalPatches : patch.status = to /\ patch.archived = Keep
  /\ \A to \in StatusPatches(ProgramPatches) : to # Keep /\
       \E patch \in ProgramPatches : patch.status = to /\ patch.archived = Keep
  /\ \A to \in StatusPatches(WorkItemPatches) : to # Keep /\
       \E patch \in WorkItemPatches :
         /\ patch.status = to /\ patch.archived = Keep /\ patch.project = Keep
         /\ patch.check_after = Keep /\ patch.invalidated_if = Keep
  BY StatusAlone DEF StatusPatches

LEMMA RowTyped ==
  ASSUME NEW n \in Node, NEW from \in AnyStatus, NEW to \in AnyStatus
  PROVE  TransitionRow(n, from, to) \subseteq Transition
  BY DEF TransitionRow, Transition

\* The steps of a transaction before its last change no table.
LEMMA SliceWriteTyped ==
  ASSUME RaceTypeOK, NEW c \in Client, SliceWrite(c)
  PROVE  /\ tx' \in [Client -> {Idle} \cup Call] /\ tx'[c] \in Call /\ Begun(c)
         /\ tx'[c].call = "slice" /\ tx'[c].p = tx[c].p /\ tx'[c].to = tx[c].to
         /\ tx'[c].before = tx[c].before /\ tx'[c].met = tx[c].met
         /\ tx'[c].at = "found"
         /\ tx'[c].lift = Candidates(tx[c].p, [status EXCEPT ![tx[c].p] = tx[c].to], includes)
         /\ \A d \in Client \ {c} : tx'[d] = tx[d]
<1>. DEFINE st == [status EXCEPT ![tx[c].p] = tx[c].to]
            found == Candidates(tx[c].p, st, includes)
<1>1. tx[c] \in SliceCall /\ Begun(c)
  BY CallKinds DEF SliceWrite
<1>2. StatusTyped(st)
  <2>1. tx[c].p \in Proposal /\ tx[c].to \in ProposalStatuses
    BY <1>1, StatusPatchTyped DEF SliceCall
  <2>. QED  BY <2>1, ProposalStatusTyped DEF RaceTypeOK, TypeOK, StatusTyped
<1>3. found \in SUBSET LiftRow
  BY <1>2, CandidatesFound
<1>4. tx' = [tx EXCEPT ![c] = [tx[c] EXCEPT !.at = "found", !.lift = found]]
  BY DEF SliceWrite, RaceTypeOK
<1>. HIDE DEF found, st
<1>5. [tx[c] EXCEPT !.at = "found", !.lift = found] \in SliceCall
  BY <1>1, <1>3 DEF SliceCall
<1>6. tx'[c] = [tx[c] EXCEPT !.at = "found", !.lift = found]
  BY <1>4 DEF RaceTypeOK
<1>7. tx'[c] \in Call /\ tx'[c].call = "slice"
  BY <1>5, <1>6 DEF Call, SliceCall
<1>8. /\ tx'[c].p = tx[c].p /\ tx'[c].to = tx[c].to
      /\ tx'[c].before = tx[c].before /\ tx'[c].met = tx[c].met
      /\ tx'[c].at = "found" /\ tx'[c].lift = found
  BY <1>1, <1>6 DEF SliceCall
<1>9. tx' \in [Client -> {Idle} \cup Call] /\ \A d \in Client \ {c} : tx'[d] = tx[d]
  BY <1>4, <1>6, <1>7 DEF RaceTypeOK
<1>. QED  BY <1>1, <1>7, <1>8, <1>9 DEF found, st

\* A check lets the call go on, or ends it.
Passed(c) ==
  /\ tx[c].to = Soaking /\ tx[c].before # Soaking => MaySoak(tx[c].g)
  /\ tx'[c] \in Call /\ tx'[c].call = "program"
  /\ tx'[c].g = tx[c].g /\ tx'[c].to = tx[c].to
  /\ tx'[c].before = tx[c].before /\ tx'[c].met = tx[c].met

LEMMA ProgramCheckTyped ==
  ASSUME RaceTypeOK, NEW c \in Client, ProgramCheck(c)
  PROVE  /\ tx' \in [Client -> {Idle} \cup Call] /\ Begun(c)
         /\ \A d \in Client \ {c} : tx'[d] = tx[d]
         /\ tx'[c] = Idle \/ Passed(c)
<1>1. tx[c] \in ProgramCall /\ Begun(c)
  BY CallKinds DEF ProgramCheck
<1>. DEFINE checked == [tx[c] EXCEPT !.at = "checked"]
            refused == tx[c].to = Soaking /\ tx[c].before # Soaking /\ ~MaySoak(tx[c].g)
<1>2. tx' = [tx EXCEPT ![c] = IF refused THEN Idle ELSE checked]
  BY DEF ProgramCheck
<1>3. /\ checked \in ProgramCall /\ checked.g = tx[c].g /\ checked.to = tx[c].to
      /\ checked.before = tx[c].before /\ checked.met = tx[c].met /\ checked.call = "program"
  BY <1>1 DEF ProgramCall
<1>4. refused \/ (tx[c].to = Soaking /\ tx[c].before # Soaking => MaySoak(tx[c].g))
  OBVIOUS
<1>. HIDE DEF checked, refused
<1>5. checked \in Call
  BY <1>3 DEF Call
<1>6. tx'[c] = IF refused THEN Idle ELSE checked
  BY <1>2 DEF RaceTypeOK
<1>7. tx' \in [Client -> {Idle} \cup Call] /\ \A d \in Client \ {c} : tx'[d] = tx[d]
  BY <1>2, <1>5 DEF RaceTypeOK
<1>8. CASE refused
  BY <1>1, <1>6, <1>7, <1>8
<1>9. CASE ~refused
  BY <1>1, <1>3, <1>4, <1>5, <1>6, <1>7, <1>9 DEF Passed
<1>. QED  BY <1>8, <1>9

\* A transaction that begins: what it has read, its own row of tx and everybody else's.
Opens(c, read) ==
  /\ read \in Call /\ ~Begun(c) /\ read.met = Meets
  /\ tx' = [Overtaken EXCEPT ![c] = read]
  /\ UNCHANGED vars

Reads(c) ==
  \/ \E p \in Proposal, to \in StatusPatches(ProposalPatches) : SliceRead(c, p, to)
  \/ \E g \in Program, p \in Proposal : RelateInsert(c, g, p)
  \/ \E g \in Program, to \in StatusPatches(ProgramPatches) : ProgramRead(c, g, to)
  \/ \E w \in WorkItem, to \in StatusPatches(WorkItemPatches) : ItemRead(c, w, to)
  \/ \E g \in Program, S \in SUBSET Proposal : CreateProgramRead(c, g, S)

\* What it has read is so.
Fresh(read) ==
  /\ read.call = "slice" =>
       Exists(read.p) /\ read.before = status[read.p] /\ read.at = "read"
  /\ read.call = "relate" =>
       /\ Exists(read.g) /\ Exists(read.p)
       /\ read.lift = Candidates(read.p, status, includes \cup {<<read.g, read.p>>})
  /\ read.call = "program" =>
       Exists(read.g) /\ read.before = status[read.g] /\ read.at = "read"
  /\ read.call = "item" => Exists(read.w) /\ read.before = status[read.w]
  /\ read.call = "create" =>
       /\ ~Exists(read.g)
       /\ \A p \in read.slices : Exists(p)
       /\ read.started = SlicesStarted(read.slices)

LEMMA ReadsOpen ==
  ASSUME RaceTypeOK, NEW c \in Client, Reads(c)
  PROVE  \E read : Opens(c, read) /\ Fresh(read) /\ MayStart(c, read.call)
<1>a. StatusTyped(status) /\ Meets \in BOOLEAN
  BY DEF RaceTypeOK, TypeOK, StatusTyped, Meets
<1>1. ASSUME NEW p \in Proposal, NEW to \in StatusPatches(ProposalPatches), SliceRead(c, p, to)
      PROVE  \E read : Opens(c, read) /\ Fresh(read) /\ MayStart(c, read.call)
  <2>. DEFINE read == [call |-> "slice", at |-> "read", p |-> p, to |-> to,
                       before |-> status[p], lift |-> {}, met |-> Meets]
  <2>1. status[p] \in AnyStatus
    BY <1>a DEF StatusTyped, Node
  <2>2. read \in SliceCall
    BY <1>a, <2>1 DEF SliceCall
  <2>3. read \in Call
    BY <2>2 DEF Call
  <2>4. /\ read.call = "slice" /\ read.met = Meets
        /\ read.p = p /\ read.before = status[p] /\ read.at = "read"
    OBVIOUS
  <2>5. MayStart(c, "slice") /\ Start(c, read) /\ UNCHANGED vars /\ Exists(p)
    BY <1>1 DEF SliceRead
  <2>. HIDE DEF read
  <2>6. Opens(c, read)
    BY <2>3, <2>4, <2>5 DEF Opens, Start, MayStart
  <2>7. Fresh(read)
    BY <2>4, <2>5 DEF Fresh
  <2>. QED  BY <2>4, <2>5, <2>6, <2>7
<1>2. ASSUME NEW g \in Program, NEW p \in Proposal, RelateInsert(c, g, p)
      PROVE  \E read : Opens(c, read) /\ Fresh(read) /\ MayStart(c, read.call)
  <2>. DEFINE lift == Candidates(p, status, includes \cup {<<g, p>>})
              read == [call |-> "relate", g |-> g, p |-> p, lift |-> lift, met |-> Meets]
  <2>1. lift \in SUBSET LiftRow
    BY <1>a, CandidatesFound
  <2>. HIDE DEF lift
  <2>2. read \in RelateCall
    BY <1>a, <2>1 DEF RelateCall
  <2>3. read \in Call
    BY <2>2 DEF Call
  <2>4. /\ read.call = "relate" /\ read.met = Meets
        /\ read.g = g /\ read.p = p /\ read.lift = lift
    OBVIOUS
  <2>5. MayStart(c, "relate") /\ Start(c, read) /\ UNCHANGED vars /\ Exists(g) /\ Exists(p)
    BY <1>2 DEF RelateInsert, lift
  <2>. HIDE DEF read
  <2>6. Opens(c, read)
    BY <2>3, <2>4, <2>5 DEF Opens, Start, MayStart
  <2>7. Fresh(read)
    BY <2>4, <2>5 DEF Fresh, lift
  <2>. QED  BY <2>4, <2>5, <2>6, <2>7
<1>3. ASSUME NEW g \in Program, NEW to \in StatusPatches(ProgramPatches), ProgramRead(c, g, to)
      PROVE  \E read : Opens(c, read) /\ Fresh(read) /\ MayStart(c, read.call)
  <2>. DEFINE read == [call |-> "program", at |-> "read", g |-> g, to |-> to,
                       before |-> status[g], met |-> Meets]
  <2>1. status[g] \in AnyStatus
    BY <1>a DEF StatusTyped, Node
  <2>2. read \in ProgramCall
    BY <1>a, <2>1 DEF ProgramCall
  <2>3. read \in Call
    BY <2>2 DEF Call
  <2>4. /\ read.call = "program" /\ read.met = Meets
        /\ read.g = g /\ read.before = status[g] /\ read.at = "read"
    OBVIOUS
  <2>5. MayStart(c, "program") /\ Start(c, read) /\ UNCHANGED vars /\ Exists(g)
    BY <1>3 DEF ProgramRead
  <2>. HIDE DEF read
  <2>6. Opens(c, read)
    BY <2>3, <2>4, <2>5 DEF Opens, Start, MayStart
  <2>7. Fresh(read)
    BY <2>4, <2>5 DEF Fresh
  <2>. QED  BY <2>4, <2>5, <2>6, <2>7
<1>4. ASSUME NEW w \in WorkItem, NEW to \in StatusPatches(WorkItemPatches), ItemRead(c, w, to)
      PROVE  \E read : Opens(c, read) /\ Fresh(read) /\ MayStart(c, read.call)
  <2>. DEFINE read == [call |-> "item", w |-> w, to |-> to, before |-> status[w], met |-> Meets]
  <2>1. status[w] \in AnyStatus
    BY <1>a DEF StatusTyped, Node
  <2>2. read \in ItemCall
    BY <1>a, <2>1 DEF ItemCall
  <2>3. read \in Call
    BY <2>2 DEF Call
  <2>4. /\ read.call = "item" /\ read.met = Meets
        /\ read.w = w /\ read.before = status[w]
    OBVIOUS
  <2>5. MayStart(c, "item") /\ Start(c, read) /\ UNCHANGED vars /\ Exists(w)
    BY <1>4 DEF ItemRead
  <2>. HIDE DEF read
  <2>6. Opens(c, read)
    BY <2>3, <2>4, <2>5 DEF Opens, Start, MayStart
  <2>7. Fresh(read)
    BY <2>4, <2>5 DEF Fresh
  <2>. QED  BY <2>4, <2>5, <2>6, <2>7
<1>5. ASSUME NEW g \in Program, NEW S \in SUBSET Proposal, CreateProgramRead(c, g, S)
      PROVE  \E read : Opens(c, read) /\ Fresh(read) /\ MayStart(c, read.call)
  <2>. DEFINE started == SlicesStarted(S)
              read == [call |-> "create", g |-> g, slices |-> S, started |-> started,
                       met |-> Meets]
  <2>1. started \in BOOLEAN
    BY DEF SlicesStarted
  <2>. HIDE DEF started
  <2>2. read \in CreateCall
    BY <1>a, <2>1 DEF CreateCall
  <2>3. read \in Call
    BY <2>2 DEF Call
  <2>4. /\ read.call = "create" /\ read.met = Meets
        /\ read.g = g /\ read.slices = S /\ read.started = started
    OBVIOUS
  <2>5. MayStart(c, "create") /\ Start(c, read) /\ UNCHANGED vars /\ ~Exists(g) /\ \A p \in S : Exists(p)
    BY <1>5 DEF CreateProgramRead, started
  <2>. HIDE DEF read
  <2>6. Opens(c, read)
    BY <2>3, <2>4, <2>5 DEF Opens, Start, MayStart
  <2>7. Fresh(read)
    BY <2>4, <2>5 DEF Fresh, started
  <2>. QED  BY <2>4, <2>5, <2>6, <2>7
<1>. QED  BY <1>1, <1>2, <1>3, <1>4, <1>5 DEF Reads

Commits(c) ==
  \/ SliceCommit(c) \/ RelateCommit(c) \/ ProgramCommit(c) \/ ItemCommit(c)
  \/ CreateProgramCommit(c)

Singles == CreateOthers \/ Edges

\* RaceNext, by how far a call is.
LEMMA RaceKinds ==
  ASSUME RaceNext
  PROVE  \/ Singles
         \/ \E c \in Client : Reads(c) \/ SliceWrite(c) \/ ProgramCheck(c) \/ Commits(c) \/ Rollback(c)
  BY DEF RaceNext, Singles, Reads, Commits

\* A call of one statement is a call of Planning.
LEMMA SinglesAreSteps ==
  ASSUME Singles
  PROVE  Next /\ tx' = Overtaken
<1>1. ASSUME CreateOthers PROVE Next
  BY <1>1 DEF CreateOthers, Next, CreateSome
<1>2. ASSUME Edges PROVE Next
  BY <1>2 DEF Edges, Next, RelateSome
<1>. QED  BY <1>1, <1>2 DEF Singles, CreateOthers, Edges

\* A commit keeps the tables typed, whatever was committed since the call began.
LEMMA CommitsTyped ==
  ASSUME RaceTypeOK, NEW c \in Client, Commits(c)
  PROVE  TypeOK' /\ tx' = [tx EXCEPT ![c] = Idle] /\ Begun(c)
<1>. USE DEF Committed
<1>a. /\ StatusTyped(status) /\ awaiting \subseteq Node /\ TypeOK
      /\ includes \subseteq Program \X Proposal
  BY DEF RaceTypeOK, TypeOK, StatusTyped
<1>b. ASSUME StatusTyped(status'), logged' \subseteq Transition, awaiting' \subseteq Node,
             includes' \subseteq Program \X Proposal,
             UNCHANGED <<project, archived, soakFields, covers, soaks>>
      PROVE  TypeOK'
  BY <1>a, <1>b DEF TypeOK, StatusTyped
<1>1. ASSUME SliceCommit(c) PROVE TypeOK' /\ Begun(c)
  <2>. DEFINE p == tx[c].p
              st == [status EXCEPT ![p] = tx[c].to]
              lift == tx[c].lift
  <2>1. tx[c] \in SliceCall /\ Begun(c)
    BY <1>1, CallKinds DEF SliceCommit
  <2>2. /\ p \in Proposal /\ tx[c].to \in ProposalStatuses /\ tx[c].before \in AnyStatus
        /\ lift \in SUBSET LiftRow
    BY <2>1, StatusPatchTyped DEF SliceCall
  <2>3. StatusTyped(st)
    BY <1>a, <2>2, ProposalStatusTyped
  <2>4. Lifted(lift) \subseteq Program /\ lift \subseteq Transition
    BY <2>2, LiftedTyped
  <2>5. StatusTyped(status')
    <3>1. status' = WithPromotion(st, Lifted(lift))
      BY <1>1 DEF SliceCommit
    <3>. HIDE DEF st, lift
    <3>. QED  BY <2>3, <2>4, <3>1, PromotionTyped
  <2>6. logged' \subseteq Transition
    <3>1. p \in Node /\ tx[c].to \in AnyStatus
      BY <2>2 DEF Node, AnyStatus
    <3>2. TransitionRow(p, tx[c].before, tx[c].to) \subseteq Transition
      BY <2>2, <3>1, RowTyped
    <3>. QED  BY <1>1, <2>4, <3>2 DEF SliceCommit
  <2>7. awaiting' \subseteq Node
    <3>1. awaiting' = Settled(p, status', archived)
      BY <1>1 DEF SliceCommit
    <3>. QED  BY <1>a, <3>1, SettledTyped
  <2>8. UNCHANGED <<project, archived, soakFields, includes, covers, soaks>>
    BY <1>1 DEF SliceCommit, edgeVars
  <2>. QED  BY <1>a, <1>b, <2>1, <2>5, <2>6, <2>7, <2>8
<1>2. ASSUME RelateCommit(c) PROVE TypeOK' /\ Begun(c)
  <2>1. tx[c] \in RelateCall /\ Begun(c)
    BY <1>2, CallKinds DEF RelateCommit
  <2>2. tx[c].g \in Program /\ tx[c].p \in Proposal /\ tx[c].lift \in SUBSET LiftRow
    BY <2>1 DEF RelateCall
  <2>3. Lifted(tx[c].lift) \subseteq Program /\ tx[c].lift \subseteq Transition
    BY <2>2, LiftedTyped
  <2>4. StatusTyped(status')
    <3>1. status' = WithPromotion(status, Lifted(tx[c].lift))
      BY <1>2 DEF RelateCommit
    <3>. QED  BY <1>a, <2>3, <3>1, PromotionTyped
  <2>5. logged' \subseteq Transition
    BY <1>2, <2>3 DEF RelateCommit
  <2>6. includes' \subseteq Program \X Proposal
    BY <1>2, <1>a, <2>2 DEF RelateCommit
  <2>. QED  BY <1>2, <1>a, <1>b, <2>1, <2>4, <2>5, <2>6 DEF RelateCommit
<1>3. ASSUME ProgramCommit(c) PROVE TypeOK' /\ Begun(c)
  <2>1. tx[c] \in ProgramCall /\ Begun(c)
    BY <1>3, CallKinds DEF ProgramCommit
  <2>2. /\ tx[c].g \in Program /\ tx[c].to \in ProgramStatuses /\ tx[c].before \in AnyStatus
    BY <2>1, StatusPatchTyped DEF ProgramCall
  <2>3. StatusTyped(status')
    <3>1. status' = [status EXCEPT ![tx[c].g] = tx[c].to]
      BY <1>3 DEF ProgramCommit
    <3>. QED  BY <1>a, <2>2, <3>1, ProgramStatusTyped
  <2>4. logged' \subseteq Transition
    <3>1. tx[c].g \in Node /\ tx[c].to \in AnyStatus
      BY <2>2 DEF Node, AnyStatus
    <3>. QED  BY <1>3, <2>2, <3>1, RowTyped DEF ProgramCommit
  <2>5. awaiting' \subseteq Node
    <3>1. awaiting' = Settled(tx[c].g, status', archived)
      BY <1>3 DEF ProgramCommit
    <3>. QED  BY <1>a, <3>1, SettledTyped
  <2>6. UNCHANGED <<project, archived, soakFields, includes, covers, soaks>>
    BY <1>3 DEF ProgramCommit, edgeVars
  <2>. QED  BY <1>a, <1>b, <2>1, <2>3, <2>4, <2>5, <2>6
<1>4. ASSUME ItemCommit(c) PROVE TypeOK' /\ Begun(c)
  <2>1. tx[c] \in ItemCall /\ Begun(c)
    BY <1>4, CallKinds DEF ItemCommit
  <2>2. /\ tx[c].w \in WorkItem /\ tx[c].to \in WiStatuses /\ tx[c].before \in AnyStatus
    BY <2>1, StatusPatchTyped DEF ItemCall
  <2>3. StatusTyped(status')
    <3>1. status' = [status EXCEPT ![tx[c].w] = tx[c].to]
      BY <1>4 DEF ItemCommit
    <3>. QED  BY <1>a, <2>2, <3>1, WorkItemStatusTyped
  <2>4. logged' \subseteq Transition
    <3>1. tx[c].w \in Node /\ tx[c].to \in AnyStatus
      BY <2>2 DEF Node, AnyStatus
    <3>. QED  BY <1>4, <2>2, <3>1, RowTyped DEF ItemCommit
  <2>5. awaiting' \subseteq Node
    <3>1. awaiting' = Settled(tx[c].w, status', archived)
      BY <1>4 DEF ItemCommit
    <3>. QED  BY <1>a, <3>1, SettledTyped
  <2>6. UNCHANGED <<project, archived, soakFields, includes, covers, soaks>>
    BY <1>4 DEF ItemCommit, edgeVars
  <2>. QED  BY <1>a, <1>b, <2>1, <2>3, <2>4, <2>5, <2>6
<1>5. ASSUME CreateProgramCommit(c) PROVE TypeOK' /\ Begun(c)
  <2>1. tx[c] \in CreateCall /\ Begun(c)
    BY <1>5, CallKinds DEF CreateProgramCommit
  <2>2. tx[c].g \in Program /\ tx[c].slices \in SUBSET Proposal
    BY <2>1 DEF CreateCall
  <2>3. StatusTyped(status')
    <3>. DEFINE s == IF tx[c].started THEN "active" ELSE ProgramInitial
    <3>1. status' = [status EXCEPT ![tx[c].g] = s]
      BY <1>5 DEF CreateProgramCommit
    <3>2. s \in ProgramStatuses
      BY DEF ProgramStatuses, ProgramInitial
    <3>. QED  BY <1>a, <2>2, <3>1, <3>2, ProgramStatusTyped
  <2>4. includes' \subseteq Program \X Proposal
    BY <1>5, <1>a, <2>2 DEF CreateProgramCommit
  <2>. QED  BY <1>5, <1>a, <1>b, <2>1, <2>3, <2>4 DEF CreateProgramCommit
<1>6. tx' = [tx EXCEPT ![c] = Idle]
  BY DEF Commits, SliceCommit, RelateCommit, ProgramCommit, ItemCommit, CreateProgramCommit
<1>. QED  BY <1>1, <1>2, <1>3, <1>4, <1>5, <1>6 DEF Commits

LEMMA RaceTypeStep == RaceTypeOK /\ [RaceNext]_raceVars => RaceTypeOK'
<1>. SUFFICES ASSUME RaceTypeOK, [RaceNext]_raceVars PROVE RaceTypeOK'
  OBVIOUS
<1>a. TypeOK /\ tx \in [Client -> {Idle} \cup Call]
  BY DEF RaceTypeOK
<1>b. ASSUME [Next]_vars PROVE TypeOK'
  BY <1>a, <1>b, TypeStep
<1>1. CASE Singles
  BY <1>1, <1>b, SinglesAreSteps, OvertakenTyped DEF RaceTypeOK
<1>2. ASSUME NEW c \in Client, Reads(c) PROVE RaceTypeOK'
  <2>1. PICK read : Opens(c, read)
    BY <1>2, ReadsOpen
  <2>2. tx' \in [Client -> {Idle} \cup Call]
    BY <2>1, OvertakenTyped DEF Opens
  <2>. QED  BY <1>b, <2>1, <2>2 DEF Opens, RaceTypeOK
<1>3. ASSUME NEW c \in Client, SliceWrite(c) PROVE RaceTypeOK'
  <2>1. UNCHANGED vars
    BY <1>3 DEF SliceWrite
  <2>. QED  BY <1>3, <1>b, <2>1, SliceWriteTyped DEF RaceTypeOK
<1>4. ASSUME NEW c \in Client, ProgramCheck(c) PROVE RaceTypeOK'
  <2>1. UNCHANGED vars
    BY <1>4 DEF ProgramCheck
  <2>. QED  BY <1>4, <1>b, <2>1, ProgramCheckTyped DEF RaceTypeOK
<1>5. ASSUME NEW c \in Client, Commits(c) PROVE RaceTypeOK'
  <2>1. TypeOK' /\ tx' = [tx EXCEPT ![c] = Idle]
    BY <1>5, CommitsTyped
  <2>. QED  BY <1>a, <2>1 DEF RaceTypeOK
<1>6. ASSUME NEW c \in Client, Rollback(c) PROVE RaceTypeOK'
  BY <1>6, <1>a, <1>b DEF Rollback, RaceTypeOK
<1>7. CASE UNCHANGED raceVars
  <2>1. UNCHANGED vars /\ tx' = tx
    BY <1>7 DEF raceVars
  <2>. QED  BY <1>a, <1>b, <2>1 DEF RaceTypeOK
<1>. QED  BY <1>1, <1>2, <1>3, <1>4, <1>5, <1>6, <1>7, RaceKinds

\* However the transactions interleave, every kind of node keeps to its own vocabulary.
THEOREM RacesTypeCorrect == RaceSpec => []RaceTypeOK
<1>1. RaceInit => RaceTypeOK
  BY PlanningTypeInit DEF RaceInit, RaceTypeOK
<1>. QED  BY <1>1, RaceTypeStep, PTL DEF RaceSpec

-------------------------------------------------------------------------------
(***************************************************************************)
(* A call that meets no other is a call of Planning.                       *)
(***************************************************************************)

LEMMA AloneStep == RaceTypeOK /\ AloneInv /\ [RaceNext]_raceVars => AloneInv'
<1>. SUFFICES ASSUME RaceTypeOK, AloneInv, [RaceNext]_raceVars PROVE AloneInv'
  OBVIOUS
<1>a. tx \in [Client -> {Idle} \cup Call]
  BY DEF RaceTypeOK
<1>b. ASSUME NEW c \in Client, Begun(c), tx'[c] = Idle, \A d \in Client \ {c} : tx'[d] = tx[d]
      PROVE  AloneInv'
  BY <1>b DEF AloneInv, Begun
<1>c. ASSUME NEW c \in Client, Begun(c), \A d \in Client \ {c} : tx'[d] = tx[d],
             tx'[c].met = tx[c].met, ~tx[c].met => UpToDate(c)'
      PROVE  AloneInv'
  <2>. SUFFICES ASSUME NEW e \in Client, Begun(e)', ~tx'[e].met
                PROVE  (\A d \in Client \ {e} : ~Begun(d)') /\ UpToDate(e)'
    BY DEF AloneInv
  <2>1. e = c
    BY <1>c DEF AloneInv, Begun
  <2>. QED  BY <1>c, <2>1 DEF AloneInv, Begun
<1>1. CASE Singles
  <2>1. \A e \in Client : Begun(e)' => tx'[e].met
    BY <1>1, SinglesAreSteps, OvertakenTyped DEF Begun
  <2>. QED  BY <2>1 DEF AloneInv
<1>2. ASSUME NEW c \in Client, Reads(c) PROVE AloneInv'
  <2>1. PICK read : Opens(c, read) /\ Fresh(read)
    BY <1>2, ReadsOpen
  <2>2. /\ tx'[c] = read
        /\ \A d \in Client \ {c} : tx'[d] = Overtaken[d]
    BY <2>1, OvertakenTyped DEF Opens
  <2>. SUFFICES ASSUME NEW e \in Client, Begun(e)', ~tx'[e].met
                PROVE  (\A d \in Client \ {e} : ~Begun(d)') /\ UpToDate(e)'
    BY DEF AloneInv
  <2>3. e = c
    BY <2>2, OvertakenTyped DEF Begun
  <2>4. \A d \in Client : ~Begun(d)
    BY <2>1, <2>2, <2>3 DEF Opens, Meets
  <2>5. \A d \in Client \ {e} : ~Begun(d)'
    BY <2>2, <2>3, <2>4, OvertakenTyped DEF Begun
  <2>6. UpToDate(c)'
    <3>1. UNCHANGED <<status, includes, soaks>>
      BY <2>1 DEF Opens, vars
    <3>2. read.call \in {"slice", "program"} => read.at # "found" /\ read.at # "checked"
      BY <2>1 DEF Fresh
    <3>. QED  BY <2>1, <2>2, <3>1, <3>2 DEF Fresh, UpToDate, Exists, SlicesStarted
  <2>. QED  BY <2>3, <2>5, <2>6
<1>3. ASSUME NEW c \in Client, SliceWrite(c) PROVE AloneInv'
  <2>1. UNCHANGED <<status, includes, soaks>>
    BY <1>3 DEF SliceWrite, vars
  <2>2. tx[c].call = "slice" /\ ~tx[c].met => Exists(tx[c].p) /\ tx[c].before = status[tx[c].p]
    BY <1>3, CallKinds DEF AloneInv, UpToDate
  <2>3. tx[c].call = "slice"
    BY <1>3 DEF SliceWrite
  <2>4. ~tx[c].met => UpToDate(c)'
    BY <1>3, <2>1, <2>2, <2>3, SliceWriteTyped DEF UpToDate, Exists
  <2>. QED  BY <1>3, <1>c, <2>4, SliceWriteTyped
<1>4. ASSUME NEW c \in Client, ProgramCheck(c) PROVE AloneInv'
  <2>1. UNCHANGED <<status, includes, soaks>>
    BY <1>4 DEF ProgramCheck, vars
  <2>2. ~tx[c].met => Exists(tx[c].g) /\ tx[c].before = status[tx[c].g]
    BY <1>4, CallKinds DEF AloneInv, UpToDate, ProgramCheck
  <2>3. CASE tx'[c] = Idle
    BY <1>4, <1>b, <2>3, ProgramCheckTyped
  <2>4. CASE tx'[c] # Idle
    <3>1. Passed(c) /\ Begun(c)
      BY <1>4, <2>4, ProgramCheckTyped
    <3>2. \A d \in Client \ {c} : tx'[d] = tx[d]
      BY <1>4, ProgramCheckTyped
    <3>3. MaySoak(tx[c].g) => MaySoak(tx[c].g)'
      BY <2>1, <3>1 DEF MaySoak, Passed
    <3>4. ASSUME ~tx[c].met PROVE UpToDate(c)'
      BY <2>1, <2>2, <3>1, <3>3, <3>4 DEF UpToDate, Exists, Passed
    <3>. QED  BY <1>c, <3>1, <3>2, <3>4 DEF Passed
  <2>. QED  BY <2>3, <2>4
<1>5. ASSUME NEW c \in Client, Commits(c) PROVE AloneInv'
  BY <1>5, <1>a, <1>b, CommitsTyped
<1>6. ASSUME NEW c \in Client, Rollback(c) PROVE AloneInv'
  BY <1>6, <1>a, <1>b DEF Rollback
<1>7. CASE UNCHANGED raceVars
  BY <1>7 DEF raceVars, vars, AloneInv, UpToDate, Begun, Exists, SlicesStarted, MaySoak
<1>. QED  BY <1>1, <1>2, <1>3, <1>4, <1>5, <1>6, <1>7, RaceKinds

\* What a call commits while all it has read is so is what its action of Planning does.
LEMMA CommitsAreSteps ==
  ASSUME RaceTypeOK, NEW c \in Client, Commits(c), UpToDate(c)
  PROVE  Next
<1>. USE DEF Committed
<1>a. /\ StatusTyped(status) /\ project \in [Node -> Project \cup {NoProject}]
      /\ soakFields \in [WorkItem -> SUBSET SoakField]
  BY DEF RaceTypeOK, TypeOK, StatusTyped
<1>1. CASE SliceCommit(c)
  <2>. DEFINE p == tx[c].p
              to == tx[c].to
              st == [status EXCEPT ![p] = to]
  <2>1. p \in Proposal /\ to \in StatusPatches(ProposalPatches)
    BY <1>1, CallKinds DEF SliceCommit, SliceCall
  <2>2. PICK patch \in ProposalPatches : patch.status = to /\ patch.archived = Keep /\ to # Keep
    BY <2>1, PatchOfStatus
  <2>3. Exists(p) /\ tx[c].before = status[p] /\ tx[c].lift = Candidates(p, st, includes)
    BY <1>1 DEF UpToDate, SliceCommit
  <2>4. StatusTyped(st)
    BY <1>a, <2>1, ProposalStatusTyped, StatusPatchTyped
  <2>5. Lifted(tx[c].lift) = Promoted(p, st, includes)
    BY <2>3, <2>4, CandidatesFound
  <2>6. tx[c].lift = PromotionRows(st, Promoted(p, st, includes))
    BY <2>3 DEF Candidates
  <2>7. st = [status EXCEPT ![p] = Patched(status[p], patch.status)] /\ st[p] = to
    BY <1>a, <2>1, <2>2 DEF Patched, StatusTyped, Node
  <2>8. /\ status' = WithPromotion(st, Promoted(p, st, includes))
        /\ logged' = TransitionRow(p, status[p], st[p])
                       \cup PromotionRows(st, Promoted(p, st, includes))
        /\ archived' = Flagged(archived, p, patch.archived)
        /\ awaiting' = Settled(p, status', archived')
        /\ UNCHANGED <<project, soakFields, edgeVars>>
    <3>1. archived' = archived /\ Flagged(archived, p, patch.archived) = archived
      BY <1>1, <2>2 DEF SliceCommit, Flagged, Keep
    <3>. QED  BY <1>1, <2>3, <2>5, <2>6, <2>7, <3>1 DEF SliceCommit
  <2>9. UpdateProposal(p, patch)
    BY <2>2, <2>3, <2>7, <2>8 DEF UpdateProposal
  <2>. QED  BY <2>1, <2>9 DEF Next, UpdateSome
<1>2. CASE RelateCommit(c)
  <2>. DEFINE g == tx[c].g
              p == tx[c].p
              inc == includes \cup {<<g, p>>}
  <2>1. g \in Program /\ p \in Proposal
    BY <1>2, CallKinds DEF RelateCommit, RelateCall
  <2>2. Exists(g) /\ Exists(p) /\ tx[c].lift = Candidates(p, status, inc)
    BY <1>2 DEF UpToDate, RelateCommit
  <2>3. Lifted(tx[c].lift) = Promoted(p, status, inc)
    BY <1>a, <2>2, CandidatesFound
  <2>4. RelateIncludes(g, p)
    BY <1>2, <2>2, <2>3 DEF RelateCommit, RelateIncludes, Candidates
  <2>. QED  BY <2>1, <2>4 DEF Next, RelateSome
<1>3. CASE ProgramCommit(c)
  <2>. DEFINE g == tx[c].g
              to == tx[c].to
  <2>1. g \in Program /\ to \in StatusPatches(ProgramPatches)
    BY <1>3, CallKinds DEF ProgramCommit, ProgramCall
  <2>2. PICK patch \in ProgramPatches : patch.status = to /\ patch.archived = Keep /\ to # Keep
    BY <2>1, PatchOfStatus
  <2>3. /\ Exists(g) /\ tx[c].before = status[g]
        /\ to = Soaking /\ status[g] # Soaking => MaySoak(g)
    BY <1>3 DEF UpToDate, ProgramCommit
  <2>4. archived' = archived /\ Flagged(archived, g, patch.archived) = archived
    BY <1>3, <2>2 DEF ProgramCommit, Flagged, Keep
  <2>5. status' = [status EXCEPT ![g] = to] /\ status'[g] = to /\ Patched(status[g], patch.status) = to
    BY <1>3, <1>a, <2>1, <2>2 DEF ProgramCommit, Patched, StatusTyped, Node
  <2>6. UpdateProgram(g, patch)
    BY <1>3, <2>2, <2>3, <2>4, <2>5 DEF ProgramCommit, UpdateProgram
  <2>. QED  BY <2>1, <2>6 DEF Next, UpdateSome
<1>4. CASE ItemCommit(c)
  <2>. DEFINE w == tx[c].w
              to == tx[c].to
  <2>1. w \in WorkItem /\ to \in StatusPatches(WorkItemPatches)
    BY <1>4, CallKinds DEF ItemCommit, ItemCall
  <2>2. PICK patch \in WorkItemPatches :
          /\ patch.status = to /\ patch.archived = Keep /\ patch.project = Keep
          /\ patch.check_after = Keep /\ patch.invalidated_if = Keep /\ to # Keep
    BY <2>1, PatchOfStatus
  <2>3. Exists(w) /\ tx[c].before = status[w]
    BY <1>4 DEF UpToDate, ItemCommit
  <2>4. archived' = archived /\ Flagged(archived, w, patch.archived) = archived
    BY <1>4, <2>2 DEF ItemCommit, Flagged, Keep
  <2>5. status' = [status EXCEPT ![w] = to] /\ status'[w] = to /\ Patched(status[w], patch.status) = to
    BY <1>4, <1>a, <2>1, <2>2 DEF ItemCommit, Patched, StatusTyped, Node
  <2>6. project' = [project EXCEPT ![w] = Patched(@, patch.project)]
    BY <1>4, <1>a, <2>1, <2>2 DEF ItemCommit, Patched, Node
  <2>7. soakFields' = [soakFields EXCEPT ![w] =
          Flagged(Flagged(@, "check_after", patch.check_after), "invalidated_if", patch.invalidated_if)]
    <3>1. Flagged(Flagged(soakFields[w], "check_after", patch.check_after),
                  "invalidated_if", patch.invalidated_if) = soakFields[w]
      BY <2>2 DEF Flagged, Keep
    <3>. QED  BY <1>4, <1>a, <2>1, <3>1 DEF ItemCommit
  <2>8. UpdateWorkItem(w, patch)
    BY <1>4, <2>3, <2>4, <2>5, <2>6, <2>7 DEF ItemCommit, UpdateWorkItem
  <2>. QED  BY <2>1, <2>8 DEF Next, UpdateSome
<1>5. CASE CreateProgramCommit(c)
  <2>1. tx[c].g \in Program /\ tx[c].slices \in SUBSET Proposal
    BY <1>5, CallKinds DEF CreateProgramCommit, CreateCall
  <2>2. CreateProgram(tx[c].g, tx[c].slices)
    BY <1>5 DEF UpToDate, CreateProgramCommit, CreateProgram
  <2>. QED  BY <2>1, <2>2 DEF Next, CreateSome
<1>. QED  BY <1>1, <1>2, <1>3, <1>4, <1>5 DEF Commits

\* Everything but a commit that has met another call is a step of Planning.
LEMMA AtomicStep ==
  ASSUME RaceTypeOK, AloneInv, [RaceNext]_raceVars
  PROVE  [Next]_vars \/ \E c \in Client : Commits(c) /\ tx[c].met /\ Begun(c) /\ tx'[c] = Idle
<1>1. CASE Singles
  BY <1>1, SinglesAreSteps
<1>2. ASSUME NEW c \in Client, Reads(c) PROVE UNCHANGED vars
  BY <1>2, ReadsOpen DEF Opens
<1>3. ASSUME NEW c \in Client, SliceWrite(c) \/ ProgramCheck(c) \/ Rollback(c) PROVE UNCHANGED vars
  BY <1>3 DEF SliceWrite, ProgramCheck, Rollback
<1>4. ASSUME NEW c \in Client, Commits(c)
      PROVE  Next \/ (Commits(c) /\ tx[c].met /\ Begun(c) /\ tx'[c] = Idle)
  <2>1. Begun(c) /\ tx'[c] = Idle
    BY <1>4, CommitsTyped DEF RaceTypeOK
  <2>. QED  BY <1>4, <2>1, CommitsAreSteps DEF AloneInv
<1>5. CASE UNCHANGED raceVars
  BY <1>5 DEF raceVars
<1>. QED  BY <1>1, <1>2, <1>3, <1>4, <1>5, RaceKinds

LEMMA AloneInvariant == RaceSpec => [](RaceTypeOK /\ AloneInv)
<1>1. RaceInit => AloneInv
  BY DEF RaceInit, AloneInv, Begun
<1>. QED  BY <1>1, RacesTypeCorrect, AloneStep, PTL DEF RaceSpec

\* The statements of every handler add up to its action in Planning: whatever a call that
\* overlapped nothing leaves behind is one step of the atomic specification, whichever
\* kinds of call may overlap elsewhere.
THEOREM AloneCallsAreAtomic == RaceSpec => AloneIsAtomic
<1>1. RaceTypeOK /\ AloneInv /\ [RaceNext]_raceVars
        => [(\A c \in Client : Begun(c) /\ tx'[c] = Idle => ~tx[c].met) => [Next]_vars]_raceVars
  BY AtomicStep
<1>. QED  BY <1>1, AloneInvariant, PTL DEF RaceSpec, AloneIsAtomic

-------------------------------------------------------------------------------
(***************************************************************************)
(* Slices that start beside each other.                                    *)
(***************************************************************************)

\* Only slice patches and single statements overlap anything.
SlicesOverlap == Concurrent \subseteq {"slice", "single"}

OnlySlicesMeet == \A c \in Client : Begun(c) /\ tx[c].call # "slice" => ~tx[c].met

\* What a started slice has found to lift is still all there is to lift over it: a
\* program only ever leaves the liftable statuses meanwhile, and gains no slice.
SliceInv ==
  \A c \in Client : tx[c].call = "slice" /\ tx[c].at = "found" /\ tx[c].to \in ProposalStarted =>
    \A g \in Program : <<g, tx[c].p>> \in includes /\ status[g] \in ProgramLiftable
                         => g \in Lifted(tx[c].lift)

SliceRaceInv == RaceTypeOK /\ AloneInv /\ OnlySlicesMeet /\ SliceInv

\* Being overtaken, a transaction keeps all it holds.
LEMMA OvertakenKeeps ==
  ASSUME RaceTypeOK, NEW d \in Client, Begun(d)
  PROVE  /\ Overtaken[d].call = tx[d].call
         /\ tx[d].call = "slice" =>
              /\ Overtaken[d].at = tx[d].at /\ Overtaken[d].p = tx[d].p
              /\ Overtaken[d].to = tx[d].to /\ Overtaken[d].lift = tx[d].lift
<1>1. Overtaken[d] = [tx[d] EXCEPT !.met = TRUE] /\ tx[d] \in Call
  BY OvertakenTyped, CallKinds
<1>2. CASE tx[d] \in SliceCall
  BY <1>1, <1>2 DEF SliceCall
<1>3. CASE tx[d] \in RelateCall
  BY <1>1, <1>3 DEF RelateCall
<1>4. CASE tx[d] \in ProgramCall
  BY <1>1, <1>4 DEF ProgramCall
<1>5. CASE tx[d] \in ItemCall
  BY <1>1, <1>5 DEF ItemCall
<1>6. CASE tx[d] \in CreateCall
  BY <1>1, <1>6 DEF CreateCall
<1>. QED  BY <1>1, <1>2, <1>3, <1>4, <1>5, <1>6 DEF Call

\* A call that begins beside another is a slice's, and so is that one.
LEMMA SlicesMeetSlices ==
  ASSUME RaceTypeOK, SlicesOverlap, NEW c \in Client, NEW read \in Call, MayStart(c, read.call),
         NEW d \in Client, Begun(d)
  PROVE  read.call = "slice" /\ tx[d].call = "slice"
<1>1. \A r \in Call : r.call # "single"
  BY DEF Call, SliceCall, RelateCall, ProgramCall, ItemCall, CreateCall
<1>2. {read.call, tx[d].call} \subseteq {"slice", "single"}
  BY DEF MayStart, SlicesOverlap
<1>3. tx[d] \in Call
  BY CallKinds
<1>. QED  BY <1>1, <1>2, <1>3

\* A single statement finds at most slices open, and moves no program.
LEMMA SinglesMove ==
  ASSUME RaceTypeOK, SlicesOverlap, Singles
  PROVE  /\ \A d \in Client : Begun(d) => tx[d].call = "slice"
         /\ \A g \in Program : status'[g] = status[g]
         /\ includes' \subseteq includes
<1>1. ASSUME NEW d \in Client, Begun(d) PROVE tx[d].call = "slice"
  <2>1. MayInterrupt
    BY DEF Singles, CreateOthers, Edges
  <2>2. tx[d].call \in {"slice", "single"}
    BY <1>1, <2>1 DEF MayInterrupt, SlicesOverlap
  <2>3. \A r \in Call : r.call # "single"
    BY DEF Call, SliceCall, RelateCall, ProgramCall, ItemCall, CreateCall
  <2>. QED  BY <1>1, <2>2, <2>3, CallKinds
<1>2. \A g \in Program : g \in Node /\ g \notin WorkItem /\ g \notin Proposal
  BY KindsDisjoint DEF Node
<1>3. status \in [Node -> AnyStatus]
  BY DEF RaceTypeOK, TypeOK
<1>4. ASSUME NEW w \in WorkItem, NEW new, CreateWorkItem(w, new)
      PROVE  (\A g \in Program : status'[g] = status[g]) /\ includes' \subseteq includes
  BY <1>2, <1>3, <1>4 DEF CreateWorkItem, edgeVars
<1>5. ASSUME NEW p \in Proposal, NEW pr, NEW C, CreateProposal(p, pr, C)
      PROVE  (\A g \in Program : status'[g] = status[g]) /\ includes' \subseteq includes
  BY <1>2, <1>3, <1>5 DEF CreateProposal
<1>6. ASSUME NEW g, NEW w, RelateSoaks(g, w)
      PROVE  (\A h \in Program : status'[h] = status[h]) /\ includes' \subseteq includes
  BY <1>6 DEF RelateSoaks
<1>7. ASSUME NEW e, Unrelate(e)
      PROVE  (\A g \in Program : status'[g] = status[g]) /\ includes' \subseteq includes
  BY <1>7 DEF Unrelate
<1>. QED  BY <1>1, <1>4, <1>5, <1>6, <1>7 DEF Singles, CreateOthers, Edges

\* What the commit of a slice patch does to the statuses.
LEMMA SliceCommitMoves ==
  ASSUME RaceTypeOK, NEW c \in Client, SliceCommit(c)
  PROVE  /\ tx[c].p \in Proposal /\ tx[c].to \in ProposalStatuses
         /\ Lifted(tx[c].lift) \subseteq Program
         /\ \A n \in Node : status'[n] = IF n \in Lifted(tx[c].lift) THEN "active"
                                         ELSE IF n = tx[c].p THEN tx[c].to ELSE status[n]
         /\ includes' = includes /\ awaiting' \subseteq awaiting
<1>1. tx[c] \in SliceCall
  BY CallKinds DEF SliceCommit
<1>2. tx[c].p \in Proposal /\ tx[c].to \in ProposalStatuses /\ tx[c].lift \in SUBSET LiftRow
  BY <1>1, StatusPatchTyped DEF SliceCall
<1>3. Lifted(tx[c].lift) \subseteq Program
  BY <1>2, LiftedTyped
<1>4. status' = WithPromotion([status EXCEPT ![tx[c].p] = tx[c].to], Lifted(tx[c].lift))
  BY DEF SliceCommit, Committed
<1>5. \A n \in Node : status'[n] = IF n \in Lifted(tx[c].lift) THEN "active"
                                   ELSE IF n = tx[c].p THEN tx[c].to ELSE status[n]
  BY <1>4 DEF WithPromotion, RaceTypeOK, TypeOK
<1>. QED  BY <1>2, <1>3, <1>5 DEF SliceCommit, edgeVars, Settled

LEMMA SliceRaceStep == SlicesOverlap /\ SliceRaceInv /\ [RaceNext]_raceVars => SliceRaceInv'
<1>. SUFFICES ASSUME SlicesOverlap, SliceRaceInv, [RaceNext]_raceVars PROVE SliceRaceInv'
  OBVIOUS
<1>a. RaceTypeOK /\ AloneInv /\ RaceTypeOK' /\ AloneInv'
  BY RaceTypeStep, AloneStep DEF SliceRaceInv
<1>b. tx \in [Client -> {Idle} \cup Call] /\ tx' \in [Client -> {Idle} \cup Call]
  BY <1>a DEF RaceTypeOK
<1>c. Idle.call = "none"
  BY DEF Idle
\* Transactions that hold what they held stand by it while no program becomes liftable
\* or gains a slice.
<1>d. ASSUME NEW d \in Client, tx'[d].call = tx[d].call,
             tx[d].call = "slice" => /\ tx'[d].at = tx[d].at /\ tx'[d].p = tx[d].p
                                     /\ tx'[d].to = tx[d].to /\ tx'[d].lift = tx[d].lift,
             includes' \subseteq includes,
             \A g \in Program : status'[g] \in ProgramLiftable => status[g] \in ProgramLiftable,
             tx'[d].call = "slice", tx'[d].at = "found", tx'[d].to \in ProposalStarted,
             NEW g \in Program, <<g, tx'[d].p>> \in includes', status'[g] \in ProgramLiftable
      PROVE  g \in Lifted(tx'[d].lift)
  BY <1>d DEF SliceRaceInv, SliceInv
<1>1. CASE Singles
  <2>1. /\ \A d \in Client : Begun(d) => tx[d].call = "slice"
        /\ \A g \in Program : status'[g] = status[g]
        /\ includes' \subseteq includes
    BY <1>a, <1>1, SinglesMove
  <2>2. tx' = Overtaken
    BY <1>1, SinglesAreSteps
  <2>3. \A d \in Client : Begun(d) =>
          /\ tx'[d].call = tx[d].call
          /\ tx[d].call = "slice" => /\ tx'[d].at = tx[d].at /\ tx'[d].p = tx[d].p
                                     /\ tx'[d].to = tx[d].to /\ tx'[d].lift = tx[d].lift
    BY <1>a, <2>2, OvertakenKeeps
  <2>4. \A d \in Client : ~Begun(d) => tx'[d] = Idle
    BY <1>a, <2>2, OvertakenTyped
  <2>5. OnlySlicesMeet'
    BY <2>1, <2>3, <2>4 DEF OnlySlicesMeet, Begun
  <2>6. SliceInv'
    BY <1>c, <1>d, <2>1, <2>3, <2>4 DEF SliceInv
  <2>. QED  BY <1>a, <2>5, <2>6 DEF SliceRaceInv
<1>2. ASSUME NEW c \in Client, Reads(c) PROVE SliceRaceInv'
  <2>1. PICK read : Opens(c, read) /\ Fresh(read) /\ MayStart(c, read.call)
    BY <1>a, <1>2, ReadsOpen
  <2>2. /\ read \in Call /\ ~Begun(c) /\ read.met = Meets
        /\ tx'[c] = read
        /\ \A d \in Client \ {c} : tx'[d] = Overtaken[d]
        /\ UNCHANGED <<status, includes>>
    BY <1>a, <2>1, OvertakenTyped DEF Opens, vars
  <2>3. \A d \in Client \ {c} : Begun(d) =>
          /\ tx'[d].call = tx[d].call
          /\ tx[d].call = "slice" => /\ tx'[d].at = tx[d].at /\ tx'[d].p = tx[d].p
                                     /\ tx'[d].to = tx[d].to /\ tx'[d].lift = tx[d].lift
    BY <1>a, <2>2, OvertakenKeeps
  <2>4. \A d \in Client \ {c} : ~Begun(d) => tx'[d] = Idle
    BY <1>a, <2>2, OvertakenTyped
  <2>5. \A d \in Client : Begun(d) => read.call = "slice" /\ tx[d].call = "slice"
    BY <1>a, <2>1, <2>2, SlicesMeetSlices
  <2>6. OnlySlicesMeet'
    BY <2>2, <2>3, <2>4, <2>5 DEF OnlySlicesMeet, Begun, Meets
  <2>7. read.call = "slice" => read.at # "found"
    BY <2>1 DEF Fresh
  <2>8. SliceInv'
    BY <1>c, <1>d, <2>2, <2>3, <2>4, <2>7 DEF SliceInv
  <2>. QED  BY <1>a, <2>6, <2>8 DEF SliceRaceInv
<1>3. ASSUME NEW c \in Client, SliceWrite(c) PROVE SliceRaceInv'
  <2>. DEFINE st == [status EXCEPT ![tx[c].p] = tx[c].to]
  <2>1. UNCHANGED <<status, includes>>
    BY <1>3 DEF SliceWrite, vars
  <2>2. /\ tx'[c].call = "slice" /\ tx'[c].p = tx[c].p /\ tx'[c].to = tx[c].to
        /\ tx'[c].met = tx[c].met
        /\ tx'[c].lift = Candidates(tx[c].p, st, includes)
        /\ \A d \in Client \ {c} : tx'[d] = tx[d]
    BY <1>a, <1>3, SliceWriteTyped
  <2>3. tx[c].p \in Proposal /\ tx[c].to \in ProposalStatuses
    <3>1. tx[c] \in SliceCall
      BY <1>a, <1>3, CallKinds DEF SliceWrite
    <3>. QED  BY <3>1, StatusPatchTyped DEF SliceCall
  <2>4. StatusTyped(status) /\ StatusTyped(st)
    BY <1>a, <2>3, ProposalStatusTyped DEF RaceTypeOK, TypeOK, StatusTyped
  <2>5. Lifted(tx'[c].lift) = Promoted(tx[c].p, st, includes)
    BY <2>2, <2>4, CandidatesFound
  <2>6. st[tx[c].p] = tx[c].to /\ \A g \in Program : st[g] = status[g]
    BY <2>3, <2>4, KindsDisjoint DEF StatusTyped, Node
  <2>7. tx'[c].to \in ProposalStarted =>
          \A g \in Program : <<g, tx'[c].p>> \in includes' /\ status'[g] \in ProgramLiftable
                               => g \in Lifted(tx'[c].lift)
    BY <2>1, <2>2, <2>5, <2>6 DEF Promoted
  <2>8. SliceInv'
    BY <2>1, <2>2, <2>7 DEF SliceInv, SliceRaceInv
  <2>9. OnlySlicesMeet'
    BY <2>2 DEF OnlySlicesMeet, SliceRaceInv, Begun
  <2>. QED  BY <1>a, <2>8, <2>9 DEF SliceRaceInv
<1>4. ASSUME NEW c \in Client, ProgramCheck(c) PROVE SliceRaceInv'
  <2>1. UNCHANGED <<status, includes>> /\ tx[c].call = "program"
    BY <1>4 DEF ProgramCheck, vars
  <2>2. /\ \A d \in Client \ {c} : tx'[d] = tx[d]
        /\ tx'[c] = Idle \/ (tx'[c].call = "program" /\ tx'[c].met = tx[c].met /\ Begun(c))
    BY <1>a, <1>4, ProgramCheckTyped DEF Passed
  <2>3. OnlySlicesMeet'
    BY <2>1, <2>2 DEF OnlySlicesMeet, SliceRaceInv, Begun
  <2>4. SliceInv'
    BY <1>c, <2>1, <2>2 DEF SliceInv, SliceRaceInv
  <2>. QED  BY <1>a, <2>3, <2>4 DEF SliceRaceInv
<1>5. ASSUME NEW c \in Client, Commits(c) PROVE SliceRaceInv'
  <2>1. tx'[c] = Idle /\ Begun(c) /\ \A d \in Client \ {c} : tx'[d] = tx[d]
    BY <1>a, <1>b, <1>5, CommitsTyped
  <2>2. OnlySlicesMeet'
    BY <2>1 DEF OnlySlicesMeet, SliceRaceInv, Begun
  <2>3. CASE SliceCommit(c)
    <3>1. /\ includes' = includes
          /\ \A g \in Program : status'[g] \in ProgramLiftable => status[g] \in ProgramLiftable
      BY <1>a, <2>3, SliceCommitMoves, KindsDisjoint DEF ProgramLiftable, ProgramInitial, Soaking, Node
    <3>2. SliceInv'
      BY <1>c, <1>d, <2>1, <3>1 DEF SliceInv
    <3>. QED  BY <1>a, <2>2, <3>2 DEF SliceRaceInv
  <2>4. CASE ~SliceCommit(c)
    <3>1. tx[c].call # "slice"
      BY <1>5, <2>4 DEF Commits, RelateCommit, ProgramCommit, ItemCommit, CreateProgramCommit
    <3>2. \A d \in Client \ {c} : tx[d] = Idle
      BY <1>a, <2>1, <3>1 DEF SliceRaceInv, OnlySlicesMeet, AloneInv, Begun
    <3>3. SliceInv'
      BY <1>c, <2>1, <3>2 DEF SliceInv
    <3>. QED  BY <1>a, <2>2, <3>3 DEF SliceRaceInv
  <2>. QED  BY <2>3, <2>4
<1>6. ASSUME NEW c \in Client, Rollback(c) PROVE SliceRaceInv'
  <2>1. tx'[c] = Idle /\ (\A d \in Client \ {c} : tx'[d] = tx[d]) /\ UNCHANGED <<status, includes>>
    BY <1>6, <1>b DEF Rollback, vars
  <2>. QED  BY <1>a, <1>c, <2>1 DEF SliceRaceInv, OnlySlicesMeet, SliceInv, Begun
<1>7. CASE UNCHANGED raceVars
  BY <1>7, <1>a DEF raceVars, vars, SliceRaceInv, OnlySlicesMeet, SliceInv, Begun
<1>. QED  BY <1>1, <1>2, <1>3, <1>4, <1>5, <1>6, <1>7, RaceKinds

\* What one step does to the tables: a step of Planning, or a slice's commit.
LEMMA SliceRaceKinds ==
  ASSUME SliceRaceInv, [RaceNext]_raceVars
  PROVE  [Next]_vars \/ \E c \in Client : SliceCommit(c)
<1>1. CASE [Next]_vars
  BY <1>1
<1>2. ASSUME NEW c \in Client, Commits(c), tx[c].met, Begun(c) PROVE SliceCommit(c)
  <2>1. tx[c].call = "slice"
    BY <1>2 DEF SliceRaceInv, OnlySlicesMeet
  <2>. QED  BY <1>2, <2>1 DEF Commits, RelateCommit, ProgramCommit, ItemCommit, CreateProgramCommit
<1>. QED  BY <1>1, <1>2, AtomicStep DEF SliceRaceInv

LEMMA RaceGraphStep == SliceRaceInv /\ GraphInv /\ [RaceNext]_raceVars => GraphInv'
<1>. SUFFICES ASSUME SliceRaceInv, GraphInv, [RaceNext]_raceVars PROVE GraphInv'
  OBVIOUS
<1>1. CASE [Next]_vars
  BY <1>1, GraphStep
<1>2. ASSUME NEW c \in Client, SliceCommit(c) PROVE GraphInv'
  <2>1. TypeOK /\ TypeOK'
    BY RaceTypeStep DEF SliceRaceInv, RaceTypeOK
  <2>2. \A n \in Node : Exists(n) => Exists(n)'
    BY <1>2, SliceCommitMoves DEF SliceRaceInv, Exists, Absent, ProposalStatuses, Parked
  <2>3. \A n \in awaiting' : n \in Node /\ n \in awaiting
    BY <1>2, <2>1, SliceCommitMoves DEF SliceRaceInv, TypeOK
  <2>4. includes' = includes /\ \A e \in includes : e[1] \in Node
    BY <1>2, <2>1, SliceCommitMoves DEF SliceRaceInv, TypeOK, Node
  <2>. QED  BY <2>1, <2>2, <2>3, <2>4 DEF GraphInv
<1>. QED  BY <1>1, <1>2, SliceRaceKinds

LEMMA SliceRaceInvariant == SlicesOverlap /\ RaceSpec => [](SliceRaceInv /\ GraphInv)
<1>1. RaceInit => SliceRaceInv
  <2>. SUFFICES ASSUME RaceInit PROVE SliceRaceInv
    OBVIOUS
  <2>1. \A c \in Client : tx[c] = Idle /\ tx[c].call = "none"
    BY DEF RaceInit, Idle
  <2>2. RaceTypeOK
    BY PlanningTypeInit DEF RaceInit, RaceTypeOK
  <2>. QED  BY <2>1, <2>2 DEF SliceRaceInv, OnlySlicesMeet, SliceInv, AloneInv, Begun
<1>2. RaceInit => GraphInv
  BY PlanningTypeInit DEF RaceInit, GraphInv, Init
<1>3. SlicesOverlap /\ SliceRaceInv /\ GraphInv /\ [RaceNext]_raceVars => (SliceRaceInv /\ GraphInv)'
  BY SliceRaceStep, RaceGraphStep
<1>4. CASE SlicesOverlap
  <2>1. SliceRaceInv /\ GraphInv /\ [RaceNext]_raceVars => (SliceRaceInv /\ GraphInv)'
    BY <1>3, <1>4
  <2>2. RaceSpec => [](SliceRaceInv /\ GraphInv)
    BY <1>1, <1>2, <2>1, PTL DEF RaceSpec
  <2>. QED  BY <2>2
<1>. QED  BY <1>4

\* However many slices of a program start at once, and in whatever order their lifts and
\* commits fall, none of them leaves it queued over a slice that has begun.
LEMMA SliceCommitHonest ==
  ASSUME SliceRaceInv, NEW c \in Client, SliceCommit(c), NEW g \in Program,
         (status[g] = ProgramInitial /\ NotStarted(g)) \/ status[g] = Absent,
         status'[g] = ProgramInitial
  PROVE  NotStarted(g)'
<1>. DEFINE lifted == Lifted(tx[c].lift)
<1>1. /\ tx[c].p \in Proposal /\ tx[c].to \in ProposalStatuses /\ lifted \subseteq Program
      /\ \A n \in Node : status'[n] = IF n \in lifted THEN "active"
                                      ELSE IF n = tx[c].p THEN tx[c].to ELSE status[n]
      /\ includes' = includes
  BY SliceCommitMoves DEF SliceRaceInv
<1>. HIDE DEF lifted
<1>2. g \in Node /\ g \notin Proposal
  BY KindsDisjoint DEF Node
<1>3. g \notin lifted /\ status[g] = ProgramInitial /\ NotStarted(g)
  BY <1>1, <1>2 DEF ProgramInitial, Absent
<1>4. ASSUME NEW q \in Proposal, <<g, q>> \in includes PROVE status'[q] \notin ProposalStarted
  <2>1. q \in Node /\ q \notin lifted
    BY <1>1, KindsDisjoint DEF Node
  <2>2. CASE q # tx[c].p
    BY <1>1, <1>3, <1>4, <2>1, <2>2 DEF NotStarted, SlicesOf
  <2>3. CASE q = tx[c].p
    <3>1. status'[q] = tx[c].to
      BY <1>1, <2>1, <2>3
    <3>2. tx[c].to \in ProposalStarted => g \in lifted
      BY <1>3, <1>4, <2>3 DEF SliceRaceInv, SliceInv, SliceCommit, ProgramLiftable, lifted
    <3>. QED  BY <1>3, <3>1, <3>2
  <2>. QED  BY <2>2, <2>3
<1>. QED  BY <1>1, <1>4 DEF NotStarted, SlicesOf

THEOREM RacingSlicesStayHonest == SlicesOverlap /\ RaceSpec => QueuedStaysHonest
<1>1. SliceRaceInv /\ GraphInv /\ [RaceNext]_raceVars
        => [\A g \in Program :
              (status[g] = ProgramInitial /\ NotStarted(g)) \/ status[g] = Absent
                => (status'[g] = ProgramInitial => NotStarted(g)')]_vars
  <2>. SUFFICES ASSUME SliceRaceInv, GraphInv, [RaceNext]_raceVars, ~UNCHANGED vars,
                       NEW g \in Program,
                       (status[g] = ProgramInitial /\ NotStarted(g)) \/ status[g] = Absent,
                       status'[g] = ProgramInitial
                PROVE  NotStarted(g)'
    OBVIOUS
  <2>1. CASE [Next]_vars
    BY <2>1, HonestStep DEF NotStarted, SlicesOf
  <2>2. ASSUME NEW c \in Client, SliceCommit(c) PROVE NotStarted(g)'
    BY <2>2, SliceCommitHonest
  <2>. QED  BY <2>1, <2>2, SliceRaceKinds
<1>. QED  BY <1>1, SliceRaceInvariant, PTL DEF RaceSpec, QueuedStaysHonest

\* Nor does one leave a soaking program over a slice in flight.
LEMMA SliceCommitIdle ==
  ASSUME SliceRaceInv, SoakingMeansIdle, NEW c \in Client, SliceCommit(c)
  PROVE  SoakingMeansIdle'
<1>. DEFINE lifted == Lifted(tx[c].lift)
<1>1. /\ tx[c].p \in Proposal /\ tx[c].to \in ProposalStatuses /\ lifted \subseteq Program
      /\ \A n \in Node : status'[n] = IF n \in lifted THEN "active"
                                      ELSE IF n = tx[c].p THEN tx[c].to ELSE status[n]
      /\ includes' = includes
  BY SliceCommitMoves DEF SliceRaceInv
<1>. HIDE DEF lifted
<1>2. SUFFICES ASSUME NEW g \in Program, status'[g] = Soaking,
                      NEW q \in Proposal, <<g, q>> \in includes'
               PROVE  status'[q] # "active"
  BY DEF SoakingMeansIdle, SlicesOf
<1>3. g \in Node /\ g \notin Proposal /\ q \in Node /\ q \notin lifted
  BY <1>1, KindsDisjoint DEF Node
<1>4. g \notin lifted /\ status[g] = Soaking
  BY <1>1, <1>2, <1>3 DEF Soaking
<1>5. status[q] # "active"
  BY <1>1, <1>2, <1>4 DEF SoakingMeansIdle, SlicesOf
<1>6. CASE q # tx[c].p
  BY <1>1, <1>3, <1>5, <1>6
<1>7. CASE q = tx[c].p
  <2>1. tx[c].to \in ProposalStarted => g \in lifted
    BY <1>1, <1>2, <1>4, <1>7 DEF SliceRaceInv, SliceInv, SliceCommit, ProgramLiftable, lifted
  <2>. QED  BY <1>1, <1>3, <1>4, <1>7, <2>1 DEF ProposalStarted
<1>. QED  BY <1>6, <1>7

THEOREM RacingSlicesLeaveSoakingIdle == SlicesOverlap /\ RaceSpec => []SoakingMeansIdle
<1>1. RaceInit => SoakingMeansIdle
  BY DEF RaceInit, Init, SoakingMeansIdle, SlicesOf
<1>2. SliceRaceInv /\ SoakingMeansIdle /\ [RaceNext]_raceVars => SoakingMeansIdle'
  <2>. SUFFICES ASSUME SliceRaceInv, SoakingMeansIdle, [RaceNext]_raceVars PROVE SoakingMeansIdle'
    OBVIOUS
  <2>1. CASE [Next]_vars
    BY <2>1, SoakingStep DEF SliceRaceInv, RaceTypeOK
  <2>. QED  BY <2>1, SliceCommitIdle, SliceRaceKinds
<1>. QED  BY <1>1, <1>2, SliceRaceInvariant, PTL DEF RaceSpec

-------------------------------------------------------------------------------
(***************************************************************************)
(* Where the statements may overlap and the atomic model still tells all.  *)
(***************************************************************************)

\* Besides single statements, only create_programs run beside each other.
CreatesOverlap == Concurrent \subseteq {"create", "single"}

\* What an open create_program has found stands until it commits: slices do not go away,
\* nothing that may run beside it changes the status of one, and its program is its own.
CreateInv ==
  /\ \A c \in Client : Begun(c) /\ tx[c].call # "create" => ~tx[c].met
  /\ \A c \in Client : tx[c].call = "create" =>
       /\ ~Exists(tx[c].g)
       /\ \A p \in tx[c].slices : Exists(p)
       /\ tx[c].started = SlicesStarted(tx[c].slices)
  /\ \A c, d \in Client : tx[c].call = "create" /\ tx[d].call = "create" /\ c # d
       => tx[c].g # tx[d].g

\* A call that begins beside another creates a program, and so does that one.
LEMMA CreatesMeetCreates ==
  ASSUME RaceTypeOK, CreatesOverlap, NEW d \in Client, Begun(d), NEW call,
         {call, tx[d].call} \subseteq Concurrent
  PROVE  tx[d].call = "create" /\ (call = "create" \/ call = "single")
<1>1. \A r \in Call : r.call # "single"
  BY DEF Call, SliceCall, RelateCall, ProgramCall, ItemCall, CreateCall
<1>2. tx[d] \in Call
  BY CallKinds
<1>. QED  BY <1>1, <1>2 DEF CreatesOverlap

\* Being overtaken changes no more of a create_program than that it has met a call.
LEMMA OvertakenCreates ==
  ASSUME RaceTypeOK, NEW d \in Client, tx[d].call = "create"
  PROVE  /\ Begun(d) /\ Overtaken[d].call = "create" /\ Overtaken[d].g = tx[d].g
         /\ Overtaken[d].slices = tx[d].slices /\ Overtaken[d].started = tx[d].started
         /\ tx[d].g \in Program /\ tx[d].slices \subseteq Proposal
<1>1. tx[d] \in CreateCall /\ Begun(d)
  BY CallKinds
<1>2. Overtaken[d] = [tx[d] EXCEPT !.met = TRUE]
  BY <1>1, OvertakenTyped
<1>. QED  BY <1>1, <1>2 DEF CreateCall

\* A single statement creates no program and moves no slice.
LEMMA SinglesLeaveSlices ==
  ASSUME RaceTypeOK, Singles
  PROVE  /\ \A g \in Program : status'[g] = status[g]
         /\ \A p \in Proposal : Exists(p) => status'[p] = status[p]
<1>1. \A n \in Program \cup Proposal : n \in Node /\ n \notin WorkItem /\ (n \in Program => n \notin Proposal)
  BY KindsDisjoint DEF Node
<1>2. status \in [Node -> AnyStatus]
  BY DEF RaceTypeOK, TypeOK
<1>3. ASSUME NEW w \in WorkItem, NEW new, CreateWorkItem(w, new)
      PROVE  \A n \in Program \cup Proposal : status'[n] = status[n]
  BY <1>1, <1>2, <1>3 DEF CreateWorkItem
<1>4. ASSUME NEW p \in Proposal, NEW pr, NEW C, CreateProposal(p, pr, C)
      PROVE  /\ \A g \in Program : status'[g] = status[g]
             /\ \A q \in Proposal : Exists(q) => status'[q] = status[q]
  BY <1>1, <1>2, <1>4 DEF CreateProposal
<1>5. ASSUME NEW g, NEW w, RelateSoaks(g, w) PROVE status' = status
  BY <1>5 DEF RelateSoaks
<1>6. ASSUME NEW e, Unrelate(e) PROVE status' = status
  BY <1>6 DEF Unrelate
<1>. QED  BY <1>3, <1>4, <1>5, <1>6 DEF Singles, CreateOthers, Edges

LEMMA CreateStep == CreatesOverlap /\ RaceTypeOK /\ AloneInv /\ CreateInv /\ [RaceNext]_raceVars => CreateInv'
<1>. SUFFICES ASSUME CreatesOverlap, RaceTypeOK, AloneInv, CreateInv, [RaceNext]_raceVars
              PROVE  CreateInv'
  OBVIOUS
<1>a. tx \in [Client -> {Idle} \cup Call] /\ Idle.call = "none"
  BY DEF RaceTypeOK, Idle
<1>b. \A d \in Client : tx[d].call = "create" => tx[d].g \in Program /\ tx[d].slices \in SUBSET Proposal
  BY OvertakenCreates
\* The clients that have a create_program open go on with it where none gets its program
\* and no slice moves.
<1>c. ASSUME \A d \in Client : tx'[d].call = "create" =>
               /\ tx[d].call = "create" /\ tx'[d].g = tx[d].g
               /\ tx'[d].slices = tx[d].slices /\ tx'[d].started = tx[d].started
               /\ status'[tx[d].g] = status[tx[d].g],
             \A p \in Proposal : Exists(p) => status'[p] = status[p],
             \A d \in Client : Begun(d)' /\ tx'[d].call # "create" => ~tx'[d].met
      PROVE  CreateInv'
  <2>1. ASSUME NEW d \in Client, tx'[d].call = "create"
        PROVE  /\ status'[tx'[d].g] = Absent
               /\ \A p \in tx'[d].slices : status'[p] # Absent
               /\ tx'[d].started = \E p \in tx'[d].slices : status'[p] \in ProposalStarted
    <3>1. /\ tx[d].call = "create" /\ tx'[d].g = tx[d].g /\ tx'[d].slices = tx[d].slices
          /\ tx'[d].started = tx[d].started /\ status'[tx[d].g] = status[tx[d].g]
      BY <1>c, <2>1
    <3>2. /\ status[tx[d].g] = Absent
          /\ \A p \in tx[d].slices : status[p] # Absent
          /\ tx[d].started = \E p \in tx[d].slices : status[p] \in ProposalStarted
      BY <3>1 DEF CreateInv, Exists, SlicesStarted
    <3>3. \A p \in tx[d].slices : status'[p] = status[p]
      BY <1>b, <1>c, <3>1, <3>2 DEF Exists
    <3>. QED  BY <3>1, <3>2, <3>3
  <2>2. \A c, d \in Client : tx'[c].call = "create" /\ tx'[d].call = "create" /\ c # d
          => tx'[c].g # tx'[d].g
    BY <1>c DEF CreateInv
  <2>. QED  BY <1>c, <2>1, <2>2 DEF CreateInv, Exists, SlicesStarted
<1>1. CASE Singles
  <2>1. tx' = Overtaken
    BY <1>1, SinglesAreSteps
  <2>2. \A d \in Client : Begun(d) => tx[d].call = "create"
    <3>1. MayInterrupt
      BY <1>1 DEF Singles, CreateOthers, Edges
    <3>. QED  BY <3>1, CreatesMeetCreates DEF MayInterrupt
  <2>3. \A d \in Client : ~Begun(d) => tx'[d] = Idle
    BY <2>1, OvertakenTyped
  <2>4. \A d \in Client : tx[d].call = "create" =>
          /\ tx'[d].call = "create" /\ tx'[d].g = tx[d].g
          /\ tx'[d].slices = tx[d].slices /\ tx'[d].started = tx[d].started
    BY <2>1, OvertakenCreates
  <2>. QED  BY <1>1, <1>a, <1>b, <1>c, <2>2, <2>3, <2>4, SinglesLeaveSlices DEF Begun
<1>2. ASSUME NEW c \in Client, Reads(c) PROVE CreateInv'
  <2>1. PICK read : Opens(c, read) /\ Fresh(read) /\ MayStart(c, read.call)
    BY <1>2, ReadsOpen
  <2>2. /\ read \in Call /\ ~Begun(c) /\ read.met = Meets /\ tx'[c] = read
        /\ \A d \in Client \ {c} : tx'[d] = Overtaken[d]
        /\ status' = status
    BY <2>1, OvertakenTyped DEF Opens, vars
  <2>3. \A d \in Client : Begun(d) => read.call = "create" /\ tx[d].call = "create"
    <3>1. \A r \in Call : r.call # "single"
      BY DEF Call, SliceCall, RelateCall, ProgramCall, ItemCall, CreateCall
    <3>. QED  BY <2>1, <2>2, <3>1, CreatesMeetCreates DEF MayStart
  <2>4. \A d \in Client \ {c} : ~Begun(d) => tx'[d] = Idle
    BY <2>2, OvertakenTyped
  <2>5. \A d \in Client \ {c} : tx[d].call = "create" =>
          /\ tx'[d].call = "create" /\ tx'[d].g = tx[d].g
          /\ tx'[d].slices = tx[d].slices /\ tx'[d].started = tx[d].started
    BY <2>2, OvertakenCreates
  <2>6. \A d \in Client \ {c} : tx'[d].call = "create" <=> tx[d].call = "create"
    BY <1>a, <2>3, <2>4, <2>5 DEF Begun
  <2>7. read.call = "create" => \A d \in Client : tx[d].call = "create" => tx[d].g # read.g
    <3>. SUFFICES ASSUME read.call = "create"
                  PROVE  \A d \in Client : tx[d].call = "create" => tx[d].g # read.g
      OBVIOUS
    <3>1. PICK g \in Program, S \in SUBSET Proposal : CreateProgramRead(c, g, S)
      <4>1. ASSUME NEW other, Start(c, other) PROVE other.call = "create"
        BY <2>2, <4>1, OvertakenTyped DEF Start
      <4>2. ASSUME NEW p, NEW to, SliceRead(c, p, to) PROVE FALSE
        BY <4>1, <4>2 DEF SliceRead
      <4>3. ASSUME NEW g, NEW p, RelateInsert(c, g, p) PROVE FALSE
        BY <4>1, <4>3 DEF RelateInsert
      <4>4. ASSUME NEW g, NEW to, ProgramRead(c, g, to) PROVE FALSE
        BY <4>1, <4>4 DEF ProgramRead
      <4>5. ASSUME NEW w, NEW to, ItemRead(c, w, to) PROVE FALSE
        BY <4>1, <4>5 DEF ItemRead
      <4>. QED  BY <1>2, <4>2, <4>3, <4>4, <4>5 DEF Reads
    <3>. QED  BY <2>2, <3>1, OvertakenTyped DEF CreateProgramRead, Start
  <2>8. \A d \in Client : Begun(d)' /\ tx'[d].call # "create" => ~tx'[d].met
    BY <2>2, <2>3, <2>4, <2>5 DEF Begun, Meets
  <2>9. read.call = "create" =>
          /\ status[read.g] = Absent
          /\ \A p \in read.slices : status[p] # Absent
          /\ read.started = \E p \in read.slices : status[p] \in ProposalStarted
    BY <2>1 DEF Fresh, Exists, SlicesStarted
  <2>10. ASSUME NEW d \in Client, tx'[d].call = "create"
         PROVE  /\ status'[tx'[d].g] = Absent
                /\ \A p \in tx'[d].slices : status'[p] # Absent
                /\ tx'[d].started = \E p \in tx'[d].slices : status'[p] \in ProposalStarted
    <3>1. CASE d = c
      BY <2>2, <2>9, <2>10, <3>1
    <3>2. CASE d # c
      <4>1. tx[d].call = "create"
        BY <2>6, <2>10, <3>2
      <4>. QED  BY <2>2, <2>5, <3>2, <4>1 DEF CreateInv, Exists, SlicesStarted
    <3>. QED  BY <3>1, <3>2
  <2>11. ASSUME NEW d \in Client, NEW e \in Client, d # e, tx'[d].call = "create", tx'[e].call = "create"
         PROVE  tx'[d].g # tx'[e].g
    BY <2>2, <2>5, <2>6, <2>7, <2>11 DEF CreateInv
  <2>. QED  BY <2>8, <2>10, <2>11 DEF CreateInv, Exists, SlicesStarted
<1>3. ASSUME NEW c \in Client, SliceWrite(c) PROVE CreateInv'
  <2>1. status' = status
    BY <1>3 DEF SliceWrite, vars
  <2>2. /\ tx'[c].call = "slice" /\ tx[c].call = "slice" /\ tx'[c].met = tx[c].met /\ Begun(c)
        /\ \A d \in Client \ {c} : tx'[d] = tx[d]
    BY <1>3, SliceWriteTyped DEF SliceWrite
  <2>. QED  BY <1>c, <2>1, <2>2 DEF CreateInv, Begun
<1>4. ASSUME NEW c \in Client, ProgramCheck(c) PROVE CreateInv'
  <2>1. status' = status /\ tx[c].call = "program"
    BY <1>4 DEF ProgramCheck, vars
  <2>2. /\ \A d \in Client \ {c} : tx'[d] = tx[d]
        /\ tx'[c] = Idle \/ (tx'[c].call = "program" /\ tx'[c].met = tx[c].met /\ Begun(c))
    BY <1>4, ProgramCheckTyped DEF Passed
  <2>. QED  BY <1>a, <1>c, <2>1, <2>2 DEF CreateInv, Begun
<1>5. ASSUME NEW c \in Client, Commits(c) PROVE CreateInv'
  <2>1. tx'[c] = Idle /\ Begun(c) /\ \A d \in Client \ {c} : tx'[d] = tx[d]
    BY <1>a, <1>5, CommitsTyped
  <2>2. CASE tx[c].call = "create"
    <3>1. CreateProgramCommit(c)
      BY <1>5, <2>2 DEF Commits, SliceCommit, RelateCommit, ProgramCommit, ItemCommit
    <3>2. tx[c].g \in Program /\ \A p \in Proposal : p # tx[c].g /\ p \in Node
      BY <1>b, <2>2, KindsDisjoint DEF Node
    <3>3. \A n \in Node \ {tx[c].g} : status'[n] = status[n]
      BY <3>1 DEF CreateProgramCommit, RaceTypeOK, TypeOK
    <3>4. \A d \in Client \ {c} : tx[d].call = "create" => status'[tx[d].g] = status[tx[d].g]
      BY <1>b, <2>2, <3>3 DEF CreateInv, Node
    <3>. QED  BY <1>a, <1>c, <2>1, <3>2, <3>3, <3>4 DEF CreateInv, Begun
  <2>3. CASE tx[c].call # "create"
    <3>1. \A d \in Client \ {c} : tx[d] = Idle
      BY <2>1, <2>3 DEF CreateInv, AloneInv, Begun
    <3>. QED  BY <1>a, <2>1, <3>1 DEF CreateInv, Begun
  <2>. QED  BY <2>2, <2>3
<1>6. ASSUME NEW c \in Client, Rollback(c) PROVE CreateInv'
  <2>1. tx'[c] = Idle /\ (\A d \in Client \ {c} : tx'[d] = tx[d]) /\ status' = status
    BY <1>6, <1>a DEF Rollback, vars
  <2>. QED  BY <1>a, <1>c, <2>1 DEF CreateInv, Begun
<1>7. CASE UNCHANGED raceVars
  <2>1. tx' = tx /\ status' = status
    BY <1>7 DEF raceVars, vars
  <2>. QED  BY <1>c, <2>1 DEF CreateInv, Begun
<1>. QED  BY <1>1, <1>2, <1>3, <1>4, <1>5, <1>6, <1>7, RaceKinds

\* Where only create_programs overlap, and single statements, the statements of every
\* handler implement the atomic model: every commit is one step of it, and everything
\* else a stutter.
THEOREM OverlappingCreatesAreAtomic == CreatesOverlap /\ RaceSpec => Spec
<1>1. RaceInit => Init /\ CreateInv
  BY DEF RaceInit, CreateInv, Begun, Idle
<1>2. CreatesOverlap /\ RaceTypeOK /\ AloneInv /\ CreateInv /\ [RaceNext]_raceVars => [Next]_vars
  <2>. SUFFICES ASSUME CreatesOverlap, RaceTypeOK, AloneInv, CreateInv, [RaceNext]_raceVars
                PROVE  [Next]_vars
    OBVIOUS
  <2>1. ASSUME NEW c \in Client, Commits(c), Begun(c), tx[c].met PROVE Next
    <3>1. tx[c].call = "create"
      BY <2>1 DEF CreateInv
    <3>2. UpToDate(c)
      BY <3>1 DEF CreateInv, UpToDate
    <3>. QED  BY <2>1, <3>2, CommitsAreSteps
  <2>. QED  BY <2>1, AtomicStep
<1>3. CASE CreatesOverlap
  <2>1. /\ RaceTypeOK /\ AloneInv /\ CreateInv /\ [RaceNext]_raceVars => [Next]_vars
        /\ RaceTypeOK /\ AloneInv /\ CreateInv /\ [RaceNext]_raceVars => CreateInv'
    BY <1>2, <1>3, CreateStep
  <2>2. RaceSpec => Spec
    BY <1>1, <2>1, AloneInvariant, PTL DEF RaceSpec, Spec
  <2>. QED  BY <2>2
<1>. QED  BY <1>3

-------------------------------------------------------------------------------
(***************************************************************************)
(* What the torn read of the board still shows.                            *)
(***************************************************************************)

BoardFields == {"at", "programs", "programs_hidden", "slices", "rows", "soaks", "edges",
                "deps", "unmet", "owners", "proposals_hidden", "awaiting", "depth"}

RowsRead  == {"soaks", "edges", "deps", "unmet", "owners", "proposals_hidden", "awaiting",
              "depth", "answered"}
DepsRead  == RowsRead \ {"soaks", "edges", "deps"}
UnmetRead == DepsRead \ {"unmet"}

\* What has held up what since the read began still does, and each statement that is
\* through has returned its part of it.
BoardInv ==
  /\ board = [f \in BoardFields |-> board[f]]
  /\ board.at \in {"programs", "programs_hidden", "slices", "rows"} \cup RowsRead
  /\ lasting \subseteq HeldUp
  /\ board.at \in RowsRead => \A t \in lasting : t[1] \in LiveIds
  /\ board.at \in DepsRead => lasting \subseteq board.deps
  /\ board.at \in DepsRead => \A t \in board.deps : t[1] \in LiveIds
  /\ board.at \in UnmetRead => \A t \in lasting : t[3] \in board.unmet

LEMMA ReadEffect ==
  ASSUME board = [f \in BoardFields |-> board[f]],
         NEW statement, NEW field \in BoardFields \ {"at"}, NEW value, NEW next,
         Read(statement, field, value, next)
  PROVE  /\ board.at = statement /\ board'.at = next /\ board'[field] = value
         /\ \A f \in BoardFields \ {"at", field} : board'[f] = board[f]
         /\ board' = [f \in BoardFields |-> board'[f]]
         /\ UNCHANGED <<vars, dependsOn, calls>>
<1>1. board' = [board EXCEPT !.at = next, ![field] = value]
  BY DEF Read
<1>. QED  BY <1>1 DEF Read, BoardFields

\* A statement that is not the pass over proposals leaves the rows, and so the live ids.
LEMMA RowsStay ==
  ASSUME board'.rows = board.rows
  PROVE  LiveIds' = LiveIds
  BY DEF LiveIds

\* The fields a statement does not name keep what they hold.
LEMMA OthersStay ==
  ASSUME board = [f \in BoardFields |-> board[f]],
         NEW statement, NEW field \in BoardFields \ {"at"}, NEW value, NEW next,
         Read(statement, field, value, next)
  PROVE  /\ board.at = statement /\ board'.at = next
         /\ board' = [f \in BoardFields |-> board'[f]]
         /\ field # "rows" => board'.rows = board.rows
         /\ field # "deps" => board'.deps = board.deps
         /\ field # "unmet" => board'.unmet = board.unmet
         /\ field = "rows" => board'.rows = value
         /\ field = "deps" => board'.deps = value
         /\ field = "unmet" => board'.unmet = value
         /\ UNCHANGED <<vars, dependsOn, calls>>
<1>1. /\ board.at = statement /\ board'.at = next /\ board'[field] = value
      /\ \A f \in BoardFields \ {"at", field} : board'[f] = board[f]
      /\ board' = [f \in BoardFields |-> board'[f]]
      /\ UNCHANGED <<vars, dependsOn, calls>>
  BY ReadEffect
<1>2. {"rows", "deps", "unmet"} \subseteq BoardFields \ {"at"}
  BY DEF BoardFields
<1>. QED  BY <1>1, <1>2

\* The pass over proposals has a row for whatever is held up.
LEMMA RowsHoldHeldUp ==
  ASSUME NEW t \in HeldUp, board'.rows = Rows(board.slices)
  PROVE  t[1] \in LiveIds'
<1>. DEFINE p == t[1]
            row == [node |-> p, status |-> status[p], project |-> project[p],
                    archived |-> p \in archived, covered |-> Buckets(p)]
<1>1. p \in Proposal /\ p \notin archived /\ status[p] \in ProposalLive
  BY DEF HeldUp, HoldsUp
<1>2. Exists(p)
  BY <1>1 DEF Exists, ProposalLive, Absent, Parked
<1>3. row \in board'.rows
  BY <1>1, <1>2 DEF Rows
<1>4. Shown(row) /\ row.node = p
  BY <1>1 DEF Shown
<1>. HIDE DEF row
<1>. QED  BY <1>3, <1>4 DEF LiveIds, Shown

\* The blockers' first statement finds every dependency of the rows that holds them up.
LEMMA DepsHoldHeldUp ==
  ASSUME NEW t \in HeldUp, NEW ids, t[1] \in ids
  PROVE  t \in Deps(ids)
<1>1. PICK p \in Proposal, d \in Node, b \in Node : t = <<p, d, b>>
  BY DEF HeldUp
<1>2. /\ <<d, b>> \in dependsOn
      /\ d = p \/ (d \in WorkItem /\ <<p, d>> \in covers /\ ToDo(d))
  BY <1>1 DEF HeldUp, HoldsUp
<1>3. CASE d = p
  <2>. DEFINE e == <<p, b>>
  <2>1. e \in {x \in dependsOn : x[1] \in ids} /\ t = <<e[1], e[1], e[2]>>
    BY <1>1, <1>2, <1>3
  <2>. QED  BY <2>1 DEF Deps
<1>4. CASE <<p, d>> \in covers /\ ToDo(d)
  <2>. DEFINE c == <<p, d>>
              e == <<d, b>>
  <2>1. status[d] \notin WiFinished /\ d \notin archived
    BY <1>4 DEF ToDo, WiUnfinished, WiFinished, ProposalLive, ProgramStatuses, Parked, Soaking
  <2>2. c \in {x \in covers : /\ x[1] \in ids
                             /\ status[x[2]] \notin WiFinished
                             /\ x[2] \notin archived}
    BY <1>1, <1>4, <2>1
  <2>3. e \in {x \in dependsOn : x[1] = c[2]} /\ t = <<c[1], e[1], e[2]>>
    BY <1>1, <1>2
  <2>4. t \in {<<c[1], f[1], f[2]>> : f \in {x \in dependsOn : x[1] = c[2]}}
    BY <2>3
  <2>. HIDE DEF c, e
  <2>. QED  BY <2>2, <2>4 DEF Deps
<1>. QED  BY <1>2, <1>3, <1>4

\* ... and nothing of other rows.
LEMMA DepsAreOfRows ==
  ASSUME NEW ids, NEW t \in Deps(ids)
  PROVE  t[1] \in ids
<1>1. CASE t \in {<<e[1], e[1], e[2]>> : e \in {x \in dependsOn : x[1] \in ids}}
  BY <1>1
<1>2. CASE ~(t \in {<<e[1], e[1], e[2]>> : e \in {x \in dependsOn : x[1] \in ids}})
  BY <1>2 DEF Deps
<1>. QED  BY <1>1, <1>2

\* The second statement leaves none of the blockers out that has still to finish.
LEMMA UnmetHoldsHeldUp ==
  ASSUME NEW t \in HeldUp, NEW ids, t[3] \in ids
  PROVE  t[3] \in Unmet(ids)
<1>1. t[3] \in WorkItem \cup Proposal \cup Program /\ ToDo(t[3])
  BY DEF HeldUp, HoldsUp
<1>. QED  BY <1>1 DEF Unmet, ToDo, WiUnfinished, WiFinished, ProposalLive, ProposalTerminal,
                   ProgramStatuses, ProgramTerminal, Parked, Soaking

LEMMA BoardStep == BoardInv /\ [BoardNext]_<<vars, boardVars>> => BoardInv'
<1>. SUFFICES ASSUME BoardInv, [BoardNext]_<<vars, boardVars>> PROVE BoardInv'
  OBVIOUS
<1>a. board = [f \in BoardFields |-> board[f]]
  BY DEF BoardInv
<1>b. ASSUME UNCHANGED <<vars, dependsOn>> PROVE HeldUp' = HeldUp
  BY <1>b DEF HeldUp, HoldsUp, ToDo, vars
\* Statements whose answer the invariant does not speak of.
<1>c. ASSUME NEW field \in BoardFields \ {"at", "rows", "deps", "unmet"}, NEW value, NEW s, NEW n,
             Read(s, field, value, n), UNCHANGED lasting,
             n \in {"programs_hidden", "slices", "rows"} \cup RowsRead,
             n \in RowsRead => s \in RowsRead,
             n \in DepsRead => s \in DepsRead,
             n \in UnmetRead => s \in UnmetRead
      PROVE  BoardInv'
  <2>1. /\ board.at = s /\ board'.at = n
        /\ board' = [f \in BoardFields |-> board'[f]]
        /\ board'.rows = board.rows /\ board'.deps = board.deps /\ board'.unmet = board.unmet
        /\ UNCHANGED <<vars, dependsOn>>
    BY <1>a, <1>c, OthersStay
  <2>2. LiveIds' = LiveIds /\ HeldUp' = HeldUp
    BY <1>b, <2>1, RowsStay
  <2>. QED  BY <1>c, <2>1, <2>2 DEF BoardInv
<1>. USE DEF RowsRead, DepsRead, UnmetRead
<1>1. CASE ReadPrograms
  <2>1. /\ board'.at = "programs_hidden" /\ lasting' = HeldUp
        /\ board' = [f \in BoardFields |-> board'[f]]
        /\ UNCHANGED <<vars, dependsOn>>
    BY <1>a, <1>1, OthersStay DEF ReadPrograms, BoardFields
  <2>2. HeldUp' = HeldUp
    BY <1>b, <2>1
  <2>. QED  BY <2>1, <2>2 DEF BoardInv
<1>2. ASSUME UNCHANGED lasting, Read("rows", "rows", Rows(board.slices), "soaks")
      PROVE  BoardInv'
  <2>1. /\ board'.at = "soaks" /\ board'.rows = Rows(board.slices)
        /\ board' = [f \in BoardFields |-> board'[f]]
        /\ UNCHANGED <<vars, dependsOn>>
    BY <1>a, <1>2, OthersStay DEF BoardFields
  <2>2. HeldUp' = HeldUp
    BY <1>b, <2>1
  <2>3. \A t \in lasting' : t[1] \in LiveIds'
    BY <1>2, <2>1, RowsHoldHeldUp DEF BoardInv
  <2>. QED  BY <1>2, <2>1, <2>2, <2>3 DEF BoardInv
<1>3. ASSUME UNCHANGED lasting, Read("deps", "deps", Deps(LiveIds), "unmet")
      PROVE  BoardInv'
  <2>1. /\ board.at = "deps" /\ board'.at = "unmet" /\ board'.deps = Deps(LiveIds)
        /\ board'.rows = board.rows
        /\ board' = [f \in BoardFields |-> board'[f]]
        /\ UNCHANGED <<vars, dependsOn>>
    BY <1>a, <1>3, OthersStay DEF BoardFields
  <2>2. HeldUp' = HeldUp /\ LiveIds' = LiveIds
    BY <1>b, <2>1, RowsStay
  <2>3. lasting \subseteq Deps(LiveIds)
    BY <2>1, DepsHoldHeldUp DEF BoardInv
  <2>4. \A t \in Deps(LiveIds) : t[1] \in LiveIds
    BY DepsAreOfRows
  <2>. QED  BY <1>3, <2>1, <2>2, <2>3, <2>4 DEF BoardInv
<1>4. ASSUME UNCHANGED lasting, Deps(LiveIds) = {}, Read("deps", "deps", {}, "proposals_hidden")
      PROVE  BoardInv'
  <2>1. /\ board.at = "deps" /\ board'.at = "proposals_hidden" /\ board'.deps = {}
        /\ board'.rows = board.rows
        /\ board' = [f \in BoardFields |-> board'[f]]
        /\ UNCHANGED <<vars, dependsOn>>
    BY <1>a, <1>4, OthersStay DEF BoardFields
  <2>2. HeldUp' = HeldUp /\ LiveIds' = LiveIds
    BY <1>b, <2>1, RowsStay
  <2>3. lasting = {}
    BY <1>4, <2>1, DepsHoldHeldUp DEF BoardInv
  <2>. QED  BY <1>4, <2>1, <2>2, <2>3 DEF BoardInv
<1>5. ASSUME UNCHANGED lasting, Read("unmet", "unmet", Unmet(Blockers(board.deps)), "owners")
      PROVE  BoardInv'
  <2>1. /\ board.at = "unmet" /\ board'.at = "owners"
        /\ board'.unmet = Unmet(Blockers(board.deps))
        /\ board'.rows = board.rows /\ board'.deps = board.deps
        /\ board' = [f \in BoardFields |-> board'[f]]
        /\ UNCHANGED <<vars, dependsOn>>
    BY <1>a, <1>5, OthersStay DEF BoardFields
  <2>2. HeldUp' = HeldUp /\ LiveIds' = LiveIds
    BY <1>b, <2>1, RowsStay
  <2>3. \A t \in lasting : t[3] \in Blockers(board.deps)
    BY <2>1 DEF BoardInv, Blockers
  <2>4. \A t \in lasting : t[3] \in Unmet(Blockers(board.deps))
    BY <2>3, UnmetHoldsHeldUp DEF BoardInv
  <2>. QED  BY <1>5, <2>1, <2>2, <2>4 DEF BoardInv
<1>6. CASE ReadRest
  <2>. USE <1>6 DEF BoardFields
  <2>1. UNCHANGED lasting
    BY DEF ReadRest
  <2>2. CASE Read("programs_hidden", "programs_hidden", ProgramsHidden, "slices")
    BY <1>c, <2>1, <2>2
  <2>3. CASE Read("slices", "slices", SliceEdges(board.programs), "rows")
    BY <1>c, <2>1, <2>3
  <2>4. CASE Read("soaks", "soaks", Soaks(board.programs), "edges")
    BY <1>c, <2>1, <2>4
  <2>5. CASE Read("edges", "edges", EdgesWithin(LiveIds), "deps")
    BY <1>c, <2>1, <2>5
  <2>6. ASSUME NEW S, Read("owners", "owners", S, "proposals_hidden") PROVE BoardInv'
    BY <1>c, <2>1, <2>6
  <2>7. CASE Read("proposals_hidden", "proposals_hidden", ProposalsHidden, "awaiting")
    BY <1>c, <2>1, <2>7
  <2>8. CASE Read("awaiting", "awaiting", {n \in Node : InLane(n)}, "depth")
    BY <1>c, <2>1, <2>8
  <2>9. CASE Read("depth", "depth", [j \in Project |-> DepthOf(j)], "answered")
    BY <1>c, <2>1, <2>9
  <2>. QED  BY <1>2, <1>3, <1>4, <1>5, <2>1, <2>2, <2>3, <2>4, <2>5, <2>6, <2>7, <2>8, <2>9 DEF ReadRest
<1>7. CASE Commit
  <2>1. board' = board /\ lasting' = lasting \cap HeldUp'
    BY <1>7 DEF Commit
  <2>2. LiveIds' = LiveIds
    BY <2>1, RowsStay
  <2>. QED  BY <2>1, <2>2 DEF BoardInv
<1>8. CASE UNCHANGED <<vars, boardVars>>
  <2>1. board' = board /\ lasting' = lasting /\ UNCHANGED <<vars, dependsOn>>
    BY <1>8 DEF boardVars
  <2>2. LiveIds' = LiveIds /\ HeldUp' = HeldUp
    BY <1>b, <2>1, RowsStay
  <2>. QED  BY <2>1, <2>2 DEF BoardInv
<1>. QED  BY <1>1, <1>6, <1>7, <1>8 DEF BoardNext

\* However the calls fall between the statements of the read, what was held up from the
\* first to the last is on the board, and what is shown as held up has its row there.
THEOREM LastingBlockersShown == BoardSpec => []LastingBlockersAreShown
<1>1. BoardInit => BoardInv
  BY DEF BoardInit, BoardInv, NothingRead, BoardFields, RowsRead, DepsRead, UnmetRead
<1>2. BoardInv => LastingBlockersAreShown
  <2>. SUFFICES ASSUME BoardInv, board.at = "answered" PROVE LastingBlockersAreShown
    BY DEF LastingBlockersAreShown
  <2>1. /\ lasting \subseteq board.deps /\ \A t \in lasting : t[3] \in board.unmet
        /\ \A t \in board.deps : t[1] \in LiveIds
    BY DEF BoardInv, RowsRead, DepsRead, UnmetRead
  <2>2. ASSUME NEW n \in LiveIds PROVE \E r \in Active \cup Queue : r.node = n
    <3>1. PICK r \in board.rows : Shown(r) /\ r.node = n
      BY DEF LiveIds
    <3>2. r \in Active \cup Queue
      BY <3>1 DEF Active, Queue, Shown, ProposalLive
    <3>. QED  BY <3>1, <3>2
  <2>. QED  BY <2>1, <2>2 DEF LastingBlockersAreShown, Blocked
<1>. QED  BY <1>1, <1>2, BoardStep, PTL DEF BoardSpec

-------------------------------------------------------------------------------
(***************************************************************************)
(* What a board read in peace adds up to.                                  *)
(***************************************************************************)

\* The tables are whole: an edge is between nodes that exist, and those are finitely many.
Here == {n \in Node : Exists(n)}

Whole ==
  /\ TypeOK
  /\ IsFiniteSet(Here)
  /\ \A e \in includes \cup covers \cup dependsOn : e \in Node \X Node /\ e[1] \in Here /\ e[2] \in Here

\* One call brings at most one node.
LEMMA OneNodeComes ==
  ASSUME TypeOK, [Next]_vars
  PROVE  \E m : Here' \subseteq Here \cup {m}
<1>. USE DEF Exists, Here, Node
<1>1. CASE CreateSome
  <2>1. PICK n \in Node : \A m \in Node \ {n} : status'[m] = status[m]
    BY <1>1, CreateMoves
  <2>2. Here' \subseteq Here \cup {n}
    BY <2>1
  <2>. QED  BY <2>2
<1>2. ASSUME NEW g \in Program, NEW p \in Proposal, RelateIncludes(g, p)
      PROVE  Here' \subseteq Here
  BY <1>2, RelateMoves DEF Absent, ProgramLiftable, ProgramInitial, Soaking
<1>3. ASSUME NEW w \in WorkItem, NEW patch \in WorkItemPatches, UpdateWorkItem(w, patch)
      PROVE  Here' \subseteq Here
  BY <1>3, ItemMoves
<1>4. ASSUME NEW p \in Proposal, NEW patch \in ProposalPatches, UpdateProposal(p, patch)
      PROVE  Here' \subseteq Here
  <2>1. Exists(p)
    BY <1>4 DEF UpdateProposal
  <2>. QED  BY <1>4, <2>1, ProposalMoves DEF Absent, ProgramLiftable, ProgramInitial, Soaking
<1>5. ASSUME NEW g \in Program, NEW patch \in ProgramPatches, UpdateProgram(g, patch)
      PROVE  Here' \subseteq Here
  BY <1>5, ProgramMoves
<1>6. ASSUME NEW c \in Card, NEW patch \in CardPatches, UpdateCard(c, patch)
      PROVE  Here' \subseteq Here
  BY <1>6, CardMoves
<1>7. CASE Quiet \/ UNCHANGED vars
  BY <1>7 DEF Quiet, vars
<1>. QED  BY <1>1, <1>2, <1>3, <1>4, <1>5, <1>6, <1>7, StepKinds

\* An edge comes with both its ends there, and they stay.
LEMMA EdgesKeepTheirEnds ==
  ASSUME Whole, [Next]_vars, NEW e \in includes' \cup covers'
  PROVE  e \in Node \X Node /\ e[1] \in Here' /\ e[2] \in Here'
<1>. USE DEF Here, Exists
<1>1. TypeOK /\ TypeOK'
  BY TypeStep DEF Whole
<1>2. \A n \in Here : n \in Here'
  BY <1>1, NodesStay
<1>3. e \in Node \X Node
  BY <1>1 DEF TypeOK, Node
<1>4. CASE e \in includes \cup covers
  BY <1>2, <1>3, <1>4 DEF Whole
<1>5. CASE e \notin includes \cup covers
  <2>1. ASSUME NEW p \in Proposal, NEW pr \in Project, NEW C \in SUBSET WorkItem, CreateProposal(p, pr, C)
        PROVE  e[1] \in Here' /\ e[2] \in Here'
    <3>1. e[1] = p /\ e[2] \in Here
      BY <1>5, <2>1 DEF CreateProposal, Node
    <3>2. status'[p] # Absent
      BY <1>1, <2>1 DEF CreateProposal, TypeOK, Absent, Node
    <3>. QED  BY <1>2, <3>1, <3>2 DEF Node
  <2>2. ASSUME NEW g \in Program, NEW S \in SUBSET Proposal, CreateProgram(g, S)
        PROVE  e[1] \in Here' /\ e[2] \in Here'
    <3>1. e[1] = g /\ e[2] \in Here
      BY <1>5, <2>2 DEF CreateProgram, Node
    <3>2. status'[g] # Absent
      BY <1>1, <2>2 DEF CreateProgram, TypeOK, Absent, ProgramInitial, Node
    <3>. QED  BY <1>2, <3>1, <3>2 DEF Node
  <2>3. ASSUME NEW g \in Program, NEW p \in Proposal, RelateIncludes(g, p)
        PROVE  e[1] \in Here /\ e[2] \in Here
    BY <1>5, <2>3 DEF RelateIncludes, Node
  <2>4. ASSUME NEW p \in Proposal, NEW w \in WorkItem, RelateCovers(p, w)
        PROVE  e[1] \in Here /\ e[2] \in Here
    BY <1>5, <2>4 DEF RelateCovers, Node
  <2>5. CASE includes' \subseteq includes /\ covers' \subseteq covers
    BY <1>5, <2>5
  <2>6. ASSUME [Next]_vars,
               ~\E p \in Proposal, pr \in Project, C \in SUBSET WorkItem : CreateProposal(p, pr, C),
               ~\E g \in Program, S \in SUBSET Proposal : CreateProgram(g, S),
               ~\E g \in Program, p \in Proposal : RelateIncludes(g, p),
               ~\E p \in Proposal, w \in WorkItem : RelateCovers(p, w)
        PROVE  includes' \subseteq includes /\ covers' \subseteq covers
    BY <2>6 DEF Next, CreateSome, RelateSome, UpdateSome, AskSome, CreateWorkItem, CreateOther,
                RelateSoaks, Unrelate, UpdateWorkItem, UpdateProposal, UpdateProgram, UpdateCard,
                UpdateCapture, SetAwaiting, edgeVars, vars
  <2>. QED  BY <1>2, <1>3, <2>1, <2>2, <2>3, <2>4, <2>5, <2>6
<1>. QED  BY <1>3, <1>4, <1>5

LEMMA WholeStep == Whole /\ [BoardNext]_<<vars, boardVars>> => Whole'
<1>. SUFFICES ASSUME Whole, [BoardNext]_<<vars, boardVars>> PROVE Whole'
  OBVIOUS
<1>1. ASSUME [Next]_vars, dependsOn' = dependsOn PROVE Whole'
  <2>1. TypeOK'
    BY <1>1, TypeStep DEF Whole
  <2>2. IsFiniteSet(Here')
    <3>1. PICK m : Here' \subseteq Here \cup {m}
      BY <1>1, OneNodeComes DEF Whole
    <3>2. IsFiniteSet(Here \cup {m})
      BY FS_AddElement DEF Whole
    <3>. QED  BY <3>1, <3>2, FS_Subset
  <2>3. \A n \in Here : n \in Here'
    BY <1>1, NodesStay DEF Whole, Here, Exists
  <2>4. \A e \in dependsOn' : e \in Node \X Node /\ e[1] \in Here' /\ e[2] \in Here'
    BY <1>1, <2>3 DEF Whole
  <2>. QED  BY <1>1, <2>1, <2>2, <2>4, EdgesKeepTheirEnds DEF Whole
<1>2. ASSUME NEW e \in Dependencies, RelateDependsOn(e) PROVE Whole'
  BY <1>2, BoardAssumption DEF Whole, RelateDependsOn, Here, Exists, TypeOK, vars, Transition
<1>3. ASSUME NEW e \in Dependencies, UnrelateDependsOn(e) PROVE Whole'
  BY <1>3 DEF Whole, UnrelateDependsOn, Here, Exists, TypeOK, vars, Transition
<1>4. CASE ReadPrograms \/ ReadRest \/ UNCHANGED <<vars, boardVars>>
  <2>1. UNCHANGED vars /\ dependsOn' = dependsOn
    BY <1>4 DEF ReadPrograms, ReadRest, Read, boardVars
  <2>. QED  BY <1>1, <2>1
<1>. QED  BY <1>1, <1>2, <1>3, <1>4 DEF BoardNext, Commit

\* The statements that are through when the read is at a point.
HiddenRead    == {"slices", "rows"} \cup RowsRead
ProgramsRead  == {"programs_hidden"} \cup HiddenRead
SlicesRead    == {"rows"} \cup RowsRead
ProposalsRead == {"awaiting", "depth", "answered"}

\* While nothing has been committed, what every statement returned is what it would
\* return now.  A board without dependencies skips two statements and needs neither.
PeaceInv ==
  /\ board = [f \in BoardFields |-> board[f]]
  /\ board.at \in {"programs"} \cup ProgramsRead
  /\ board.at = "programs" => board.owners = {}
  /\ quiet =>
       /\ board.at # "programs"
       /\ board.programs = ProgramItems
       /\ board.at \in HiddenRead => board.programs_hidden = ProgramsHidden
       /\ board.at \in SlicesRead => board.slices = SliceEdges(board.programs)
       /\ board.at \in RowsRead => board.rows = Rows(board.slices)
       /\ board.at \in DepsRead => board.deps = Deps(LiveIds)
       /\ board.at \in UnmetRead => \A t \in board.deps : t[3] \in board.unmet <=> t[3] \in Unmet(Blockers(board.deps))
       /\ board.owners \subseteq covers
       /\ board.at \in ProposalsRead => board.proposals_hidden = ProposalsHidden
       /\ board.at = "answered" => board.depth = [j \in Project |-> DepthOf(j)]

\* The statements read the tables, and nothing but.
LEMMA SameTables ==
  ASSUME UNCHANGED <<vars, dependsOn>>
  PROVE  /\ ProgramItems' = ProgramItems /\ ProgramsHidden' = ProgramsHidden
         /\ \A S : SliceEdges(S)' = SliceEdges(S)
         /\ \A S : Rows(S)' = Rows(S)
         /\ \A S : Deps(S)' = Deps(S)
         /\ \A S : Unmet(S)' = Unmet(S)
         /\ ProposalsHidden' = ProposalsHidden
         /\ \A j : DepthOf(j)' = DepthOf(j)
  BY DEF ProgramItems, ProgramsHidden, SliceEdges, Rows, Buckets, Deps, Unmet, ProposalsHidden,
         DepthOf, Exists, vars

\* What each field holds after a statement.
LEMMA FieldsAfter ==
  ASSUME board = [f \in BoardFields |-> board[f]],
         NEW statement, NEW field \in BoardFields \ {"at"}, NEW value, NEW next,
         Read(statement, field, value, next)
  PROVE  /\ board.at = statement /\ board'.at = next
         /\ board' = [f \in BoardFields |-> board'[f]]
         /\ board'.programs = IF field = "programs" THEN value ELSE board.programs
         /\ board'.programs_hidden = IF field = "programs_hidden" THEN value ELSE board.programs_hidden
         /\ board'.slices = IF field = "slices" THEN value ELSE board.slices
         /\ board'.rows = IF field = "rows" THEN value ELSE board.rows
         /\ board'.deps = IF field = "deps" THEN value ELSE board.deps
         /\ board'.unmet = IF field = "unmet" THEN value ELSE board.unmet
         /\ board'.owners = IF field = "owners" THEN value ELSE board.owners
         /\ board'.proposals_hidden = IF field = "proposals_hidden" THEN value ELSE board.proposals_hidden
         /\ board'.depth = IF field = "depth" THEN value ELSE board.depth
         /\ UNCHANGED <<vars, dependsOn>>
<1>1. /\ board.at = statement /\ board'.at = next /\ board'[field] = value
      /\ \A f \in BoardFields \ {"at", field} : board'[f] = board[f]
      /\ board' = [f \in BoardFields |-> board'[f]]
      /\ UNCHANGED <<vars, dependsOn>>
  BY ReadEffect
<1>. QED  BY <1>1 DEF BoardFields

LEMMA PeaceStep == PeaceInv /\ [BoardNext]_<<vars, boardVars>> => PeaceInv'
<1>. SUFFICES ASSUME PeaceInv, [BoardNext]_<<vars, boardVars>> PROVE PeaceInv'
  OBVIOUS
<1>a. board = [f \in BoardFields |-> board[f]]
  BY DEF PeaceInv
\* The answers as the tables give them, before and after a step that leaves them alone.
<1>b. ASSUME UNCHANGED <<vars, dependsOn>>, board'.rows = board.rows PROVE Deps(LiveIds)' = Deps(LiveIds)
  BY <1>b, RowsStay, SameTables
<1>c. ASSUME UNCHANGED <<vars, dependsOn>>
      PROVE  /\ ProgramItems' = ProgramItems /\ ProgramsHidden' = ProgramsHidden
             /\ SliceEdges(board.programs)' = SliceEdges(board'.programs)
             /\ Rows(board.slices)' = Rows(board'.slices)
             /\ Unmet(Blockers(board.deps))' = Unmet(Blockers(board'.deps))
             /\ ProposalsHidden' = ProposalsHidden
             /\ [j \in Project |-> DepthOf(j)]' = [j \in Project |-> DepthOf(j)]
             /\ covers' = covers
  BY <1>c, SameTables DEF Blockers, vars
<1>. USE DEF ProgramsRead, HiddenRead, SlicesRead, RowsRead, DepsRead, UnmetRead, ProposalsRead
<1>1. CASE ReadPrograms
  <2>1. Read("programs", "programs", ProgramItems, "programs_hidden")
    BY <1>1 DEF ReadPrograms
  <2>. QED  BY <1>a, <1>c, <2>1, FieldsAfter DEF PeaceInv, BoardFields
\* One case for each statement.
<1>2. CASE ReadRest
  <2>1. UNCHANGED quiet
    BY <1>2 DEF ReadRest
  <2>2. CASE Read("programs_hidden", "programs_hidden", ProgramsHidden, "slices")
    <3>1. /\ board.at = "programs_hidden" /\ board'.at = "slices" /\ UNCHANGED <<vars, dependsOn>>
          /\ board' = [g \in BoardFields |-> board'[g]]
          /\ board'.programs_hidden = ProgramsHidden /\ board'.programs = board.programs
          /\ board'.slices = board.slices /\ board'.rows = board.rows
          /\ board'.deps = board.deps /\ board'.unmet = board.unmet
          /\ board'.owners = board.owners /\ board'.proposals_hidden = board.proposals_hidden
          /\ board'.depth = board.depth
      BY <1>a, <2>2, FieldsAfter DEF BoardFields
    <3>. QED  BY <1>b, <1>c, <2>1, <2>2, <3>1 DEF PeaceInv
  <2>3. CASE Read("slices", "slices", SliceEdges(board.programs), "rows")
    <3>1. /\ board.at = "slices" /\ board'.at = "rows" /\ UNCHANGED <<vars, dependsOn>>
          /\ board' = [g \in BoardFields |-> board'[g]]
          /\ board'.slices = SliceEdges(board.programs) /\ board'.programs = board.programs
          /\ board'.programs_hidden = board.programs_hidden /\ board'.rows = board.rows
          /\ board'.deps = board.deps /\ board'.unmet = board.unmet
          /\ board'.owners = board.owners /\ board'.proposals_hidden = board.proposals_hidden
          /\ board'.depth = board.depth
      BY <1>a, <2>3, FieldsAfter DEF BoardFields
    <3>. QED  BY <1>b, <1>c, <2>1, <2>3, <3>1 DEF PeaceInv
  <2>4. CASE Read("rows", "rows", Rows(board.slices), "soaks")
    <3>1. /\ board.at = "rows" /\ board'.at = "soaks" /\ UNCHANGED <<vars, dependsOn>>
          /\ board' = [g \in BoardFields |-> board'[g]]
          /\ board'.rows = Rows(board.slices) /\ board'.programs = board.programs
          /\ board'.programs_hidden = board.programs_hidden /\ board'.slices = board.slices
          /\ board'.deps = board.deps /\ board'.unmet = board.unmet
          /\ board'.owners = board.owners /\ board'.proposals_hidden = board.proposals_hidden
          /\ board'.depth = board.depth
      BY <1>a, <2>4, FieldsAfter DEF BoardFields
    <3>. QED  BY <1>b, <1>c, <2>1, <2>4, <3>1 DEF PeaceInv
  <2>5. CASE Read("soaks", "soaks", Soaks(board.programs), "edges")
    <3>1. /\ board.at = "soaks" /\ board'.at = "edges" /\ UNCHANGED <<vars, dependsOn>>
          /\ board' = [g \in BoardFields |-> board'[g]]
          /\ board'.programs = board.programs /\ board'.programs_hidden = board.programs_hidden
          /\ board'.slices = board.slices /\ board'.rows = board.rows
          /\ board'.deps = board.deps /\ board'.unmet = board.unmet
          /\ board'.owners = board.owners /\ board'.proposals_hidden = board.proposals_hidden
          /\ board'.depth = board.depth
      BY <1>a, <2>5, FieldsAfter DEF BoardFields
    <3>. QED  BY <1>b, <1>c, <2>1, <2>5, <3>1 DEF PeaceInv
  <2>6. CASE Read("edges", "edges", EdgesWithin(LiveIds), "deps")
    <3>1. /\ board.at = "edges" /\ board'.at = "deps" /\ UNCHANGED <<vars, dependsOn>>
          /\ board' = [g \in BoardFields |-> board'[g]]
          /\ board'.programs = board.programs /\ board'.programs_hidden = board.programs_hidden
          /\ board'.slices = board.slices /\ board'.rows = board.rows
          /\ board'.deps = board.deps /\ board'.unmet = board.unmet
          /\ board'.owners = board.owners /\ board'.proposals_hidden = board.proposals_hidden
          /\ board'.depth = board.depth
      BY <1>a, <2>6, FieldsAfter DEF BoardFields
    <3>. QED  BY <1>b, <1>c, <2>1, <2>6, <3>1 DEF PeaceInv
  <2>7. CASE Read("deps", "deps", Deps(LiveIds), "unmet")
    <3>1. /\ board.at = "deps" /\ board'.at = "unmet" /\ UNCHANGED <<vars, dependsOn>>
          /\ board' = [g \in BoardFields |-> board'[g]]
          /\ board'.deps = Deps(LiveIds) /\ board'.programs = board.programs
          /\ board'.programs_hidden = board.programs_hidden /\ board'.slices = board.slices
          /\ board'.rows = board.rows /\ board'.unmet = board.unmet
          /\ board'.owners = board.owners /\ board'.proposals_hidden = board.proposals_hidden
          /\ board'.depth = board.depth
      BY <1>a, <2>7, FieldsAfter DEF BoardFields
    <3>. QED  BY <1>b, <1>c, <2>1, <2>7, <3>1 DEF PeaceInv
  <2>8. CASE Deps(LiveIds) = {} /\ Read("deps", "deps", {}, "proposals_hidden")
    <3>1. /\ board.at = "deps" /\ board'.at = "proposals_hidden" /\ UNCHANGED <<vars, dependsOn>>
          /\ board' = [g \in BoardFields |-> board'[g]]
          /\ board'.deps = {} /\ board'.programs = board.programs
          /\ board'.programs_hidden = board.programs_hidden /\ board'.slices = board.slices
          /\ board'.rows = board.rows /\ board'.unmet = board.unmet
          /\ board'.owners = board.owners /\ board'.proposals_hidden = board.proposals_hidden
          /\ board'.depth = board.depth
      BY <1>a, <2>8, FieldsAfter DEF BoardFields
    <3>. QED  BY <1>b, <1>c, <2>1, <2>8, <3>1 DEF PeaceInv
  <2>9. CASE Read("unmet", "unmet", Unmet(Blockers(board.deps)), "owners")
    <3>1. /\ board.at = "unmet" /\ board'.at = "owners" /\ UNCHANGED <<vars, dependsOn>>
          /\ board' = [g \in BoardFields |-> board'[g]]
          /\ board'.unmet = Unmet(Blockers(board.deps)) /\ board'.programs = board.programs
          /\ board'.programs_hidden = board.programs_hidden /\ board'.slices = board.slices
          /\ board'.rows = board.rows /\ board'.deps = board.deps
          /\ board'.owners = board.owners /\ board'.proposals_hidden = board.proposals_hidden
          /\ board'.depth = board.depth
      BY <1>a, <2>9, FieldsAfter DEF BoardFields
    <3>. QED  BY <1>b, <1>c, <2>1, <2>9, <3>1 DEF PeaceInv
  <2>10. ASSUME NEW S \in SomeOwners(Blockers(board.deps)), Read("owners", "owners", S, "proposals_hidden")
        PROVE  PeaceInv'
    <3>1. /\ board.at = "owners" /\ board'.at = "proposals_hidden" /\ UNCHANGED <<vars, dependsOn>>
          /\ board' = [g \in BoardFields |-> board'[g]]
          /\ board'.owners = S /\ board'.programs = board.programs
          /\ board'.programs_hidden = board.programs_hidden /\ board'.slices = board.slices
          /\ board'.rows = board.rows /\ board'.deps = board.deps
          /\ board'.unmet = board.unmet /\ board'.proposals_hidden = board.proposals_hidden
          /\ board'.depth = board.depth
      BY <1>a, <2>10, FieldsAfter DEF BoardFields
    <3>2. S \subseteq covers
      BY DEF SomeOwners, CoversOf
    <3>. QED  BY <1>b, <1>c, <2>1, <2>10, <3>1, <3>2 DEF PeaceInv
  <2>11. CASE Read("proposals_hidden", "proposals_hidden", ProposalsHidden, "awaiting")
    <3>1. /\ board.at = "proposals_hidden" /\ board'.at = "awaiting" /\ UNCHANGED <<vars, dependsOn>>
          /\ board' = [g \in BoardFields |-> board'[g]]
          /\ board'.proposals_hidden = ProposalsHidden /\ board'.programs = board.programs
          /\ board'.programs_hidden = board.programs_hidden /\ board'.slices = board.slices
          /\ board'.rows = board.rows /\ board'.deps = board.deps
          /\ board'.unmet = board.unmet /\ board'.owners = board.owners
          /\ board'.depth = board.depth
      BY <1>a, <2>11, FieldsAfter DEF BoardFields
    <3>. QED  BY <1>b, <1>c, <2>1, <2>11, <3>1 DEF PeaceInv
  <2>12. CASE Read("awaiting", "awaiting", {n \in Node : InLane(n)}, "depth")
    <3>1. /\ board.at = "awaiting" /\ board'.at = "depth" /\ UNCHANGED <<vars, dependsOn>>
          /\ board' = [g \in BoardFields |-> board'[g]]
          /\ board'.programs = board.programs /\ board'.programs_hidden = board.programs_hidden
          /\ board'.slices = board.slices /\ board'.rows = board.rows
          /\ board'.deps = board.deps /\ board'.unmet = board.unmet
          /\ board'.owners = board.owners /\ board'.proposals_hidden = board.proposals_hidden
          /\ board'.depth = board.depth
      BY <1>a, <2>12, FieldsAfter DEF BoardFields
    <3>. QED  BY <1>b, <1>c, <2>1, <2>12, <3>1 DEF PeaceInv
  <2>13. CASE Read("depth", "depth", [j \in Project |-> DepthOf(j)], "answered")
    <3>1. /\ board.at = "depth" /\ board'.at = "answered" /\ UNCHANGED <<vars, dependsOn>>
          /\ board' = [g \in BoardFields |-> board'[g]]
          /\ board'.depth = [j \in Project |-> DepthOf(j)] /\ board'.programs = board.programs
          /\ board'.programs_hidden = board.programs_hidden /\ board'.slices = board.slices
          /\ board'.rows = board.rows /\ board'.deps = board.deps
          /\ board'.unmet = board.unmet /\ board'.owners = board.owners
          /\ board'.proposals_hidden = board.proposals_hidden
      BY <1>a, <2>13, FieldsAfter DEF BoardFields
    <3>. QED  BY <1>b, <1>c, <2>1, <2>13, <3>1 DEF PeaceInv
  <2>. QED
    BY <1>2, <2>2, <2>3, <2>4, <2>5, <2>6, <2>7, <2>8, <2>9, <2>10, <2>11, <2>12, <2>13 DEF ReadRest
<1>3. CASE Commit
  BY <1>3 DEF Commit, PeaceInv
<1>4. CASE UNCHANGED <<vars, boardVars>>
  <2>1. board' = board /\ quiet' = quiet /\ UNCHANGED <<vars, dependsOn>>
    BY <1>4 DEF boardVars
  <2>. QED  BY <1>b, <1>c, <2>1 DEF PeaceInv
<1>. QED  BY <1>1, <1>2, <1>3, <1>4 DEF BoardNext

\* Counting.
LEMMA CountApart ==
  ASSUME NEW S, NEW T, IsFiniteSet(S), IsFiniteSet(T), S \cap T = {}
  PROVE  /\ IsFiniteSet(S \cup T) /\ Count(S \cup T) = Count(S) + Count(T)
         /\ Count(S) \in Nat /\ Count(T) \in Nat
<1>1. Cardinality(S \cup T) = Cardinality(S) + Cardinality(T) - Cardinality(S \cap T)
  BY FS_Union
<1>2. Cardinality(S) \in Nat /\ Cardinality(T) \in Nat
  BY FS_CardinalityType
<1>3. Cardinality(S \cap T) = 0
  BY FS_EmptySet, Zenon
<1>. QED  BY <1>1, <1>2, <1>3, FS_Union DEF Count

LEMMA CountAlike ==
  ASSUME NEW S, NEW T, IsFiniteSet(S), NEW f \in [S -> T],
         \A x, y \in S : f[x] = f[y] => x = y,
         \A t \in T : \E x \in S : f[x] = t
  PROVE  IsFiniteSet(T) /\ Count(T) = Count(S)
<1>1. f \in Injection(S, T) /\ f \in Surjection(S, T)
  BY DEF Injection, Surjection, IsInjective
<1>2. ExistsBijection(S, T)
  BY <1>1 DEF ExistsBijection, Bijection
<1>. QED  BY <1>2, FS_Bijection DEF Count

\* The proposals the board shows, and the row of each.
LiveProposals == {p \in Proposal : p \notin archived /\ status[p] \in ProposalLive}

RowOf(p) == [node |-> p, status |-> status[p], project |-> project[p],
             archived |-> p \in archived, covered |-> Buckets(p)]

LEMMA PanelsAreTheLive ==
  ASSUME board.rows = Rows(board.slices)
  PROVE  /\ Active \cup Queue = {RowOf(p) : p \in LiveProposals}
         /\ Active \cap Queue = {}
         /\ LiveIds = LiveProposals
<1>1. \A r \in board.rows : \E p \in Proposal : r = RowOf(p)
  BY DEF Rows, RowOf
<1>2. \A p \in LiveProposals : RowOf(p) \in board.rows
  BY DEF Rows, RowOf, LiveProposals, Exists, ProposalLive, Absent, Parked
<1>3. \A p : /\ RowOf(p).node = p /\ RowOf(p).status = status[p]
             /\ RowOf(p).archived = (p \in archived)
  BY DEF RowOf
<1>4. Active \cup Queue = {r \in board.rows : Shown(r)} /\ Active \cap Queue = {}
  BY DEF Active, Queue, Shown, ProposalLive, Parked
<1>5. \A p \in Proposal : Shown(RowOf(p)) <=> p \in LiveProposals
  BY <1>3 DEF Shown, LiveProposals
<1>6. \A r : r \in {x \in board.rows : Shown(x)} <=> \E p \in LiveProposals : r = RowOf(p)
  BY <1>1, <1>2, <1>5 DEF LiveProposals
<1>7. LiveIds = LiveProposals
  BY <1>3, <1>6 DEF LiveIds
<1>. QED  BY <1>4, <1>6, <1>7

\* As many rows as proposals, whichever are picked.
LEMMA AsManyRows ==
  ASSUME NEW S, IsFiniteSet(S)
  PROVE  /\ IsFiniteSet({RowOf(p) : p \in S})
         /\ Count({RowOf(p) : p \in S}) = Count(S)
<1>. DEFINE T == {RowOf(p) : p \in S}
            f == [p \in S |-> RowOf(p)]
<1>1. f \in [S -> T] /\ \A t \in T : \E x \in S : f[x] = t
  OBVIOUS
<1>2. \A p : RowOf(p).node = p
  BY DEF RowOf
<1>3. \A x, y \in S : f[x] = f[y] => x = y
  BY <1>2
<1>. HIDE DEF f, T
<1>4. IsFiniteSet(T) /\ Count(T) = Count(S)
  BY <1>1, <1>3, CountAlike
<1>. QED  BY <1>4 DEF T

\* Every proposal is in a panel or in what is omitted.
LEMMA ProposalsAccountedFor ==
  ASSUME Whole, board.rows = Rows(board.slices)
  PROVE  Count(Active) + Count(Queue) + ProposalsHidden.archived + ProposalsHidden.done
           + ProposalsHidden.declined = Count({p \in Proposal : Exists(p)})
<1>. DEFINE all  == {p \in Proposal : Exists(p)}
            arch == {p \in Proposal : Exists(p) /\ p \in archived}
            done == {p \in Proposal : p \notin archived /\ status[p] = "done"}
            decl == {p \in Proposal : p \notin archived /\ status[p] = "declined"}
            live == LiveProposals
<1>1. all = ((live \cup arch) \cup done) \cup decl
  BY DEF Whole, TypeOK, LiveProposals, ProposalLive, ProposalStatuses, Exists, Absent, Parked
<1>2. live \cap arch = {} /\ (live \cup arch) \cap done = {} /\ ((live \cup arch) \cup done) \cap decl = {}
  BY DEF LiveProposals, ProposalLive, Parked
<1>3. IsFiniteSet(all)
  BY FS_Subset DEF Whole, Here, Node
<1>4. IsFiniteSet(live) /\ IsFiniteSet(arch) /\ IsFiniteSet(done) /\ IsFiniteSet(decl)
  <2>. HIDE DEF all, arch, done, decl, live
  <2>. QED  BY <1>1, <1>3, FS_Subset
<1>5. Count(Active) + Count(Queue) = Count(live)
  <2>1. IsFiniteSet(Active \cup Queue) /\ Count(Active \cup Queue) = Count(live)
    BY <1>4, PanelsAreTheLive, AsManyRows
  <2>2. IsFiniteSet(Active) /\ IsFiniteSet(Queue)
    BY <2>1, FS_Subset
  <2>. QED  BY <2>1, <2>2, PanelsAreTheLive, CountApart
<1>6. /\ ProposalsHidden.archived = Count(arch) /\ ProposalsHidden.done = Count(done)
      /\ ProposalsHidden.declined = Count(decl)
  BY DEF ProposalsHidden, Count
<1>7. Count(all) = Count(live) + Count(arch) + Count(done) + Count(decl)
  <2>. HIDE DEF all, arch, done, decl, live
  <2>1. IsFiniteSet(live \cup arch) /\ Count(live \cup arch) = Count(live) + Count(arch)
    BY <1>2, <1>4, CountApart
  <2>2. /\ IsFiniteSet((live \cup arch) \cup done)
        /\ Count((live \cup arch) \cup done) = Count(live \cup arch) + Count(done)
    BY <1>2, <1>4, <2>1, CountApart
  <2>3. Count(((live \cup arch) \cup done) \cup decl) = Count((live \cup arch) \cup done) + Count(decl)
    BY <1>2, <1>4, <2>2, CountApart
  <2>. QED  BY <1>1, <2>1, <2>2, <2>3
<1>8. Count(Active) \in Nat /\ Count(Queue) \in Nat /\ Count(live) \in Nat
  <2>1. IsFiniteSet(Active \cup Queue)
    BY <1>4, PanelsAreTheLive, AsManyRows
  <2>. QED  BY <1>4, <2>1, FS_Subset, FS_CardinalityType DEF Count
<1>9. Count(arch) \in Nat /\ Count(done) \in Nat /\ Count(decl) \in Nat
  <2>. HIDE DEF arch, done, decl
  <2>. QED  BY <1>4, FS_CardinalityType DEF Count
<1>. QED
  <2>. HIDE DEF all, arch, done, decl, live
  <2>1. Count(Active) + Count(Queue) + Count(arch) + Count(done) + Count(decl) = Count(all)
    BY <1>5, <1>7, <1>8, <1>9
  <2>. QED  BY <1>6, <2>1 DEF all

\* ... and so is every program.
LEMMA ProgramsAccountedFor ==
  ASSUME Whole
  PROVE  Count(ProgramItems) + ProgramsHidden.archived + ProgramsHidden.done
           = Count({g \in Program : Exists(g)})
<1>. DEFINE all  == {g \in Program : Exists(g)}
            arch == {g \in Program : Exists(g) /\ g \in archived}
            done == {g \in Program : g \notin archived /\ status[g] = "done"}
            live == ProgramItems
<1>1. all = (live \cup arch) \cup done
  BY DEF Whole, TypeOK, ProgramItems, ProgramTerminal, ProgramStatuses, Exists, Absent, Parked, Soaking
<1>2. live \cap arch = {} /\ (live \cup arch) \cap done = {}
  BY DEF ProgramItems, ProgramTerminal
<1>3. IsFiniteSet(all)
  BY FS_Subset DEF Whole, Here, Node
<1>4. IsFiniteSet(live) /\ IsFiniteSet(arch) /\ IsFiniteSet(done)
  <2>. HIDE DEF all, arch, done, live
  <2>. QED  BY <1>1, <1>3, FS_Subset
<1>5. Count(all) = Count(live) + Count(arch) + Count(done)
  <2>. HIDE DEF all, arch, done, live
  <2>1. IsFiniteSet(live \cup arch) /\ Count(live \cup arch) = Count(live) + Count(arch)
    BY <1>2, <1>4, CountApart
  <2>2. Count((live \cup arch) \cup done) = Count(live \cup arch) + Count(done)
    BY <1>2, <1>4, <2>1, CountApart
  <2>. QED  BY <1>1, <2>1, <2>2
<1>6. ProgramsHidden.archived = Count(arch) /\ ProgramsHidden.done = Count(done)
  BY DEF ProgramsHidden, Count
<1>. QED  BY <1>5, <1>6

\* The buckets of a row are the work items its proposal covers, each in one of them.
LEMMA BucketsAddUp ==
  ASSUME Whole, NEW p \in Proposal
  PROVE  Total(Buckets(p)) = Count({e \in covers : e[1] = p})
<1>. DEFINE In(s) == {w \in WorkItem : <<p, w>> \in covers /\ status[w] = s}
            all  == {w \in WorkItem : <<p, w>> \in covers}
            edges == {e \in covers : e[1] = p}
            f == [w \in all |-> <<p, w>>]
<1>1. IsFiniteSet(all)
  <2>1. all \subseteq Here
    BY DEF Whole
  <2>. QED  BY <2>1, FS_Subset DEF Whole
<1>2. \A w \in all : status[w] \in WiStatuses
  BY DEF Whole, TypeOK, Here, Exists
<1>3. all = (((In("open") \cup In("resolved")) \cup In("done")) \cup In("closed")) \cup In(Parked)
  BY <1>2 DEF WiStatuses
<1>4. \A s : In(s) \in SUBSET all
  OBVIOUS
<1>5. \A s : IsFiniteSet(In(s))
  <2>. HIDE DEF In, all
  <2>. QED  BY <1>1, <1>4, FS_Subset
<1>6. Count(all) = Count(In("open")) + Count(In("resolved")) + Count(In("done")) + Count(In("closed"))
                     + Count(In(Parked))
  <2>1. /\ In("open") \cap In("resolved") = {}
        /\ (In("open") \cup In("resolved")) \cap In("done") = {}
        /\ ((In("open") \cup In("resolved")) \cup In("done")) \cap In("closed") = {}
        /\ (((In("open") \cup In("resolved")) \cup In("done")) \cup In("closed")) \cap In(Parked) = {}
    BY DEF Parked
  <2>. HIDE DEF In, all
  <2>2. /\ IsFiniteSet(In("open") \cup In("resolved"))
        /\ Count(In("open") \cup In("resolved")) = Count(In("open")) + Count(In("resolved"))
    BY <1>5, <2>1, CountApart
  <2>3. /\ IsFiniteSet((In("open") \cup In("resolved")) \cup In("done"))
        /\ Count((In("open") \cup In("resolved")) \cup In("done"))
             = Count(In("open") \cup In("resolved")) + Count(In("done"))
    BY <1>5, <2>1, <2>2, CountApart
  <2>4. /\ IsFiniteSet(((In("open") \cup In("resolved")) \cup In("done")) \cup In("closed"))
        /\ Count(((In("open") \cup In("resolved")) \cup In("done")) \cup In("closed"))
             = Count((In("open") \cup In("resolved")) \cup In("done")) + Count(In("closed"))
    BY <1>5, <2>1, <2>3, CountApart
  <2>5. Count((((In("open") \cup In("resolved")) \cup In("done")) \cup In("closed")) \cup In(Parked))
             = Count(((In("open") \cup In("resolved")) \cup In("done")) \cup In("closed"))
                 + Count(In(Parked))
    BY <1>5, <2>1, <2>4, CountApart
  <2>. QED  BY <1>3, <2>2, <2>3, <2>4, <2>5
<1>7. Total(Buckets(p)) = Count(all)
  <2>1. \A s \in WiStatuses : Buckets(p)[s] = Count(In(s))
    BY DEF Buckets, Count
  <2>. HIDE DEF In, all
  <2>. QED  BY <1>6, <2>1 DEF Total, WiStatuses
<1>8. Count(edges) = Count(all)
  <2>1. f \in [all -> edges] /\ \A x, y \in all : f[x] = f[y] => x = y
    OBVIOUS
  <2>2. ASSUME NEW e \in edges PROVE \E w \in all : f[w] = e
    <3>1. e \in covers /\ e[1] = p /\ e \in Proposal \X WorkItem
      BY DEF Whole, TypeOK
    <3>2. e[2] \in all /\ e = <<p, e[2]>>
      BY <3>1
    <3>. QED  BY <3>2
  <2>. HIDE DEF f, edges, all
  <2>. QED  BY <1>1, <2>1, <2>2, CountAlike
<1>. QED  BY <1>7, <1>8

\* The queue depth of a project is its rows in the panels.
LEMMA DepthIsThePanels ==
  ASSUME Whole, board.rows = Rows(board.slices), NEW j
  PROVE  /\ DepthOf(j).proposals = Count({r \in Active \cup Queue : r.project = j})
         /\ DepthOf(j).wi_in_proposal <= DepthOf(j).wi_total
<1>1. DepthOf(j).proposals = Count({r \in Active \cup Queue : r.project = j})
  <2>. DEFINE S == {p \in LiveProposals : project[p] = j}
  <2>1. S \subseteq Here
    BY DEF LiveProposals, Here, Node, Exists, ProposalLive, Absent, Parked
  <2>2. IsFiniteSet(S)
    BY <2>1, FS_Subset DEF Whole
  <2>3. {r \in Active \cup Queue : r.project = j} = {RowOf(p) : p \in S}
    <3>1. \A p : RowOf(p).project = project[p]
      BY DEF RowOf
    <3>. QED  BY <3>1, PanelsAreTheLive
  <2>4. DepthOf(j).proposals = Count(S)
    <3>1. S = {p \in Proposal : p \notin archived /\ project[p] = j /\ status[p] \in ProposalLive}
      BY DEF LiveProposals
    <3>. QED  BY <3>1 DEF DepthOf, Count
  <2>. HIDE DEF S
  <2>. QED  BY <2>2, <2>3, <2>4, AsManyRows
<1>2. DepthOf(j).wi_in_proposal <= DepthOf(j).wi_total
  <2>. DEFINE wi == {w \in WorkItem : /\ Exists(w) /\ w \notin archived
                                     /\ status[w] # "closed" /\ project[w] = j}
              held == {w \in wi : \E p \in Proposal : <<p, w>> \in covers /\ status[p] \in ProposalLive}
  <2>1. wi \subseteq Here /\ held \subseteq wi
    BY DEF Here, Node
  <2>2. DepthOf(j).wi_total = Cardinality(wi) /\ DepthOf(j).wi_in_proposal = Cardinality(held)
    BY DEF DepthOf
  <2>. HIDE DEF wi, held
  <2>3. IsFiniteSet(wi)
    BY <2>1, FS_Subset DEF Whole
  <2>. QED  BY <2>1, <2>2, <2>3, FS_Subset
<1>. QED  BY <1>1, <1>2

\* The panel of dependencies names every unmet one and no other.
LEMMA BlockedIsHeldUp ==
  ASSUME Whole, board.rows = Rows(board.slices), board.deps = Deps(LiveIds),
         \A t \in board.deps : t[3] \in board.unmet <=> t[3] \in Unmet(Blockers(board.deps))
  PROVE  Blocked = HeldUp
<1>. DEFINE Waits(n) == n \in WorkItem \cup Proposal \cup Program /\ ToDo(n)
<1>1. LiveIds = LiveProposals
  BY PanelsAreTheLive
<1>2. \A n \in Here : \A ids : n \in Unmet(ids) <=> n \in ids /\ Waits(n)
  BY DEF Whole, TypeOK, Here, Exists, Unmet, ToDo, Absent, WiStatuses, WiFinished, WiUnfinished,
         ProposalStatuses, ProposalLive, ProposalTerminal, ProgramStatuses, ProgramTerminal,
         Parked, Soaking
<1>3. ASSUME NEW t \in HeldUp PROVE t \in Blocked
  <2>1. t[1] \in LiveIds
    BY <1>1 DEF HeldUp, HoldsUp, LiveProposals
  <2>2. t \in board.deps
    BY <2>1, DepsHoldHeldUp
  <2>3. t[3] \in Unmet(Blockers(board.deps))
    BY <2>2, UnmetHoldsHeldUp DEF Blockers
  <2>. QED  BY <2>2, <2>3 DEF Blocked
<1>4. ASSUME NEW t \in Blocked PROVE t \in HeldUp
  <2>1. t \in Deps(LiveIds) /\ t[3] \in Unmet(Blockers(board.deps))
    BY <1>4 DEF Blocked
  <2>2. \E e \in dependsOn :
          /\ t = <<t[1], e[1], e[2]>> /\ t[1] \in LiveIds
          /\ \/ e[1] = t[1]
             \/ <<t[1], e[1]>> \in covers /\ status[e[1]] \notin WiFinished /\ e[1] \notin archived
    <3>1. CASE t \in {<<e[1], e[1], e[2]>> : e \in {x \in dependsOn : x[1] \in LiveIds}}
      BY <3>1
    <3>2. CASE ~(t \in {<<e[1], e[1], e[2]>> : e \in {x \in dependsOn : x[1] \in LiveIds}})
      <4>1. PICK c \in covers, e \in dependsOn :
              /\ c[1] \in LiveIds /\ status[c[2]] \notin WiFinished /\ c[2] \notin archived
              /\ e[1] = c[2] /\ t = <<c[1], e[1], e[2]>>
        BY <2>1, <3>2 DEF Deps
      <4>2. c = <<c[1], c[2]>>
        BY DEF Whole, TypeOK
      <4>. QED  BY <4>1, <4>2
    <3>. QED  BY <3>1, <3>2
  <2>3. PICK e \in dependsOn :
          /\ t = <<t[1], e[1], e[2]>> /\ t[1] \in LiveIds
          /\ \/ e[1] = t[1]
             \/ <<t[1], e[1]>> \in covers /\ status[e[1]] \notin WiFinished /\ e[1] \notin archived
    BY <2>2
  <2>4. e = <<e[1], e[2]>> /\ e[1] \in Here /\ e[2] \in Here
    BY DEF Whole
  <2>5. Waits(e[2])
    BY <1>2, <2>1, <2>3, <2>4
  <2>6. t[1] \in LiveProposals
    BY <1>1, <2>3
  <2>7. \/ e[1] = t[1]
        \/ e[1] \in WorkItem /\ <<t[1], e[1]>> \in covers /\ ToDo(e[1])
    <3>1. CASE <<t[1], e[1]>> \in covers /\ status[e[1]] \notin WiFinished /\ e[1] \notin archived
      <4>1. e[1] \in WorkItem /\ status[e[1]] \in WiStatuses
        BY <2>4, <3>1 DEF Whole, TypeOK, Here, Exists
      <4>. QED  BY <3>1, <4>1 DEF ToDo, WiStatuses, WiFinished, WiUnfinished
    <3>. QED  BY <2>3, <3>1
  <2>8. t \in Proposal \X Node \X Node
    BY <2>3, <2>4, <2>6 DEF LiveProposals, Here
  <2>9. t[2] = e[1] /\ t[3] = e[2]
    BY <2>3
  <2>. HIDE DEF LiveProposals
  <2>10. HoldsUp(t[3], t[2], t[1])
    BY <2>4, <2>5, <2>6, <2>7, <2>9 DEF HoldsUp, LiveProposals
  <2>. QED  BY <2>8, <2>10 DEF HeldUp
<1>. QED  BY <1>3, <1>4

\* What puts two ends in order is a program over both, or over what covers the second.
LEMMA SequencedByAProgram ==
  ASSUME Whole, board.slices \subseteq includes, board.owners \subseteq covers,
         NEW d, NEW g \in SequencedBy(d)
  PROVE  \E p \in Proposal : /\ {<<g, d[1]>>, <<g, p>>} \subseteq includes
                             /\ p = d[3] \/ <<p, d[3]>> \in covers
<1>1. {<<g, d[1]>>, <<g, Owner(d[3])>>} \subseteq includes
  BY DEF SequencedBy
<1>2. Owner(d[3]) \in Proposal
  BY <1>1 DEF Whole, TypeOK
<1>3. Owner(d[3]) = d[3] \/ <<Owner(d[3]), d[3]>> \in covers
  <2>1. CASE \E e \in board.owners : e[2] = d[3]
    <3>1. PICK e \in board.owners : e[2] = d[3] /\ Owner(d[3]) = e[1]
      BY <2>1 DEF Owner
    <3>2. e \in covers /\ e = <<e[1], e[2]>>
      BY DEF Whole, TypeOK
    <3>. QED  BY <3>1, <3>2
  <2>2. CASE ~\E e \in board.owners : e[2] = d[3]
    BY <2>2 DEF Owner
  <2>. QED  BY <2>1, <2>2
<1>. QED  BY <1>1, <1>2, <1>3

\* A board that no call came between accounts for every proposal, program, slice, covered
\* work item and unmet dependency exactly once, whatever graph the calls had built.
THEOREM QuietBoards == BoardSpec => []QuietBoardsAddUp
<1>1. BoardInit => Whole
  <2>. SUFFICES ASSUME BoardInit PROVE Whole
    OBVIOUS
  <2>1. TypeOK
    BY PlanningTypeInit DEF BoardInit
  <2>2. Here = {}
    BY DEF BoardInit, Init, Here, Exists
  <2>. QED  BY <2>1, <2>2, FS_EmptySet DEF BoardInit, Init, Whole
<1>2. BoardInit => PeaceInv
  BY DEF BoardInit, PeaceInv, NothingRead, BoardFields, ProgramsRead, HiddenRead
<1>3. Whole /\ PeaceInv => QuietBoardsAddUp
  <2>. SUFFICES ASSUME Whole, PeaceInv, board.at = "answered", quiet PROVE QuietBoardsAddUp
    BY DEF QuietBoardsAddUp
  <2>1. /\ board.programs = ProgramItems /\ board.programs_hidden = ProgramsHidden
        /\ board.slices = SliceEdges(board.programs) /\ board.rows = Rows(board.slices)
        /\ board.deps = Deps(LiveIds) /\ board.owners \subseteq covers
        /\ \A t \in board.deps : t[3] \in board.unmet <=> t[3] \in Unmet(Blockers(board.deps))
        /\ board.proposals_hidden = ProposalsHidden
        /\ board.depth = [j \in Project |-> DepthOf(j)]
    BY DEF PeaceInv, HiddenRead, SlicesRead, RowsRead, DepsRead, UnmetRead, ProposalsRead
  <2>2. Count(Active) + Count(Queue) + board.proposals_hidden.archived + board.proposals_hidden.done
          + board.proposals_hidden.declined = Count({p \in Proposal : Exists(p)})
    BY <2>1, ProposalsAccountedFor
  <2>3. Count(board.programs) + board.programs_hidden.archived + board.programs_hidden.done
          = Count({g \in Program : Exists(g)})
    BY <2>1, ProgramsAccountedFor
  <2>4. \A j \in Project :
          /\ board.depth[j].proposals = Count({r \in Active \cup Queue : r.project = j})
          /\ board.depth[j].wi_in_proposal <= board.depth[j].wi_total
    BY <2>1, DepthIsThePanels
  <2>5. \A e \in board.slices : \E r \in board.rows : r.node = e[2]
    <3>. SUFFICES ASSUME NEW e \in board.slices PROVE \E r \in board.rows : r.node = e[2]
      OBVIOUS
    <3>1. e[2] \in Proposal /\ Exists(e[2])
      BY <2>1 DEF SliceEdges, Whole, TypeOK, Here
    <3>2. RowOf(e[2]) \in board.rows /\ RowOf(e[2]).node = e[2]
      BY <2>1, <3>1 DEF Rows, RowOf
    <3>. QED  BY <3>2
  <2>6. \A r \in board.rows : Total(r.covered) = Count({e \in covers : e[1] = r.node})
    <3>1. \A r \in board.rows : \E p \in Proposal : r.node = p /\ r.covered = Buckets(p)
      BY <2>1 DEF Rows
    <3>. QED  BY <3>1, BucketsAddUp
  <2>7. Blocked = HeldUp
    BY <2>1, BlockedIsHeldUp
  <2>8. board.slices \subseteq includes
    BY <2>1 DEF SliceEdges
  <2>9. \A d \in Blocked : \A g \in SequencedBy(d) :
          \E p \in Proposal : /\ {<<g, d[1]>>, <<g, p>>} \subseteq includes
                              /\ p = d[3] \/ <<p, d[3]>> \in covers
    BY <2>1, <2>8, SequencedByAProgram
  <2>. QED  BY <2>2, <2>3, <2>4, <2>5, <2>6, <2>7, <2>9, Zenon DEF QuietBoardsAddUp
<1>. QED  BY <1>1, <1>2, <1>3, WholeStep, PeaceStep, PTL DEF BoardSpec
===============================================================================
