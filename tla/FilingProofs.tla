---------------------------- MODULE FilingProofs ----------------------------
(***************************************************************************)
(* What holds of Filing for any projects, areas, items, patches and        *)
(* clients, and however many calls they make.                              *)
(***************************************************************************)
EXTENDS Filing, FiniteSetTheorems, TLAPS

Lock == {AreaKey(a) : a \in Area} \cup {ItemRow(i) : i \in Item} \cup {NodeRow(n) : n \in Node}

ProjectRow == [exists : BOOLEAN, status : {Active, Archived},
               where : [Fields -> {None} \cup Place], recorded : SUBSET (Fields \X Place)]
AreaRow    == [is : {"unused", "there", "gone"}, project : Some, name : Names \cup {None}]
CallRow    == [op : {"idle", "project", "list", "rename", "unarea", "item", "move", "card"},
               step : {"idle", "begun", "counted", "inserted", "read", "moved", "written"},
               locks : SUBSET Lock, project : Some \cup {Keep}, area : MaybeArea \cup {Keep},
               node : Node \cup {None}, name : Names \cup {None}, patch : Patch,
               status : {None, Active, Archived}, items : SUBSET Project,
               read : (Some \cup {NotYet}) \X MaybeArea]

\* What a call of each kind was given.
Given(t) ==
  /\ t.op = "project" => t.project \in Project /\ t.patch \in Patch
  /\ t.op \in {"rename", "unarea"} => t.area \in Area
  /\ t.op = "rename" => t.name \in Names
  /\ t.op = "item" => t.node \in Item /\ t.project \in Some /\ t.area \in MaybeArea
  /\ t.op = "move" => t.node \in Item
  /\ t.op = "card" => t.node \in Card /\ t.project \in Some

TypeOK ==
  /\ project \in [Project -> ProjectRow]
  /\ area \in [Area -> AreaRow]
  /\ home \in [Node -> Some \cup {NotYet}]
  /\ filed \in [Item -> MaybeArea]
  /\ calls \in Nat
  /\ tx \in [Client -> CallRow]
  /\ touched \in [Client -> SUBSET Project]
  /\ late \in [Client -> SUBSET Item]
  /\ \A c \in Client : Given(tx[c])

-------------------------------------------------------------------------------
(***************************************************************************)
(* The inductive invariants.                                               *)
(***************************************************************************)

\* An area that is made keeps its project; one that anything names is made.
Made(areas, a)   == a \in Area => areas[a].is # "unused"
Fit(areas, a, p) == a = None \/ areas[a].project = p

\* Where a move that has read its item will leave it, if nobody comes in between.
HomeAfter(t)  == IF t.project = Keep THEN t.read[1] ELSE t.project
FiledAfter(t) == IF t.area = Keep THEN t.read[2] ELSE t.area

CallFits(areas, t) ==
  /\ t.op = "item" => Made(areas, t.area) /\ Fit(areas, t.area, t.project)
  /\ t.op = "move" /\ t.step # "begun" =>
       /\ Made(areas, t.area) /\ Made(areas, t.read[2])
       /\ Fit(areas, t.read[2], t.read[1]) => Fit(areas, FiledAfter(t), HomeAfter(t))

FitInv ==
  /\ \A i \in Item : Made(area, filed[i])
  /\ \A c \in Client : CallFits(area, tx[c])

\* What delete_area has counted, and has not been filed since, is not there.
LateInv ==
  \A c \in Client : At(c, "unarea", "counted") => Filed(tx[c].area) \subseteq late[c]

\* A listing's rows are right of every project that was not touched since.
Listed(row, status) == row.exists /\ status \in {None, row.status}

ListInv ==
  \A c \in Client : tx[c].op = "list" =>
    \A p \in Project \ touched[c] : p \in tx[c].items <=> Listed(project[p], tx[c].status)

-------------------------------------------------------------------------------
(***************************************************************************)
(* Types.                                                                  *)
(***************************************************************************)

LEMMA IdleIsACall == Idle \in CallRow /\ Given(Idle) /\ Idle.op = "idle"
  BY DEF Idle, NoPatch, CallRow, Given, Patch, Some, MaybeArea

\* What a call of each kind begins with.
LEMMA ProjectCall ==
  ASSUME NEW p \in Project, NEW patch \in Patch
  PROVE  LET call == [Idle EXCEPT !.op = "project", !.project = p, !.patch = patch]
         IN  call \in CallRow /\ Given(call)
<1> DEFINE call == [Idle EXCEPT !.op = "project", !.project = p, !.patch = patch]
<1>1. call \in CallRow
  BY IdleIsACall DEF CallRow, Node, Some, MaybeArea
<1>2. Given(call)
  BY IdleIsACall DEF CallRow, Given
<1> QED
  BY <1>1, <1>2

LEMMA ListCall ==
  ASSUME NEW st \in {None, Active, Archived}, NEW ps \in SUBSET Project
  PROVE  LET call == [Idle EXCEPT !.op = "list", !.status = st, !.items = ps]
         IN  call \in CallRow /\ Given(call)
<1> DEFINE call == [Idle EXCEPT !.op = "list", !.status = st, !.items = ps]
<1>1. call \in CallRow
  BY IdleIsACall DEF CallRow, Node, Some, MaybeArea
<1>2. Given(call)
  BY IdleIsACall DEF CallRow, Given
<1> QED
  BY <1>1, <1>2

LEMMA RenameCall ==
  ASSUME NEW a \in Area, NEW name \in Names
  PROVE  LET call == [Idle EXCEPT !.op = "rename", !.area = a, !.name = name]
         IN  call \in CallRow /\ Given(call)
<1> DEFINE call == [Idle EXCEPT !.op = "rename", !.area = a, !.name = name]
<1>1. call \in CallRow
  BY IdleIsACall DEF CallRow, Node, Some, MaybeArea
<1>2. Given(call)
  BY IdleIsACall DEF CallRow, Given
<1> QED
  BY <1>1, <1>2

LEMMA UnareaCall ==
  ASSUME NEW a \in Area
  PROVE  LET call == [Idle EXCEPT !.op = "unarea", !.area = a]
         IN  call \in CallRow /\ Given(call)
<1> DEFINE call == [Idle EXCEPT !.op = "unarea", !.area = a]
<1>1. call \in CallRow
  BY IdleIsACall DEF CallRow, Node, Some, MaybeArea
<1>2. Given(call)
  BY IdleIsACall DEF CallRow, Given
<1> QED
  BY <1>1, <1>2

LEMMA ItemCall ==
  ASSUME NEW i \in Item, NEW p \in Some, NEW a \in MaybeArea
  PROVE  LET call == [Idle EXCEPT !.op = "item", !.node = i, !.project = p, !.area = a]
         IN  call \in CallRow /\ Given(call)
<1> DEFINE call == [Idle EXCEPT !.op = "item", !.node = i, !.project = p, !.area = a]
<1>1. call \in CallRow
  BY IdleIsACall DEF CallRow, Node, Some, MaybeArea
<1>2. Given(call)
  BY IdleIsACall DEF CallRow, Given
<1> QED
  BY <1>1, <1>2

LEMMA MoveCall ==
  ASSUME NEW i \in Item, NEW p \in Some \cup {Keep}, NEW a \in MaybeArea \cup {Keep}
  PROVE  LET call == [Idle EXCEPT !.op = "move", !.node = i, !.project = p, !.area = a]
         IN  call \in CallRow /\ Given(call)
<1> DEFINE call == [Idle EXCEPT !.op = "move", !.node = i, !.project = p, !.area = a]
<1>1. call \in CallRow
  BY IdleIsACall DEF CallRow, Node, Some, MaybeArea
<1>2. Given(call)
  BY IdleIsACall DEF CallRow, Given
<1> QED
  BY <1>1, <1>2

LEMMA CardCall ==
  ASSUME NEW n \in Card, NEW p \in Some
  PROVE  LET call == [Idle EXCEPT !.op = "card", !.node = n, !.project = p]
         IN  call \in CallRow /\ Given(call)
<1> DEFINE call == [Idle EXCEPT !.op = "card", !.node = n, !.project = p]
<1>1. call \in CallRow
  BY IdleIsACall DEF CallRow, Node, Some, MaybeArea
<1>2. Given(call)
  BY IdleIsACall DEF CallRow, Given
<1> QED
  BY <1>1, <1>2

\* Beginning a call changes its row and forgets what was touched and listed.
LEMMA BeginTyped ==
  ASSUME TypeOK, NEW c \in Client, NEW call \in CallRow, Given(call), Begin(c, call)
  PROVE  TypeOK'
<1>1. [call EXCEPT !.step = "begun"] \in CallRow
  BY DEF CallRow
<1>2. Given([call EXCEPT !.step = "begun"])
  BY DEF CallRow, Given
<1>3. tx' \in [Client -> CallRow] /\ \A d \in Client : Given(tx'[d])
  BY <1>1, <1>2 DEF TypeOK, Begin
<1> QED
  BY <1>3 DEF TypeOK, Begin

LEMMA DoneTyped ==
  ASSUME TypeOK, NEW c \in Client, Done(c)
  PROVE  tx' \in [Client -> CallRow] /\ \A d \in Client : Given(tx'[d])
  BY IdleIsACall DEF TypeOK, Done

LEMMA WrittenTyped ==
  ASSUME NEW row \in ProjectRow, NEW patch \in Patch
  PROVE  Written(row, patch) \in ProjectRow
<1>1. \A f \in Fields : patch.where[f] \in {Keep, None} \cup Place
  BY DEF Patch
<1>2. [f \in Fields |-> IF patch.where[f] = Keep THEN row.where[f] ELSE patch.where[f]]
        \in [Fields -> {None} \cup Place]
  BY <1>1 DEF ProjectRow
<1> QED
  BY <1>2 DEF Written, ProjectRow, Patch

LEMMA PatchedTyped ==
  ASSUME NEW row \in ProjectRow, NEW patch \in Patch
  PROVE  Patched(row, patch) \in ProjectRow
<1>3. Written(row, patch) \in ProjectRow
  BY WrittenTyped
<1>4. ASSUME NEW r \in ProjectRow PROVE Cleared(r) \in ProjectRow
  <2>1. {<<f, r.where[f]>> : f \in {g \in Fields : r.where[g] # None}} \subseteq Fields \X Place
    BY DEF ProjectRow
  <2>2. Nowhere \in [Fields -> {None} \cup Place]
    BY DEF Nowhere
  <2> QED
    BY <2>1, <2>2 DEF Cleared, ProjectRow
<1> QED
  BY <1>3, <1>4 DEF Patched

LEMMA FilingBegins == Init => TypeOK
<1> SUFFICES ASSUME Init PROVE TypeOK
  OBVIOUS
<1>1. project \in [Project -> ProjectRow]
  BY DEF Init, ProjectRow, Nowhere, Fields
<1>2. area \in [Area -> AreaRow]
  BY DEF Init, AreaRow, NoArea, Some
<1> QED
  BY <1>1, <1>2, IdleIsACall DEF Init, TypeOK, Some, MaybeArea

LEMMA FilingTyped ==
  ASSUME TypeOK, [Next]_vars
  PROVE  TypeOK'
<1>1. ASSUME NEW c \in Client, Call(c) PROVE TypeOK'
  <2>1. ASSUME NEW p \in Project, CreateProject(c, p) PROVE TypeOK'
    <3>1. project' \in [Project -> ProjectRow]
      BY <2>1 DEF CreateProject, TypeOK, ProjectRow
    <3>2. touched' \in [Client -> SUBSET Project]
      BY <2>1 DEF CreateProject, TypeOK, Touch
    <3> QED
      BY <2>1, <3>1, <3>2 DEF CreateProject, Once, TypeOK
  <2>2. ASSUME NEW p \in Project, NEW patch \in Patches, UpdateProject(c, p, patch)
        PROVE  TypeOK'
    <3> DEFINE call == [Idle EXCEPT !.op = "project", !.project = p, !.patch = patch]
    <3>1. call \in CallRow /\ Given(call)
      BY ProjectCall, FilingAssumption
    <3> QED
      BY <2>2, <3>1, BeginTyped DEF UpdateProject
  <2>3. ASSUME NEW s \in {None, Active, Archived}, ListProjects(c, s) PROVE TypeOK'
    <3> DEFINE ps == {p \in Projects : s \in {None, project[p].status}}
               call == [Idle EXCEPT !.op = "list", !.status = s, !.items = ps]
    <3>1. ps \in SUBSET Project
      BY DEF Projects
    <3>2. call \in CallRow /\ Given(call)
      BY <3>1, ListCall
    <3> QED
      BY <2>3, <3>1, <3>2, BeginTyped DEF ListProjects
  <2>4. ASSUME NEW p \in Project, NEW name \in Names, NEW a \in Area,
               CreateArea(c, p, name, a)
        PROVE  TypeOK'
    BY <2>4 DEF CreateArea, Once, TypeOK, AreaRow, Some
  <2>5. ASSUME NEW a \in Area, NEW name \in Names, RenameArea(c, a, name) PROVE TypeOK'
    <3> DEFINE call == [Idle EXCEPT !.op = "rename", !.area = a, !.name = name]
    <3>1. call \in CallRow /\ Given(call)
      BY RenameCall
    <3> QED
      BY <2>5, <3>1, BeginTyped DEF RenameArea
  <2>6. ASSUME NEW a \in Area, DeleteArea(c, a) PROVE TypeOK'
    <3> DEFINE call == [Idle EXCEPT !.op = "unarea", !.area = a]
    <3>1. call \in CallRow /\ Given(call)
      BY UnareaCall
    <3> QED
      BY <2>6, <3>1, BeginTyped DEF DeleteArea
  <2>7. ASSUME NEW i \in Item, NEW p \in Some, NEW a \in MaybeArea, CreateItem(c, i, p, a)
        PROVE  TypeOK'
    <3> DEFINE call == [Idle EXCEPT !.op = "item", !.node = i, !.project = p, !.area = a]
    <3>1. call \in CallRow /\ Given(call)
      BY ItemCall
    <3> QED
      BY <2>7, <3>1, BeginTyped DEF CreateItem
  <2>8. ASSUME NEW i \in Item, NEW p \in Some \cup {Keep}, NEW a \in MaybeArea \cup {Keep},
               MoveItem(c, i, p, a)
        PROVE  TypeOK'
    <3> DEFINE call == [Idle EXCEPT !.op = "move", !.node = i, !.project = p, !.area = a]
    <3>1. call \in CallRow /\ Given(call)
      BY MoveCall
    <3> QED
      BY <2>8, <3>1, BeginTyped DEF MoveItem
  <2>9. ASSUME NEW n \in Card, NEW p \in Some, CreateCard(c, n, p) \/ UpdateCard(c, n, p)
        PROVE  TypeOK'
    <3> DEFINE call == [Idle EXCEPT !.op = "card", !.node = n, !.project = p]
    <3>1. call \in CallRow /\ Given(call)
      BY CardCall
    <3> QED
      BY <2>9, <3>1, BeginTyped DEF CreateCard, UpdateCard
  <2> QED
    BY <1>1, <2>1, <2>2, <2>3, <2>4, <2>5, <2>6, <2>7, <2>8, <2>9 DEF Call
<1>2. ASSUME NEW c \in Client, Step(c) PROVE TypeOK'
  <2> DEFINE t == tx[c]
  <2> t \in CallRow /\ Given(t)
    BY DEF TypeOK
  <2>0. ASSUME tx' \in [Client -> CallRow], Given(tx'[c]),
               \A d \in Client \ {c} : tx'[d] = tx[d]
        PROVE  tx' \in [Client -> CallRow] /\ \A d \in Client : Given(tx'[d])
    BY <2>0 DEF TypeOK
  <2>1. CASE CommitProject(c)
    <3>1. t.project \in Project /\ t.patch \in Patch
      BY <2>1 DEF CommitProject, At, Given
    <3>2. Patched(project[t.project], t.patch) \in ProjectRow
      BY <3>1, PatchedTyped DEF TypeOK
    <3> HIDE DEF t
    <3>3. project' \in [Project -> ProjectRow]
      BY <2>1, <3>2 DEF CommitProject, TypeOK, t
    <3>4. touched' \in [Client -> SUBSET Project]
      BY <2>1, <3>1 DEF CommitProject, TypeOK, Touch, t
    <3> QED
      BY <2>1, <3>3, <3>4, DoneTyped DEF CommitProject, TypeOK
  <2>2. CASE CountHidden(c)
    BY <2>2, DoneTyped DEF CountHidden, TypeOK
  <2>3. CASE CommitName(c)
    <3>1. t.area \in Area /\ t.name \in Names
      BY <2>3 DEF CommitName, At, Given
    <3>2. area' \in [Area -> AreaRow]
      BY <2>3, <3>1 DEF CommitName, TypeOK, AreaRow
    <3> QED
      BY <2>3, <3>2, DoneTyped DEF CommitName, TypeOK
  <2>4. CASE CountFiled(c)
    <3>1. tx'[c] = [t EXCEPT !.step = "counted"] /\ \A d \in Client \ {c} : tx'[d] = tx[d]
      BY <2>4 DEF CountFiled, TypeOK
    <3>2. [t EXCEPT !.step = "counted"] \in CallRow /\ Given([t EXCEPT !.step = "counted"])
      BY DEF CallRow, Given
    <3>3. tx' \in [Client -> CallRow]
      BY <2>4, <3>2 DEF CountFiled, TypeOK
    <3> QED
      BY <2>4, <3>1, <3>2, <3>3, <2>0 DEF CountFiled, TypeOK
  <2>5. CASE CommitUnarea(c)
    <3>1. area' \in [Area -> AreaRow]
      BY <2>5 DEF CommitUnarea, TypeOK, AreaRow
    <3>2. filed' \in [Item -> MaybeArea]
      BY <2>5 DEF CommitUnarea, TypeOK, MaybeArea
    <3> QED
      BY <2>5, <3>1, <3>2, DoneTyped DEF CommitUnarea, TypeOK
  <2>6. CASE InsertItem(c)
    <3> DEFINE L == IF t.area = None THEN {} ELSE {AreaKey(t.area)}
    <3>0. L \in SUBSET Lock
      BY <2>6 DEF InsertItem, At, Given, Lock, MaybeArea
    <3> HIDE DEF L
    <3>1. tx' = [tx EXCEPT ![c].step = "inserted", ![c].locks = L]
      BY <2>6 DEF InsertItem, L
    <3>2. [t EXCEPT !.step = "inserted", !.locks = L] \in CallRow
      BY <3>0 DEF CallRow
    <3>5. Given([t EXCEPT !.step = "inserted", !.locks = L])
      BY DEF CallRow, Given
    <3>3. tx' \in [Client -> CallRow]
      BY <3>1, <3>2 DEF TypeOK
    <3>4. Given(tx'[c]) /\ \A d \in Client \ {c} : tx'[d] = tx[d]
      BY <3>1, <3>5 DEF TypeOK
    <3> QED
      BY <2>6, <3>3, <3>4, <2>0 DEF InsertItem, TypeOK
  <2>7. CASE CommitItem(c)
    <3>1. t.node \in Item /\ t.project \in Some /\ t.area \in MaybeArea
      BY <2>7 DEF CommitItem, At, Given
    <3>2. home' \in [Node -> Some \cup {NotYet}]
      BY <2>7, <3>1 DEF CommitItem, TypeOK
    <3>3. filed' \in [Item -> MaybeArea] /\ late' \in [Client -> SUBSET Item]
      BY <2>7, <3>1 DEF CommitItem, File, TypeOK
    <3> QED
      BY <2>7, <3>2, <3>3, DoneTyped DEF CommitItem, TypeOK
  <2>8. CASE ReadItem(c)
    <3> DEFINE a == AreaAfter(t.node, t.project, t.area)
               r == <<home[t.node], filed[t.node]>>
    <3>0. a \in MaybeArea \cup {Keep} /\ r \in (Some \cup {NotYet}) \X MaybeArea
      BY <2>8 DEF ReadItem, At, Given, AreaAfter, CallRow, MaybeArea, TypeOK, Node
    <3> HIDE DEF a, r
    <3>1. tx' = [tx EXCEPT ![c].step = "read", ![c].area = a, ![c].read = r]
      BY <2>8 DEF ReadItem, a, r
    <3>2. [t EXCEPT !.step = "read", !.area = a, !.read = r] \in CallRow
      BY <3>0 DEF CallRow
    <3>5. Given([t EXCEPT !.step = "read", !.area = a, !.read = r])
      BY <2>8 DEF CallRow, Given, ReadItem, At
    <3>3. tx' \in [Client -> CallRow]
      BY <3>1, <3>2 DEF TypeOK
    <3>4. Given(tx'[c]) /\ \A d \in Client \ {c} : tx'[d] = tx[d]
      BY <3>1, <3>5 DEF TypeOK
    <3> QED
      BY <2>8, <3>3, <3>4, <2>0 DEF ReadItem, TypeOK
  <2>9. CASE WriteHome(c)
    <3> DEFINE L == IF t.project = Keep THEN {} ELSE {NodeRow(t.node)}
    <3>0. L \in SUBSET Lock
      BY <2>9 DEF WriteHome, At, Given, Lock, Node
    <3> HIDE DEF L
    <3>1. tx' = [tx EXCEPT ![c].step = "moved", ![c].locks = L]
      BY <2>9 DEF WriteHome, L
    <3>2. [t EXCEPT !.step = "moved", !.locks = L] \in CallRow
      BY <3>0 DEF CallRow
    <3>5. Given([t EXCEPT !.step = "moved", !.locks = L])
      BY DEF CallRow, Given
    <3>3. tx' \in [Client -> CallRow]
      BY <3>1, <3>2 DEF TypeOK
    <3>4. Given(tx'[c]) /\ \A d \in Client \ {c} : tx'[d] = tx[d]
      BY <3>1, <3>5 DEF TypeOK
    <3> QED
      BY <2>9, <3>3, <3>4, <2>0 DEF WriteHome, TypeOK
  <2>10. CASE WriteArea(c)
    <3> DEFINE L == t.locks \cup (IF t.area = Keep THEN {} ELSE {ItemRow(t.node)})
                      \cup (IF t.area \in Area THEN {AreaKey(t.area)} ELSE {})
    <3>0. L \in SUBSET Lock
      BY <2>10 DEF WriteArea, At, Given, Lock, CallRow
    <3> HIDE DEF L
    <3>1. tx' = [tx EXCEPT ![c].step = "written", ![c].locks = L]
      BY <2>10 DEF WriteArea, L, TypeOK
    <3>2. [t EXCEPT !.step = "written", !.locks = L] \in CallRow
      BY <3>0 DEF CallRow
    <3>5. Given([t EXCEPT !.step = "written", !.locks = L])
      BY DEF CallRow, Given
    <3>3. tx' \in [Client -> CallRow]
      BY <3>1, <3>2 DEF TypeOK
    <3>4. Given(tx'[c]) /\ \A d \in Client \ {c} : tx'[d] = tx[d]
      BY <3>1, <3>5 DEF TypeOK
    <3> QED
      BY <2>10, <3>3, <3>4, <2>0 DEF WriteArea, TypeOK
  <2>11. CASE CommitMove(c)
    <3>1. t.node \in Item /\ t.project \in Some \cup {Keep} /\ t.area \in MaybeArea \cup {Keep}
      BY <2>11 DEF CommitMove, At, Given, CallRow
    <3>2. home' \in [Node -> Some \cup {NotYet}]
      BY <2>11, <3>1 DEF CommitMove, TypeOK, Node
    <3>3. filed' \in [Item -> MaybeArea] /\ late' \in [Client -> SUBSET Item]
      BY <2>11, <3>1 DEF CommitMove, File, TypeOK
    <3> QED
      BY <2>11, <3>2, <3>3, DoneTyped DEF CommitMove, TypeOK
  <2>12. CASE CommitCard(c)
    <3>1. t.node \in Card /\ t.project \in Some
      BY <2>12 DEF CommitCard, At, Given
    <3>2. home' \in [Node -> Some \cup {NotYet}]
      BY <2>12, <3>1 DEF CommitCard, TypeOK, Node
    <3> QED
      BY <2>12, <3>2, DoneTyped DEF CommitCard, TypeOK
  <2>13. CASE RollBack(c)
    BY <2>13, DoneTyped DEF RollBack, TypeOK
  <2> QED
    BY <1>2, <2>1, <2>2, <2>3, <2>4, <2>5, <2>6, <2>7, <2>8, <2>9, <2>10, <2>11, <2>12, <2>13
       DEF Step
<1>3. CASE UNCHANGED vars
  BY <1>3 DEF TypeOK, vars
<1> QED
  BY <1>1, <1>2, <1>3 DEF Next

\* The rows, and the calls under way, are what they are declared to be.
THEOREM FilingTypeCorrect == Spec => []TypeOK
  BY FilingBegins, FilingTyped, PTL DEF Spec

-------------------------------------------------------------------------------
(***************************************************************************)
(* Areas fit.                                                              *)
(***************************************************************************)

LEMMA AreasStay ==
  ASSUME TypeOK, [Next]_vars, NEW a \in Area, area[a].is # "unused"
  PROVE  area'[a].is # "unused" /\ area'[a].project = area[a].project
<1>1. ASSUME NEW c \in Client, Call(c) PROVE area' = area \/ area'[a] = area[a]
  <2>1. ASSUME NEW p \in Project, NEW name \in Names, NEW b \in Area,
               CreateArea(c, p, name, b)
        PROVE  area' = area \/ area'[a] = area[a]
    BY <2>1 DEF CreateArea, TypeOK
  <2> QED
    BY <1>1, <2>1 DEF Call, CreateProject, UpdateProject, ListProjects, RenameArea,
         DeleteArea, CreateItem, MoveItem, CreateCard, UpdateCard, Begin
<1>2. ASSUME NEW c \in Client, Step(c)
      PROVE  area'[a].is # "unused" /\ area'[a].project = area[a].project
  <2>1. CASE CommitName(c)
    BY <2>1 DEF CommitName, TypeOK, AreaRow
  <2>2. CASE CommitUnarea(c)
    BY <2>2 DEF CommitUnarea, TypeOK, AreaRow
  <2> QED
    BY <1>2, <2>1, <2>2 DEF Step, CommitProject, CountHidden, CountFiled, InsertItem, CommitItem,
         ReadItem, WriteHome, WriteArea, CommitMove, CommitCard, RollBack
<1> QED
  BY <1>1, <1>2 DEF Next, vars

LEMMA OthersKeepTheirCalls ==
  ASSUME TypeOK, NEW c \in Client, Call(c) \/ Step(c), NEW d \in Client \ {c}
  PROVE  tx'[d] = tx[d]
<1>1. CASE Call(c)
  BY <1>1 DEF Call, CreateProject, UpdateProject, ListProjects, CreateArea, RenameArea,
       DeleteArea, CreateItem, MoveItem, CreateCard, UpdateCard, Begin, TypeOK
<1>2. CASE Step(c)
  BY <1>2 DEF Step, CommitProject, CountHidden, CommitName, CountFiled, CommitUnarea, InsertItem,
       CommitItem, ReadItem, WriteHome, WriteArea, CommitMove, CommitCard, RollBack, Done, TypeOK
<1> QED
  BY <1>1, <1>2

LEMMA FitStays ==
  ASSUME TypeOK, [Next]_vars, NEW a \in MaybeArea, NEW p, Made(area, a)
  PROVE  Made(area', a) /\ (Fit(area', a, p) <=> Fit(area, a, p))
BY AreasStay DEF Made, Fit, MaybeArea

LEMMA CallFitStays ==
  ASSUME TypeOK, [Next]_vars, NEW t \in CallRow, Given(t), CallFits(area, t)
  PROVE  CallFits(area', t)
<1>0. t.read[1] \in Some \cup {NotYet} /\ t.read[2] \in MaybeArea
  BY DEF CallRow
<1>1. CASE t.op = "item"
  BY <1>1, FitStays DEF CallFits, Given
<1>2. CASE t.op = "move" /\ t.step # "begun"
  <2>1. /\ Made(area', t.read[2])
        /\ Fit(area', t.read[2], t.read[1]) <=> Fit(area, t.read[2], t.read[1])
    BY <1>0, <1>2, FitStays DEF CallFits
  <2>2. Made(area, FiledAfter(t)) /\ FiledAfter(t) \in MaybeArea
    BY <1>0, <1>2 DEF CallFits, FiledAfter, CallRow
  <2>3. Fit(area', FiledAfter(t), HomeAfter(t)) <=> Fit(area, FiledAfter(t), HomeAfter(t))
    BY <2>2, FitStays DEF FiledAfter, HomeAfter
  <2>4. Made(area', t.area)
    <3>1. CASE t.area \in Area
      BY <1>2, <3>1, FitStays DEF CallFits, MaybeArea
    <3>2. CASE t.area \notin Area
      BY <3>2 DEF Made
    <3> QED
      BY <3>1, <3>2
  <2> QED
    BY <1>2, <2>1, <2>3, <2>4 DEF CallFits
<1> QED
  BY <1>1, <1>2 DEF CallFits

\* What a call that has just begun has, and has not, done.
Begun(c) ==
  /\ tx'[c].step = "begun"
  /\ UNCHANGED <<project, area, home, filed, late>>
  /\ touched' = [touched EXCEPT ![c] = {}]
  /\ tx'[c].op = "item" => /\ Made(area', tx'[c].area)
                           /\ Fit(area', tx'[c].area, tx'[c].project)
  /\ tx'[c].op = "list" => tx'[c].items = {p \in Project : Listed(project[p], tx'[c].status)}

LEMMA CallsBegin ==
  ASSUME TypeOK, NEW c \in Client, Call(c)
  PROVE  (tx[c] = Idle /\ UNCHANGED <<tx, home, filed>>) \/ Begun(c)
<1>1. ASSUME NEW call \in CallRow, Begin(c, call),
             call.op = "item" => Made(area, call.area) /\ Fit(area, call.area, call.project),
             call.op = "list" => call.items = {p \in Project : Listed(project[p], call.status)}
      PROVE  Begun(c)
  <2>1. tx'[c] = [call EXCEPT !.step = "begun"]
    BY <1>1 DEF Begin, TypeOK
  <2>2. /\ tx'[c].step = "begun" /\ tx'[c].op = call.op /\ tx'[c].area = call.area
        /\ tx'[c].project = call.project /\ tx'[c].items = call.items
        /\ tx'[c].status = call.status
    BY <2>1 DEF CallRow
  <2> QED
    BY <1>1, <2>2 DEF Begin, Begun
<1>2. ASSUME NEW p \in Project, NEW patch \in Patches, UpdateProject(c, p, patch)
      PROVE  Begun(c)
  <2> DEFINE call == [Idle EXCEPT !.op = "project", !.project = p, !.patch = patch]
  <2>1. call \in CallRow /\ call.op = "project"
    BY ProjectCall, FilingAssumption, IdleIsACall DEF CallRow
  <2> HIDE DEF call
  <2> QED
    BY <1>1, <1>2, <2>1 DEF UpdateProject, call
<1>3. ASSUME NEW s \in {None, Active, Archived}, ListProjects(c, s)
      PROVE  Begun(c)
  <2> DEFINE ps == {p \in Projects : s \in {None, project[p].status}}
             call == [Idle EXCEPT !.op = "list", !.status = s, !.items = ps]
  <2>1. ps \in SUBSET Project /\ ps = {p \in Project : Listed(project[p], s)}
    BY DEF Projects, Listed
  <2> HIDE DEF ps
  <2>2. call \in CallRow /\ call.op = "list" /\ call.items = ps /\ call.status = s
    <3>1. call \in CallRow
      BY <2>1, ListCall
    <3> QED
      BY <3>1, IdleIsACall DEF CallRow
  <2>3. Begin(c, call)
    BY <1>3 DEF ListProjects, ps
  <2> HIDE DEF call
  <2> QED
    BY <1>1, <2>1, <2>2, <2>3
<1>4. ASSUME NEW a \in Area, NEW name \in Names, RenameArea(c, a, name)
      PROVE  Begun(c)
  <2> DEFINE call == [Idle EXCEPT !.op = "rename", !.area = a, !.name = name]
  <2>1. call \in CallRow /\ call.op = "rename"
    BY RenameCall, IdleIsACall DEF CallRow
  <2> HIDE DEF call
  <2> QED
    BY <1>1, <1>4, <2>1 DEF RenameArea, call
<1>5. ASSUME NEW a \in Area, DeleteArea(c, a)
      PROVE  Begun(c)
  <2> DEFINE call == [Idle EXCEPT !.op = "unarea", !.area = a]
  <2>1. call \in CallRow /\ call.op = "unarea"
    BY UnareaCall, IdleIsACall DEF CallRow
  <2> HIDE DEF call
  <2> QED
    BY <1>1, <1>5, <2>1 DEF DeleteArea, call
<1>6. ASSUME NEW i \in Item, NEW p \in Some, NEW a \in MaybeArea, CreateItem(c, i, p, a)
      PROVE  Begun(c)
  <2> DEFINE call == [Idle EXCEPT !.op = "item", !.node = i, !.project = p, !.area = a]
  <2>1. call \in CallRow /\ call.op = "item" /\ call.area = a /\ call.project = p
    BY ItemCall, IdleIsACall DEF CallRow
  <2>2. Made(area, a) /\ Fit(area, a, p)
    BY <1>6, FilingAssumption DEF CreateItem, AreaOf, Areas, Made, Fit
  <2>3. Begin(c, call)
    BY <1>6 DEF CreateItem
  <2> HIDE DEF call
  <2> QED
    BY <1>1, <2>1, <2>2, <2>3
<1>7. ASSUME NEW i \in Item, NEW p \in Some \cup {Keep}, NEW a \in MaybeArea \cup {Keep},
             MoveItem(c, i, p, a)
      PROVE  Begun(c)
  <2> DEFINE call == [Idle EXCEPT !.op = "move", !.node = i, !.project = p, !.area = a]
  <2>1. call \in CallRow /\ call.op = "move"
    BY MoveCall, IdleIsACall DEF CallRow
  <2> HIDE DEF call
  <2> QED
    BY <1>1, <1>7, <2>1 DEF MoveItem, call
<1>8. ASSUME NEW n \in Card, NEW p \in Some, CreateCard(c, n, p) \/ UpdateCard(c, n, p)
      PROVE  Begun(c)
  <2> DEFINE call == [Idle EXCEPT !.op = "card", !.node = n, !.project = p]
  <2>1. call \in CallRow /\ call.op = "card"
    BY CardCall, IdleIsACall DEF CallRow
  <2> HIDE DEF call
  <2> QED
    BY <1>1, <1>8, <2>1 DEF CreateCard, UpdateCard, call
<1> QED
  BY <1>2, <1>3, <1>4, <1>5, <1>6, <1>7, <1>8 DEF Call, CreateProject, CreateArea, Once

\* What the call that steps is left with.
LEMMA OwnCallFits ==
  ASSUME TypeOK, FitInv, NEW c \in Client, Call(c) \/ Step(c)
  PROVE  CallFits(area', tx'[c])
<1> DEFINE t == tx[c]
<1>0. t \in CallRow /\ Given(t) /\ CallFits(area, t) /\ [Next]_vars
  BY DEF TypeOK, FitInv, Next
<1>1. CASE tx'[c] = tx[c]
  BY <1>0, <1>1, CallFitStays
<1>2. CASE tx'[c].op \notin {"item", "move"}
  BY <1>2 DEF CallFits
<1>3. CASE Call(c)
  BY <1>1, <1>3, CallsBegin DEF Begun, CallFits
<1>4. CASE Step(c)
  <2>1. CASE Done(c)
    BY <1>2, <2>1, IdleIsACall DEF Done, TypeOK
  <2>2. CASE CountFiled(c)
    <3>1. tx'[c].op = "unarea"
      BY <1>0, <2>2 DEF CountFiled, At, TypeOK, CallRow
    <3> QED
      BY <1>2, <3>1
  <2>3. CASE InsertItem(c)
    <3>1. tx'[c].op = t.op /\ tx'[c].area = t.area /\ tx'[c].project = t.project /\ t.op = "item"
      BY <1>0, <2>3 DEF InsertItem, At, TypeOK, CallRow
    <3>3. Made(area', t.area) /\ Fit(area', t.area, t.project)
      BY <1>0, <3>1, FitStays DEF CallFits, Given
    <3> QED
      BY <3>1, <3>3 DEF CallFits, Made, Fit
  <2>4. CASE ReadItem(c)
    <3> DEFINE i == t.node
               a == AreaAfter(i, t.project, t.area)
               h == home[i]
               f == filed[i]
    <3>0. i \in Item /\ t.op = "move" /\ a \in MaybeArea \cup {Keep} /\ f \in MaybeArea
      BY <1>0, <2>4 DEF ReadItem, At, Given, AreaAfter, CallRow, MaybeArea, TypeOK
    <3>1. /\ tx'[c].op = "move" /\ tx'[c].area = a /\ tx'[c].project = t.project
          /\ tx'[c].read = <<h, f>>
      BY <1>0, <2>4 DEF ReadItem, At, TypeOK, CallRow
    <3>2. area' = area
      BY <2>4 DEF ReadItem
    <3>3. Made(area, f) /\ Made(area, a)
      BY <3>0, <2>4, FilingAssumption
         DEF FitInv, ReadItem, AreaAfter, AreaOf, Areas, Made
    <3>4. ASSUME Fit(area, f, h)
          PROVE  Fit(area, IF a = Keep THEN f ELSE a, IF t.project = Keep THEN h ELSE t.project)
      <4> DEFINE p == IF t.project = Keep THEN h ELSE t.project
      <4>0. t.area \in {Keep, None} \/ AreaOf(t.area, p)
        BY <2>4 DEF ReadItem
      <4>1. CASE t.area = Keep /\ t.project = Keep
        BY <3>4, <4>1 DEF AreaAfter
      <4>2. CASE t.area = Keep /\ t.project # Keep /\ f = None
        BY <4>2 DEF AreaAfter, Fit
      <4>3. CASE t.area = Keep /\ t.project # Keep /\ f # None
        BY <3>0, <4>3, FilingAssumption DEF AreaAfter, Fit, AreaOf, MaybeArea, Keep, None
      <4>4. CASE t.area # Keep
        BY <4>0, <4>4 DEF AreaAfter, Fit, AreaOf
      <4> QED
        BY <4>1, <4>2, <4>3, <4>4
    <3> HIDE DEF a, h, f, i
    <3>5. tx'[c].read[1] = h /\ tx'[c].read[2] = f
      BY <3>1
    <3>6. FiledAfter(tx'[c]) = (IF a = Keep THEN f ELSE a)
          /\ HomeAfter(tx'[c]) = (IF t.project = Keep THEN h ELSE t.project)
      BY <3>1, <3>5 DEF FiledAfter, HomeAfter
    <3>7. Made(area, tx'[c].area) /\ Made(area, tx'[c].read[2])
          /\ (Fit(area, tx'[c].read[2], tx'[c].read[1])
                => Fit(area, FiledAfter(tx'[c]), HomeAfter(tx'[c])))
      BY <3>1, <3>3, <3>4, <3>5, <3>6
    <3> QED
      BY <3>1, <3>2, <3>7 DEF CallFits, Made, Fit, FiledAfter, HomeAfter
  <2>5. CASE WriteHome(c) \/ WriteArea(c)
    <3>1. /\ tx'[c].op = "move" /\ tx'[c].area = t.area /\ tx'[c].project = t.project
          /\ tx'[c].read = t.read /\ t.op = "move" /\ t.step # "begun"
      BY <1>0, <2>5 DEF WriteHome, WriteArea, At, TypeOK, CallRow
    <3>2. area' = area
      BY <2>5 DEF WriteHome, WriteArea
    <3> QED
      BY <1>0, <3>1, <3>2 DEF CallFits, Made, Fit, FiledAfter, HomeAfter
  <2> QED
    BY <1>4, <2>1, <2>2, <2>3, <2>4, <2>5 DEF Step, CommitProject, CountHidden, CommitName,
         CommitUnarea, CommitItem, CommitMove, CommitCard, RollBack
<1> QED
  BY <1>3, <1>4

\* Who writes an item's home and area.
LEMMA WhoFiles ==
  ASSUME TypeOK, NEW c \in Client, Call(c) \/ Step(c), NEW i \in Item,
         home'[i] # home[i] \/ filed'[i] # filed[i]
  PROVE  \/ CommitItem(c) /\ tx[c].node = i
         \/ CommitMove(c) /\ tx[c].node = i
         \/ CommitUnarea(c) /\ filed'[i] = None /\ home' = home
<1>1. CASE Call(c)
  BY <1>1 DEF Call, CreateProject, UpdateProject, ListProjects, CreateArea, RenameArea,
       DeleteArea, CreateItem, MoveItem, CreateCard, UpdateCard, Begin
<1>2. CASE Step(c)
  <2>1. CASE CommitItem(c)
    BY <2>1 DEF CommitItem, File, TypeOK, Node
  <2>2. CASE CommitMove(c)
    BY <2>2 DEF CommitMove, File, TypeOK, Node
  <2>3. CASE CommitUnarea(c)
    BY <2>3 DEF CommitUnarea, TypeOK
  <2>4. CASE CommitCard(c)
    <3>1. tx[c].node \in Card
      BY <2>4 DEF CommitCard, At, TypeOK, Given
    <3>2. home'[i] = home[i] /\ filed' = filed
      BY <2>4, <3>1, FilingAssumption DEF CommitCard, TypeOK, Node
    <3> QED
      BY <3>2
  <2> QED
    BY <1>2, <2>1, <2>2, <2>3, <2>4 DEF Step, CommitProject, CountHidden, CommitName, CountFiled,
         InsertItem, ReadItem, WriteHome, WriteArea, RollBack
<1> QED
  BY <1>1, <1>2

\* What they leave: a new item fits, and so does one that was moved from where the
\* call had read it, if it did then.
LEMMA FiledWhere ==
  ASSUME TypeOK, FitInv, NEW c \in Client, Call(c) \/ Step(c), NEW i \in Item
  PROVE  /\ Made(area', filed'[i])
         /\ \/ Fit(area, filed[i], home[i]) => Fit(area', filed'[i], home'[i])
            \/ At(c, "move", "written") /\ tx'[c] = Idle /\ tx[c].read # <<home[i], filed[i]>>
<1> DEFINE t == tx[c]
<1>0. t \in CallRow /\ Given(t) /\ CallFits(area, t) /\ Made(area, filed[i])
      /\ filed[i] \in MaybeArea
  BY DEF TypeOK, FitInv
<1>1. CASE home'[i] = home[i] /\ filed'[i] = filed[i]
  BY <1>0, <1>1, FitStays DEF Next
<1>2. CASE CommitItem(c) /\ t.node = i
  <2>1. t.op = "item" /\ filed'[i] = t.area /\ home'[i] = t.project /\ area' = area
    BY <1>2 DEF CommitItem, At, File, TypeOK, Node
  <2> QED
    BY <1>0, <2>1 DEF CallFits
<1>3. CASE CommitMove(c) /\ t.node = i
  <2>1. At(c, "move", "written") /\ tx'[c] = Idle /\ area' = area
    BY <1>3 DEF CommitMove, Done, TypeOK
  <2>2. /\ home'[i] = IF t.project = Keep THEN home[i] ELSE t.project
        /\ filed'[i] = IF t.area = Keep THEN filed[i] ELSE t.area
    BY <1>3 DEF CommitMove, File, TypeOK, Node
  <2>3. Made(area', filed'[i])
    BY <1>0, <2>1, <2>2 DEF CallFits, At
  <2>4. CASE t.read = <<home[i], filed[i]>>
    <3>1. HomeAfter(t) = home'[i] /\ FiledAfter(t) = filed'[i]
      BY <2>2, <2>4 DEF HomeAfter, FiledAfter
    <3> QED
      BY <1>0, <2>1, <2>3, <2>4, <3>1 DEF CallFits, At
  <2> QED
    BY <2>1, <2>3, <2>4
<1>4. CASE CommitUnarea(c) /\ filed'[i] = None /\ home' = home
  BY <1>4, FilingAssumption DEF Made, Fit
<1> QED
  BY <1>1, <1>2, <1>3, <1>4, WhoFiles

LEMMA FitInvInductive ==
  ASSUME TypeOK, FitInv, [Next]_vars
  PROVE  FitInv'
<1>1. ASSUME NEW c \in Client, Call(c) \/ Step(c) PROVE FitInv'
  <2>1. ASSUME NEW i \in Item PROVE Made(area', filed'[i])
    BY <1>1, FiledWhere
  <2>2. ASSUME NEW d \in Client PROVE CallFits(area', tx'[d])
    <3>1. CASE d = c
      BY <1>1, <3>1, OwnCallFits
    <3>2. CASE d # c
      <4>1. tx'[d] = tx[d] /\ tx[d] \in CallRow /\ Given(tx[d]) /\ CallFits(area, tx[d])
        BY <1>1, <3>2, OthersKeepTheirCalls DEF TypeOK, FitInv
      <4> QED
        BY <4>1, CallFitStays
    <3> QED
      BY <3>1, <3>2
  <2> QED
    BY <2>1, <2>2 DEF FitInv
<1>2. CASE UNCHANGED vars
  BY <1>2 DEF FitInv, vars
<1> QED
  BY <1>1, <1>2 DEF Next


-------------------------------------------------------------------------------
(***************************************************************************)
(* What a deletion has counted.                                            *)
(***************************************************************************)

\* Whatever files an item says so to the deletions that are under way.
LEMMA FilingIsNoticed ==
  ASSUME TypeOK, NEW c \in Client, Call(c) \/ Step(c), NEW d \in Client \ {c},
         tx[d].op = "unarea", NEW i \in Item, filed'[i] = tx[d].area,
         filed[i] = tx[d].area => i \in late[d]
  PROVE  i \in late'[d]
<1>0. tx[d].area \in Area
  BY DEF TypeOK, Given
<1>1. CASE CommitItem(c) \/ (CommitMove(c) /\ tx[c].area # Keep)
  <2>1. File(tx[c].node, tx[c].area) /\ tx[c].node \in Item
    BY <1>1 DEF CommitItem, CommitMove, At, TypeOK, Given
  <2>2. late'[d] = IF tx[d].area = tx[c].area THEN late[d] \cup {tx[c].node} ELSE late[d]
    BY <2>1 DEF File
  <2>3. filed' = [filed EXCEPT ![tx[c].node] = tx[c].area]
    BY <2>1 DEF File
  <2> QED
    BY <2>1, <2>2, <2>3 DEF TypeOK
<1>2. CASE ~(CommitItem(c) \/ (CommitMove(c) /\ tx[c].area # Keep))
  <2>1. late'[d] = late[d]
    <3>1. CASE Call(c)
      BY <3>1 DEF Call, CreateProject, UpdateProject, ListProjects, CreateArea, RenameArea,
           DeleteArea, CreateItem, MoveItem, CreateCard, UpdateCard, Begin
    <3>2. CASE Step(c)
      BY <1>2, <3>2 DEF Step, CommitProject, CountHidden, CommitName, CountFiled, CommitUnarea,
           InsertItem, ReadItem, WriteHome, WriteArea, CommitMove, CommitCard, RollBack, TypeOK
    <3> QED
      BY <3>1, <3>2
  <2>2. filed'[i] = filed[i] \/ filed'[i] = None
    BY <1>2, WhoFiles DEF CommitMove
  <2> QED
    BY <1>0, <2>1, <2>2, FilingAssumption
<1> QED
  BY <1>1, <1>2

LEMMA LateInvInductive ==
  ASSUME TypeOK, LateInv, [Next]_vars
  PROVE  LateInv'
<1>1. ASSUME NEW c \in Client, Call(c) \/ Step(c), NEW d \in Client,
             At(d, "unarea", "counted")', NEW i \in Item, filed'[i] = tx'[d].area
      PROVE  i \in late'[d]
  <2>1. CASE d # c
    <3>1. tx'[d] = tx[d]
      BY <1>1, <2>1, OthersKeepTheirCalls
    <3> QED
      BY <1>1, <2>1, <3>1, FilingIsNoticed DEF LateInv, At, Filed
  <2>2. CASE d = c
    <3>1. CASE tx'[c].step = "begun" \/ tx'[c] = Idle
      BY <1>1, <2>2, <3>1 DEF At, Idle
    <3>2. CASE CountFiled(c)
      <4>1. tx'[c].area = tx[c].area /\ Filed(tx[c].area) = {} /\ filed' = filed
        BY <3>2 DEF CountFiled, Counted, TypeOK, CallRow
      <4> QED
        BY <1>1, <2>2, <4>1 DEF Filed
    <3>3. CASE InsertItem(c) \/ ReadItem(c) \/ WriteHome(c) \/ WriteArea(c)
      <4>1. tx'[c].op \in {"item", "move"}
        BY <3>3 DEF InsertItem, ReadItem, WriteHome, WriteArea, At, TypeOK, CallRow
      <4> QED
        BY <1>1, <2>2, <4>1 DEF At
    <3>4. CASE Call(c)
      BY <1>1, <2>2, <3>1, <3>4, CallsBegin DEF Begun, At, Idle
    <3> QED
      BY <1>1, <3>1, <3>2, <3>3, <3>4 DEF Step, CommitProject, CountHidden, CommitName,
           CommitUnarea, CommitItem, CommitMove, CommitCard, RollBack, Done, TypeOK
  <2> QED
    BY <2>1, <2>2
<1>2. CASE UNCHANGED vars
  BY <1>2 DEF LateInv, At, Filed, vars
<1> QED
  BY <1>1, <1>2 DEF Next, LateInv, Filed


-------------------------------------------------------------------------------
(***************************************************************************)
(* What a listing has read.                                                *)
(***************************************************************************)

\* A patch that leaves the status leaves all that a listing tells by.
LEMMA PatchedListed ==
  ASSUME NEW row \in ProjectRow, NEW patch \in Patch
  PROVE  Patched(row, patch).exists = row.exists
<1>1. Written(row, patch).exists = row.exists
  BY DEF Written, ProjectRow
<1>2. Cleared(Written(row, patch)).exists = Written(row, patch).exists
  <2> DEFINE w == Written(row, patch)
  <2>1. w \in ProjectRow
    BY WrittenTyped
  <2> HIDE DEF w
  <2>2. Cleared(w).exists = w.exists
    BY <2>1 DEF Cleared, ProjectRow
  <2> QED
    BY <2>2 DEF w
<1> QED
  BY <1>1, <1>2 DEF Patched

LEMMA TouchesAreTold ==
  ASSUME TypeOK, NEW c \in Client, Call(c) \/ Step(c), NEW d \in Client \ {c}, tx[d] # Idle
  PROVE  /\ touched[d] \subseteq touched'[d]
         /\ \A p \in Project \ touched'[d] : /\ project'[p].exists = project[p].exists
                                             /\ project'[p].status = project[p].status
<1>1. ASSUME NEW p \in Project, CreateProject(c, p)
      PROVE  /\ touched[d] \subseteq touched'[d]
             /\ \A q \in Project \ touched'[d] : project'[q] = project[q]
  <2>1. CASE p \in Projects
    <3>1. touched' = touched
      BY <1>1, <2>1 DEF CreateProject
    <3>2. project'[p] = project[p]
      BY <1>1, <2>1 DEF CreateProject, Projects, TypeOK, ProjectRow
    <3>3. \A q \in Project \ {p} : project'[q] = project[q]
      BY <1>1 DEF CreateProject, TypeOK
    <3> QED
      BY <3>1, <3>2, <3>3
  <2>2. CASE p \notin Projects
    <3>1. touched'[d] = touched[d] \cup {p}
      BY <1>1, <2>2 DEF CreateProject, Touch
    <3>2. \A q \in Project \ {p} : project'[q] = project[q]
      BY <1>1 DEF CreateProject, TypeOK
    <3> QED
      BY <3>1, <3>2
  <2> QED
    BY <2>1, <2>2
<1>2. CASE CommitProject(c)
  <2> DEFINE p == tx[c].project
             row == Patched(project[p], tx[c].patch)
  <2>1. p \in Project /\ tx[c].patch \in Patch /\ project[p] \in ProjectRow
    BY <1>2 DEF CommitProject, At, TypeOK, Given
  <2>2. row.exists = project[p].exists
    BY <2>1, PatchedListed
  <2>3. project' = [project EXCEPT ![p] = row]
        /\ IF row.status = project[p].status THEN UNCHANGED touched ELSE Touch(p)
    BY <1>2 DEF CommitProject
  <2> HIDE DEF row, p
  <2>4. project'[p] = row /\ \A q \in Project \ {p} : project'[q] = project[q]
    BY <2>1, <2>3 DEF TypeOK
  <2>5. CASE row.status = project[p].status
    BY <2>2, <2>3, <2>4, <2>5
  <2>6. CASE row.status # project[p].status
    <3>1. touched'[d] = touched[d] \cup {p}
      BY <2>3, <2>6 DEF Touch
    <3> QED
      BY <2>4, <3>1
  <2> QED
    BY <2>5, <2>6
<1>3. CASE project' = project /\ (touched' = touched \/ touched' = [touched EXCEPT ![c] = {}])
  BY <1>3 DEF TypeOK
<1>4. CASE Call(c)
  BY <1>1, <1>3, <1>4 DEF Call, UpdateProject, ListProjects, CreateArea, RenameArea,
       DeleteArea, CreateItem, MoveItem, CreateCard, UpdateCard, Begin
<1>5. CASE Step(c)
  BY <1>2, <1>3, <1>5 DEF Step, CountHidden, CommitName, CountFiled, CommitUnarea, InsertItem,
       CommitItem, ReadItem, WriteHome, WriteArea, CommitMove, CommitCard, RollBack
<1> QED
  BY <1>4, <1>5

LEMMA ListInvInductive ==
  ASSUME TypeOK, ListInv, [Next]_vars
  PROVE  ListInv'
<1>1. ASSUME NEW c \in Client, Call(c) \/ Step(c), NEW d \in Client, tx'[d].op = "list",
             NEW p \in Project \ touched'[d]
      PROVE  p \in tx'[d].items <=> Listed(project'[p], tx'[d].status)
  <2>1. CASE d # c
    <3>1. tx'[d] = tx[d]
      BY <1>1, <2>1, OthersKeepTheirCalls
    <3>2. tx[d] # Idle
      BY <1>1, <3>1, IdleIsACall DEF Idle
    <3> QED
      BY <1>1, <2>1, <3>1, <3>2, TouchesAreTold DEF ListInv, Listed
  <2>2. CASE d = c
    <3>1. CASE Begun(c)
      BY <1>1, <2>2, <3>1 DEF Begun
    <3>2. CASE tx'[c] = Idle
      BY <1>1, <2>2, <3>2 DEF Idle
    <3>3. CASE CountFiled(c) \/ InsertItem(c) \/ ReadItem(c) \/ WriteHome(c) \/ WriteArea(c)
      <4>1. tx'[c].op \in {"unarea", "item", "move"}
        BY <3>3 DEF CountFiled, InsertItem, ReadItem, WriteHome, WriteArea, At, TypeOK, CallRow
      <4> QED
        BY <1>1, <2>2, <4>1
    <3>4. CASE Call(c)
      BY <3>1, <3>2, <3>4, CallsBegin
    <3> QED
      BY <1>1, <3>2, <3>3, <3>4 DEF Step, CommitProject, CountHidden, CommitName,
           CommitUnarea, CommitItem, CommitMove, CommitCard, RollBack, Done, TypeOK
  <2> QED
    BY <2>1, <2>2
<1>2. CASE UNCHANGED vars
  BY <1>2 DEF ListInv, vars
<1> QED
  BY <1>1, <1>2 DEF Next, ListInv

\* The two reads of one listing make a whole when nothing was touched between them.
LEMMA ListingInductive ==
  ASSUME TypeOK, ListInv, ListingsAddUp, [Next]_vars
  PROVE  ListingsAddUp'
<1>1. CASE listing' = listing
  BY <1>1 DEF ListingsAddUp
<1>2. CASE listing' = NoListing
  BY <1>2, FS_EmptySet DEF ListingsAddUp, NoListing
<1>3. ASSUME NEW c \in Client, CountHidden(c), touched[c] = {}
      PROVE  Cardinality(tx[c].items) + Cardinality(Hidden(tx[c].status)) = Cardinality(Projects)
  <2> DEFINE shown == tx[c].items
             hidden == Hidden(tx[c].status)
  <2>1. \A p \in Project : p \in shown <=> Listed(project[p], tx[c].status)
    BY <1>3 DEF CountHidden, At, ListInv
  <2>2. shown \subseteq Project
    BY DEF TypeOK, CallRow
  <2>3. shown \cup hidden = Projects /\ shown \cap hidden = {}
    BY <2>1, <2>2 DEF Hidden, Projects, Listed
  <2>4. IsFiniteSet(shown) /\ IsFiniteSet(hidden)
    BY <2>2, <2>3, FilingAssumption, FS_Subset DEF Projects
  <2> HIDE DEF shown, hidden
  <2>5. Cardinality(shown \cup hidden)
          = Cardinality(shown) + Cardinality(hidden) - Cardinality(shown \cap hidden)
    BY <2>4, FS_Union
  <2>6. Cardinality({}) = 0 /\ Cardinality(shown) \in Nat /\ Cardinality(hidden) \in Nat
    BY <2>4, FS_EmptySet, FS_CardinalityType
  <2>7. Cardinality(Projects) = Cardinality(shown) + Cardinality(hidden)
    <3>1. Cardinality(shown \cup hidden) = Cardinality(Projects)
      BY <2>3, Zenon
    <3>2. Cardinality(shown \cap hidden) = 0
      BY <2>3, <2>6, Zenon
    <3> QED
      BY <2>5, <2>6, <3>1, <3>2
  <2> QED
    BY <2>7 DEF shown, hidden
<1>4. ASSUME NEW c \in Client, CountHidden(c) PROVE ListingsAddUp'
  <2>1. /\ listing'.items = tx[c].items /\ listing'.touched = touched[c]
        /\ listing'.omitted = Cardinality(Hidden(tx[c].status))
        /\ listing'.of = Projects
    BY <1>4 DEF CountHidden
  <2> QED
    BY <1>3, <1>4, <2>1 DEF ListingsAddUp
<1>5. ASSUME NEW c \in Client, Call(c) PROVE listing' = NoListing
  BY <1>5 DEF Call, CreateProject, UpdateProject, ListProjects, CreateArea, RenameArea,
       DeleteArea, CreateItem, MoveItem, CreateCard, UpdateCard, Begin, Once
<1>6. ASSUME NEW c \in Client, Step(c), ~CountHidden(c) PROVE listing' = listing
  BY <1>6 DEF Step, CommitProject, CommitName, CountFiled, CommitUnarea, InsertItem, CommitItem,
       ReadItem, WriteHome, WriteArea, CommitMove, CommitCard, RollBack
<1> QED
  BY <1>1, <1>2, <1>4, <1>5, <1>6 DEF Next, vars

-------------------------------------------------------------------------------
(***************************************************************************)
(* The theorems.                                                           *)
(***************************************************************************)

FilingInv == TypeOK /\ FitInv /\ LateInv /\ ListInv /\ ListingsAddUp

LEMMA FilingHolds == Spec => []FilingInv
<1>1. Init => FilingInv
  <2> SUFFICES ASSUME Init PROVE FilingInv
    OBVIOUS
  <2>1. FitInv
    BY FilingAssumption DEF Init, FitInv, Made, CallFits, Idle
  <2>2. LateInv /\ ListInv
    BY DEF Init, LateInv, ListInv, At, Idle
  <2>3. ListingsAddUp
    BY FS_EmptySet DEF Init, ListingsAddUp, NoListing
  <2> QED
    BY <2>1, <2>2, <2>3, FilingBegins DEF FilingInv
<1>2. FilingInv /\ [Next]_vars => FilingInv'
  BY FilingTyped, FitInvInductive, LateInvInductive, ListInvInductive, ListingInductive
     DEF FilingInv
<1> QED
  BY <1>1, <1>2, PTL DEF Spec

\* A listing hides no project without counting it, whatever is created, archived or
\* brought back while it reads, unless that touched a project between its two reads.
THEOREM ListingsAreWhole == Spec => []ListingsAddUp
  BY FilingHolds, PTL DEF FilingInv

\* Archiving clears every place a project has and records each of them, for any patch
\* that archives it.
THEOREM ArchivesRemember == Spec => ArchivingRecordsPlaces
<1>1. ASSUME TypeOK, [Next]_vars, NEW c \in Client, At(c, "project", "begun"),
             project' # project, tx'[c] = Idle
      PROVE  CommitProject(c)
  <2>1. PICK d \in Client : Call(d) \/ Step(d)
    BY <1>1 DEF Next, vars
  <2>2. tx[c] # Idle
    BY <1>1 DEF At, Idle
  <2>3. d = c
    BY <1>1, <2>1, <2>2, OthersKeepTheirCalls
  <2>4. ~Call(c)
    BY <1>1, <2>2 DEF Call, CreateProject, UpdateProject, ListProjects, CreateArea, RenameArea,
         DeleteArea, CreateItem, MoveItem, CreateCard, UpdateCard, Begin, Once
  <2> QED
    BY <1>1, <2>1, <2>3, <2>4 DEF Step, CountHidden, CommitName, CountFiled, CommitUnarea,
         InsertItem, CommitItem, ReadItem, WriteHome, WriteArea, CommitMove, CommitCard, RollBack
<1>2. ASSUME NEW row \in ProjectRow, NEW patch \in Patch, patch.status = Archived
      PROVE  /\ Patched(row, patch).where = Nowhere
             /\ \A f \in Fields :
                  LET place == IF patch.where[f] = Keep THEN row.where[f] ELSE patch.where[f]
                  IN place # None => <<f, place>> \in Patched(row, patch).recorded
  <2> DEFINE w == Written(row, patch)
  <2>1. w.where = [f \in Fields |-> IF patch.where[f] = Keep THEN row.where[f]
                                   ELSE patch.where[f]]
    BY DEF Written, ProjectRow
  <2>2. w \in ProjectRow
    BY WrittenTyped
  <2> HIDE DEF w
  <2>3. Cleared(w).where = Nowhere
        /\ Cleared(w).recorded
             = w.recorded \cup {<<f, w.where[f]>> : f \in {g \in Fields : w.where[g] # None}}
    BY <2>2 DEF Cleared, ProjectRow
  <2>4. Patched(row, patch) = Cleared(w)
    BY <1>2 DEF Patched, w
  <2> QED
    BY <2>1, <2>3, <2>4
<1>3. TypeOK /\ [Next]_vars
      => [\A c \in Client : At(c, "project", "begun") /\ project' # project /\ tx'[c] = Idle =>
            LET p == tx[c].project
                patch == tx[c].patch
            IN patch.status = Archived =>
                 /\ project'[p].where = Nowhere
                 /\ \A f \in Fields :
                      LET place == IF patch.where[f] = Keep THEN project[p].where[f]
                                   ELSE patch.where[f]
                      IN place # None => <<f, place>> \in project'[p].recorded]_vars
  <2> SUFFICES ASSUME TypeOK, [Next]_vars, NEW c \in Client, At(c, "project", "begun"),
                      project' # project, tx'[c] = Idle, tx[c].patch.status = Archived
               PROVE  /\ project'[tx[c].project].where = Nowhere
                      /\ \A f \in Fields :
                           LET place == IF tx[c].patch.where[f] = Keep
                                        THEN project[tx[c].project].where[f]
                                        ELSE tx[c].patch.where[f]
                           IN place # None => <<f, place>> \in project'[tx[c].project].recorded
    OBVIOUS
  <2>1. CommitProject(c)
    BY <1>1
  <2>2. tx[c].project \in Project /\ tx[c].patch \in Patch
        /\ project[tx[c].project] \in ProjectRow
    BY DEF At, TypeOK, Given
  <2>3. project'[tx[c].project] = Patched(project[tx[c].project], tx[c].patch)
    BY <2>1, <2>2 DEF CommitProject, TypeOK
  <2> QED
    BY <1>2, <2>2, <2>3
<1> QED
  BY <1>3, FilingHolds, PTL DEF Spec, FilingInv, ArchivingRecordsPlaces

\* delete_area unfiles no item that was filed under the area when it counted.
THEOREM DeletionsSawNothing == Spec => DeletingUnfilesOnlyLateItems
<1>1. LateInv
      => [\A c \in Client, i \in Item :
            LET a == tx[c].area IN
            At(c, "unarea", "counted") /\ filed[i] = a /\ area'[a].is = "gone" /\ tx'[c] = Idle =>
              i \in late[c]]_vars
  BY DEF LateInv, Filed
<1> QED
  BY <1>1, FilingHolds, PTL DEF Spec, FilingInv, DeletingUnfilesOnlyLateItems

\* An item's area is one of its project's, for every set of projects, areas and items
\* and any number of callers: whenever it ceases to be, a call has written over what
\* it had not read.
THEOREM FilingFits == Spec => AreasFitUnlessOvertaken
<1>1. TypeOK /\ FitInv /\ [Next]_vars
      => [\A i \in Item :
            LET fits  == filed[i] = None \/ area[filed[i]].project = home[i]
                fits_ == filed'[i] = None \/ area'[filed'[i]].project = home'[i]
            IN fits /\ ~fits_ =>
                 \E c \in Client : At(c, "move", "written") /\ tx'[c] = Idle
                                     /\ tx[c].read # <<home[i], filed[i]>>]_vars
  <2> SUFFICES ASSUME TypeOK, FitInv, [Next]_vars, ~UNCHANGED vars, NEW i \in Item,
                      Fit(area, filed[i], home[i]), ~Fit(area', filed'[i], home'[i])
               PROVE  \E c \in Client : At(c, "move", "written") /\ tx'[c] = Idle
                                          /\ tx[c].read # <<home[i], filed[i]>>
    BY DEF Fit
  <2>1. PICK c \in Client : Call(c) \/ Step(c)
    BY DEF Next
  <2> QED
    BY <2>1, FiledWhere
<1> QED
  BY <1>1, FilingHolds, PTL DEF Spec, FilingInv, AreasFitUnlessOvertaken

===============================================================================
