------------------------------- MODULE Filing -------------------------------
(***************************************************************************)
(* Where work is filed: projects (projects.rs), their areas (areas.rs),    *)
(* and the project and area of work items and cards (selectors.rs, and the *)
(* creates and updates of work_items.rs and cards.rs).                     *)
(*                                                                         *)
(* A call reads, waits and writes in steps.  What it has written is seen   *)
(* by others when it commits, and the rows it wrote or referred to stay    *)
(* locked until then.  A call may be dropped at any step.                  *)
(***************************************************************************)
EXTENDS Naturals, FiniteSets

CONSTANTS Client,
          Project,       \* the projects there may be
          Founded,       \* those there are at first
          Item, Card,    \* the work items and cards there may be
          Area,          \* the ids areas may get
          Names,         \* what areas may be called
          Place,         \* what src_path, machines and deploy_to may say
          Patches,       \* what callers of update_project send
          MaxCalls       \* bound: calls

None    == "none"
Keep    == "keep"        \* a patch that does not mention a column
NotYet  == "not yet"     \* the project of a node that is still to be created
Active   == "active"
Archived == "archived"

Node   == Item \cup Card
Fields == {"src_path", "machines", "deploy_to"}
Patch  == [status : {Keep, Active, Archived}, notes : BOOLEAN,
           where : [Fields -> {Keep, None} \cup Place]]

ASSUME FilingAssumption ==
  /\ IsFiniteSet(Project) /\ Founded \subseteq Project /\ MaxCalls \in Nat
  /\ Item \cap Card = {}
  /\ Patches \subseteq Patch
  /\ {None, Keep, NotYet} \cap (Project \cup Area \cup Names \cup Place) = {}

VARIABLES
  project,   \* [Project -> its row], of those that exist
  area,      \* [Area -> its project and name; gone, or not there yet]
  home,      \* [Node -> its project or None; NotYet until it is created]
  filed,     \* [Item -> its area or None]
  calls,     \* how many calls have begun
  tx,        \* [Client -> the call it has open]
  listing,   \* the answer list_projects gave, until the next call
  \* What the properties are about; no action reads these.
  touched,   \* [Client -> projects made, or whose status changed, since its call began]
  late       \* [Client -> items filed since this delete_area counted]

vars == <<project, area, home, filed, calls, tx, listing, touched, late>>

NoPatch == [status |-> Keep, notes |-> FALSE, where |-> [f \in Fields |-> Keep]]

\* A call: what it was given, as far as it takes any of it, the locks it holds and
\* what it has read.
Idle   == [op |-> "idle", step |-> "idle", locks |-> {}, project |-> None, area |-> None,
           node |-> None, name |-> None, patch |-> NoPatch, status |-> None, items |-> {},
           read |-> <<None, None>>]
NoArea == [is |-> "unused", project |-> None, name |-> None]
NoListing == [items |-> {}, omitted |-> 0, of |-> {}, touched |-> {}]
Nowhere == [f \in Fields |-> None]

Projects == {p \in Project : project[p].exists}
Areas    == {a \in Area : area[a].is = "there"}
Called(p, name) == {a \in Areas : area[a].project = p /\ area[a].name = name}
Filed(a) == {i \in Item : filed[i] = a}

\* Rows locked until the commit: an area something is being filed under, the area of
\* an item (a column of workitem), its project (a column of node).
AreaKey(a) == <<"area", a>>
ItemRow(i) == <<"item", i>>
NodeRow(n) == <<"node", n>>

Held(c)  == UNION {tx[d].locks : d \in Client \ {c}}

At(c, op, step) == tx[c].op = op /\ tx[c].step = step

Init ==
  /\ project = [p \in Project |-> [exists |-> p \in Founded, status |-> Active,
                                   where |-> Nowhere, recorded |-> {}]]
  /\ area = [a \in Area |-> NoArea]
  /\ home = [n \in Node |-> NotYet]
  /\ filed = [i \in Item |-> None]
  /\ calls = 0
  /\ tx = [c \in Client |-> Idle]
  /\ listing = NoListing
  /\ touched = [c \in Client |-> {}]
  /\ late = [c \in Client |-> {}]

-------------------------------------------------------------------------------

Begin(c, call) ==
  /\ tx[c] = Idle
  /\ calls < MaxCalls
  /\ calls' = calls + 1
  /\ tx' = [tx EXCEPT ![c] = [call EXCEPT !.step = "begun"]]
  /\ touched' = [touched EXCEPT ![c] = {}]
  /\ listing' = NoListing
  /\ UNCHANGED <<project, area, home, filed, late>>

\* A call of one statement.
Once(c) ==
  /\ tx[c] = Idle
  /\ calls < MaxCalls
  /\ calls' = calls + 1
  /\ listing' = NoListing

Touch(p) == touched' = [c \in Client |-> IF tx[c] = Idle THEN {} ELSE touched[c] \cup {p}]

Done(c) == tx' = [tx EXCEPT ![c] = Idle]

\* A call ends without a commit: it is refused, finds nothing, or is dropped.
RollBack(c) ==
  /\ tx[c] # Idle
  /\ Done(c)
  /\ UNCHANGED <<project, area, home, filed, calls, listing, touched, late>>

-------------------------------------------------------------------------------
(***************************************************************************)
(* Projects.                                                               *)
(***************************************************************************)

CreateProject(c, p) ==
  /\ Once(c)
  /\ project' = [project EXCEPT ![p].exists = TRUE]
  /\ IF p \in Projects THEN UNCHANGED touched ELSE Touch(p)
  /\ UNCHANGED <<area, home, filed, tx, late>>

\* The columns a patch names; its notes, like any text a caller writes, replace the
\* ones there were.
Written(row, patch) ==
  [row EXCEPT !.status = IF patch.status = Keep THEN @ ELSE patch.status,
              !.recorded = IF patch.notes THEN {} ELSE @,
              !.where = [f \in Fields |-> IF patch.where[f] = Keep THEN @[f] ELSE patch.where[f]]]

\* clear_location_metadata: what there is to clear is recorded in the notes.
Cleared(row) ==
  [row EXCEPT !.where = Nowhere,
              !.recorded = @ \cup {<<f, row.where[f]>> : f \in {g \in Fields : row.where[g] # None}}]

\* Faulty variant: the clearing comes first, and the patch writes over its record.
PatchedAfterClearing(row, patch) ==
  Written(IF patch.status = Archived THEN Cleared(row) ELSE row, patch)

Patched(row, patch) ==
  IF patch.status = Archived THEN Cleared(Written(row, patch)) ELSE Written(row, patch)

\* update_project: from its first UPDATE the row is locked, and what it reads after
\* that is the row as it will be.
UpdateProject(c, p, patch) ==
  /\ p \in Projects
  /\ Begin(c, [Idle EXCEPT !.op = "project", !.project = p, !.patch = patch])

CommitProject(c) ==
  LET p == tx[c].project
      row == Patched(project[p], tx[c].patch)
  IN
  /\ At(c, "project", "begun")
  /\ project' = [project EXCEPT ![p] = row]
  /\ IF row.status = project[p].status THEN UNCHANGED touched ELSE Touch(p)
  /\ Done(c)
  /\ UNCHANGED <<area, home, filed, calls, listing, late>>

\* list_projects: the rows of a status, or all, and then a count of the others.
ListProjects(c, status) ==
  Begin(c, [Idle EXCEPT !.op = "list", !.status = status,
                        !.items = {p \in Projects : status \in {None, project[p].status}}])

\* Faulty variant: what the default view hides is counted, whatever was asked for.
HiddenArchived(status) == {p \in Projects : project[p].status = Archived}

Hidden(status) == {p \in Projects : status # None /\ project[p].status # status}

CountHidden(c) ==
  /\ At(c, "list", "begun")
  /\ listing' = [items |-> tx[c].items, omitted |-> Cardinality(Hidden(tx[c].status)),
                 of |-> Projects, touched |-> touched[c]]
  /\ Done(c)
  /\ UNCHANGED <<project, area, home, filed, calls, touched, late>>

-------------------------------------------------------------------------------
(***************************************************************************)
(* Areas.  An area never changes projects.                                 *)
(***************************************************************************)

\* One that has the name already gets the new description instead.
CreateArea(c, p, name, a) ==
  /\ Once(c)
  /\ p \in Projects
  /\ IF Called(p, name) # {} THEN UNCHANGED area
     ELSE /\ area[a].is = "unused"
          /\ area' = [area EXCEPT ![a] = [is |-> "there", project |-> p, name |-> name]]
  /\ UNCHANGED <<project, home, filed, tx, touched, late>>

\* update_area: another area of the name is looked for, then the name is written; the
\* unique index refuses it when the other one got there in between.
RenameArea(c, a, name) ==
  /\ a \in Areas
  /\ Called(area[a].project, name) \subseteq {a}
  /\ Begin(c, [Idle EXCEPT !.op = "rename", !.area = a, !.name = name])

Free(a, name) == Called(area[a].project, name) \subseteq {a}

CommitName(c) ==
  LET a == tx[c].area IN
  /\ At(c, "rename", "begun")
  /\ a \in Areas /\ Free(a, tx[c].name)
  /\ area' = [area EXCEPT ![a].name = tx[c].name]
  /\ Done(c)
  /\ UNCHANGED <<project, home, filed, calls, listing, touched, late>>

DeleteArea(c, a) ==
  /\ a \in Areas
  /\ Begin(c, [Idle EXCEPT !.op = "unarea", !.area = a])

\* Faulty variant: only the items with no project are counted.
CountedHomeless(a) == {i \in Filed(a) : home[i] = None}

Counted(a) == Filed(a)

CountFiled(c) ==
  /\ At(c, "unarea", "begun")
  /\ Counted(tx[c].area) = {}
  /\ tx' = [tx EXCEPT ![c].step = "counted"]
  /\ late' = [late EXCEPT ![c] = {}]
  /\ UNCHANGED <<project, area, home, filed, calls, listing, touched>>

\* DELETE waits for whoever is filing under the area, or is patching an item that is
\* filed there, and unfiles what it finds (ON DELETE SET NULL).
CommitUnarea(c) ==
  LET a == tx[c].area IN
  /\ At(c, "unarea", "counted") /\ a \in Areas
  /\ ({AreaKey(a)} \cup {ItemRow(i) : i \in Filed(a)}) \cap Held(c) = {}
  /\ area' = [area EXCEPT ![a].is = "gone"]
  /\ filed' = [i \in Item |-> IF filed[i] = a THEN None ELSE filed[i]]
  /\ Done(c)
  /\ UNCHANGED <<project, home, calls, listing, touched, late>>

-------------------------------------------------------------------------------
(***************************************************************************)
(* Filing.  A project, and an area, given by its name is looked up first   *)
(* and then held to the same rules as one given by its id.                 *)
(***************************************************************************)

\* resolve_project: it has to exist and to be active.
TakesWork(p) == project[p].status = Active

Target(p) == p = None \/ (p \in Projects /\ TakesWork(p))

\* resolve_area, and the check of an area given by its id: it is one of the project's.
AreaOf(a, p) == a \in Areas /\ area[a].project = p

\* An id nobody has been given.
Unused(n) == home[n] = NotYet /\ ~\E d \in Client : tx[d].op = "item" /\ tx[d].node = n

\* create_work_item: everything is looked up before the transaction.
CreateItem(c, i, p, a) ==
  /\ Unused(i)
  /\ Target(p)
  /\ a = None \/ AreaOf(a, p)
  /\ Begin(c, [Idle EXCEPT !.op = "item", !.node = i, !.project = p, !.area = a])

\* An area that has gone meanwhile fails the foreign key, and the call.
InsertItem(c) ==
  LET a == tx[c].area IN
  /\ At(c, "item", "begun")
  /\ a = None \/ a \in Areas
  /\ tx' = [tx EXCEPT ![c].step = "inserted", ![c].locks = IF a = None THEN {} ELSE {AreaKey(a)}]
  /\ UNCHANGED <<project, area, home, filed, calls, listing, touched, late>>

File(i, a) ==
  /\ filed' = [filed EXCEPT ![i] = a]
  /\ late' = [d \in Client |-> IF tx[d].op = "unarea" /\ tx[d].area = a
                               THEN late[d] \cup {i} ELSE late[d]]

CommitItem(c) ==
  /\ At(c, "item", "inserted")
  /\ home' = [home EXCEPT ![tx[c].node] = tx[c].project]
  /\ File(tx[c].node, tx[c].area)
  /\ Done(c)
  /\ UNCHANGED <<project, area, calls, listing, touched>>

\* update_work_item: the project is looked up before the transaction.
MoveItem(c, i, p, a) ==
  /\ home[i] # NotYet
  /\ <<p, a>> # <<Keep, Keep>>
  /\ p = Keep \/ Target(p)
  /\ Begin(c, [Idle EXCEPT !.op = "move", !.node = i, !.project = p, !.area = a])

\* Faulty variant: a move leaves the area alone unless the patch names one.
AreaAfterKept(i, p, a) == a

\* The area the patch writes: the one it names, none when the item moves away from
\* the one it has, and otherwise whatever it has then (Keep).
AreaAfter(i, p, a) ==
  IF a = Keep /\ p # Keep /\ filed[i] # None /\ ~AreaOf(filed[i], p) THEN None ELSE a

\* Inside, against the project the item will have: the one it moves to, or the one it
\* is read to have.
ReadItem(c) ==
  LET i == tx[c].node
      p == IF tx[c].project = Keep THEN home[i] ELSE tx[c].project
  IN
  /\ At(c, "move", "begun")
  /\ tx[c].area \in {Keep, None} \/ AreaOf(tx[c].area, p)
  /\ tx' = [tx EXCEPT ![c].step = "read",
                      ![c].area = AreaAfter(i, tx[c].project, tx[c].area),
                      ![c].read = <<home[i], filed[i]>>]
  /\ UNCHANGED <<project, area, home, filed, calls, listing, touched, late>>

\* The UPDATE of node and then that of workitem, each waiting for its row.
WriteHome(c) ==
  LET L == IF tx[c].project = Keep THEN {} ELSE {NodeRow(tx[c].node)} IN
  /\ At(c, "move", "read")
  /\ L \cap Held(c) = {}
  /\ tx' = [tx EXCEPT ![c].step = "moved", ![c].locks = L]
  /\ UNCHANGED <<project, area, home, filed, calls, listing, touched, late>>

WriteArea(c) ==
  LET a == tx[c].area
      L == IF a = Keep THEN {} ELSE {ItemRow(tx[c].node)}
  IN
  /\ At(c, "move", "moved")
  /\ a \in {Keep, None} \/ a \in Areas
  /\ L \cap Held(c) = {}
  /\ tx' = [tx EXCEPT ![c].step = "written",
                      ![c].locks = @ \cup L \cup (IF a \in Area THEN {AreaKey(a)} ELSE {})]
  /\ UNCHANGED <<project, area, home, filed, calls, listing, touched, late>>

\* touch_node writes the node's row in every update.
CommitMove(c) ==
  LET i == tx[c].node IN
  /\ At(c, "move", "written") /\ NodeRow(i) \notin Held(c)
  /\ home' = [home EXCEPT ![i] = IF tx[c].project = Keep THEN @ ELSE tx[c].project]
  /\ IF tx[c].area = Keep THEN UNCHANGED <<filed, late>> ELSE File(i, tx[c].area)
  /\ Done(c)
  /\ UNCHANGED <<project, area, calls, listing, touched>>

\* create_card and update_card: the same with no area.
CreateCard(c, n, p) ==
  /\ home[n] = NotYet /\ Target(p)
  /\ Begin(c, [Idle EXCEPT !.op = "card", !.node = n, !.project = p])

UpdateCard(c, n, p) ==
  /\ home[n] # NotYet /\ Target(p)
  /\ Begin(c, [Idle EXCEPT !.op = "card", !.node = n, !.project = p])

CommitCard(c) ==
  /\ At(c, "card", "begun")
  /\ home' = [home EXCEPT ![tx[c].node] = tx[c].project]
  /\ Done(c)
  /\ UNCHANGED <<project, area, filed, calls, listing, touched, late>>

-------------------------------------------------------------------------------

Some   == Project \cup {None}
MaybeArea == Area \cup {None}

Call(c) ==
  \/ \E p \in Project : CreateProject(c, p)
  \/ \E p \in Project, patch \in Patches : UpdateProject(c, p, patch)
  \/ \E s \in {None, Active, Archived} : ListProjects(c, s)
  \/ \E p \in Project, name \in Names, a \in Area : CreateArea(c, p, name, a)
  \/ \E a \in Area, name \in Names : RenameArea(c, a, name)
  \/ \E a \in Area : DeleteArea(c, a)
  \/ \E i \in Item, p \in Some, a \in MaybeArea : CreateItem(c, i, p, a)
  \/ \E i \in Item, p \in Some \cup {Keep}, a \in MaybeArea \cup {Keep} :
       MoveItem(c, i, p, a)
  \/ \E n \in Card, p \in Some : CreateCard(c, n, p) \/ UpdateCard(c, n, p)

Step(c) ==
  \/ CommitProject(c) \/ CountHidden(c)
  \/ CommitName(c) \/ CountFiled(c) \/ CommitUnarea(c)
  \/ InsertItem(c) \/ CommitItem(c)
  \/ ReadItem(c) \/ WriteHome(c) \/ WriteArea(c) \/ CommitMove(c)
  \/ CommitCard(c) \/ RollBack(c)

Next == \E c \in Client : Call(c) \/ Step(c)

Spec == Init /\ [][Next]_vars

-------------------------------------------------------------------------------
(***************************************************************************)
(* Properties.                                                             *)
(***************************************************************************)

\* Archiving a project leaves it nowhere and forgets nothing: every place it had, or
\* was given by the same patch, is in its notes, unless the patch itself took it away;
\* a notes column the same patch writes does not cost the record.
ArchivingRecordsPlaces ==
  [][\A c \in Client : At(c, "project", "begun") /\ project' # project /\ tx'[c] = Idle =>
       LET p == tx[c].project
           patch == tx[c].patch
       IN patch.status = Archived =>
            /\ project'[p].where = Nowhere
            /\ \A f \in Fields :
                 LET place == IF patch.where[f] = Keep THEN project[p].where[f] ELSE patch.where[f]
                 IN place # None => <<f, place>> \in project'[p].recorded]_vars

\* An item's area is one of its project's: no call makes it otherwise, unless another
\* call moved or filed the item between the reading and the writing of this one.
AreasFitUnlessOvertaken ==
  [][\A i \in Item :
       LET fits  == filed[i] = None \/ area[filed[i]].project = home[i]
           fits_ == filed'[i] = None \/ area'[filed'[i]].project = home'[i]
       IN fits /\ ~fits_ =>
            \E c \in Client : At(c, "move", "written") /\ tx'[c] = Idle
                                /\ tx[c].read # <<home[i], filed[i]>>]_vars

\* delete_area unfiles no item it could have seen: only those filed under the area
\* after it had counted.
DeletingUnfilesOnlyLateItems ==
  [][\A c \in Client, i \in Item :
       LET a == tx[c].area IN
       At(c, "unarea", "counted") /\ filed[i] = a /\ area'[a].is = "gone" /\ tx'[c] = Idle =>
         i \in late[c]]_vars

\* A listing hides no project without counting it: what it shows and what it says it
\* left out add up to all there are, unless one changed sides between the two reads.
ListingsAddUp ==
  listing.touched = {} =>
    Cardinality(listing.items) + listing.omitted = Cardinality(listing.of)
===============================================================================
