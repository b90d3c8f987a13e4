------------------------------ MODULE Captures ------------------------------
(***************************************************************************)
(* What hangs off a node and what the activity log says of it: comments    *)
(* (comments.rs), edges (relationships.rs), handoffs (handoffs.rs), edits  *)
(* with their no-op guard (activity.rs), and the hard delete of a link     *)
(* (links.rs), which counts references and then deletes by cascade.        *)
(*                                                                         *)
(* A call is a transaction of a few steps.  Its reads see what has been    *)
(* committed; its writes are seen by others when it commits; the rows it   *)
(* wrote, and the rows a foreign key of its inserts names, stay locked     *)
(* until then.  A call may be dropped at any step (a closed connection, a  *)
(* deadlock's victim), which rolls it back.                                *)
(***************************************************************************)
EXTENDS Integers, FiniteSets, Functions

CONSTANTS Client,
          Link, Handoff, Item,   \* the nodes there may be, by kind
          Existing,              \* those that may be older than the activity log
          Values,                \* what a column, or the body of a comment, may hold
          Texts,                 \* the comments callers write, body and origin
          Comments,              \* the ids comments may get
          Filters,               \* what a reader of the feed may ask for
          PageSize,
          MaxCalls               \* bound: calls

None == "none"
Keep == "keep"        \* a patch that does not mention a column

Node == Link \cup Handoff \cup Item

Kind(n) == IF n \in Link THEN "link" ELSE IF n \in Handoff THEN "handoff" ELSE "workitem"

ASSUME CapturesAssumption ==
  /\ IsFiniteSet(Existing) /\ Existing \subseteq Link \cup Item
  /\ PageSize \in Nat \ {0} /\ MaxCalls \in Nat
  /\ Keep \notin Values /\ None \notin Values
  /\ Texts \subseteq [body : Values, origin : {None, "web"}]

VARIABLES
  ids,       \* the node ids handed out, which are never handed out again
  nodes,     \* the nodes that exist
  row,       \* [Node -> its columns: detail in the table of its kind, shared in node]
  comment,   \* [Comments -> its node and text, or what became of the id]
  edges,     \* the related-to edges and those of handoffs, <<left, right, label>>
  feed,      \* the rows of activity, each dated, and numbered within its call
  began,     \* how many calls have begun: the clock their rows are dated by
  tx,        \* [Client -> the call it has open]
  reader,    \* a reader paging through the feed
  late       \* [Client -> references committed since its call looked for them];
             \* the properties are about it, no action reads it

vars == <<ids, nodes, row, comment, edges, feed, began, tx, reader, late>>

Fresh == CHOOSE v \in Values : TRUE

Idle == [op |-> "idle", step |-> "idle"]
Off  == [on |-> FALSE]

\* A lock on a row: of node for a key that refers to it, a write or a delete; of the
\* table of the node's kind; of a comment; of an edge.
Key(n)     == <<"key", n>>
Written(n) == <<"written", n>>
Gone(n)    == <<"gone", n>>
Detail(n)  == <<"detail", n>>
OnComment(k) == <<"comment", k>>
OnEdge(e)  == <<"edge", e>>

Clash(a, b) ==
  \/ a = b /\ a[1] # "key"
  \/ {a[1], b[1]} \in {{"key", "gone"}, {"written", "gone"}} /\ a[2] = b[2]

Locks(c) == IF tx[c] = Idle THEN {} ELSE tx[c].locks

CanLock(c, L) == \A d \in Client \ {c}, x \in L : \A y \in Locks(d) : ~Clash(x, y)

At(c, op, step) == tx[c].op = op /\ tx[c].step = step

Live(k)  == comment[k].is = "live"
Ended(k, how) == [is |-> how, node |-> comment[k].node]
Unused   == {k \in Comments : comment[k].is = "unused"}

\* What refers to a node.
Thread(n) == {k \in Comments : Live(k) /\ comment[k].node = n}
Edges(n)  == {e \in edges : n \in {e[1], e[2]}}

Labels  == {"has_handoff", "related-to"}
Turn(e) == <<e[2], e[1], e[3]>>

Init ==
  /\ ids \in SUBSET Existing /\ nodes = ids
  /\ row = [n \in Node |-> [detail |-> Fresh, shared |-> Fresh]]
  /\ comment = [k \in Comments |-> [is |-> "unused", node |-> None]]
  /\ edges = {}
  /\ feed = {}
  /\ began = 0
  /\ tx = [c \in Client |-> Idle]
  /\ reader = Off
  /\ late = [c \in Client |-> {}]

-------------------------------------------------------------------------------
(***************************************************************************)
(* What calls are made of.                                                 *)
(***************************************************************************)

\* A call and the state of its transaction.
Opened(call, now) ==
  LET state == [at |-> now, step |-> "begun", locks |-> {}]
  IN [f \in DOMAIN call \cup DOMAIN state |-> IF f \in DOMAIN call THEN call[f] ELSE state[f]]

\* Open a transaction, which fixes the time its rows will bear.
Begin(c, call) ==
  /\ tx[c] = Idle
  /\ began < MaxCalls
  /\ began' = began + 1
  /\ tx' = [tx EXCEPT ![c] = Opened(call, began')]
  /\ late' = [late EXCEPT ![c] = {}]
  /\ UNCHANGED <<nodes, row, comment, edges, feed, reader>>

\* Go on to a further step, holding L as well.
GoOn(c, step, L) ==
  /\ CanLock(c, L)
  /\ tx' = [tx EXCEPT ![c].step = step, ![c].locks = @ \cup L]
  /\ UNCHANGED <<ids, nodes, row, comment, edges, feed, began, reader, late>>

\* The i-th row a call writes.
Nth(c, i, n, action, ref) ==
  [at |-> tx[c].at, id |-> i, node |-> n, action |-> action, ref |-> ref]

Event(c, n, action, ref) == Nth(c, 1, n, action, ref)

\* Commit, with these events and the references the commit makes.
Commit(c, events, made) ==
  /\ feed' = feed \cup events
  /\ tx' = [tx EXCEPT ![c] = Idle]
  /\ late' = [d \in Client |-> IF tx[d] = Idle THEN {} ELSE late[d] \cup made]
  /\ UNCHANGED <<ids, began>>

\* A call ends without a commit: it is refused, finds nothing, or is dropped.
RollBack(c) ==
  /\ tx[c] # Idle
  /\ tx' = [tx EXCEPT ![c] = Idle]
  /\ UNCHANGED <<ids, nodes, row, comment, edges, feed, began, reader, late>>

-------------------------------------------------------------------------------
(***************************************************************************)
(* Nodes come into being.                                                  *)
(***************************************************************************)

CreateLink(c, n) ==
  /\ n \in Link \ ids
  /\ ids' = ids \cup {n}
  /\ Begin(c, [op |-> "link", node |-> n])

CommitLink(c) ==
  /\ At(c, "link", "begun")
  /\ nodes' = nodes \cup {tx[c].node}
  /\ Commit(c, {Event(c, tx[c].node, "created", None)}, {})
  /\ UNCHANGED <<row, comment, edges, reader>>

\* create_handoff: every owner has to be there when the call arrives; a caller who
\* says so may name none.
CreateHandoff(c, n, owners) ==
  /\ n \in Handoff \ ids
  /\ owners \subseteq nodes
  /\ ids' = ids \cup {n}
  /\ Begin(c, [op |-> "handoff", node |-> n, owners |-> owners])

\* The rows of a list of owners, in an order of theirs, and then that of the handoff.
Numbering(S) == CHOOSE f \in [S -> 1..Cardinality(S)] : IsInjective(f)

HandoffEvents(c, n, owners) ==
  {Nth(c, Numbering(owners)[o], o, "related", n) : o \in owners}
    \cup {Nth(c, Cardinality(owners) + 1, n, "created", None)}

KeysOf(owners) == {Key(o) : o \in owners}

\* The edges.  An owner that has gone meanwhile fails a foreign key, and the call.
LinkOwners(c) ==
  /\ At(c, "handoff", "begun")
  /\ tx[c].owners \subseteq nodes
  /\ GoOn(c, "linked", KeysOf(tx[c].owners))

CommitHandoff(c) ==
  LET n == tx[c].node
      new == {<<o, n, "has_handoff">> : o \in tx[c].owners}
  IN
  /\ At(c, "handoff", "linked")
  /\ nodes' = nodes \cup {n}
  /\ edges' = edges \cup new
  /\ Commit(c, HandoffEvents(c, n, tx[c].owners), new)
  /\ UNCHANGED <<row, comment, reader>>

-------------------------------------------------------------------------------
(***************************************************************************)
(* Edits: a fingerprint of the node before, the patch, one after.          *)
(***************************************************************************)

BeginEdit(c, n, detail, shared) ==
  /\ n \in nodes
  /\ UNCHANGED ids
  /\ Begin(c, [op |-> "edit", node |-> n, detail |-> detail, shared |-> shared,
               before |-> row[n]])

UpdateLink(c, n, detail, shared) == n \in Link /\ BeginEdit(c, n, detail, shared)
UpdateHandoff(c, n, detail, shared) == n \in Handoff /\ BeginEdit(c, n, detail, shared)
SetLinkDisposition(c, n, detail) == n \in Link /\ detail # Keep /\ BeginEdit(c, n, detail, Keep)
MarkLinkRead(c, n, detail) == n \in Link /\ detail # Keep /\ BeginEdit(c, n, detail, Keep)
SetNodeTags(c, n, shared) == shared # Keep /\ BeginEdit(c, n, Keep, shared)

\* The UPDATEs of the table of the node's kind, then those of node (every patch ends
\* in touch_node).  They find no row when the node has gone.
WriteDetail(c) ==
  /\ At(c, "edit", "begun")
  /\ GoOn(c, "detail", IF tx[c].detail # Keep /\ tx[c].node \in nodes
                       THEN {Detail(tx[c].node)} ELSE {})

WriteShared(c) ==
  /\ At(c, "edit", "detail")
  /\ GoOn(c, "written", IF tx[c].node \in nodes THEN {Written(tx[c].node)} ELSE {})

Patched(r, call) ==
  [detail |-> IF call.detail = Keep THEN r.detail ELSE call.detail,
   shared |-> IF call.shared = Keep THEN r.shared ELSE call.shared]

\* record_edit
Edited(before, after) == before # after

CommitEdit(c) ==
  LET n == tx[c].node
      after == Patched(row[n], tx[c])
  IN
  /\ At(c, "edit", "written")
  /\ IF n \in nodes
     THEN /\ row' = [row EXCEPT ![n] = after]
          /\ Commit(c, IF Edited(tx[c].before, after)
                       THEN {Event(c, n, "edited", None)} ELSE {}, {})
     ELSE Commit(c, {}, {}) /\ UNCHANGED row
  /\ UNCHANGED <<nodes, comment, edges, reader>>

-------------------------------------------------------------------------------
(***************************************************************************)
(* Comments.                                                               *)
(***************************************************************************)

AddComment(c, n, text) ==
  /\ n \in nodes
  /\ UNCHANGED ids
  /\ Begin(c, [op |-> "add", node |-> n, text |-> text])

InsertComment(c) ==
  /\ At(c, "add", "begun")
  /\ tx[c].node \in nodes
  /\ GoOn(c, "inserted", {Key(tx[c].node)})

CommitComment(c) ==
  LET k == CHOOSE id \in Unused : TRUE
      n == tx[c].node
  IN
  /\ At(c, "add", "inserted") /\ Unused # {}
  /\ comment' = [comment EXCEPT ![k] = [is |-> "live", node |-> n, text |-> tx[c].text]]
  /\ Commit(c, {Event(c, n, "comment_added", k)}, {<<n, k>>})
  /\ UNCHANGED <<nodes, row, edges, reader>>

UpdateComment(c, k, text) ==
  /\ UNCHANGED ids
  /\ Begin(c, [op |-> "recomment", comment |-> k, text |-> text, before |-> None])

\* Faulty variant: the read before the write takes no lock.
ReadLocksNothing(k) == {}

\* SELECT ... FOR UPDATE
ReadLocks(k) == {OnComment(k)}

ReadComment(c) ==
  LET k == tx[c].comment IN
  /\ At(c, "recomment", "begun") /\ Live(k)
  /\ CanLock(c, ReadLocks(k))
  /\ tx' = [tx EXCEPT ![c].step = "read", ![c].locks = ReadLocks(k), ![c].before = comment[k].text]
  /\ UNCHANGED <<ids, nodes, row, comment, edges, feed, began, reader, late>>

\* An origin that is not sent leaves the one there was.
CommitRecomment(c) ==
  LET k == tx[c].comment
      old == comment[k].text
      new == [tx[c].text EXCEPT !.origin = IF @ = None THEN old.origin ELSE @]
  IN
  /\ At(c, "recomment", "read") /\ Live(k)
  /\ CanLock(c, {OnComment(k), Key(comment[k].node)})
  /\ comment' = [comment EXCEPT ![k].text = new]
  /\ Commit(c, IF new = tx[c].before THEN {}
               ELSE {Event(c, comment[k].node, "comment_edited", k)}, {})
  /\ UNCHANGED <<nodes, row, edges, reader>>

DeleteComment(c, k) ==
  /\ UNCHANGED ids
  /\ Begin(c, [op |-> "uncomment", comment |-> k])

\* Faulty variant: a comment that is gone counts as deleted once more.
FoundBefore(k) == comment[k].is # "unused"

\* DELETE ... RETURNING finds a row, after waiting for whoever has it.
Found(k) == Live(k)

RemoveComment(c) ==
  /\ At(c, "uncomment", "begun") /\ Found(tx[c].comment)
  /\ GoOn(c, "removed", {OnComment(tx[c].comment)})

CommitUncomment(c) ==
  LET k == tx[c].comment IN
  /\ At(c, "uncomment", "removed")
  /\ CanLock(c, {Key(comment[k].node)})
  /\ comment' = [comment EXCEPT ![k] = Ended(k, "deleted")]
  /\ Commit(c, {Event(c, comment[k].node, "comment_deleted", k)}, {})
  /\ UNCHANGED <<nodes, row, edges, reader>>

-------------------------------------------------------------------------------
(***************************************************************************)
(* Edges: relate, with an undirected label or not, and unrelate.           *)
(***************************************************************************)

\* An undirected edge that is there the other way round is the same edge.
Mirrored(e) == Turn(e) \in edges

\* The registry: what ends a label may have.
Fits(e) == e[3] = "has_handoff" => e[2] \in Handoff

Relate(c, e) ==
  /\ Fits(e)
  /\ e[1] # e[2] /\ {e[1], e[2]} \subseteq nodes
  /\ e[3] = "related-to" => ~Mirrored(e)
  /\ UNCHANGED ids
  /\ Begin(c, [op |-> "relate", edge |-> e])

InsertEdge(c) ==
  LET e == tx[c].edge IN
  /\ At(c, "relate", "begun")
  /\ {e[1], e[2]} \subseteq nodes
  /\ GoOn(c, "inserted", {OnEdge(e), Key(e[1]), Key(e[2])})

\* An edge that was there already is left alone and not logged.
CommitEdge(c) ==
  LET e == tx[c].edge IN
  /\ At(c, "relate", "inserted")
  /\ edges' = edges \cup {e}
  /\ Commit(c, IF e \in edges THEN {} ELSE {Event(c, e[1], "related", e[2])}, {e} \ edges)
  /\ UNCHANGED <<nodes, row, comment, reader>>

Unrelate(c, e) ==
  /\ UNCHANGED ids
  /\ Begin(c, [op |-> "unrelate", edge |-> e])

DeleteEdge(c) ==
  /\ At(c, "unrelate", "begun") /\ tx[c].edge \in edges
  /\ GoOn(c, "deleted", {OnEdge(tx[c].edge)})

CommitUnrelate(c) ==
  LET e == tx[c].edge IN
  /\ At(c, "unrelate", "deleted")
  /\ CanLock(c, {Key(e[1])})
  /\ edges' = edges \ {e}
  /\ Commit(c, {Event(c, e[1], "unrelated", e[2])}, {})
  /\ UNCHANGED <<nodes, row, comment, reader>>

-------------------------------------------------------------------------------
(***************************************************************************)
(* delete_link: refuse what is referenced, then delete what is not.        *)
(***************************************************************************)

DeleteLink(c, n) ==
  /\ n \in Link \cap nodes
  /\ UNCHANGED ids
  /\ Begin(c, [op |-> "delete", node |-> n])

\* Faulty variant: only the edges the link holds are counted.
EdgesCountedLeft(n) == {e \in edges : e[1] = n}

\* refuse_if_referenced: one count of edges, one of comments.
EdgesCounted(n) == Edges(n)

CountEdges(c) ==
  /\ At(c, "delete", "begun")
  /\ EdgesCounted(tx[c].node) = {}
  /\ tx' = [tx EXCEPT ![c].step = "edges"]
  /\ late' = [late EXCEPT ![c] = {}]
  /\ UNCHANGED <<ids, nodes, row, comment, edges, feed, began, reader>>

CountComments(c) ==
  /\ At(c, "delete", "edges")
  /\ Thread(tx[c].node) = {}
  /\ tx' = [tx EXCEPT ![c].step = "counted"]
  /\ late' = [late EXCEPT ![c] = @ \cap edges]
  /\ UNCHANGED <<ids, nodes, row, comment, edges, feed, began, reader>>

\* DELETE FROM node locks the row, which waits for every key that refers to it, and
\* then the rows the cascade takes.
DeleteNode(c) ==
  /\ At(c, "delete", "counted")
  /\ tx[c].node \in nodes
  /\ GoOn(c, "gone", {Gone(tx[c].node)})

Cascade(c) ==
  LET n == tx[c].node IN
  /\ At(c, "delete", "gone")
  /\ GoOn(c, "cascaded", {Detail(n)} \cup {OnComment(k) : k \in Thread(n)}
                           \cup {OnEdge(e) : e \in Edges(n)})

CommitDelete(c) ==
  LET n == tx[c].node IN
  /\ At(c, "delete", "cascaded")
  /\ nodes' = nodes \ {n}
  /\ comment' = [k \in Comments |-> IF k \in Thread(n) THEN Ended(k, "cascaded") ELSE comment[k]]
  /\ edges' = edges \ Edges(n)
  /\ feed' = {ev \in feed : ev.node # n}
  /\ tx' = [tx EXCEPT ![c] = Idle]
  /\ late' = [late EXCEPT ![c] = {}]
  /\ reader' = IF reader.on THEN [reader EXCEPT !.cut = TRUE] ELSE reader
  /\ UNCHANGED <<ids, row, began>>

-------------------------------------------------------------------------------
(***************************************************************************)
(* list_activity, and the page of the web client that reads it: newest     *)
(* first, a page at a time, each starting after what was got so far.       *)
(***************************************************************************)

Matches(f, ev) == f.action \in {None, ev.action} /\ f.kind \in {None, Kind(ev.node)}

\* ORDER BY at DESC, id DESC
Newer(x, y) == x.at > y.at \/ (x.at = y.at /\ x.id > y.id)

Listed(f) == {ev \in feed : Matches(f, ev)}

\* How many rows of a listing come before a row of it.
Place(ev, rows) == Cardinality({x \in rows : Newer(x, ev)})

\* LIMIT and OFFSET
Cut(rows, offset) == {ev \in rows : Place(ev, rows) \in offset..(offset + PageSize - 1)}

\* Faulty variant: the filter looks at the rows of the page.
PageThenFilter(f, offset) == {ev \in Cut(feed, offset) : Matches(f, ev)}

Page(f, offset) == Cut(Listed(f), offset)

\* A reading that finds the feed empty ends there and is left out.
StartReading(f) ==
  /\ reader = Off /\ Listed(f) # {}
  /\ reader' = [on |-> TRUE, filter |-> f, offset |-> 0, seen |-> {}, due |-> Listed(f),
                cut |-> FALSE]
  /\ UNCHANGED <<ids, nodes, row, comment, edges, feed, began, tx, late>>

More ==
  LET page == Page(reader.filter, reader.offset) IN
  /\ reader.on /\ page # {}
  /\ reader' = [reader EXCEPT !.offset = @ + Cardinality(page), !.seen = @ \cup page]
  /\ UNCHANGED <<ids, nodes, row, comment, edges, feed, began, tx, late>>

-------------------------------------------------------------------------------

Patch == Values \cup {Keep}

Step(c) ==
  \/ CommitLink(c) \/ LinkOwners(c) \/ CommitHandoff(c)
  \/ WriteDetail(c) \/ WriteShared(c) \/ CommitEdit(c)
  \/ InsertComment(c) \/ CommitComment(c)
  \/ ReadComment(c) \/ CommitRecomment(c)
  \/ RemoveComment(c) \/ CommitUncomment(c)
  \/ InsertEdge(c) \/ CommitEdge(c) \/ DeleteEdge(c) \/ CommitUnrelate(c)
  \/ CountEdges(c) \/ CountComments(c) \/ DeleteNode(c) \/ Cascade(c) \/ CommitDelete(c)
  \/ RollBack(c)

Call(c) ==
  \/ \E n \in Link : CreateLink(c, n)
  \/ \E n \in Handoff, owners \in SUBSET nodes : CreateHandoff(c, n, owners)
  \/ \E n \in Link, d \in Patch, s \in Patch : UpdateLink(c, n, d, s)
  \/ \E n \in Handoff, d \in Patch, s \in Patch : UpdateHandoff(c, n, d, s)
  \/ \E n \in Link, d \in Values : SetLinkDisposition(c, n, d)
  \/ \E n \in Link, d \in Values : MarkLinkRead(c, n, d)
  \/ \E n \in Node, s \in Values : SetNodeTags(c, n, s)
  \/ \E n \in Node, t \in Texts : AddComment(c, n, t)
  \/ \E k \in Comments, t \in Texts : Live(k) /\ UpdateComment(c, k, t)
  \/ \E k \in Comments : Live(k) /\ DeleteComment(c, k)
  \/ \E e \in Node \X Node \X Labels : Relate(c, e)
  \/ \E e \in edges : Unrelate(c, e)
  \/ \E n \in Link : DeleteLink(c, n)

Next ==
  \/ \E c \in Client : Call(c)
  \/ \E c \in Client : Step(c)
  \/ \E f \in Filters : StartReading(f)
  \/ More

Spec == Init /\ [][Next]_vars

-------------------------------------------------------------------------------
(***************************************************************************)
(* Properties.                                                             *)
(***************************************************************************)

\* delete_link takes along only references it could not see: those that were
\* committed after it had counted.  (That it takes any along is a known gap of
\* counting before locking.)
DeleteTakesOnlyLateReferences ==
  [][\A n \in nodes \ nodes' :
       \A c \in Client : tx[c] # Idle /\ tx'[c] = Idle =>
         /\ Edges(n) \subseteq late[c]
         /\ \A k \in Thread(n) : <<n, k>> \in late[c]]_vars

\* The feed and the threads tell the same story: a comment of a node that is still
\* there was added once, and has been deleted once or not at all.
FeedTellsTheThread ==
  \A n \in nodes, k \in Comments :
    LET told(action) == Cardinality({ev \in feed : ev.node = n /\ ev.action = action /\ ev.ref = k})
    IN
    /\ told("comment_added") <= 1 /\ told("comment_deleted") <= told("comment_added")
    /\ (told("comment_added") - told("comment_deleted") = 1) <=> k \in Thread(n)

\* An edit is in the feed if, and only if, it changed something: of a comment always,
\* whoever else edits or deletes it at the time; of a node unless somebody else's edit
\* of it was committed between the two fingerprints.
EditsAreLogged ==
  [][/\ \A k \in Comments : Live(k) /\ comment'[k].is = "live" =>
          (comment'[k].text # comment[k].text
             <=> \E ev \in feed' \ feed : ev.action = "comment_edited" /\ ev.ref = k)
     /\ \A c \in Client : At(c, "edit", "written") /\ tx'[c] = Idle
                            /\ tx[c].node \in nodes /\ tx[c].before = row[tx[c].node] =>
          LET n == tx[c].node IN
          row'[n] # row[n] \/ feed' # feed =>
            row'[n] # row[n] /\ feed' \ feed = {Event(c, n, "edited", None)}]_vars

\* A reader who pages to the end of the feed is shown all that was in it when the
\* reading began, whatever is logged meanwhile, at the top or (a call dated by its
\* beginning) further down; unless a link, and its history, was deleted.
PagesMissNothing ==
  reader.on /\ ~reader.cut =>
    LET rows == Listed(reader.filter) IN
    reader.due \subseteq reader.seen \cup {ev \in rows : Place(ev, rows) >= reader.offset}
===============================================================================
