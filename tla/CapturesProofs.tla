---------------------------- MODULE CapturesProofs ----------------------------
(***************************************************************************)
(* For any number of clients, nodes, comments and calls: what deleting a   *)
(* link can take along; that the feed and the threads tell the same story; *)
(* that edits are logged if they change something; and that who pages      *)
(* through the feed misses nothing.                                        *)
(***************************************************************************)
EXTENDS Captures, FiniteSetTheorems, FunctionTheorems, TLAPS

Deleting(c) == tx[c].op = "delete"

\* The shape of the tables, and of an open call.
Shape ==
  /\ DOMAIN tx = Client /\ tx = [c \in Client |-> tx[c]]
  /\ DOMAIN late = Client /\ late = [c \in Client |-> late[c]]
  /\ DOMAIN comment = Comments /\ comment = [k \in Comments |-> comment[k]]
  /\ \A k \in Comments : {"is", "node"} \subseteq DOMAIN comment[k]
  /\ \A c \in Client : /\ {"op", "step"} \subseteq DOMAIN tx[c]
                       /\ Deleting(c) => "node" \in DOMAIN tx[c]

\* What a delete that has counted does not know of came to be after it counted.
EdgesAreLate(c)  == Edges(tx[c].node) \subseteq late[c]
ThreadIsLate(c) == \A k \in Thread(tx[c].node) : <<tx[c].node, k>> \in late[c]

CountsStand ==
  \A c \in Client : Deleting(c) =>
    /\ tx[c].step # "begun" => EdgesAreLate(c)
    /\ tx[c].step \notin {"begun", "edges"} => ThreadIsLate(c)

DeleteInv == Shape /\ CountsStand

-------------------------------------------------------------------------------
(***************************************************************************)
(* The other calls.                                                        *)
(***************************************************************************)

\* What a step of c does to references: those it makes are late for every other call.
Makes(c) ==
  /\ \A d \in Client \ {c} : tx'[d] = tx[d]
  /\ \A d \in Client \ {c} : Deleting(d) =>
       /\ late[d] \subseteq late'[d]
       /\ edges' \ edges \subseteq late'[d]
       /\ \A k \in Comments : Live(k)' /\ ~(Live(k) /\ comment'[k].node = comment[k].node)
                                => <<comment'[k].node, k>> \in late'[d]

\* The part of the invariant that is about one call.
Stands(c) ==
  Deleting(c) =>
    /\ tx[c].step # "begun" => EdgesAreLate(c)
    /\ tx[c].step \notin {"begun", "edges"} => ThreadIsLate(c)

LEMMA OthersStand ==
  ASSUME CountsStand, NEW c \in Client, Makes(c), NEW d \in Client \ {c}
  PROVE  Stands(d)'
<1>. SUFFICES ASSUME Deleting(d)' PROVE Stands(d)'
  BY DEF Stands
<1>1. tx'[d] = tx[d] /\ Deleting(d)
  BY DEF Makes, Deleting
<1>2. ASSUME EdgesAreLate(d) PROVE EdgesAreLate(d)'
  BY <1>1, <1>2 DEF Makes, EdgesAreLate, Edges
<1>3. ASSUME ThreadIsLate(d) PROVE ThreadIsLate(d)'
  BY <1>1, <1>3 DEF Makes, ThreadIsLate, Thread
<1>. QED  BY <1>1, <1>2, <1>3 DEF CountsStand, Stands

LEMMA CallsStand ==
  ASSUME DeleteInv, NEW c \in Client, Makes(c), Stands(c)', Shape'
  PROVE  DeleteInv'
<1>1. \A d \in Client : Stands(d)'
  BY OthersStand DEF DeleteInv
<1>. QED  BY <1>1 DEF DeleteInv, CountsStand, Stands

-------------------------------------------------------------------------------
(***************************************************************************)
(* The pieces calls are made of.                                           *)
(***************************************************************************)

LEMMA BeginKeeps ==
  ASSUME DeleteInv, NEW c \in Client, NEW call, Begin(c, call),
         "op" \in DOMAIN call, DOMAIN call \cap {"at", "step", "locks"} = {},
         call["op"] = "delete" => "node" \in DOMAIN call
  PROVE  DeleteInv'
<1>1. /\ DOMAIN Opened(call, began') = DOMAIN call \cup {"at", "step", "locks"}
      /\ Opened(call, began')["step"] = "begun" /\ Opened(call, began')["op"] = call["op"]
  BY DEF Opened
<1>2. /\ tx' = [tx EXCEPT ![c] = Opened(call, began')] /\ late' = [late EXCEPT ![c] = {}]
      /\ UNCHANGED <<edges, comment>>
  BY DEF Begin
<1>3. tx'[c] = Opened(call, began') /\ \A d \in Client \ {c} : tx'[d] = tx[d] /\ late'[d] = late[d]
  BY <1>2 DEF DeleteInv, Shape
<1>4. Shape'
  <2>1. /\ DOMAIN tx' = Client /\ tx' = [d \in Client |-> tx'[d]]
        /\ DOMAIN late' = Client /\ late' = [d \in Client |-> late'[d]]
        /\ DOMAIN comment' = Comments /\ comment' = [k \in Comments |-> comment'[k]]
        /\ \A k \in Comments : {"is", "node"} \subseteq DOMAIN comment'[k]
    BY <1>2 DEF DeleteInv, Shape
  <2>2. {"op", "step"} \subseteq DOMAIN tx'[c] /\ (tx'[c]["op"] = "delete" => "node" \in DOMAIN tx'[c])
    BY <1>1, <1>3
  <2>3. \A d \in Client \ {c} : /\ {"op", "step"} \subseteq DOMAIN tx'[d]
                                /\ tx'[d].op = "delete" => "node" \in DOMAIN tx'[d]
    BY <1>3 DEF DeleteInv, Shape, Deleting
  <2>. QED  BY <2>1, <2>2, <2>3 DEF Shape, Deleting
<1>5. Makes(c)
  BY <1>2, <1>3 DEF Makes, Live
<1>6. Stands(c)'
  BY <1>1, <1>3 DEF Stands
<1>. QED  BY <1>4, <1>5, <1>6, CallsStand

\* A call that goes on, changing its step and what only it knows.
LEMMA GoOnKeeps ==
  ASSUME DeleteInv, NEW c \in Client, UNCHANGED <<edges, comment, late>>,
         \A d \in Client \ {c} : tx'[d] = tx[d],
         DOMAIN tx' = Client, tx' = [d \in Client |-> tx'[d]],
         DOMAIN tx'[c] = DOMAIN tx[c], tx'[c]["op"] = tx[c]["op"],
         Deleting(c) => tx'[c]["node"] = tx[c]["node"] /\ tx[c].step \notin {"begun", "edges"}
  PROVE  DeleteInv'
<1>1. Shape'
  BY DEF DeleteInv, Shape, Deleting
<1>2. Makes(c)
  BY DEF Makes, Live
<1>3. Stands(c)'
  BY DEF DeleteInv, CountsStand, Stands, Deleting, EdgesAreLate, ThreadIsLate, Edges, Thread, Live
<1>. QED  BY <1>1, <1>2, <1>3, CallsStand

LEMMA StepKeeps ==
  ASSUME DeleteInv, NEW c \in Client, NEW step, NEW L, GoOn(c, step, L),
         Deleting(c) => tx[c].step \notin {"begun", "edges"}
  PROVE  DeleteInv'
<1>1. tx' = [tx EXCEPT ![c] = [tx[c] EXCEPT !["step"] = step, !["locks"] = tx[c].locks \cup L]]
      /\ UNCHANGED <<edges, comment, late>>
  BY DEF GoOn
<1>2. /\ \A d \in Client \ {c} : tx'[d] = tx[d]
      /\ DOMAIN tx' = Client /\ tx' = [d \in Client |-> tx'[d]]
      /\ tx'[c] = [tx[c] EXCEPT !["step"] = step, !["locks"] = tx[c].locks \cup L]
  BY <1>1 DEF DeleteInv, Shape
<1>3. /\ DOMAIN tx'[c] = DOMAIN tx[c] /\ tx'[c]["op"] = tx[c]["op"]
      /\ Deleting(c) => tx'[c]["node"] = tx[c]["node"]
  BY <1>2 DEF DeleteInv, Shape
<1>. QED  BY <1>1, <1>2, <1>3, GoOnKeeps

\* A call that ends, with what it committed.
LEMMA EndKeeps ==
  ASSUME DeleteInv, NEW c \in Client, NEW made,
         tx' = [tx EXCEPT ![c] = Idle],
         DOMAIN late' = Client, late' = [d \in Client |-> late'[d]],
         \A d \in Client \ {c} : Deleting(d) => late'[d] = late[d] \cup made,
         edges' \subseteq edges \cup made,
         DOMAIN comment' = Comments, comment' = [k \in Comments |-> comment'[k]],
         \A k \in Comments : {"is", "node"} \subseteq DOMAIN comment'[k],
         \A k \in Comments : Live(k)' /\ ~(Live(k) /\ comment'[k].node = comment[k].node)
                               => <<comment'[k].node, k>> \in made
  PROVE  DeleteInv'
<1>1. /\ tx'[c] = Idle /\ DOMAIN tx' = Client /\ tx' = [d \in Client |-> tx'[d]]
      /\ \A d \in Client \ {c} : tx'[d] = tx[d]
  BY DEF DeleteInv, Shape
<1>2. DOMAIN Idle = {"op", "step"} /\ Idle.op = "idle"
  BY DEF Idle
<1>3. Shape'
  BY <1>1, <1>2 DEF DeleteInv, Shape, Deleting
<1>4. Makes(c)
  BY <1>1 DEF Makes
<1>5. Stands(c)'
  BY <1>1, <1>2 DEF Stands, Deleting
<1>. QED  BY <1>3, <1>4, <1>5, CallsStand

LEMMA CommitKeeps ==
  ASSUME DeleteInv, NEW c \in Client, NEW events, NEW made, Commit(c, events, made),
         edges' \subseteq edges \cup made,
         DOMAIN comment' = Comments, comment' = [k \in Comments |-> comment'[k]],
         \A k \in Comments : {"is", "node"} \subseteq DOMAIN comment'[k],
         \A k \in Comments : Live(k)' /\ ~(Live(k) /\ comment'[k].node = comment[k].node)
                               => <<comment'[k].node, k>> \in made
  PROVE  DeleteInv'
<1>1. tx' = [tx EXCEPT ![c] = Idle]
      /\ late' = [d \in Client |-> IF tx[d] = Idle THEN {} ELSE late[d] \cup made]
  BY DEF Commit
<1>2. \A d \in Client : Deleting(d) => tx[d] # Idle
  BY DEF Deleting, Idle
<1>3. \A d \in Client \ {c} : Deleting(d) => late'[d] = late[d] \cup made
  BY <1>1, <1>2
<1>. QED  BY <1>1, <1>3, EndKeeps

-------------------------------------------------------------------------------
(***************************************************************************)
(* The steps.                                                              *)
(***************************************************************************)

LEMMA CallsKeep ==
  ASSUME DeleteInv, NEW c \in Client, Call(c)
  PROVE  DeleteInv'
<1>1. ASSUME NEW n \in Link, CreateLink(c, n) PROVE DeleteInv'
  BY <1>1, BeginKeeps DEF CreateLink
<1>2. ASSUME NEW n \in Handoff, NEW owners \in SUBSET nodes, CreateHandoff(c, n, owners) PROVE DeleteInv'
  BY <1>2, BeginKeeps DEF CreateHandoff
<1>3. ASSUME NEW n, NEW detail, NEW shared, BeginEdit(c, n, detail, shared) PROVE DeleteInv'
  BY <1>3, BeginKeeps DEF BeginEdit
<1>4. ASSUME NEW n \in Node, NEW t \in Texts, AddComment(c, n, t) PROVE DeleteInv'
  BY <1>4, BeginKeeps DEF AddComment
<1>5. ASSUME NEW k \in Comments, NEW t \in Texts, UpdateComment(c, k, t) PROVE DeleteInv'
  BY <1>5, BeginKeeps DEF UpdateComment
<1>6. ASSUME NEW k \in Comments, DeleteComment(c, k) PROVE DeleteInv'
  BY <1>6, BeginKeeps DEF DeleteComment
<1>7. ASSUME NEW e, Relate(c, e) PROVE DeleteInv'
  BY <1>7, BeginKeeps DEF Relate
<1>8. ASSUME NEW e, Unrelate(c, e) PROVE DeleteInv'
  BY <1>8, BeginKeeps DEF Unrelate
<1>9. ASSUME NEW n \in Link, DeleteLink(c, n) PROVE DeleteInv'
  BY <1>9, BeginKeeps DEF DeleteLink
<1>. QED
  BY <1>1, <1>2, <1>3, <1>4, <1>5, <1>6, <1>7, <1>8, <1>9
     DEF Call, UpdateLink, UpdateHandoff, SetLinkDisposition, MarkLinkRead, SetNodeTags

\* The steps of a delete before its commit.
LEMMA DeleteKeeps ==
  ASSUME DeleteInv, NEW c \in Client,
         CountEdges(c) \/ CountComments(c) \/ DeleteNode(c) \/ Cascade(c)
  PROVE  DeleteInv'
<1>1. CASE CountEdges(c)
  <2>1. /\ tx' = [tx EXCEPT ![c] = [tx[c] EXCEPT !["step"] = "edges"]]
        /\ late' = [late EXCEPT ![c] = {}] /\ UNCHANGED <<edges, comment>>
        /\ Edges(tx[c].node) = {} /\ Deleting(c)
    BY <1>1 DEF CountEdges, EdgesCounted, At, Deleting
  <2>2. /\ \A d \in Client \ {c} : tx'[d] = tx[d] /\ late'[d] = late[d]
        /\ tx'[c] = [tx[c] EXCEPT !["step"] = "edges"]
    BY <2>1 DEF DeleteInv, Shape
  <2>3. /\ DOMAIN tx'[c] = DOMAIN tx[c] /\ tx'[c]["op"] = tx[c]["op"]
        /\ tx'[c]["node"] = tx[c]["node"] /\ tx'[c]["step"] = "edges"
    BY <2>1, <2>2 DEF DeleteInv, Shape
  <2>4. Shape'
    <3>1. \A d \in Client : /\ {"op", "step"} \subseteq DOMAIN tx'[d]
                            /\ tx'[d].op = "delete" => "node" \in DOMAIN tx'[d]
      BY <2>1, <2>2, <2>3 DEF DeleteInv, Shape, Deleting
    <3>. QED  BY <2>1, <3>1 DEF DeleteInv, Shape, Deleting
  <2>5. Makes(c)
    BY <2>1, <2>2 DEF Makes, Live
  <2>6. Stands(c)'
    BY <2>1, <2>3 DEF Stands, EdgesAreLate, Edges
  <2>. QED  BY <2>4, <2>5, <2>6, CallsStand
<1>2. CASE CountComments(c)
  <2>1. /\ tx' = [tx EXCEPT ![c] = [tx[c] EXCEPT !["step"] = "counted"]]
        /\ late' = [late EXCEPT ![c] = late[c] \cap edges] /\ UNCHANGED <<edges, comment>>
        /\ Thread(tx[c].node) = {} /\ Deleting(c) /\ tx[c].step = "edges"
    BY <1>2 DEF CountComments, At, Deleting
  <2>2. /\ \A d \in Client \ {c} : tx'[d] = tx[d] /\ late'[d] = late[d]
        /\ tx'[c] = [tx[c] EXCEPT !["step"] = "counted"] /\ late'[c] = late[c] \cap edges
    BY <2>1 DEF DeleteInv, Shape
  <2>3. /\ DOMAIN tx'[c] = DOMAIN tx[c] /\ tx'[c]["op"] = tx[c]["op"]
        /\ tx'[c]["node"] = tx[c]["node"] /\ tx'[c]["step"] = "counted"
    BY <2>1, <2>2 DEF DeleteInv, Shape
  <2>4. Shape'
    <3>1. \A d \in Client : /\ {"op", "step"} \subseteq DOMAIN tx'[d]
                            /\ tx'[d].op = "delete" => "node" \in DOMAIN tx'[d]
      BY <2>1, <2>2, <2>3 DEF DeleteInv, Shape, Deleting
    <3>. QED  BY <2>1, <3>1 DEF DeleteInv, Shape, Deleting
  <2>5. Makes(c)
    BY <2>1, <2>2 DEF Makes, Live
  <2>6. Edges(tx[c].node) \subseteq late[c]
    BY <2>1 DEF DeleteInv, CountsStand, EdgesAreLate
  <2>7. Stands(c)'
    BY <2>1, <2>2, <2>3, <2>6 DEF Stands, EdgesAreLate, ThreadIsLate, Edges, Thread, Live
  <2>. QED  BY <2>4, <2>5, <2>7, CallsStand
<1>3. CASE DeleteNode(c)
  BY <1>3, StepKeeps DEF DeleteNode, At
<1>4. CASE Cascade(c)
  BY <1>4, StepKeeps DEF Cascade, At
<1>. QED  BY <1>1, <1>2, <1>3, <1>4

\* The commits that bring or take references.
LEMMA CommitsKeep ==
  ASSUME DeleteInv, NEW c \in Client,
         \/ CommitHandoff(c) \/ CommitComment(c) \/ CommitRecomment(c) \/ CommitUncomment(c)
         \/ CommitEdge(c) \/ CommitUnrelate(c) \/ CommitDelete(c)
  PROVE  DeleteInv'
<1>a. /\ DOMAIN comment = Comments /\ comment = [k \in Comments |-> comment[k]]
      /\ \A k \in Comments : {"is", "node"} \subseteq DOMAIN comment[k]
  BY DEF DeleteInv, Shape
<1>1. CASE CommitHandoff(c)
  <2>. DEFINE new == {<<o, tx[c].node, "has_handoff">> : o \in tx[c].owners}
  <2>1. PICK events : Commit(c, events, new) /\ edges' = edges \cup new /\ UNCHANGED comment
    BY <1>1 DEF CommitHandoff
  <2>. HIDE DEF new
  <2>. QED  BY <1>a, <2>1, CommitKeeps DEF Live
<1>2. CASE CommitComment(c)
  <2>. DEFINE k == CHOOSE id \in Unused : TRUE
              n == tx[c].node
  <2>1. PICK events :
          /\ Commit(c, events, {<<n, k>>}) /\ UNCHANGED edges
          /\ comment' = [comment EXCEPT ![k] = [is |-> "live", node |-> n, text |-> tx[c].text]]
    BY <1>2 DEF CommitComment
  <2>. HIDE DEF k, n
  <2>2. DOMAIN comment' = Comments /\ comment' = [j \in Comments |-> comment'[j]]
    BY <1>a, <2>1
  <2>3. \A j \in Comments : j # k => comment'[j] = comment[j]
    BY <1>a, <2>1
  <2>4. k \in Comments => comment'[k] = [is |-> "live", node |-> n, text |-> tx[c].text]
    BY <1>a, <2>1
  <2>5. \A j \in Comments : {"is", "node"} \subseteq DOMAIN comment'[j]
    BY <1>a, <2>3, <2>4
  <2>6. \A j \in Comments : Live(j)' /\ ~(Live(j) /\ comment'[j].node = comment[j].node)
                              => <<comment'[j].node, j>> \in {<<n, k>>}
    BY <2>3, <2>4 DEF Live
  <2>. QED  BY <2>1, <2>2, <2>5, <2>6, CommitKeeps
<1>3. CASE CommitRecomment(c)
  <2>. DEFINE k == tx[c].comment
  <2>1. PICK events, new :
          /\ Commit(c, events, {}) /\ UNCHANGED edges
          /\ comment' = [comment EXCEPT ![k] = [comment[k] EXCEPT !["text"] = new]]
    BY <1>3 DEF CommitRecomment
  <2>. HIDE DEF k
  <2>2. DOMAIN comment' = Comments /\ comment' = [j \in Comments |-> comment'[j]]
    BY <1>a, <2>1
  <2>3. \A j \in Comments : /\ DOMAIN comment'[j] = DOMAIN comment[j]
                            /\ comment'[j]["is"] = comment[j]["is"]
                            /\ comment'[j]["node"] = comment[j]["node"]
    <3>1. \A j \in Comments : j # k => comment'[j] = comment[j]
      BY <1>a, <2>1
    <3>2. k \in Comments => comment'[k] = [comment[k] EXCEPT !["text"] = new]
      BY <1>a, <2>1
    <3>. QED  BY <1>a, <3>1, <3>2
  <2>4. \A j \in Comments : ~(Live(j)' /\ ~(Live(j) /\ comment'[j].node = comment[j].node))
    BY <2>3 DEF Live
  <2>. QED  BY <1>a, <2>1, <2>2, <2>3, <2>4, CommitKeeps
<1>4. CASE CommitUncomment(c)
  <2>. DEFINE k == tx[c].comment
  <2>1. PICK events :
          /\ Commit(c, events, {}) /\ UNCHANGED edges
          /\ comment' = [comment EXCEPT ![k] = Ended(k, "deleted")]
    BY <1>4 DEF CommitUncomment
  <2>. HIDE DEF k
  <2>2. DOMAIN comment' = Comments /\ comment' = [j \in Comments |-> comment'[j]]
    BY <1>a, <2>1
  <2>3. \A j \in Comments : \/ comment'[j] = comment[j]
                            \/ comment'[j] = [is |-> "deleted", node |-> comment[k].node]
    BY <1>a, <2>1 DEF Ended
  <2>4. \A j \in Comments : /\ {"is", "node"} \subseteq DOMAIN comment'[j]
                            /\ ~(Live(j)' /\ ~(Live(j) /\ comment'[j].node = comment[j].node))
    <3>. SUFFICES ASSUME NEW j \in Comments
                  PROVE  /\ {"is", "node"} \subseteq DOMAIN comment'[j]
                         /\ ~(Live(j)' /\ ~(Live(j) /\ comment'[j].node = comment[j].node))
      OBVIOUS
    <3>1. CASE comment'[j] = comment[j]
      BY <1>a, <3>1 DEF Live
    <3>2. CASE comment'[j] = [is |-> "deleted", node |-> comment[k].node]
      BY <3>2 DEF Live
    <3>. QED  BY <2>3, <3>1, <3>2
  <2>. QED  BY <2>1, <2>2, <2>4, CommitKeeps
<1>5. CASE CommitEdge(c)
  <2>1. PICK events :
          /\ Commit(c, events, {tx[c].edge} \ edges) /\ UNCHANGED comment
          /\ edges' = edges \cup {tx[c].edge}
    BY <1>5 DEF CommitEdge
  <2>. QED  BY <1>a, <2>1, CommitKeeps DEF Live
<1>6. CASE CommitUnrelate(c)
  <2>1. PICK events :
          Commit(c, events, {}) /\ UNCHANGED comment /\ edges' \subseteq edges
    BY <1>6 DEF CommitUnrelate
  <2>. QED  BY <1>a, <2>1, CommitKeeps DEF Live
<1>7. CASE CommitDelete(c)
  <2>. DEFINE n == tx[c].node
  <2>1. /\ tx' = [tx EXCEPT ![c] = Idle] /\ late' = [late EXCEPT ![c] = {}] /\ edges' \subseteq edges
        /\ comment' = [k \in Comments |-> IF k \in Thread(n) THEN Ended(k, "cascaded") ELSE comment[k]]
    BY <1>7 DEF CommitDelete
  <2>2. /\ DOMAIN late' = Client /\ late' = [d \in Client |-> late'[d]]
        /\ \A d \in Client \ {c} : late'[d] = late[d] \cup {}
    BY <2>1 DEF DeleteInv, Shape
  <2>3. \A k \in Comments : /\ {"is", "node"} \subseteq DOMAIN comment'[k]
                            /\ ~(Live(k)' /\ ~(Live(k) /\ comment'[k].node = comment[k].node))
    BY <1>a, <2>1 DEF Live, Ended
  <2>4. DOMAIN comment' = Comments /\ comment' = [k \in Comments |-> comment'[k]]
    BY <2>1
  <2>. DEFINE made == {}
  <2>5. /\ edges' \subseteq edges \cup made
        /\ \A d \in Client \ {c} : Deleting(d) => late'[d] = late[d] \cup made
        /\ \A k \in Comments : Live(k)' /\ ~(Live(k) /\ comment'[k].node = comment[k].node)
                                => <<comment'[k].node, k>> \in made
    BY <2>1, <2>2, <2>3
  <2>6. tx' = [tx EXCEPT ![c] = Idle] /\ \A k \in Comments : {"is", "node"} \subseteq DOMAIN comment'[k]
    BY <2>1, <2>3
  <2>. HIDE DEF n, made
  <2>. QED  BY <2>2, <2>4, <2>5, <2>6, EndKeeps
<1>. QED  BY <1>1, <1>2, <1>3, <1>4, <1>5, <1>6, <1>7

\* The other steps of calls.
LEMMA StepsKeep ==
  ASSUME DeleteInv, NEW c \in Client, Step(c)
  PROVE  DeleteInv'
<1>1. CASE CommitLink(c)
  <2>1. PICK events : Commit(c, events, {}) /\ UNCHANGED <<edges, comment>>
    BY <1>1 DEF CommitLink
  <2>. QED  BY <2>1, CommitKeeps DEF DeleteInv, Shape, Live
<1>2. CASE CommitEdit(c)
  <2>1. PICK events : Commit(c, events, {}) /\ UNCHANGED <<edges, comment>>
    BY <1>2 DEF CommitEdit
  <2>. QED  BY <2>1, CommitKeeps DEF DeleteInv, Shape, Live
<1>3. CASE \/ LinkOwners(c) \/ WriteDetail(c) \/ WriteShared(c) \/ InsertComment(c)
           \/ RemoveComment(c) \/ InsertEdge(c) \/ DeleteEdge(c)
  <2>1. PICK step, L : GoOn(c, step, L) /\ ~Deleting(c)
    BY <1>3 DEF LinkOwners, WriteDetail, WriteShared, InsertComment, RemoveComment, InsertEdge,
       DeleteEdge, At, Deleting
  <2>. QED  BY <2>1, StepKeeps
<1>4. CASE ReadComment(c)
  <2>1. PICK L, before :
          /\ tx' = [tx EXCEPT ![c] = [tx[c] EXCEPT !["step"] = "read", !["locks"] = L,
                                                   !["before"] = before]]
          /\ ~Deleting(c) /\ UNCHANGED <<edges, comment, late>>
    BY <1>4 DEF ReadComment, At, Deleting
  <2>2. /\ \A d \in Client \ {c} : tx'[d] = tx[d]
        /\ DOMAIN tx' = Client /\ tx' = [d \in Client |-> tx'[d]]
        /\ DOMAIN tx'[c] = DOMAIN tx[c] /\ tx'[c]["op"] = tx[c]["op"]
    BY <2>1 DEF DeleteInv, Shape
  <2>. QED  BY <2>1, <2>2, GoOnKeeps
<1>5. CASE RollBack(c)
  <2>. DEFINE made == {}
  <2>1. /\ tx' = [tx EXCEPT ![c] = Idle] /\ edges' \subseteq edges \cup made
        /\ UNCHANGED comment /\ \A d \in Client : late'[d] = late[d] \cup made
        /\ DOMAIN late' = Client /\ late' = [d \in Client |-> late'[d]]
    BY <1>5 DEF RollBack, DeleteInv, Shape
  <2>2. /\ DOMAIN comment' = Comments /\ comment' = [k \in Comments |-> comment'[k]]
        /\ \A k \in Comments : {"is", "node"} \subseteq DOMAIN comment'[k]
        /\ \A k \in Comments : ~(Live(k)' /\ ~(Live(k) /\ comment'[k].node = comment[k].node))
    BY <2>1 DEF DeleteInv, Shape, Live
  <2>. HIDE DEF made
  <2>. QED  BY <2>1, <2>2, EndKeeps
<1>. QED  BY <1>1, <1>2, <1>3, <1>4, <1>5, DeleteKeeps, CommitsKeep DEF Step

LEMMA DeleteInvStep == DeleteInv /\ [Next]_vars => DeleteInv'
<1>. SUFFICES ASSUME DeleteInv, [Next]_vars PROVE DeleteInv'
  OBVIOUS
<1>1. CASE UNCHANGED <<tx, late, comment, edges>>
  BY <1>1 DEF DeleteInv, Shape, Deleting, CountsStand, EdgesAreLate, ThreadIsLate, Edges, Thread, Live
<1>2. ASSUME NEW f \in Filters, StartReading(f) PROVE DeleteInv'
  BY <1>1, <1>2 DEF StartReading
<1>3. CASE More
  BY <1>1, <1>3 DEF More
<1>4. CASE UNCHANGED vars
  BY <1>1, <1>4 DEF vars
<1>. QED  BY <1>2, <1>3, <1>4, CallsKeep, StepsKeep DEF Next

\* Nodes go by the last step of a delete.
LEMMA NodesGoByDelete ==
  ASSUME Next, nodes \ nodes' # {}
  PROVE  \E c \in Client : CommitDelete(c)
<1>1. ASSUME NEW c \in Client, Call(c) PROVE nodes' = nodes
  BY <1>1 DEF Call, CreateLink, CreateHandoff, UpdateLink, UpdateHandoff, SetLinkDisposition, MarkLinkRead,
     SetNodeTags, BeginEdit, AddComment, UpdateComment, DeleteComment, Relate, Unrelate, DeleteLink, Begin
<1>2. ASSUME NEW c \in Client, Step(c), ~CommitDelete(c) PROVE nodes \subseteq nodes'
  BY <1>2 DEF Step, CommitLink, LinkOwners, CommitHandoff, WriteDetail, WriteShared, CommitEdit,
     InsertComment, CommitComment, ReadComment, CommitRecomment, RemoveComment, CommitUncomment,
     InsertEdge, CommitEdge, DeleteEdge, CommitUnrelate, CountEdges, CountComments, DeleteNode,
     Cascade, RollBack, GoOn
<1>. QED  BY <1>1, <1>2 DEF Next, StartReading, More

\* Deleting a link takes along no comment and no edge that was there when the call
\* counted them (delete_link, refuse_if_referenced).
THEOREM DeletesTakeOnlyLateReferences == Spec => DeleteTakesOnlyLateReferences
<1>1. Init => DeleteInv
  BY DEF Init, DeleteInv, Shape, CountsStand, Deleting, Idle
<1>2. ASSUME DeleteInv, Next, NEW n \in nodes \ nodes', NEW c \in Client, tx[c] # Idle, tx'[c] = Idle
      PROVE  Edges(n) \subseteq late[c] /\ \A k \in Thread(n) : <<n, k>> \in late[c]
  <2>1. PICK d \in Client : CommitDelete(d)
    BY <1>2, NodesGoByDelete
  <2>2. n = tx[d].node /\ tx' = [tx EXCEPT ![d] = Idle] /\ Deleting(d) /\ tx[d].step = "cascaded"
    BY <1>2, <2>1 DEF CommitDelete, At, Deleting
  <2>3. c = d
    BY <1>2, <2>2 DEF DeleteInv, Shape
  <2>. QED  BY <1>2, <2>2, <2>3 DEF DeleteInv, CountsStand, EdgesAreLate, ThreadIsLate
<1>3. DeleteInv /\ [Next]_vars
        => [\A n \in nodes \ nodes' :
              \A c \in Client : tx[c] # Idle /\ tx'[c] = Idle =>
                /\ Edges(n) \subseteq late[c]
                /\ \A k \in Thread(n) : <<n, k>> \in late[c]]_vars
  BY <1>2
<1>. QED  BY <1>1, <1>3, DeleteInvStep, PTL DEF Spec, DeleteTakesOnlyLateReferences

-------------------------------------------------------------------------------
(***************************************************************************)
(* The feed, the threads and the locks that keep them together: every row  *)
(* is dated by its call, what a call has locked stays as it found it, and  *)
(* each comment has been told of as often as it has come and gone.         *)
(***************************************************************************)

\* What a call remembers, by its kind.
Asks(r) ==
  /\ r.op = "handoff" => "owners" \in DOMAIN r /\ IsFiniteSet(r.owners)
  /\ r.op = "add" => {"node", "text"} \subseteq DOMAIN r
  /\ r.op = "recomment" => {"comment", "text", "before"} \subseteq DOMAIN r /\ r.comment \in Comments
  /\ r.op = "uncomment" => "comment" \in DOMAIN r /\ r.comment \in Comments
  /\ r.op = "delete" => "node" \in DOMAIN r
  /\ r.op = "edit" => {"node", "detail", "shared", "before"} \subseteq DOMAIN r /\ r.node \in Node

Open(c) == tx[c] # Idle

Calls ==
  \A c \in Client : Open(c) => {"at", "op", "step", "locks"} \subseteq DOMAIN tx[c] /\ Asks(tx[c])

\* Every row bears the time of its call, and two rows of a call differ in their number.
Timed ==
  /\ began \in Nat
  /\ \A c \in Client : Open(c) => tx[c].at \in 1..began
  /\ \A c, d \in Client : Open(c) /\ Open(d) /\ c # d => tx[c].at # tx[d].at
  /\ \A ev \in feed : ev.at \in 1..began /\ ev.id \in Nat
  /\ \A ev \in feed, c \in Client : Open(c) => ev.at # tx[c].at
  /\ \A x, y \in feed : x.at = y.at /\ x.id = y.id => x = y
  /\ IsFiniteSet(feed) /\ IsFiniteSet(nodes)

LocksApart ==
  \A c, d \in Client : c # d => \A x \in Locks(c), y \in Locks(d) : ~Clash(x, y)

\* What a call has found, and holds the lock of, is still so.
Holds(c) ==
  /\ At(c, "add", "inserted") => tx[c].node \in nodes /\ Key(tx[c].node) \in Locks(c)
  /\ At(c, "recomment", "read") =>
       /\ tx[c].comment \in Comments /\ Live(tx[c].comment) /\ OnComment(tx[c].comment) \in Locks(c)
       /\ tx[c].before = comment[tx[c].comment].text
  /\ At(c, "uncomment", "removed") =>
       tx[c].comment \in Comments /\ Live(tx[c].comment) /\ OnComment(tx[c].comment) \in Locks(c)
  /\ At(c, "delete", "gone") => Gone(tx[c].node) \in Locks(c)
  /\ At(c, "delete", "cascaded") =>
       Gone(tx[c].node) \in Locks(c) /\ \A k \in Thread(tx[c].node) : OnComment(k) \in Locks(c)

\* The rows that tell of a comment.
Told(k, action) == {ev \in feed : ev.action = action /\ ev.ref = k}

ThreadTold(k) ==
  /\ comment[k].is \in {"unused", "live", "deleted", "cascaded"}
  /\ \A ev \in Told(k, "comment_added") \cup Told(k, "comment_deleted") :
       ev.node = comment[k].node /\ comment[k].node \in nodes /\ comment[k].is \in {"live", "deleted"}
  /\ comment[k].is = "live" =>
       /\ comment[k].node \in nodes /\ "text" \in DOMAIN comment[k]
       /\ Told(k, "comment_deleted") = {}
       /\ \E ev : Told(k, "comment_added") = {ev}
  /\ comment[k].is = "deleted" =>
       \/ Told(k, "comment_added") = {} /\ Told(k, "comment_deleted") = {}
       \/ \E x, y : Told(k, "comment_added") = {x} /\ Told(k, "comment_deleted") = {y}

Rows == DOMAIN row = Node

FeedInv ==
  /\ DeleteInv /\ Calls /\ Timed /\ LocksApart /\ Rows
  /\ \A c \in Client : Holds(c)
  /\ \A k \in Comments : ThreadTold(k)

\* A step of c that commits nothing and takes at most the locks L.
Goes(c, L) ==
  /\ Open(c) /\ CanLock(c, L)
  /\ \A d \in Client \ {c} : tx'[d] = tx[d]
  /\ DOMAIN tx'[c] = DOMAIN tx[c]
  /\ \A f \in DOMAIN tx[c] \ {"step", "locks", "before"} : tx'[c][f] = tx[c][f]
  /\ tx'[c].locks \subseteq tx[c].locks \cup L
  /\ UNCHANGED <<nodes, row, comment, feed, began>>

\* Rows of one call.
Numbered(c, events) ==
  /\ IsFiniteSet(events)
  /\ \A ev \in events : ev.at = tx[c].at /\ ev.id \in Nat
  /\ \A x, y \in events : x.id = y.id => x = y

\* A step that ends the call of c, with these rows and no others.
Ends(c, events) ==
  /\ Open(c) /\ tx' = [tx EXCEPT ![c] = Idle] /\ began' = began
  /\ feed' \subseteq feed \cup events /\ Numbered(c, events)
  /\ IsFiniteSet(nodes')

\* What a step of c does to what others have found: only with the lock.
Touches(c) ==
  /\ \A k \in Comments : Live(k) /\ comment'[k] # comment[k] => OnComment(k) \in Locks(c)
  /\ \A k \in Comments : Live(k) /\ Live(k)' => comment'[k].node = comment[k].node
  /\ \A k \in Comments : Live(k)' /\ ~Live(k) => Key(comment'[k].node) \in Locks(c)
  /\ \A n \in nodes \ nodes' : Gone(n) \in Locks(c)

LEMMA IdleFacts ==
  /\ DOMAIN Idle = {"op", "step"} /\ Idle["op"] = "idle" /\ Idle["step"] = "idle"
BY DEF Idle

LEMMA ClashFacts ==
  /\ \A k : Clash(OnComment(k), OnComment(k))
  /\ \A n : Clash(Key(n), Gone(n)) /\ Clash(Gone(n), Key(n)) /\ Clash(Gone(n), Gone(n))
BY DEF Clash, OnComment, Key, Gone

LEMMA ClashSymmetric ==
  ASSUME NEW a, NEW b, Clash(a, b)
  PROVE  Clash(b, a)
<1>1. {a[1], b[1]} = {b[1], a[1]}
  OBVIOUS
<1>. QED  BY <1>1, Zenon DEF Clash

\* Rows that do not tell of a comment, which stays as it is up to its text.
LEMMA NotTold ==
  ASSUME NEW k \in Comments, ThreadTold(k), NEW events, feed' = feed \cup events,
         \A ev \in events : ev.action \in {"comment_added", "comment_deleted"} => ev.ref # k,
         nodes \subseteq nodes', comment'[k].is = comment[k].is, comment'[k].node = comment[k].node,
         "text" \in DOMAIN comment[k] => "text" \in DOMAIN comment'[k]
  PROVE  ThreadTold(k)'
<1>1. Told(k, "comment_added")' = Told(k, "comment_added")
  BY DEF Told
<1>2. Told(k, "comment_deleted")' = Told(k, "comment_deleted")
  BY DEF Told
<1>3. \A ev : ev \in Told(k, "comment_added") \cup Told(k, "comment_deleted") =>
         ev.node = comment'[k].node /\ comment'[k].node \in nodes' /\ comment'[k].is \in {"live", "deleted"}
  BY DEF ThreadTold
<1>. QED  BY <1>1, <1>2, <1>3 DEF ThreadTold

LEMMA NothingTold ==
  ASSUME \A k \in Comments : ThreadTold(k), UNCHANGED <<nodes, comment, feed>>
  PROVE  \A k \in Comments : ThreadTold(k)'
<1>1. \A k : Told(k, "comment_added")' = Told(k, "comment_added")
             /\ Told(k, "comment_deleted")' = Told(k, "comment_deleted")
  BY DEF Told
<1>2. ASSUME NEW k \in Comments PROVE ThreadTold(k)'
  <2>1. ThreadTold(k) /\ UNCHANGED <<nodes, comment>>
    OBVIOUS
  <2>2. ThreadTold(k)' <=> ThreadTold(k)
    BY <1>1, <2>1, Zenon DEF ThreadTold
  <2>. QED  BY <2>1, <2>2
<1>. QED  BY <1>2

LEMMA GoesKeeps ==
  ASSUME FeedInv, NEW c \in Client, NEW L, Goes(c, L), DeleteInv', Holds(c)'
  PROVE  FeedInv'
<1>1. Calls'
  <2>1. Open(c)' /\ {"at", "op", "step", "locks"} \subseteq DOMAIN tx'[c] /\ Asks(tx'[c])
    BY IdleFacts DEF FeedInv, Calls, Goes, Open, Asks
  <2>2. \A d \in Client \ {c} : tx'[d] = tx[d]
    BY DEF Goes
  <2>. QED  BY <2>1, <2>2 DEF FeedInv, Calls, Open
<1>2. Timed'
  <2>1. tx'[c].at = tx[c].at
    BY DEF FeedInv, Calls, Goes
  <2>2. \A d \in Client : tx'[d].at = tx[d].at /\ (Open(d)' => Open(d))
    BY <2>1 DEF Goes, Open
  <2>. QED  BY <2>2 DEF FeedInv, Timed, Goes
<1>3. LocksApart'
  <2>1. Locks(c)' \subseteq Locks(c) \cup L
    BY DEF Goes, Locks, Open
  <2>2. \A d \in Client \ {c} : Locks(d)' = Locks(d)
    BY DEF Goes, Locks
  <2>3. \A d \in Client \ {c}, x \in L : \A y \in Locks(d) : ~Clash(x, y) /\ ~Clash(y, x)
    BY ClashSymmetric DEF Goes, CanLock
  <2>. QED  BY <2>1, <2>2, <2>3 DEF FeedInv, LocksApart
<1>4. Rows'
  BY DEF FeedInv, Rows, Goes
<1>5. \A d \in Client : Holds(d)'
  <2>1. ASSUME NEW d \in Client \ {c} PROVE Holds(d)'
    <3>1. Holds(d) /\ tx'[d] = tx[d] /\ UNCHANGED <<nodes, comment>>
      BY DEF FeedInv, Goes
    <3>. QED  BY <3>1 DEF Holds, At, Locks, Live, Thread
  <2>. QED  BY <2>1
<1>6. \A k \in Comments : ThreadTold(k)'
  BY NothingTold DEF FeedInv, Goes
<1>. QED  BY <1>1, <1>2, <1>3, <1>4, <1>5, <1>6 DEF FeedInv

LEMMA OthersHold ==
  ASSUME FeedInv, NEW c \in Client, Touches(c), NEW d \in Client \ {c}, tx'[d] = tx[d]
  PROVE  Holds(d)'
<1>1. Holds(d) /\ Locks(d)' = Locks(d)
  BY DEF FeedInv, Locks
<1>2. \A x \in Locks(d), y \in Locks(c) : ~Clash(x, y)
  BY DEF FeedInv, LocksApart
<1>3. \A k \in Comments : Live(k) /\ OnComment(k) \in Locks(d) => comment'[k] = comment[k]
  BY <1>2, ClashFacts DEF Touches
<1>4. \A n \in nodes : Key(n) \in Locks(d) => n \in nodes'
  BY <1>2, ClashFacts DEF Touches
<1>5. ASSUME NEW n, Gone(n) \in Locks(d) PROVE Thread(n)' \subseteq Thread(n)
  BY <1>2, <1>5, ClashFacts DEF Touches, Thread
<1>6. \A op, step : At(d, op, step)' <=> At(d, op, step)
  BY DEF At
<1>. QED  BY <1>1, <1>3, <1>4, <1>5, <1>6 DEF Holds, Live

LEMMA EndsKeeps ==
  ASSUME FeedInv, NEW c \in Client, NEW events, Ends(c, events), Touches(c), DeleteInv', Rows',
         \A k \in Comments : ThreadTold(k)'
  PROVE  FeedInv'
<1>1. tx'[c] = Idle /\ \A d \in Client \ {c} : tx'[d] = tx[d]
  BY DEF FeedInv, DeleteInv, Shape, Ends
<1>2. Calls'
  BY <1>1 DEF FeedInv, Calls, Open
<1>3. Timed'
  <2>1. IsFiniteSet(feed')
    <3>1. IsFiniteSet(feed \cup events)
      BY FS_Union DEF FeedInv, Timed, Ends, Numbered
    <3>. QED  BY <3>1, FS_Subset DEF Ends
  <2>2. \A d \in Client : Open(d)' => d # c /\ Open(d) /\ tx'[d] = tx[d]
    BY <1>1 DEF Open
  <2>3. \A ev \in feed' : ev.at \in 1..began /\ ev.id \in Nat
    BY DEF FeedInv, Timed, Ends, Numbered
  <2>4. \A ev \in feed', d \in Client : Open(d)' => ev.at # tx'[d].at
    BY <2>2 DEF FeedInv, Timed, Ends, Numbered
  <2>5. \A x, y \in feed' : x.at = y.at /\ x.id = y.id => x = y
    BY DEF FeedInv, Timed, Ends, Numbered
  <2>. QED  BY <2>1, <2>2, <2>3, <2>4, <2>5 DEF FeedInv, Timed, Ends
<1>4. LocksApart'
  <2>1. Locks(c)' = {} /\ \A d \in Client \ {c} : Locks(d)' = Locks(d)
    BY <1>1 DEF Locks
  <2>. QED  BY <2>1 DEF FeedInv, LocksApart
<1>5. \A d \in Client : Holds(d)'
  <2>1. Holds(c)'
    BY <1>1, IdleFacts DEF Holds, At
  <2>. QED  BY <1>1, <2>1, OthersHold
<1>. QED  BY <1>2, <1>3, <1>4, <1>5 DEF FeedInv

LEMMA BeginsKeeps ==
  ASSUME FeedInv, NEW c \in Client, NEW call, Begin(c, call), DeleteInv',
         "op" \in DOMAIN call, DOMAIN call \cap {"at", "step", "locks"} = {}, Asks(call)
  PROVE  FeedInv'
<1>1. /\ DOMAIN Opened(call, began') = DOMAIN call \cup {"at", "step", "locks"}
      /\ Opened(call, began')["step"] = "begun" /\ Opened(call, began')["at"] = began'
      /\ Opened(call, began')["locks"] = {}
      /\ \A f \in DOMAIN call : Opened(call, began')[f] = call[f]
  BY DEF Opened
<1>2. /\ tx'[c] = Opened(call, began') /\ ~Open(c)
      /\ \A d \in Client \ {c} : tx'[d] = tx[d]
      /\ began \in Nat /\ began' = began + 1
      /\ UNCHANGED <<nodes, row, comment, feed>>
  BY DEF FeedInv, DeleteInv, Shape, Timed, Begin, Open
<1>3. {"at", "op", "step", "locks"} \subseteq DOMAIN tx'[c] /\ Asks(tx'[c])
  BY <1>1, <1>2 DEF Asks
<1>4. Calls'
  BY <1>2, <1>3 DEF FeedInv, Calls, Open
<1>5. Timed'
  <2>1. tx'[c].at = began + 1
    BY <1>1, <1>2
  <2>. QED  BY <1>2, <2>1 DEF FeedInv, Timed, Open
<1>6. LocksApart'
  <2>1. Locks(c)' = {} /\ \A d \in Client \ {c} : Locks(d)' = Locks(d)
    BY <1>1, <1>2 DEF Locks
  <2>. QED  BY <2>1 DEF FeedInv, LocksApart
<1>7. \A d \in Client : Holds(d)'
  <2>1. Holds(c)'
    BY <1>1, <1>2 DEF Holds, At
  <2>2. ASSUME NEW d \in Client \ {c} PROVE Holds(d)'
    <3>1. Holds(d) /\ tx'[d] = tx[d] /\ UNCHANGED <<nodes, comment>>
      BY <1>2 DEF FeedInv
    <3>. QED  BY <3>1 DEF Holds, At, Locks, Live, Thread
  <2>. QED  BY <2>1, <2>2
<1>8. Rows' /\ \A k \in Comments : ThreadTold(k)'
  BY <1>2, NothingTold DEF FeedInv, Rows
<1>. QED  BY <1>4, <1>5, <1>6, <1>7, <1>8 DEF FeedInv

LEMMA CallsFeed ==
  ASSUME FeedInv, NEW c \in Client, Call(c)
  PROVE  FeedInv'
<1>0. DeleteInv'
  BY CallsKeep DEF FeedInv
<1>1. ASSUME NEW n \in Link, CreateLink(c, n) PROVE FeedInv'
  BY <1>0, <1>1, BeginsKeeps DEF CreateLink, Asks
<1>2. ASSUME NEW n \in Handoff, NEW owners \in SUBSET nodes, CreateHandoff(c, n, owners) PROVE FeedInv'
  <2>1. IsFiniteSet(owners)
    BY FS_Subset DEF FeedInv, Timed
  <2>. QED  BY <1>0, <1>2, <2>1, BeginsKeeps DEF CreateHandoff, Asks
<1>3. ASSUME NEW n \in Node, NEW detail, NEW shared, BeginEdit(c, n, detail, shared) PROVE FeedInv'
  BY <1>0, <1>3, BeginsKeeps DEF BeginEdit, Asks
<1>4. ASSUME NEW n \in Node, NEW t \in Texts, AddComment(c, n, t) PROVE FeedInv'
  BY <1>0, <1>4, BeginsKeeps DEF AddComment, Asks
<1>5. ASSUME NEW k \in Comments, NEW t \in Texts, UpdateComment(c, k, t) PROVE FeedInv'
  BY <1>0, <1>5, BeginsKeeps DEF UpdateComment, Asks
<1>6. ASSUME NEW k \in Comments, DeleteComment(c, k) PROVE FeedInv'
  BY <1>0, <1>6, BeginsKeeps DEF DeleteComment, Asks
<1>7. ASSUME NEW e, Relate(c, e) PROVE FeedInv'
  BY <1>0, <1>7, BeginsKeeps DEF Relate, Asks
<1>8. ASSUME NEW e, Unrelate(c, e) PROVE FeedInv'
  BY <1>0, <1>8, BeginsKeeps DEF Unrelate, Asks
<1>9. ASSUME NEW n \in Link, DeleteLink(c, n) PROVE FeedInv'
  BY <1>0, <1>9, BeginsKeeps DEF DeleteLink, Asks
<1>10. ASSUME NEW n \in Link, NEW d \in Patch, NEW s \in Patch, UpdateLink(c, n, d, s) PROVE FeedInv'
  BY <1>3, <1>10 DEF UpdateLink, Node
<1>11. ASSUME NEW n \in Handoff, NEW d \in Patch, NEW s \in Patch, UpdateHandoff(c, n, d, s) PROVE FeedInv'
  BY <1>3, <1>11 DEF UpdateHandoff, Node
<1>12. ASSUME NEW n \in Link, NEW d \in Values, SetLinkDisposition(c, n, d) \/ MarkLinkRead(c, n, d)
       PROVE FeedInv'
  BY <1>3, <1>12 DEF SetLinkDisposition, MarkLinkRead, Node
<1>13. ASSUME NEW n \in Node, NEW s \in Values, SetNodeTags(c, n, s) PROVE FeedInv'
  BY <1>3, <1>13 DEF SetNodeTags
<1>. QED
  BY <1>1, <1>2, <1>4, <1>5, <1>6, <1>7, <1>8, <1>9, <1>10, <1>11, <1>12, <1>13 DEF Call

\* A call that goes on.
LEMMA GoOnFacts ==
  ASSUME FeedInv, NEW c \in Client, NEW step, NEW L, GoOn(c, step, L), Open(c)
  PROVE  /\ Goes(c, L) /\ tx'[c].step = step /\ tx'[c].op = tx[c].op
         /\ Locks(c)' = Locks(c) \cup L
         /\ \A f \in DOMAIN tx[c] \ {"step", "locks"} : tx'[c][f] = tx[c][f]
<1>1. {"at", "op", "step", "locks"} \subseteq DOMAIN tx[c]
  BY DEF FeedInv, Calls
<1>2. /\ \A d \in Client \ {c} : tx'[d] = tx[d]
      /\ tx'[c] = [tx[c] EXCEPT !["step"] = step, !["locks"] = tx[c].locks \cup L]
  BY DEF FeedInv, DeleteInv, Shape, GoOn
<1>3. /\ DOMAIN tx'[c] = DOMAIN tx[c] /\ tx'[c]["step"] = step
      /\ tx'[c]["locks"] = tx[c].locks \cup L
      /\ \A f \in DOMAIN tx[c] \ {"step", "locks"} : tx'[c][f] = tx[c][f]
  BY <1>1, <1>2
<1>4. Open(c)'
  BY <1>1, <1>3, IdleFacts DEF Open
<1>5. Locks(c)' = Locks(c) \cup L
  BY <1>3, <1>4 DEF Locks, Open
<1>6. Goes(c, L)
  BY <1>2, <1>3 DEF Goes, GoOn
<1>. QED  BY <1>1, <1>3, <1>5, <1>6

LEMMA GoOnFeed ==
  ASSUME FeedInv, NEW c \in Client, DeleteInv',
         \/ LinkOwners(c) \/ WriteDetail(c) \/ WriteShared(c) \/ InsertComment(c)
         \/ RemoveComment(c) \/ InsertEdge(c) \/ DeleteEdge(c) \/ DeleteNode(c) \/ Cascade(c)
  PROVE  FeedInv'
<1>0. ASSUME NEW op, NEW step, At(c, op, step), op # "idle" PROVE Open(c) /\ Asks(tx[c])
  BY <1>0, IdleFacts DEF At, Open, FeedInv, Calls
<1>1. CASE LinkOwners(c)
  <2>1. PICK L : GoOn(c, "linked", L) /\ Open(c) /\ tx[c].op = "handoff"
    BY <1>0, <1>1 DEF LinkOwners, At
  <2>2. Holds(c)'
    BY <2>1, GoOnFacts DEF Holds, At
  <2>. QED  BY <2>1, <2>2, GoOnFacts, GoesKeeps
<1>2. CASE WriteDetail(c)
  <2>1. PICK L : GoOn(c, "detail", L) /\ Open(c) /\ tx[c].op = "edit"
    BY <1>0, <1>2 DEF WriteDetail, At
  <2>2. Holds(c)'
    BY <2>1, GoOnFacts DEF Holds, At
  <2>. QED  BY <2>1, <2>2, GoOnFacts, GoesKeeps
<1>3. CASE WriteShared(c)
  <2>1. PICK L : GoOn(c, "written", L) /\ Open(c) /\ tx[c].op = "edit"
    BY <1>0, <1>3 DEF WriteShared, At
  <2>2. Holds(c)'
    BY <2>1, GoOnFacts DEF Holds, At
  <2>. QED  BY <2>1, <2>2, GoOnFacts, GoesKeeps
<1>4. CASE InsertComment(c)
  <2>1. /\ GoOn(c, "inserted", {Key(tx[c].node)}) /\ Open(c) /\ tx[c].op = "add"
        /\ tx[c].node \in nodes /\ "node" \in DOMAIN tx[c]
    BY <1>0, <1>4 DEF InsertComment, At, Asks
  <2>2. tx'[c].node = tx[c].node /\ Key(tx[c].node) \in Locks(c)' /\ tx'[c].op = "add" /\ UNCHANGED nodes
    BY <2>1, GoOnFacts DEF Goes
  <2>3. Holds(c)'
    BY <2>1, <2>2 DEF Holds, At
  <2>. QED  BY <2>1, <2>3, GoOnFacts, GoesKeeps
<1>5. CASE RemoveComment(c)
  <2>1. /\ GoOn(c, "removed", {OnComment(tx[c].comment)}) /\ Open(c) /\ tx[c].op = "uncomment"
        /\ Live(tx[c].comment) /\ "comment" \in DOMAIN tx[c] /\ tx[c].comment \in Comments
    BY <1>0, <1>5 DEF RemoveComment, At, Asks, Found
  <2>2. /\ tx'[c].comment = tx[c].comment /\ OnComment(tx[c].comment) \in Locks(c)'
        /\ tx'[c].op = "uncomment" /\ UNCHANGED comment
    BY <2>1, GoOnFacts DEF Goes
  <2>3. Holds(c)'
    BY <2>1, <2>2 DEF Holds, At, Live
  <2>. QED  BY <2>1, <2>3, GoOnFacts, GoesKeeps
<1>6. CASE InsertEdge(c)
  <2>1. PICK L : GoOn(c, "inserted", L) /\ Open(c) /\ tx[c].op = "relate"
    BY <1>0, <1>6 DEF InsertEdge, At
  <2>2. Holds(c)'
    BY <2>1, GoOnFacts DEF Holds, At
  <2>. QED  BY <2>1, <2>2, GoOnFacts, GoesKeeps
<1>7. CASE DeleteEdge(c)
  <2>1. PICK L : GoOn(c, "deleted", L) /\ Open(c) /\ tx[c].op = "unrelate"
    BY <1>0, <1>7 DEF DeleteEdge, At
  <2>2. Holds(c)'
    BY <2>1, GoOnFacts DEF Holds, At
  <2>. QED  BY <2>1, <2>2, GoOnFacts, GoesKeeps
<1>8. CASE DeleteNode(c)
  <2>1. /\ GoOn(c, "gone", {Gone(tx[c].node)}) /\ Open(c) /\ tx[c].op = "delete"
        /\ "node" \in DOMAIN tx[c]
    BY <1>0, <1>8 DEF DeleteNode, At, Asks
  <2>2. tx'[c].node = tx[c].node /\ Gone(tx[c].node) \in Locks(c)' /\ tx'[c].op = "delete"
    BY <2>1, GoOnFacts
  <2>3. Holds(c)'
    BY <2>1, <2>2, GoOnFacts DEF Holds, At
  <2>. QED  BY <2>1, <2>3, GoOnFacts, GoesKeeps
<1>9. CASE Cascade(c)
  <2>. DEFINE n == tx[c].node
  <2>1. PICK L :
          /\ GoOn(c, "cascaded", L) /\ Open(c) /\ tx[c].op = "delete"
          /\ "node" \in DOMAIN tx[c] /\ \A k \in Thread(n) : OnComment(k) \in L
          /\ Gone(n) \in Locks(c)
    BY <1>0, <1>9 DEF Cascade, At, Asks, FeedInv, Holds
  <2>2. /\ tx'[c].node = n /\ Gone(n) \in Locks(c)' /\ tx'[c].op = "delete"
        /\ \A k \in Thread(n) : OnComment(k) \in Locks(c)'
    BY <2>1, GoOnFacts
  <2>3. Thread(n)' = Thread(n)
    BY <2>1, <2>2 DEF GoOn, Thread, Live
  <2>4. Thread(tx[c].node)' = Thread(n)
    BY <2>2, <2>1 DEF GoOn, Thread, Live
  <2>5. Holds(c)'
    BY <2>1, <2>2, <2>4, GoOnFacts DEF Holds, At
  <2>. QED  BY <2>1, <2>5, GoOnFacts, GoesKeeps
<1>. QED  BY <1>1, <1>2, <1>3, <1>4, <1>5, <1>6, <1>7, <1>8, <1>9

\* The reads of a call that take no lock, or one.
LEMMA ReadsFeed ==
  ASSUME FeedInv, NEW c \in Client, DeleteInv',
         ReadComment(c) \/ CountEdges(c) \/ CountComments(c)
  PROVE  FeedInv'
<1>1. Open(c) /\ {"at", "op", "step", "locks"} \subseteq DOMAIN tx[c] /\ Asks(tx[c])
  BY IdleFacts DEF ReadComment, CountEdges, CountComments, At, Open, FeedInv, Calls
<1>2. CASE ReadComment(c)
  <2>. DEFINE k == tx[c].comment
  <2>1. /\ tx' = [tx EXCEPT ![c] = [tx[c] EXCEPT !["step"] = "read", !["locks"] = ReadLocks(k),
                                                 !["before"] = comment[k].text]]
        /\ tx[c].op = "recomment" /\ Live(k) /\ CanLock(c, ReadLocks(k))
        /\ UNCHANGED <<nodes, row, comment, feed, began>>
    BY <1>2 DEF ReadComment, At
  <2>2. {"comment", "before"} \subseteq DOMAIN tx[c] /\ k \in Comments
    BY <1>1, <2>1 DEF Asks
  <2>3. /\ \A d \in Client \ {c} : tx'[d] = tx[d]
        /\ tx'[c] = [tx[c] EXCEPT !["step"] = "read", !["locks"] = ReadLocks(k),
                                  !["before"] = comment[k].text]
    BY <2>1 DEF FeedInv, DeleteInv, Shape
  <2>4. /\ DOMAIN tx'[c] = DOMAIN tx[c] /\ tx'[c]["step"] = "read" /\ tx'[c]["locks"] = ReadLocks(k)
        /\ tx'[c]["before"] = comment[k].text
        /\ \A f \in DOMAIN tx[c] \ {"step", "locks", "before"} : tx'[c][f] = tx[c][f]
    BY <1>1, <2>2, <2>3
  <2>5. Goes(c, ReadLocks(k))
    BY <1>1, <2>1, <2>3, <2>4 DEF Goes
  <2>6. tx'[c].op = "recomment" /\ tx'[c].comment = k
    BY <1>1, <2>1, <2>2, <2>4
  <2>7. Locks(c)' = ReadLocks(k)
    BY <1>1, <2>4, IdleFacts DEF Locks
  <2>8. Holds(c)'
    BY <2>1, <2>2, <2>4, <2>6, <2>7 DEF Holds, At, Live, ReadLocks
  <2>. QED  BY <2>5, <2>8, GoesKeeps
<1>3. CASE CountEdges(c) \/ CountComments(c)
  <2>1. PICK step \in {"edges", "counted"} :
          /\ tx' = [tx EXCEPT ![c] = [tx[c] EXCEPT !["step"] = step]]
          /\ tx[c].op = "delete" /\ UNCHANGED <<nodes, row, comment, feed, began>>
    BY <1>3 DEF CountEdges, CountComments, At
  <2>3. /\ \A d \in Client \ {c} : tx'[d] = tx[d]
        /\ tx'[c] = [tx[c] EXCEPT !["step"] = step]
    BY <2>1 DEF FeedInv, DeleteInv, Shape
  <2>4. /\ DOMAIN tx'[c] = DOMAIN tx[c] /\ tx'[c]["step"] = step /\ tx'[c]["locks"] = tx[c].locks
        /\ tx'[c]["op"] = "delete"
        /\ \A f \in DOMAIN tx[c] \ {"step", "locks", "before"} : tx'[c][f] = tx[c][f]
    BY <1>1, <2>1, <2>3
  <2>5. Goes(c, {})
    BY <1>1, <2>1, <2>3, <2>4 DEF Goes, CanLock
  <2>6. Holds(c)'
    BY <2>4 DEF Holds, At
  <2>. QED  BY <2>5, <2>6, GoesKeeps
<1>. QED  BY <1>2, <1>3

-------------------------------------------------------------------------------
(***************************************************************************)
(* The ends of calls.                                                      *)
(***************************************************************************)

LEMMA NoRow == ASSUME NEW c PROVE Numbered(c, {})
BY FS_EmptySet DEF Numbered

LEMMA OneRow ==
  ASSUME NEW c, NEW n, NEW action, NEW ref
  PROVE  /\ Numbered(c, {Event(c, n, action, ref)})
         /\ Event(c, n, action, ref).action = action /\ Event(c, n, action, ref).ref = ref
         /\ Event(c, n, action, ref).node = n /\ Event(c, n, action, ref).at = tx[c].at
<1>. DEFINE ev == Event(c, n, action, ref)
<1>1. ev.at = tx[c].at /\ ev.id = 1 /\ ev.action = action /\ ev.ref = ref /\ ev.node = n
  BY DEF Event, Nth
<1>. HIDE DEF ev
<1>2. IsFiniteSet({ev})
  BY FS_Singleton
<1>3. Numbered(c, {ev})
  BY <1>1, <1>2 DEF Numbered
<1>. QED  BY <1>1, <1>3 DEF ev

\* The owners of a handoff, in a list.
LEMMA NumberingFacts ==
  ASSUME NEW S, IsFiniteSet(S)
  PROVE  /\ Cardinality(S) \in Nat /\ Numbering(S) \in [S -> 1..Cardinality(S)]
         /\ \A x, y \in S : Numbering(S)[x] = Numbering(S)[y] => x = y
<1>1. Cardinality(S) \in Nat /\ ExistsBijection(S, 1..Cardinality(S))
  BY FS_CardinalityType, Fun_ExistsBijSymmetric
<1>2. PICK f : f \in Bijection(S, 1..Cardinality(S))
  BY <1>1, Fun_ExistsBij
<1>3. f \in [S -> 1..Cardinality(S)] /\ IsInjective(f)
  BY <1>2, Zenon DEF Bijection, Injection
<1>4. Numbering(S) \in [S -> 1..Cardinality(S)] /\ IsInjective(Numbering(S))
  BY <1>3 DEF Numbering
<1>. QED  BY <1>1, <1>4 DEF IsInjective

LEMMA HandoffRows ==
  ASSUME NEW c, NEW n, NEW owners, IsFiniteSet(owners)
  PROVE  /\ Numbered(c, HandoffEvents(c, n, owners))
         /\ \A ev \in HandoffEvents(c, n, owners) : ev.action \in {"related", "created"}
<1>. DEFINE N == Numbering(owners)
            size == Cardinality(owners)
            one == [o \in owners |-> Nth(c, N[o], o, "related", n)]
            related == {Nth(c, N[o], o, "related", n) : o \in owners}
            last == Nth(c, size + 1, n, "created", None)
<1>1. /\ size \in Nat /\ N \in [owners -> 1..size]
      /\ \A x, y \in owners : N[x] = N[y] => x = y
  BY NumberingFacts
<1>2. IsFiniteSet(related)
  <2>1. one \in [owners -> related] /\ \A x \in related : \E o \in owners : one[o] = x
    OBVIOUS
  <2>. HIDE DEF one, related
  <2>2. one \in Surjection(owners, related)
    BY <2>1, Fun_IsSurj
  <2>. QED  BY <2>2, FS_Surjection
<1>3. HandoffEvents(c, n, owners) = related \cup {last}
  BY DEF HandoffEvents
<1>4. IsFiniteSet(related \cup {last})
  <2>. HIDE DEF related, last
  <2>. QED  BY <1>2, FS_AddElement
<1>5. \A x \in related : \E o \in owners :
        x = Nth(c, N[o], o, "related", n)
  OBVIOUS
<1>6. \A x \in related : x.at = tx[c].at /\ x.id \in 1..size /\ x.action = "related"
  <2>. HIDE DEF N, size
  <2>. QED  BY <1>1, <1>5 DEF Nth
<1>7. \A x, y \in related : x.id = y.id => x = y
  <2>1. ASSUME NEW x \in related, NEW y \in related, x.id = y.id PROVE x = y
    <3>1. PICK o \in owners : x = Nth(c, N[o], o, "related", n)
      BY <1>5
    <3>2. PICK p \in owners : y = Nth(c, N[p], p, "related", n)
      BY <1>5
    <3>3. N[o] = N[p]
      <4>. HIDE DEF N
      <4>. QED  BY <2>1, <3>1, <3>2 DEF Nth
    <3>4. o = p
      BY <1>1, <3>3
    <3>. QED  BY <3>1, <3>2, <3>4
  <2>. QED  BY <2>1
<1>8. last.at = tx[c].at /\ last.id = size + 1 /\ last.action = "created"
  BY DEF Nth
<1>. HIDE DEF N, size, related, last
<1>9. \A x, y \in related \cup {last} : x.id = y.id => x = y
  BY <1>1, <1>6, <1>7, <1>8
<1>. QED  BY <1>1, <1>3, <1>4, <1>6, <1>8, <1>9 DEF Numbered

\* A commit.
LEMMA CommitEnds ==
  ASSUME FeedInv, NEW c \in Client, NEW events, NEW made, Commit(c, events, made), Open(c),
         Numbered(c, events), IsFiniteSet(nodes')
  PROVE  Ends(c, events)
BY DEF Ends, Commit

\* A call that ends, having told of no comment and changed none but in its text.
LEMMA QuietEnds ==
  ASSUME FeedInv, NEW c \in Client, NEW events, NEW made, Commit(c, events, made), Open(c), DeleteInv',
         Numbered(c, events), \A ev \in events : ev.action \notin {"comment_added", "comment_deleted"},
         nodes \subseteq nodes', IsFiniteSet(nodes'), UNCHANGED comment, Rows'
  PROVE  FeedInv'
<1>1. Ends(c, events)
  BY CommitEnds
<1>2. Touches(c)
  BY DEF Touches, Live
<1>3. feed' = feed \cup events
  BY DEF Commit
<1>4. \A k \in Comments : ThreadTold(k)'
  BY <1>3, NotTold DEF FeedInv
<1>. QED  BY <1>1, <1>2, <1>4, EndsKeeps

\* Row by row, what the ends of calls leave.
LEMMA QuietCommitsFeed ==
  ASSUME FeedInv, NEW c \in Client, DeleteInv',
         CommitLink(c) \/ CommitHandoff(c) \/ CommitEdit(c) \/ CommitEdge(c) \/ CommitUnrelate(c)
  PROVE  FeedInv'
<1>1. CASE CommitLink(c)
  <2>. DEFINE ev == Event(c, tx[c].node, "created", None)
  <2>1. /\ Commit(c, {ev}, {}) /\ Open(c) /\ nodes' = nodes \cup {tx[c].node} /\ UNCHANGED <<row, comment>>
    BY <1>1, IdleFacts DEF CommitLink, At, Open
  <2>2. IsFiniteSet(nodes')
    BY <2>1, FS_AddElement DEF FeedInv, Timed
  <2>3. Numbered(c, {ev}) /\ ev.action = "created"
    BY OneRow
  <2>. HIDE DEF ev
  <2>. QED  BY <2>1, <2>2, <2>3, QuietEnds DEF FeedInv, Rows
<1>2. CASE CommitHandoff(c)
  <2>. DEFINE events == HandoffEvents(c, tx[c].node, tx[c].owners)
  <2>1. PICK made :
          /\ Commit(c, events, made) /\ Open(c) /\ nodes' = nodes \cup {tx[c].node}
          /\ UNCHANGED <<row, comment>> /\ tx[c].op = "handoff"
    BY <1>2, IdleFacts DEF CommitHandoff, At, Open
  <2>2. IsFiniteSet(nodes')
    BY <2>1, FS_AddElement DEF FeedInv, Timed
  <2>3. IsFiniteSet(tx[c].owners)
    BY <2>1 DEF FeedInv, Calls, Asks
  <2>4. Numbered(c, events) /\ \A ev \in events : ev.action \notin {"comment_added", "comment_deleted"}
    BY <2>3, HandoffRows
  <2>. HIDE DEF events
  <2>. QED  BY <2>1, <2>2, <2>4, QuietEnds DEF FeedInv, Rows
<1>3. CASE CommitEdit(c)
  <2>. DEFINE ev == Event(c, tx[c].node, "edited", None)
  <2>1. PICK events \in {{}, {ev}} : Commit(c, events, {})
    BY <1>3 DEF CommitEdit
  <2>2. Open(c) /\ UNCHANGED <<nodes, comment>> /\ DOMAIN row' = DOMAIN row
    BY <1>3, IdleFacts DEF CommitEdit, At, Open
  <2>3. Numbered(c, {ev}) /\ Numbered(c, {}) /\ ev.action = "edited"
    BY OneRow, NoRow
  <2>. HIDE DEF ev
  <2>. QED  BY <2>1, <2>2, <2>3, QuietEnds DEF FeedInv, Rows, Timed
<1>4. CASE CommitEdge(c)
  <2>. DEFINE ev == Event(c, tx[c].edge[1], "related", tx[c].edge[2])
  <2>1. PICK events, made : Commit(c, events, made) /\ events \in {{}, {ev}}
    BY <1>4 DEF CommitEdge
  <2>2. Open(c) /\ UNCHANGED <<nodes, row, comment>>
    BY <1>4, IdleFacts DEF CommitEdge, At, Open
  <2>3. Numbered(c, {ev}) /\ Numbered(c, {}) /\ ev.action = "related"
    BY OneRow, NoRow
  <2>. HIDE DEF ev
  <2>. QED  BY <2>1, <2>2, <2>3, QuietEnds DEF FeedInv, Rows, Timed
<1>5. CASE CommitUnrelate(c)
  <2>. DEFINE ev == Event(c, tx[c].edge[1], "unrelated", tx[c].edge[2])
  <2>1. Commit(c, {ev}, {}) /\ Open(c) /\ UNCHANGED <<nodes, row, comment>>
    BY <1>5, IdleFacts DEF CommitUnrelate, At, Open
  <2>3. Numbered(c, {ev}) /\ ev.action = "unrelated"
    BY OneRow
  <2>. HIDE DEF ev
  <2>. QED  BY <2>1, <2>3, QuietEnds DEF FeedInv, Rows, Timed
<1>. QED  BY <1>1, <1>2, <1>3, <1>4, <1>5

\* A comment comes, and is told of for the first time.
LEMMA AddFeed ==
  ASSUME FeedInv, NEW c \in Client, DeleteInv', CommitComment(c)
  PROVE  FeedInv'
<1>a. PICK k, n : k = (CHOOSE id \in Unused : TRUE) /\ n = tx[c].node
  OBVIOUS
<1>b. PICK ev : ev = Event(c, n, "comment_added", k)
  OBVIOUS
<1>1. /\ Commit(c, {ev}, {<<n, k>>}) /\ k \in Unused /\ At(c, "add", "inserted")
      /\ comment' = [comment EXCEPT ![k] = [is |-> "live", node |-> n, text |-> tx[c].text]]
      /\ UNCHANGED <<nodes, row>>
  BY <1>a, <1>b DEF CommitComment
<1>2. Open(c) /\ n \in nodes /\ Key(n) \in Locks(c)
  BY <1>a, <1>1, IdleFacts DEF At, Open, FeedInv, Holds
<1>3. /\ Numbered(c, {ev}) /\ ev.action = "comment_added" /\ ev.ref = k /\ ev.node = n
  BY <1>b, OneRow
<1>4. k \in Comments /\ comment[k].is = "unused"
  BY <1>1 DEF Unused
<1>5. /\ \A j \in Comments : j # k => comment'[j] = comment[j]
      /\ comment'[k] = [is |-> "live", node |-> n, text |-> tx[c].text]
  BY <1>1, <1>4 DEF FeedInv, DeleteInv, Shape
<1>6. /\ comment'[k].is = "live" /\ comment'[k].node = n /\ "text" \in DOMAIN comment'[k]
  BY <1>5
<1>7. feed' = feed \cup {ev}
  BY <1>1 DEF Commit
<1>8. Touches(c)
  BY <1>1, <1>2, <1>4, <1>5, <1>6 DEF Touches, Live
<1>9. ASSUME NEW j \in Comments, j # k PROVE ThreadTold(j)'
  BY <1>1, <1>3, <1>5, <1>7, <1>9, NotTold DEF FeedInv
<1>10. ThreadTold(k)'
  <2>1. Told(k, "comment_added") = {} /\ Told(k, "comment_deleted") = {}
    BY <1>4 DEF FeedInv, ThreadTold
  <2>2. Told(k, "comment_added")' = {ev} /\ Told(k, "comment_deleted")' = {}
    BY <1>3, <1>7, <2>1 DEF Told
  <2>. QED  BY <1>1, <1>2, <1>3, <1>6, <2>2 DEF ThreadTold
<1>11. Ends(c, {ev})
  BY <1>1, <1>2, <1>3, CommitEnds DEF FeedInv, Timed
<1>. QED  BY <1>1, <1>8, <1>9, <1>10, <1>11, EndsKeeps DEF FeedInv, Rows

\* A comment is written anew; nothing is told of its coming or going.
LEMMA RecommentFeed ==
  ASSUME FeedInv, NEW c \in Client, DeleteInv', CommitRecomment(c)
  PROVE  FeedInv'
<1>. DEFINE k == tx[c].comment
            ev == Event(c, comment[k].node, "comment_edited", k)
<1>1. PICK events, new :
        /\ Commit(c, events, {}) /\ events \in {{}, {ev}} /\ comment' = [comment EXCEPT ![k] = [comment[k] EXCEPT !["text"] = new]]
  BY DEF CommitRecomment
<1>2. UNCHANGED <<nodes, row>> /\ At(c, "recomment", "read") /\ Open(c)
  BY IdleFacts DEF CommitRecomment, At, Open
<1>3. k \in Comments /\ Live(k) /\ OnComment(k) \in Locks(c)
  BY <1>2 DEF FeedInv, Holds
<1>4. Numbered(c, {ev}) /\ Numbered(c, {}) /\ ev.action = "comment_edited"
  BY OneRow, NoRow
<1>. HIDE DEF k, ev
<1>5. /\ \A j \in Comments : j # k => comment'[j] = comment[j]
      /\ comment'[k] = [comment[k] EXCEPT !["text"] = new]
  BY <1>1, <1>3 DEF FeedInv, DeleteInv, Shape
<1>6. {"is", "node"} \subseteq DOMAIN comment[k]
  BY <1>3 DEF FeedInv, DeleteInv, Shape
<1>7. /\ DOMAIN comment'[k] = DOMAIN comment[k]
      /\ comment'[k]["is"] = comment[k]["is"] /\ comment'[k]["node"] = comment[k]["node"]
  BY <1>5, <1>6
<1>8. Touches(c)
  BY <1>2, <1>3, <1>5, <1>7 DEF Touches, Live
<1>9. feed' = feed \cup events
  BY <1>1 DEF Commit
<1>10. ASSUME NEW j \in Comments PROVE ThreadTold(j)'
  BY <1>1, <1>2, <1>4, <1>5, <1>7, <1>9, NotTold DEF FeedInv
<1>11. Ends(c, events)
  BY <1>1, <1>2, <1>4, CommitEnds DEF FeedInv, Timed
<1>. QED  BY <1>2, <1>8, <1>10, <1>11, EndsKeeps DEF FeedInv, Rows

\* A comment goes, and that is told of for the first time.
LEMMA UncommentFeed ==
  ASSUME FeedInv, NEW c \in Client, DeleteInv', CommitUncomment(c)
  PROVE  FeedInv'
<1>a. PICK k : k = tx[c].comment
  OBVIOUS
<1>b. PICK n : n = comment[k].node
  OBVIOUS
<1>c. PICK ev : ev = Event(c, n, "comment_deleted", k)
  OBVIOUS
<1>1. /\ Commit(c, {ev}, {}) /\ comment' = [comment EXCEPT ![k] = Ended(k, "deleted")]
      /\ UNCHANGED <<nodes, row>> /\ At(c, "uncomment", "removed")
  BY <1>a, <1>b, <1>c DEF CommitUncomment
<1>2. Open(c)
  BY <1>1, IdleFacts DEF At, Open
<1>3. k \in Comments /\ comment[k].is = "live" /\ OnComment(k) \in Locks(c)
  BY <1>a, <1>1 DEF FeedInv, Holds, Live
<1>4. Numbered(c, {ev}) /\ ev.action = "comment_deleted" /\ ev.ref = k /\ ev.node = n
  BY <1>c, OneRow
<1>5. PICK first : Told(k, "comment_added") = {first}
  BY <1>3 DEF FeedInv, ThreadTold
<1>6. n \in nodes /\ Told(k, "comment_deleted") = {}
  BY <1>b, <1>3 DEF FeedInv, ThreadTold
<1>7. /\ \A j \in Comments : j # k => comment'[j] = comment[j]
      /\ comment'[k] = [is |-> "deleted", node |-> n]
  BY <1>b, <1>1, <1>3 DEF FeedInv, DeleteInv, Shape, Ended
<1>7a. first.node = n
  BY <1>b, <1>3, <1>5 DEF FeedInv, ThreadTold
<1>8. comment'[k].is = "deleted" /\ comment'[k].node = n
  BY <1>7
<1>9. feed' = feed \cup {ev}
  BY <1>1 DEF Commit
<1>10. Touches(c)
  BY <1>b, <1>1, <1>3, <1>7, <1>8 DEF Touches, Live
<1>11. ASSUME NEW j \in Comments, j # k PROVE ThreadTold(j)'
  BY <1>1, <1>4, <1>7, <1>9, <1>11, NotTold DEF FeedInv
<1>12. ThreadTold(k)'
  <2>1. Told(k, "comment_added")' = {first} /\ Told(k, "comment_deleted")' = {ev}
    BY <1>4, <1>5, <1>6, <1>9 DEF Told
  <2>. QED  BY <1>1, <1>4, <1>6, <1>7a, <1>8, <2>1 DEF ThreadTold
<1>13. Ends(c, {ev})
  BY <1>1, <1>2, <1>4, CommitEnds DEF FeedInv, Timed
<1>. QED  BY <1>1, <1>10, <1>11, <1>12, <1>13, EndsKeeps DEF FeedInv, Rows

\* A node goes, with its thread and all that was told of it.
LEMMA DeleteFeed ==
  ASSUME FeedInv, NEW c \in Client, DeleteInv', CommitDelete(c)
  PROVE  FeedInv'
<1>. DEFINE n == tx[c].node
<1>1. /\ tx' = [tx EXCEPT ![c] = Idle] /\ At(c, "delete", "cascaded") /\ nodes' = nodes \ {n}
      /\ comment' = [k \in Comments |-> IF k \in Thread(n) THEN Ended(k, "cascaded") ELSE comment[k]]
      /\ feed' = {ev \in feed : ev.node # n} /\ UNCHANGED <<row, began>>
  BY DEF CommitDelete
<1>2. Open(c) /\ Gone(n) \in Locks(c) /\ \A k \in Thread(n) : OnComment(k) \in Locks(c)
  BY <1>1, IdleFacts DEF At, Open, FeedInv, Holds
<1>. HIDE DEF n
<1>3. /\ \A k \in Comments \ Thread(n) : comment'[k] = comment[k]
      /\ \A k \in Thread(n) : comment'[k].is = "cascaded" /\ comment[k].node = n /\ k \in Comments
  BY <1>1 DEF Ended, Thread
<1>4. Touches(c)
  BY <1>1, <1>2, <1>3 DEF Touches, Live
<1>5. IsFiniteSet(nodes')
  BY <1>1, FS_Subset DEF FeedInv, Timed
<1>6. Ends(c, {})
  BY <1>1, <1>2, <1>5, NoRow DEF Ends
<1>7. ASSUME NEW k \in Comments PROVE ThreadTold(k)'
  <2>1. /\ Told(k, "comment_added")' = {ev \in Told(k, "comment_added") : ev.node # n}
        /\ Told(k, "comment_deleted")' = {ev \in Told(k, "comment_deleted") : ev.node # n}
    BY <1>1 DEF Told
  <2>2. ThreadTold(k)
    BY DEF FeedInv
  <2>3. CASE comment[k].node = n
    <3>1. Told(k, "comment_added")' = {} /\ Told(k, "comment_deleted")' = {}
      BY <2>1, <2>2, <2>3 DEF ThreadTold
    <3>2. comment'[k].is \in {"unused", "deleted", "cascaded"}
      BY <1>3, <2>2, <2>3 DEF ThreadTold, Thread, Live
    <3>. QED  BY <3>1, <3>2 DEF ThreadTold
  <2>4. CASE comment[k].node # n
    <3>1. comment'[k] = comment[k]
      BY <1>3, <2>4
    <3>2. /\ Told(k, "comment_added")' = Told(k, "comment_added")
          /\ Told(k, "comment_deleted")' = Told(k, "comment_deleted")
      BY <2>1, <2>2, <2>4 DEF ThreadTold
    <3>. QED  BY <1>1, <2>2, <2>4, <3>1, <3>2 DEF ThreadTold
  <2>. QED  BY <2>3, <2>4
<1>. QED  BY <1>1, <1>4, <1>6, <1>7, EndsKeeps DEF FeedInv, Rows

LEMMA FeedInvStep == FeedInv /\ [Next]_vars => FeedInv'
<1>. SUFFICES ASSUME FeedInv, [Next]_vars PROVE FeedInv'
  OBVIOUS
<1>0. DeleteInv'
  BY DeleteInvStep DEF FeedInv
<1>1. CASE UNCHANGED <<tx, nodes, row, comment, feed, began>>
  <2>1. \A k \in Comments : ThreadTold(k)'
    BY <1>1, NothingTold DEF FeedInv
  <2>2. Calls' /\ Timed' /\ LocksApart' /\ Rows'
    BY <1>1 DEF FeedInv, Calls, Timed, LocksApart, Rows, Open, Locks
  <2>3. \A c \in Client : Holds(c)'
    BY <1>1 DEF FeedInv, Holds, At, Locks, Live, Thread
  <2>. QED  BY <1>0, <2>1, <2>2, <2>3 DEF FeedInv
<1>2. ASSUME NEW c \in Client, RollBack(c) PROVE FeedInv'
  <2>1. Ends(c, {}) /\ UNCHANGED <<nodes, row, comment, feed>>
    BY <1>2, NoRow DEF RollBack, Ends, Open, FeedInv, Timed
  <2>2. Touches(c)
    BY <2>1 DEF Touches, Live
  <2>3. \A k \in Comments : ThreadTold(k)'
    BY <2>1, NothingTold DEF FeedInv
  <2>. QED  BY <1>0, <2>1, <2>2, <2>3, EndsKeeps DEF FeedInv, Rows
<1>3. ASSUME NEW c \in Client, Step(c) PROVE FeedInv'
  BY <1>0, <1>2, <1>3, GoOnFeed, ReadsFeed, QuietCommitsFeed, AddFeed, RecommentFeed, UncommentFeed,
     DeleteFeed DEF Step
<1>4. CASE \E f \in Filters : StartReading(f)
  BY <1>1, <1>4 DEF StartReading
<1>5. CASE More
  BY <1>1, <1>5 DEF More
<1>6. CASE UNCHANGED vars
  BY <1>1, <1>6 DEF vars
<1>. QED  BY <1>3, <1>4, <1>5, <1>6, CallsFeed DEF Next

LEMMA FeedInvInit == Init => FeedInv
<1>. SUFFICES ASSUME Init PROVE FeedInv
  OBVIOUS
<1>1. DeleteInv
  BY DEF Init, DeleteInv, Shape, CountsStand, Deleting, Idle
<1>2. Calls /\ LocksApart /\ Rows
  BY DEF Init, Calls, Open, LocksApart, Locks, Rows
<1>3. IsFiniteSet(feed) /\ IsFiniteSet(nodes)
  BY FS_EmptySet, FS_Subset, CapturesAssumption DEF Init
<1>4. Timed
  BY <1>3 DEF Init, Timed, Open
<1>5. \A c \in Client : Holds(c)
  BY IdleFacts DEF Init, Holds, At
<1>6. \A k \in Comments : ThreadTold(k)
  BY DEF Init, ThreadTold, Told
<1>. QED  BY <1>1, <1>2, <1>4, <1>5, <1>6 DEF FeedInv

LEMMA CountsOfTold ==
  ASSUME NEW A, NEW D, NEW live \in BOOLEAN,
         \/ live /\ D = {} /\ \E x : A = {x}
         \/ ~live /\ D = {} /\ A = {}
         \/ ~live /\ \E x, y : D = {y} /\ A = {x}
  PROVE  /\ Cardinality(A) <= 1 /\ Cardinality(D) <= Cardinality(A)
         /\ (Cardinality(A) - Cardinality(D) = 1) <=> live
<1>1. Cardinality({}) = 0 /\ \A x : Cardinality({x}) = 1
  BY FS_EmptySet, FS_Singleton
<1>2. \/ live /\ Cardinality(D) = 0 /\ Cardinality(A) = 1
      \/ ~live /\ Cardinality(D) = 0 /\ Cardinality(A) = 0
      \/ ~live /\ Cardinality(D) = 1 /\ Cardinality(A) = 1
  BY <1>1, Zenon
<1>. QED  BY <1>2

\* The feed and the threads tell the same story, whatever calls were in flight and
\* whichever of them were dropped (add_comment, delete_comment, delete_link).
THEOREM FeedKeepsTheThread == Spec => []FeedTellsTheThread
<1>1. ASSUME FeedInv PROVE FeedTellsTheThread
  <2>. SUFFICES ASSUME NEW n \in nodes, NEW k \in Comments
                PROVE  LET told(action) == Cardinality({ev \in feed : ev.node = n /\ ev.action = action
                                                                      /\ ev.ref = k})
                       IN  /\ told("comment_added") <= 1
                           /\ told("comment_deleted") <= told("comment_added")
                           /\ (told("comment_added") - told("comment_deleted") = 1) <=> k \in Thread(n)
    BY DEF FeedTellsTheThread
  <2>. DEFINE of(action) == {ev \in feed : ev.node = n /\ ev.action = action /\ ev.ref = k}
  <2>1. ThreadTold(k)
    BY <1>1 DEF FeedInv
  <2>2. \/ k \in Thread(n) /\ of("comment_deleted") = {} /\ \E x : of("comment_added") = {x}
        \/ k \notin Thread(n) /\ of("comment_deleted") = {} /\ of("comment_added") = {}
        \/ k \notin Thread(n) /\ \E x, y : of("comment_deleted") = {y} /\ of("comment_added") = {x}
    <3>1. CASE comment[k].node # n
      <4>1. of("comment_added") = {} /\ of("comment_deleted") = {}
        BY <2>1, <3>1 DEF ThreadTold, Told
      <4>. QED  BY <3>1, <4>1 DEF Thread
    <3>2. CASE comment[k].node = n
      <4>1. /\ of("comment_added") = Told(k, "comment_added")
            /\ of("comment_deleted") = Told(k, "comment_deleted")
        BY <2>1, <3>2 DEF ThreadTold, Told
      <4>2. k \in Thread(n) <=> comment[k].is = "live"
        BY <3>2 DEF Thread, Live
      <4>. QED  BY <2>1, <4>1, <4>2 DEF ThreadTold
    <3>. QED  BY <3>1, <3>2
  <2>. QED  BY <2>2, CountsOfTold
<1>. QED  BY <1>1, FeedInvInit, FeedInvStep, PTL DEF Spec

-------------------------------------------------------------------------------
(***************************************************************************)
(* Edits.                                                                  *)
(***************************************************************************)

\* A step moves one call.
LEMMA MovesOne ==
  ASSUME Shape, NEW d \in Client, Call(d) \/ Step(d)
  PROVE  \A c \in Client \ {d} : tx'[c] = tx[c]
<1>1. ASSUME Call(d) PROVE \E r : tx' = [tx EXCEPT ![d] = r]
  BY <1>1 DEF Call, CreateLink, CreateHandoff, UpdateLink, UpdateHandoff, SetLinkDisposition, MarkLinkRead,
     SetNodeTags, BeginEdit, AddComment, UpdateComment, DeleteComment, Relate, Unrelate, DeleteLink, Begin
<1>2. ASSUME \/ CommitLink(d) \/ CommitHandoff(d) \/ CommitEdit(d) \/ CommitComment(d) \/ CommitRecomment(d)
             \/ CommitUncomment(d) \/ CommitEdge(d) \/ CommitUnrelate(d) \/ CommitDelete(d) \/ RollBack(d)
      PROVE \E r : tx' = [tx EXCEPT ![d] = r]
  BY <1>2 DEF CommitLink, CommitHandoff, CommitEdit, CommitComment, CommitRecomment, CommitUncomment,
     CommitEdge, CommitUnrelate, CommitDelete, RollBack, Commit
<1>3. ASSUME \/ LinkOwners(d) \/ WriteDetail(d) \/ WriteShared(d) \/ InsertComment(d) \/ RemoveComment(d)
             \/ InsertEdge(d) \/ DeleteEdge(d) \/ DeleteNode(d) \/ Cascade(d)
      PROVE \E r : tx' = [tx EXCEPT ![d] = r]
  <2>1. PICK step, L : tx' = [tx EXCEPT ![d] = [tx[d] EXCEPT !["step"] = step, !["locks"] = tx[d].locks \cup L]]
    BY <1>3 DEF LinkOwners, WriteDetail, WriteShared, InsertComment, RemoveComment, InsertEdge, DeleteEdge,
       DeleteNode, Cascade, GoOn
  <2>. QED  BY <2>1
<1>4. ASSUME ReadComment(d) PROVE \E r : tx' = [tx EXCEPT ![d] = r]
  BY <1>4 DEF ReadComment
<1>5. ASSUME CountEdges(d) \/ CountComments(d) PROVE \E r : tx' = [tx EXCEPT ![d] = r]
  BY <1>5 DEF CountEdges, CountComments
<1>6. PICK r : tx' = [tx EXCEPT ![d] = r]
  BY <1>1, <1>2, <1>3, <1>4, <1>5 DEF Step
<1>. QED  BY <1>6 DEF Shape

\* Only an edit of a comment changes a text, and tells of one.
LEMMA NoOtherEdit ==
  ASSUME FeedInv, Next, \A c \in Client : ~CommitRecomment(c)
  PROVE  /\ \A k \in Comments : Live(k) /\ Live(k)' => comment'[k] = comment[k]
         /\ \A ev \in feed' \ feed : ev.action # "comment_edited"
<1>1. CASE UNCHANGED <<comment, feed>>
  BY <1>1
<1>2. ASSUME NEW c \in Client, Call(c) PROVE UNCHANGED <<comment, feed>>
  BY <1>2 DEF Call, CreateLink, CreateHandoff, UpdateLink, UpdateHandoff, SetLinkDisposition, MarkLinkRead,
     SetNodeTags, BeginEdit, AddComment, UpdateComment, DeleteComment, Relate, Unrelate, DeleteLink, Begin
<1>3. ASSUME NEW c \in Client,
             \/ LinkOwners(c) \/ WriteDetail(c) \/ WriteShared(c) \/ InsertComment(c) \/ ReadComment(c)
             \/ RemoveComment(c) \/ InsertEdge(c) \/ DeleteEdge(c) \/ CountEdges(c) \/ CountComments(c)
             \/ DeleteNode(c) \/ Cascade(c) \/ RollBack(c)
      PROVE  UNCHANGED <<comment, feed>>
  BY <1>3 DEF LinkOwners, WriteDetail, WriteShared, InsertComment, ReadComment, RemoveComment, InsertEdge,
     DeleteEdge, CountEdges, CountComments, DeleteNode, Cascade, RollBack, GoOn
<1>4. CASE (\E f \in Filters : StartReading(f)) \/ More
  BY <1>1, <1>4 DEF StartReading, More
<1>5. ASSUME NEW c \in Client,
             CommitLink(c) \/ CommitEdit(c) \/ CommitEdge(c) \/ CommitUnrelate(c)
      PROVE  UNCHANGED comment /\ \A ev \in feed' \ feed : ev.action # "comment_edited"
  <2>1. PICK n, action, ref :
          /\ feed' \subseteq feed \cup {Event(c, n, action, ref)} /\ UNCHANGED comment
          /\ action \in {"created", "edited", "related", "unrelated"}
    <3>1. CASE CommitLink(c)
      BY <3>1 DEF CommitLink, Commit
    <3>2. CASE CommitEdit(c)
      BY <3>2 DEF CommitEdit, Commit
    <3>3. CASE CommitEdge(c)
      BY <3>3 DEF CommitEdge, Commit
    <3>4. CASE CommitUnrelate(c)
      BY <3>4 DEF CommitUnrelate, Commit
    <3>. QED  BY <1>5, <3>1, <3>2, <3>3, <3>4
  <2>2. Event(c, n, action, ref).action = action
    BY DEF Event, Nth
  <2>. QED  BY <2>1, <2>2
<1>6. ASSUME NEW c \in Client, CommitHandoff(c)
      PROVE  UNCHANGED comment /\ \A ev \in feed' \ feed : ev.action # "comment_edited"
  <2>1. At(c, "handoff", "linked") /\ Open(c) /\ UNCHANGED comment
        /\ feed' = feed \cup HandoffEvents(c, tx[c].node, tx[c].owners)
    BY <1>6, IdleFacts DEF CommitHandoff, Commit, At, Open
  <2>2. IsFiniteSet(tx[c].owners)
    BY <2>1 DEF FeedInv, Calls, Asks, At
  <2>. QED  BY <2>1, <2>2, HandoffRows
<1>7. ASSUME NEW c \in Client, CommitComment(c)
      PROVE  /\ \A k \in Comments : Live(k) /\ Live(k)' => comment'[k] = comment[k]
             /\ \A ev \in feed' \ feed : ev.action # "comment_edited"
  <2>1. PICK k, n, new :
          /\ feed' = feed \cup {Event(c, n, "comment_added", k)} /\ comment' = [comment EXCEPT ![k] = new]
          /\ k \in Unused
    BY <1>7 DEF CommitComment, Commit
  <2>2. \A j \in Comments : j # k => comment'[j] = comment[j]
    BY <2>1 DEF FeedInv, DeleteInv, Shape
  <2>3. Event(c, n, "comment_added", k).action = "comment_added"
    BY DEF Event, Nth
  <2>. QED  BY <2>1, <2>2, <2>3 DEF Unused, Live
<1>8. ASSUME NEW c \in Client, CommitUncomment(c)
      PROVE  /\ \A k \in Comments : Live(k) /\ Live(k)' => comment'[k] = comment[k]
             /\ \A ev \in feed' \ feed : ev.action # "comment_edited"
  <2>1. PICK k, n : /\ feed' = feed \cup {Event(c, n, "comment_deleted", k)}
                    /\ comment' = [comment EXCEPT ![k] = [is |-> "deleted", node |-> n]]
    BY <1>8 DEF CommitUncomment, Commit, Ended
  <2>2. \A j \in Comments : IF j # k THEN comment'[j] = comment[j] ELSE comment'[j].is = "deleted"
    BY <2>1 DEF FeedInv, DeleteInv, Shape
  <2>3. Event(c, n, "comment_deleted", k).action = "comment_deleted"
    BY DEF Event, Nth
  <2>. QED  BY <2>1, <2>2, <2>3 DEF Live
<1>9. ASSUME NEW c \in Client, CommitDelete(c)
      PROVE  /\ \A k \in Comments : Live(k) /\ Live(k)' => comment'[k] = comment[k]
             /\ \A ev \in feed' \ feed : ev.action # "comment_edited"
  BY <1>9 DEF CommitDelete, Ended, Live
<1>. QED  BY <1>1, <1>2, <1>3, <1>4, <1>5, <1>6, <1>7, <1>8, <1>9 DEF Next, Step

\* An edit of a comment, under its lock, compares with the text it replaces.
LEMMA RecommentTells ==
  ASSUME FeedInv, NEW c \in Client, CommitRecomment(c), NEW k \in Comments, Live(k), Live(k)'
  PROVE  comment'[k].text # comment[k].text
           <=> \E ev \in feed' \ feed : ev.action = "comment_edited" /\ ev.ref = k
<1>1. PICK j : j = tx[c].comment
  OBVIOUS
<1>2. PICK ev : ev = Event(c, comment[j].node, "comment_edited", j)
  OBVIOUS
<1>3. PICK new :
        /\ comment' = [comment EXCEPT ![j] = [comment[j] EXCEPT !["text"] = new]]
        /\ feed' = feed \cup (IF new = tx[c].before THEN {} ELSE {ev})
        /\ At(c, "recomment", "read")
  BY <1>1, <1>2 DEF CommitRecomment, Commit
<1>4. /\ ev.action = "comment_edited" /\ ev.ref = j /\ ev.at = tx[c].at
  BY <1>2 DEF Event, Nth
<1>5. Open(c) /\ j \in Comments /\ Live(j) /\ tx[c].before = comment[j].text
  BY <1>1, <1>3, IdleFacts DEF At, Open, FeedInv, Holds
<1>6. ev \notin feed
  BY <1>4, <1>5 DEF FeedInv, Timed
<1>7. "text" \in DOMAIN comment[j]
  BY <1>5 DEF FeedInv, ThreadTold, Live
<1>8. /\ \A i \in Comments : i # j => comment'[i] = comment[i]
      /\ comment'[j] = [comment[j] EXCEPT !["text"] = new]
  BY <1>3, <1>5 DEF FeedInv, DeleteInv, Shape
<1>9. comment'[j]["text"] = new
  BY <1>7, <1>8
<1>10. CASE k = j
  BY <1>3, <1>4, <1>5, <1>6, <1>9, <1>10
<1>11. CASE k # j
  BY <1>3, <1>4, <1>8, <1>11
<1>. QED  BY <1>10, <1>11

\* A step of a call that is about to commit an edit: the commit, or a step back.
LEMMA EditEnds ==
  ASSUME FeedInv, Next, NEW c \in Client, At(c, "edit", "written"), tx'[c] = Idle
  PROVE  CommitEdit(c) \/ UNCHANGED <<row, feed>>
<1>1. tx[c] # Idle /\ tx[c].op = "edit" /\ tx[c].step = "written"
  BY IdleFacts DEF At
<1>2. Call(c) \/ Step(c)
  <2>1. ASSUME NEW d \in Client, Call(d) \/ Step(d) PROVE d = c
    BY <1>1, <2>1, MovesOne DEF FeedInv, DeleteInv
  <2>2. ~More /\ ~\E f \in Filters : StartReading(f)
    BY <1>1 DEF More, StartReading
  <2>. QED  BY <2>1, <2>2 DEF Next
<1>3. ~Call(c)
  BY <1>1 DEF Call, CreateLink, CreateHandoff, UpdateLink, UpdateHandoff, SetLinkDisposition, MarkLinkRead,
     SetNodeTags, BeginEdit, AddComment, UpdateComment, DeleteComment, Relate, Unrelate, DeleteLink, Begin
<1>4. Step(c) => CommitEdit(c) \/ RollBack(c)
  BY <1>1 DEF Step, At, CommitLink, LinkOwners, CommitHandoff, WriteDetail, WriteShared,
     InsertComment, CommitComment, ReadComment, CommitRecomment, RemoveComment, CommitUncomment,
     InsertEdge, CommitEdge, DeleteEdge, CommitUnrelate, CountEdges, CountComments, DeleteNode,
     Cascade, CommitDelete
<1>. QED  BY <1>2, <1>3, <1>4 DEF RollBack

\* An edit of a comment is logged if, and only if, it changes it, and so is one of a
\* node that nobody else has edited meanwhile (update_comment, record_edit).
THEOREM EveryEditIsLogged == Spec => EditsAreLogged
<1>1. ASSUME FeedInv, Next, NEW k \in Comments, Live(k), comment'[k].is = "live"
      PROVE  comment'[k].text # comment[k].text
               <=> \E ev \in feed' \ feed : ev.action = "comment_edited" /\ ev.ref = k
  <2>1. CASE \E c \in Client : CommitRecomment(c)
    BY <1>1, <2>1, RecommentTells DEF Live
  <2>2. CASE \A c \in Client : ~CommitRecomment(c)
    BY <1>1, <2>2, NoOtherEdit DEF Live
  <2>. QED  BY <2>1, <2>2
<1>2. ASSUME FeedInv, Next, NEW c \in Client, At(c, "edit", "written"), tx'[c] = Idle,
             tx[c].node \in nodes, tx[c].before = row[tx[c].node],
             row'[tx[c].node] # row[tx[c].node] \/ feed' # feed
      PROVE  /\ row'[tx[c].node] # row[tx[c].node]
             /\ feed' \ feed = {Event(c, tx[c].node, "edited", None)}
  <2>. DEFINE n == tx[c].node
              after == Patched(row[n], tx[c])
              ev == Event(c, n, "edited", None)
  <2>1. CommitEdit(c)
    BY <1>2, EditEnds
  <2>2. /\ row' = [row EXCEPT ![n] = after]
        /\ feed' = feed \cup (IF row[n] # after THEN {ev} ELSE {})
    BY <1>2, <2>1 DEF CommitEdit, Commit, Edited
  <2>3. Open(c) /\ n \in Node
    BY <1>2, IdleFacts DEF At, Open, FeedInv, Calls, Asks
  <2>4. ev.at = tx[c].at
    BY DEF Event, Nth
  <2>. HIDE DEF ev, after, n
  <2>5. ev \notin feed
    BY <1>2, <2>3, <2>4 DEF FeedInv, Timed
  <2>6. row'[n] = after
    BY <1>2, <2>2, <2>3 DEF FeedInv, Rows
  <2>7. row[n] # after /\ feed' \ feed = {ev} /\ row'[n] # row[n]
    BY <1>2, <2>2, <2>5, <2>6 DEF n
  <2>. QED  BY <2>7 DEF n, ev
<1>3. FeedInv /\ [Next]_vars =>
        [/\ \A k \in Comments : Live(k) /\ comment'[k].is = "live" =>
              (comment'[k].text # comment[k].text
                 <=> \E ev \in feed' \ feed : ev.action = "comment_edited" /\ ev.ref = k)
         /\ \A c \in Client : At(c, "edit", "written") /\ tx'[c] = Idle
                                /\ tx[c].node \in nodes /\ tx[c].before = row[tx[c].node] =>
              LET n == tx[c].node IN
              row'[n] # row[n] \/ feed' # feed =>
                row'[n] # row[n] /\ feed' \ feed = {Event(c, n, "edited", None)}]_vars
  BY <1>1, <1>2
<1>. QED  BY <1>3, FeedInvInit, FeedInvStep, PTL DEF Spec, EditsAreLogged

-------------------------------------------------------------------------------
(***************************************************************************)
(* Pages.                                                                  *)
(***************************************************************************)

\* The rows of a listing are in one order, and a row is as far down as there are newer.
LEMMA PlacesDiffer ==
  ASSUME Timed, NEW rows \in SUBSET feed, NEW x \in rows, NEW y \in rows, Newer(x, y)
  PROVE  Place(x, rows) \in Nat /\ Place(y, rows) \in Nat /\ Place(x, rows) < Place(y, rows)
<1>. DEFINE Above(z) == {w \in rows : Newer(w, z)}
<1>1. IsFiniteSet(rows)
  BY FS_Subset DEF Timed
<1>2. \A w \in rows : w.at \in Int /\ w.id \in Int
  BY DEF Timed
<1>3. Above(x) \subseteq Above(y) /\ x \in Above(y) /\ x \notin Above(x)
  BY <1>2 DEF Newer
<1>4. /\ IsFiniteSet(Above(x)) /\ IsFiniteSet(Above(y))
  BY <1>1, FS_Subset
<1>5. /\ Cardinality(Above(x)) \in Nat /\ Cardinality(Above(y)) \in Nat
  BY <1>4, FS_CardinalityType
<1>6. Cardinality(Above(x)) <= Cardinality(Above(y)) /\ Cardinality(Above(x)) # Cardinality(Above(y))
  <2>. HIDE DEF Above
  <2>. QED  BY <1>3, <1>4, FS_Subset
<1>. QED  BY <1>5, <1>6 DEF Place

LEMMA PlaceIsNat ==
  ASSUME Timed, NEW rows \in SUBSET feed, NEW ev
  PROVE  Place(ev, rows) \in Nat
<1>1. IsFiniteSet({w \in rows : Newer(w, ev)})
  BY FS_Subset DEF Timed
<1>. QED  BY <1>1, FS_CardinalityType DEF Place

LEMMA PageFits ==
  ASSUME Timed, NEW rows \in SUBSET feed, NEW offset \in Nat
  PROVE  Cardinality(Cut(rows, offset)) \in Nat /\ Cardinality(Cut(rows, offset)) <= PageSize
<1>. DEFINE page == Cut(rows, offset)
            slots == offset..(offset + PageSize - 1)
            place == [ev \in page |-> Place(ev, rows)]
<1>0. PageSize \in Nat \ {0}
  BY CapturesAssumption
<1>1. page \subseteq rows /\ place \in [page -> slots]
  BY DEF Cut
<1>2. \A x, y \in page : place[x] = place[y] => x = y
  <2>. SUFFICES ASSUME NEW x \in page, NEW y \in page, x # y PROVE place[x] # place[y]
    OBVIOUS
  <2>1. Newer(x, y) \/ Newer(y, x)
    BY <1>1 DEF Newer, Timed
  <2>2. x \in rows /\ y \in rows
    BY <1>1
  <2>3. Place(x, rows) \in Nat /\ Place(y, rows) \in Nat /\ Place(x, rows) # Place(y, rows)
    <3>1. CASE Newer(x, y)
      BY <2>2, <3>1, PlacesDiffer
    <3>2. CASE Newer(y, x)
      BY <2>2, <3>2, PlacesDiffer
    <3>. QED  BY <2>1, <3>1, <3>2
  <2>. QED  BY <2>3
<1>3. place \in Injection(page, slots)
  <2>. HIDE DEF place, page, slots
  <2>. QED  BY <1>1, <1>2, Fun_IsInj
<1>4. IsFiniteSet(slots) /\ Cardinality(slots) = PageSize
  BY <1>0, FS_Interval
<1>5. IsFiniteSet(page) /\ Cardinality(page) <= PageSize
  <2>. HIDE DEF place, page, slots
  <2>. QED  BY <1>3, <1>4, FS_Injection
<1>. QED  BY <1>5, FS_CardinalityType

\* What the reader has yet to be shown is at or below its offset.
Below(rows, offset) == {ev \in rows : Place(ev, rows) >= offset}

ReaderInv ==
  reader.on =>
    /\ {"on", "offset", "seen", "due", "cut", "filter"} \subseteq DOMAIN reader
    /\ reader.offset \in Nat
    /\ ~reader.cut => reader.due \subseteq reader.seen \cup Below(Listed(reader.filter), reader.offset)

\* Rows that come push others down, never up.
LEMMA FeedGrows ==
  ASSUME Timed, Timed', feed \subseteq feed', NEW f, NEW offset \in Nat
  PROVE  Below(Listed(f), offset) \subseteq Below(Listed(f), offset)'
<1>1. Listed(f) \subseteq Listed(f)' /\ Listed(f) \subseteq feed /\ Listed(f)' \subseteq feed'
  BY DEF Listed
<1>2. ASSUME NEW ev \in Below(Listed(f), offset) PROVE ev \in Below(Listed(f), offset)'
  <2>. DEFINE old == {w \in Listed(f) : Newer(w, ev)}
              new == {w \in Listed(f)' : Newer(w, ev)}
  <2>1. old \in SUBSET new /\ new \in SUBSET feed'
    BY <1>1
  <2>2. IsFiniteSet(new)
    BY <2>1, FS_Subset DEF Timed
  <2>3. IsFiniteSet(old) /\ Cardinality(old) <= Cardinality(new)
    BY <2>1, <2>2, FS_Subset
  <2>4. Cardinality(old) \in Nat /\ Cardinality(new) \in Nat
    BY <2>2, <2>3, FS_CardinalityType
  <2>5. ev \in Listed(f) /\ Cardinality(old) >= offset
    BY DEF Below, Place
  <2>6. Cardinality(new) >= offset
    BY <2>3, <2>4, <2>5
  <2>. QED  BY <1>1, <2>5, <2>6 DEF Below, Place
<1>. QED  BY <1>2

\* What steps do to the reader and the feed.
LEMMA FeedOrReader ==
  ASSUME Next
  PROVE  \/ UNCHANGED reader /\ feed \subseteq feed'
         \/ \E f \in Filters : StartReading(f)
         \/ More
         \/ reader' = IF reader.on THEN [reader EXCEPT !.cut = TRUE] ELSE reader
<1>1. ASSUME NEW c \in Client, Call(c) PROVE UNCHANGED <<reader, feed>>
  BY <1>1 DEF Call, CreateLink, CreateHandoff, UpdateLink, UpdateHandoff, SetLinkDisposition, MarkLinkRead,
     SetNodeTags, BeginEdit, AddComment, UpdateComment, DeleteComment, Relate, Unrelate, DeleteLink, Begin
<1>2. ASSUME NEW c \in Client,
             \/ LinkOwners(c) \/ WriteDetail(c) \/ WriteShared(c) \/ InsertComment(c) \/ ReadComment(c)
             \/ RemoveComment(c) \/ InsertEdge(c) \/ DeleteEdge(c) \/ CountEdges(c) \/ CountComments(c)
             \/ DeleteNode(c) \/ Cascade(c) \/ RollBack(c)
      PROVE  UNCHANGED <<reader, feed>>
  BY <1>2 DEF LinkOwners, WriteDetail, WriteShared, InsertComment, ReadComment, RemoveComment, InsertEdge,
     DeleteEdge, CountEdges, CountComments, DeleteNode, Cascade, RollBack, GoOn
<1>3. ASSUME NEW c \in Client,
             \/ CommitLink(c) \/ CommitHandoff(c) \/ CommitEdit(c) \/ CommitComment(c) \/ CommitRecomment(c)
             \/ CommitUncomment(c) \/ CommitEdge(c) \/ CommitUnrelate(c)
      PROVE  UNCHANGED reader /\ feed \subseteq feed'
  BY <1>3 DEF CommitLink, CommitHandoff, CommitEdit, CommitComment, CommitRecomment, CommitUncomment,
     CommitEdge, CommitUnrelate, Commit
<1>4. ASSUME NEW c \in Client, CommitDelete(c)
      PROVE  reader' = IF reader.on THEN [reader EXCEPT !.cut = TRUE] ELSE reader
  BY <1>4 DEF CommitDelete
<1>. QED  BY <1>1, <1>2, <1>3, <1>4 DEF Next, Step

LEMMA ReaderStep ==
  ASSUME FeedInv, FeedInv', ReaderInv, [Next]_vars
  PROVE  ReaderInv'
<1>0. Timed /\ Timed'
  BY DEF FeedInv
<1>1. CASE UNCHANGED reader /\ feed \subseteq feed'
  <2>1. ASSUME reader.on, ~reader.cut
        PROVE  reader.due \subseteq reader.seen \cup Below(Listed(reader.filter), reader.offset)'
    <3>1. PICK f, offset : f = reader.filter /\ offset = reader.offset /\ offset \in Nat
      BY <2>1 DEF ReaderInv
    <3>2. Below(Listed(f), offset) \subseteq Below(Listed(f), offset)'
      BY <1>0, <1>1, <3>1, FeedGrows
    <3>3. Below(Listed(reader.filter), reader.offset)' = Below(Listed(f), offset)'
      BY <1>1, <3>1
    <3>. QED  BY <2>1, <3>1, <3>2, <3>3 DEF ReaderInv
  <2>. QED  BY <1>1, <2>1 DEF ReaderInv
<1>2. ASSUME NEW f \in Filters, StartReading(f) PROVE ReaderInv'
  <2>1. /\ reader' = [on |-> TRUE, filter |-> f, offset |-> 0, seen |-> {}, due |-> Listed(f), cut |-> FALSE]
        /\ UNCHANGED feed
    BY <1>2 DEF StartReading
  <2>2. Listed(f)' = Listed(f) /\ Listed(f) \in SUBSET feed
    BY <2>1 DEF Listed
  <2>3. \A ev \in Listed(f) : Place(ev, Listed(f)) >= 0
    BY <1>0, <2>2, PlaceIsNat
  <2>4. Below(Listed(f), 0)' = Listed(f)
    BY <2>2, <2>3 DEF Below, Place
  <2>. QED  BY <2>1, <2>4 DEF ReaderInv
<1>3. CASE More
  <2>. DEFINE rows == Listed(reader.filter)
              page == Cut(rows, reader.offset)
  <2>1. /\ reader.on /\ UNCHANGED feed
        /\ reader' = [reader EXCEPT !["offset"] = reader.offset + Cardinality(page),
                                    !["seen"] = reader.seen \cup page]
    BY <1>3 DEF More, Page
  <2>2. {"on", "offset", "seen", "due", "cut", "filter"} \subseteq DOMAIN reader /\ reader.offset \in Nat
    BY <2>1 DEF ReaderInv
  <2>3. rows \in SUBSET feed
    BY DEF Listed
  <2>4. Cardinality(page) \in Nat /\ Cardinality(page) <= PageSize /\ PageSize \in Nat
    BY <1>0, <2>2, <2>3, PageFits, CapturesAssumption
  <2>5. /\ DOMAIN reader' = DOMAIN reader
        /\ reader'["offset"] = reader.offset + Cardinality(page) /\ reader'["seen"] = reader.seen \cup page
        /\ reader'["due"] = reader.due /\ reader'["cut"] = reader.cut /\ reader'["filter"] = reader.filter
    <3>. HIDE DEF page
    <3>. QED  BY <2>1, <2>2
  <2>6. Listed(reader.filter)' = rows
    BY <2>1, <2>5 DEF Listed
  <2>7. Below(Listed(reader.filter), reader.offset)' = Below(rows, reader.offset + Cardinality(page))
    BY <2>5, <2>6 DEF Below, Place
  <2>8. Below(rows, reader.offset) \subseteq page \cup Below(rows, reader.offset + Cardinality(page))
    <3>1. ASSUME NEW ev \in Below(rows, reader.offset), ev \notin page
          PROVE  ev \in Below(rows, reader.offset + Cardinality(page))
      <4>1. ev \in rows /\ Place(ev, rows) >= reader.offset
        BY DEF Below
      <4>2. Place(ev, rows) \in Nat
        BY <1>0, <2>3, PlaceIsNat
      <4>3. Place(ev, rows) \notin reader.offset..(reader.offset + PageSize - 1)
        BY <3>1, <4>1 DEF Cut
      <4>4. Place(ev, rows) >= reader.offset + Cardinality(page)
        <5>. HIDE DEF rows, page
        <5>. QED  BY <2>2, <2>4, <4>1, <4>2, <4>3
      <4>. QED  BY <4>1, <4>4 DEF Below
    <3>. QED  BY <3>1
  <2>9. ~reader.cut => reader.due \subseteq reader.seen \cup Below(rows, reader.offset)
    BY <2>1 DEF ReaderInv
  <2>. HIDE DEF page, rows
  <2>10. reader'.offset \in Nat
    BY <2>2, <2>4, <2>5
  <2>. QED  BY <2>2, <2>5, <2>7, <2>8, <2>9, <2>10 DEF ReaderInv
<1>4. CASE reader' = IF reader.on THEN [reader EXCEPT !.cut = TRUE] ELSE reader
  <2>1. CASE reader.on
    <3>1. reader' = [reader EXCEPT !["cut"] = TRUE]
      BY <1>4, <2>1
    <3>2. {"on", "offset", "seen", "due", "cut", "filter"} \subseteq DOMAIN reader
      BY <2>1 DEF ReaderInv
    <3>3. DOMAIN reader' = DOMAIN reader /\ reader'["cut"] = TRUE /\ reader'["offset"] = reader["offset"]
      BY <3>1, <3>2
    <3>. QED  BY <2>1, <3>2, <3>3 DEF ReaderInv
  <2>2. CASE ~reader.on
    BY <1>4, <2>2 DEF ReaderInv
  <2>. QED  BY <2>1, <2>2
<1>5. CASE UNCHANGED vars
  BY <1>1, <1>5 DEF vars
<1>. QED  BY <1>1, <1>2, <1>3, <1>4, <1>5, FeedOrReader

\* Paging to the end shows all that was in the feed when the reading began, whatever
\* is committed meanwhile and wherever its date puts it (list_activity).
THEOREM ReadersMissNothing == Spec => []PagesMissNothing
<1>1. Init => ReaderInv
  BY DEF Init, ReaderInv, Off
<1>2. ReaderInv => PagesMissNothing
  BY DEF ReaderInv, PagesMissNothing, Below
<1>. QED  BY <1>1, <1>2, ReaderStep, FeedInvInit, FeedInvStep, PTL DEF Spec

===============================================================================
