-------------------------------- MODULE MCBoard --------------------------------
(***************************************************************************)
(* An instance of Board for TLC.  It starts from a graph that clients have *)
(* already built: a program over two slices, each slice covering a work    *)
(* item, with asks open.                                                   *)
(***************************************************************************)
EXTENDS Board

CONSTANTS w1, w2, p1, p2, g1, j1

Deciding == [status : {Keep, "open", "done", "closed"}, archived : {Keep, "set"},
             check_after : {Keep}, invalidated_if : {Keep}, project : {Keep}]
Moving   == [status : {Keep, "active", "done", "declined", Parked}, archived : Flag]
Ending   == [status : {Keep, "done"}, archived : Flag]
Cutting  == [status : {"Active", "Cut"}, archived : {Keep}]
Archival == [archived : Flag]
NoCreation == {}

Chain == {<<p1, w2>>, <<w1, p2>>}

\* create_work_item twice, create_proposal twice, create_program over both and a slice
\* started: the program is active.  What else has happened varies.
Populated ==
  /\ \E second \in {"open", "done"}, slice \in {"proposed", Parked} :
       status = [n \in Node |-> CASE n = w1 -> "open"    [] n = w2 -> second
                                  [] n = p1 -> "active"  [] n = p2 -> slice
                                  [] n = g1 -> "active"  [] OTHER -> Absent]
  /\ project = [n \in Node |-> IF n \in {w1, w2, p1, p2} THEN j1 ELSE NoProject]
  /\ archived = {}
  /\ awaiting = {w1, p1, g1}
  /\ soakFields = [w \in WorkItem |-> {}]
  /\ includes = {<<g1, p1>>, <<g1, p2>>}
  /\ covers = {<<p1, w1>>, <<p2, w2>>}
  /\ soaks = {}
  /\ logged = {}
  /\ dependsOn \in {Chain, {<<p1, w2>>}}
  /\ board = NothingRead
  /\ calls = 0
  /\ quiet = FALSE
  /\ lasting = {}

MCSpec == Populated /\ [][BoardNext]_<<vars, boardVars>>
================================================================================
