--------------------------- MODULE CalendarProofs ---------------------------
(***************************************************************************)
(* What holds, for any calendar, of what is raised and counted by the day: *)
(* of the schedules, with every set of schedules, items and clients, and   *)
(* of the flow series, with every set of items and writers, every horizon  *)
(* and every window.                                                       *)
(***************************************************************************)
EXTENDS Schedules, Flow, FiniteSetTheorems, WellFoundedInduction, NaturalsInduction, TLAPS

-------------------------------------------------------------------------------
(***************************************************************************)
(* Schedules.  TypeOK alone is not inductive: a materialization ends by    *)
(* updating a schedule row, so the row a call is about must be known to    *)
(* exist.                                                                  *)
(***************************************************************************)


Materializing == {"checked", "waiting", "firing"}

\* What each client is in the middle of is about rows that exist.
CallsReferToRows ==
  \A c \in Client :
    /\ call[c].at \in Materializing => schedule[call[c].s] # Absent
    /\ call[c].at = "patching" => wi[call[c].w] # Absent

\* The fields of a call, by the point it has reached.
LEMMA CallFields ==
  ASSUME TypeOK, NEW c \in Client
  PROVE  /\ call[c].at \in Materializing
              => call[c].s \in Schedule /\ call[c].force \in BOOLEAN
         /\ call[c].at \in {"waiting", "firing"} => call[c].now \in Time
         /\ call[c].at = "patching"
              => call[c].w \in WorkItem /\ call[c].to \in WiStatuses /\ call[c].now \in Time
         /\ call[c].at = "checked"
              => call[c] \in [at : {"checked"}, s : Schedule, force : BOOLEAN]
         /\ call[c].at \in {"waiting", "firing"}
              => call[c] \in [at : {"waiting", "firing"}, s : Schedule, force : BOOLEAN, now : Time]
  BY DEF TypeOK, Call, Idle, Materializing

\* The update that ends a materialization leaves a schedule row.
LEMMA AfterFiringTyped ==
  ASSUME NEW row \in ScheduleRow, NEW w \in WorkItem, NEW moment \in Time
  PROVE  AfterFiring(row, w, moment) \in ScheduleRow
  BY DEF AfterFiring, ScheduleRow, ScheduleStatuses, Active

\* A patch leaves a schedule row too, with the item it points at.
LEMMA PatchedRowTyped ==
  ASSUME NEW row \in ScheduleRow, NEW edit \in SchedulePatches
  PROVE  /\ PatchedRow(row, edit) \in ScheduleRow
         /\ PatchedRow(row, edit).last_wi_id = row.last_wi_id
<1>1. /\ Patched(row.cadence, edit.cadence) \in Cadence
      /\ Patched(row.anchor_mode, edit.anchor_mode) \in Anchors
      /\ Patched(row.anchor_at, edit.anchor_at) \in Time
      /\ Patched(row.status, edit.status) \in ScheduleStatuses
  BY ScheduleAssumption DEF Patched, SchedulePatch, ScheduleRow
<1>. QED  BY <1>1 DEF PatchedRow, ScheduleRow

LEMMA TypeInit == Init => TypeOK /\ CallsReferToRows
<1>1. 0 \in Time
  BY ScheduleAssumption DEF Time
<1>. QED
  BY <1>1 DEF Init, TypeOK, CallsReferToRows, Call, Idle, Materializing

\* Every step keeps the rows, the calls and the clock within their types.
LEMMA TypeStep ==
  TypeOK /\ CallsReferToRows /\ [Next]_vars => TypeOK' /\ CallsReferToRows'
<1>. SUFFICES ASSUME TypeOK, CallsReferToRows, [Next]_vars
              PROVE  TypeOK' /\ CallsReferToRows'
  OBVIOUS
<1>. USE DEF TypeOK, Materializing
<1>a. /\ Absent \notin ScheduleRow
      /\ Absent \notin WiStatuses
  BY ScheduleAssumption
<1>1. ASSUME NEW s \in Schedule, NEW new \in NewSchedules, CreateSchedule(s, new)
      PROVE  TypeOK' /\ CallsReferToRows'
  <2>. DEFINE row == [cadence |-> new.cadence, anchor_mode |-> new.anchor_mode,
                      anchor_at |-> new.anchor_at, status |-> Active, last_wi_id |-> NoWorkItem]
  <2>1. row \in ScheduleRow /\ new.anchor_at \in Time
    BY ScheduleAssumption DEF NewSchedule, ScheduleRow, ScheduleStatuses
  <2>2. schedule' = [schedule EXCEPT ![s] = row]
    BY <1>1 DEF CreateSchedule
  <2>3. TypeOK'
    BY <1>1, <2>1, <2>2 DEF CreateSchedule
  <2>. HIDE DEF row
  <2>4. CallsReferToRows'
    BY <1>1, <1>a, <2>1, <2>2, CallFields DEF CreateSchedule, CallsReferToRows
  <2>. QED  BY <2>3, <2>4
<1>2. ASSUME NEW s \in Schedule, NEW edit \in SchedulePatches, UpdateSchedule(s, edit)
      PROVE  TypeOK' /\ CallsReferToRows'
  <2>1. schedule[s] \in ScheduleRow
    BY <1>2 DEF UpdateSchedule
  <2>. DEFINE row == PatchedRow(schedule[s], edit)
  <2>2. Patched(event[s], edit.anchor_at) \in Time
    BY ScheduleAssumption DEF Patched, SchedulePatch
  <2>3. row \in ScheduleRow
    BY <2>1, PatchedRowTyped
  <2>4. schedule' = [schedule EXCEPT ![s] = row]
    BY <1>2 DEF UpdateSchedule
  <2>. HIDE DEF row
  <2>5. TypeOK'
    BY <1>2, <2>2, <2>3, <2>4 DEF UpdateSchedule
  <2>6. CallsReferToRows'
    BY <1>2, <1>a, <2>3, <2>4, CallFields DEF UpdateSchedule, CallsReferToRows
  <2>. QED  BY <2>5, <2>6
<1>3. ASSUME NEW c \in Client, NEW s \in Schedule, NEW force \in BOOLEAN,
             MaterializeCheck(c, s, force)
      PROVE  TypeOK' /\ CallsReferToRows'
  <2>1. TypeOK'
    BY <1>3 DEF MaterializeCheck, Call
  <2>2. CallsReferToRows'
    BY <1>3 DEF MaterializeCheck, CallsReferToRows
  <2>. QED  BY <2>1, <2>2
<1>4. ASSUME NEW c \in Client, MaterializeBegin(c)
      PROVE  TypeOK' /\ CallsReferToRows'
  <2>1. TypeOK'
    BY <1>4, CallFields DEF MaterializeBegin, Call
  <2>2. CallsReferToRows'
    BY <1>4 DEF MaterializeBegin, CallsReferToRows
  <2>. QED  BY <2>1, <2>2
<1>5. ASSUME NEW c \in Client, MaterializeLock(c)
      PROVE  TypeOK' /\ CallsReferToRows'
  <2>1. [call[c] EXCEPT !.at = "firing"] \in Call /\ Idle \in Call
    BY <1>5, CallFields DEF MaterializeLock, Call
  <2>2. TypeOK'
    BY <1>5, <2>1 DEF MaterializeLock
  <2>3. [call[c] EXCEPT !.at = "firing"].s = call[c].s
    BY <1>5, CallFields DEF MaterializeLock
  <2>4. [call[c] EXCEPT !.at = "firing"].at = "firing"
    BY <1>5, CallFields DEF MaterializeLock
  <2>5. CallsReferToRows'
    BY <1>5, <2>3, <2>4 DEF MaterializeLock, CallsReferToRows, Idle
  <2>. QED  BY <2>2, <2>5
<1>6. ASSUME NEW c \in Client, NEW w \in WorkItem, MaterializeCommit(c, w)
      PROVE  TypeOK' /\ CallsReferToRows'
  <2>. DEFINE s == call[c].s
              row == AfterFiring(schedule[s], w, call[c].now)
              written == "open"
  <2>1. /\ s \in Schedule
        /\ call[c].now \in Time
        /\ schedule[s] \in ScheduleRow
    BY <1>6, CallFields DEF MaterializeCommit, CallsReferToRows
  <2>2. row \in ScheduleRow
    BY <2>1, AfterFiringTyped
  <2>3. written \in WiStatuses
    BY DEF WiStatuses
  <2>4. /\ schedule' = [schedule EXCEPT ![s] = row]
        /\ wi' = [wi EXCEPT ![w] = written]
        /\ call' = [call EXCEPT ![c] = Idle]
    BY <1>6 DEF MaterializeCommit
  <2>. HIDE DEF row, written
  <2>5. TypeOK'
    BY <1>6, <2>1, <2>2, <2>3, <2>4 DEF MaterializeCommit, Call
  <2>6. CallsReferToRows'
    BY <1>a, <2>1, <2>2, <2>3, <2>4, CallFields DEF CallsReferToRows, Idle
  <2>. QED  BY <2>5, <2>6
<1>7. ASSUME NEW c \in Client, NEW w \in WorkItem, NEW to \in ItemStatuses,
             UpdateItemBegin(c, w, to)
      PROVE  TypeOK' /\ CallsReferToRows'
  <2>1. TypeOK'
    BY <1>7, ScheduleAssumption DEF UpdateItemBegin, Call
  <2>2. CallsReferToRows'
    BY <1>7 DEF UpdateItemBegin, CallsReferToRows
  <2>. QED  BY <2>1, <2>2
<1>8. ASSUME NEW c \in Client, UpdateItemCommit(c)
      PROVE  TypeOK' /\ CallsReferToRows'
  <2>. DEFINE w == call[c].w
              written == call[c].to
  <2>1. w \in WorkItem /\ call[c].now \in Time /\ wi[w] \in WiStatuses
    BY <1>8, CallFields DEF UpdateItemCommit, CallsReferToRows
  <2>2. written \in WiStatuses
    BY <1>8, <2>1, CallFields DEF UpdateItemCommit
  <2>3. wi' = [wi EXCEPT ![w] = written] /\ call' = [call EXCEPT ![c] = Idle]
    BY <1>8 DEF UpdateItemCommit
  <2>4. \A s \in Schedule :
          s \in Restarted(w, call[c].to)
            => /\ schedule[s] \in ScheduleRow
               /\ [schedule[s] EXCEPT !.anchor_at = call[c].now] \in ScheduleRow
    BY <2>1 DEF Restarted, ScheduleRow
  <2>5. schedule' = [s \in Schedule |->
           IF s \in Restarted(w, call[c].to)
           THEN [schedule[s] EXCEPT !.anchor_at = call[c].now] ELSE schedule[s]]
    BY <1>8 DEF UpdateItemCommit
  <2>. HIDE DEF written
  <2>6. TypeOK'
    BY <1>8, <2>1, <2>2, <2>3, <2>4, <2>5 DEF UpdateItemCommit, Call
  <2>7. CallsReferToRows'
    BY <1>a, <2>1, <2>2, <2>3, <2>4, <2>5, CallFields DEF CallsReferToRows, Idle
  <2>. QED  BY <2>6, <2>7
<1>9. ASSUME NEW c \in Client, Abort(c)
      PROVE  TypeOK' /\ CallsReferToRows'
  BY <1>9 DEF Abort, CallsReferToRows, Call, Idle
<1>10. ASSUME Tick
       PROVE  TypeOK' /\ CallsReferToRows'
  BY <1>10, ScheduleAssumption DEF Tick, CallsReferToRows, Time
<1>11. CASE UNCHANGED vars
  BY <1>11 DEF vars, CallsReferToRows
<1>. QED
  BY <1>1, <1>2, <1>3, <1>4, <1>5, <1>6, <1>7, <1>8, <1>9, <1>10, <1>11 DEF Next

\* Every row, call and clock reading keeps its type, and no call outlives the rows
\* it is about: the code deletes neither.
THEOREM SchedulesTypeCorrect == Spec => [](TypeOK /\ CallsReferToRows)
  BY TypeInit, TypeStep, PTL DEF Spec

-------------------------------------------------------------------------------
(***************************************************************************)
(* A one-shot fires once.                                                  *)
(***************************************************************************)

\* While a one-shot is still active it has produced nothing, and what fires was
\* active when its row was locked.
FiringIsActive ==
  \A c \in Client : call[c].at = "firing" => schedule[call[c].s].status = Active

RowsAreExclusive ==
  \A c, d \in Client :
    call[c].at = "firing" /\ call[d].at = "firing" /\ call[c].s = call[d].s => c = d

OnceInv ==
  /\ FiringIsActive
  /\ RowsAreExclusive
  /\ \A s \in Schedule :
       schedule[s] # Absent /\ schedule[s].cadence = Once
         => fired[s] <= 1 /\ (schedule[s].status = Active => fired[s] = 0)
  /\ \A s \in Schedule : schedule[s] = Absent => fired[s] = 0

LEMMA OnceInit == Init => OnceInv
  BY DEF Init, OnceInv, FiringIsActive, RowsAreExclusive, Idle

\* The row lock, the second gate on the locked row and the status set by the firing
\* itself keep a one-shot at one item.
LEMMA OnceStep ==
  TypeOK /\ CallsReferToRows /\ OnceInv /\ [Next]_vars => OnceInv'
<1>. SUFFICES ASSUME TypeOK, CallsReferToRows, OnceInv, [Next]_vars
              PROVE  OnceInv'
  OBVIOUS
<1>. USE DEF OnceInv, FiringIsActive, RowsAreExclusive
<1>a. /\ schedule \in [Schedule -> ScheduleRow \cup {Absent}]
      /\ call \in [Client -> Call]
      /\ fired \in [Schedule -> Nat]
      /\ Absent \notin ScheduleRow
  BY ScheduleAssumption DEF TypeOK
<1>b. \A c \in Client : call[c].at = "firing"
        => /\ call[c].s \in Schedule
           /\ schedule[call[c].s] \in ScheduleRow
  BY <1>a, CallFields DEF CallsReferToRows, Materializing
<1>1. ASSUME NEW s \in Schedule, NEW new \in NewSchedules, CreateSchedule(s, new)
      PROVE  OnceInv'
  <2>. DEFINE row == [cadence |-> new.cadence, anchor_mode |-> new.anchor_mode,
                      anchor_at |-> new.anchor_at, status |-> Active, last_wi_id |-> NoWorkItem]
  <2>1. schedule' = [schedule EXCEPT ![s] = row] /\ schedule[s] = Absent
        /\ UNCHANGED <<call, fired>>
    BY <1>1 DEF CreateSchedule
  <2>2. \A c \in Client : call[c].at = "firing" => call[c].s # s
    BY <1>a, <1>b, <2>1
  <2>3. row \in ScheduleRow
    BY ScheduleAssumption DEF NewSchedule, ScheduleRow, ScheduleStatuses
  <2>. HIDE DEF row
  <2>. QED  BY <1>a, <1>b, <2>1, <2>2, <2>3
<1>2. ASSUME NEW s \in Schedule, NEW edit \in SchedulePatches, UpdateSchedule(s, edit)
      PROVE  OnceInv'
  <2>1. /\ \A t \in Schedule \ {s} : schedule'[t] = schedule[t] /\ fired'[t] = fired[t]
        /\ fired'[s] = 0 /\ schedule[s] # Absent /\ call' = call
    BY <1>2, <1>a DEF UpdateSchedule
  <2>2. \A c \in Client : call[c].at = "firing" => call[c].s # s
    BY <1>2 DEF UpdateSchedule, Locked
  <2>. QED  BY <1>a, <1>b, <2>1, <2>2
<1>3. ASSUME NEW c \in Client, NEW s \in Schedule, NEW force \in BOOLEAN,
             MaterializeCheck(c, s, force)
      PROVE  OnceInv'
  BY <1>3, <1>a DEF MaterializeCheck
<1>4. ASSUME NEW c \in Client, MaterializeBegin(c)
      PROVE  OnceInv'
  BY <1>4, <1>a DEF MaterializeBegin
<1>5. ASSUME NEW c \in Client, MaterializeLock(c)
      PROVE  OnceInv'
  <2>. DEFINE next == [call[c] EXCEPT !.at = "firing"]
  <2>1. call[c].at = "waiting" /\ ~Locked(call[c].s) /\ UNCHANGED <<schedule, fired>>
    BY <1>5 DEF MaterializeLock
  <2>2. CASE Regate(c)
    <3>1. call' = [call EXCEPT ![c] = next]
      BY <1>5, <2>2 DEF MaterializeLock
    <3>2. next.s = call[c].s /\ next.at = "firing"
      BY <2>1, CallFields
    <3>3. schedule[call[c].s].status = Active
      BY <2>2 DEF Regate, Gate
    <3>. HIDE DEF next
    <3>. QED  BY <1>a, <2>1, <3>1, <3>2, <3>3 DEF Locked
  <2>3. CASE ~Regate(c)
    <3>1. call' = [call EXCEPT ![c] = Idle]
      BY <1>5, <2>3 DEF MaterializeLock
    <3>. QED  BY <1>a, <2>1, <3>1 DEF Idle
  <2>. QED  BY <2>2, <2>3
<1>6. ASSUME NEW c \in Client, NEW w \in WorkItem, MaterializeCommit(c, w)
      PROVE  OnceInv'
  <2>. DEFINE s == call[c].s
              row == AfterFiring(schedule[s], w, call[c].now)
  <2>1. /\ schedule' = [schedule EXCEPT ![s] = row]
        /\ fired' = [fired EXCEPT ![s] = @ + 1]
        /\ call' = [call EXCEPT ![c] = Idle]
        /\ call[c].at = "firing"
    BY <1>6 DEF MaterializeCommit
  <2>2. s \in Schedule /\ schedule[s] \in ScheduleRow /\ schedule[s].status = Active
    BY <1>b, <2>1
  <2>3. /\ row.cadence = schedule[s].cadence
        /\ row.cadence = Once => row.status = "done"
    BY <2>2 DEF AfterFiring, ScheduleRow
  <2>4. \A d \in Client \ {c} : call[d].at = "firing" => call[d].s # s
    BY <2>1
  <2>5. row # Absent
    BY <1>a, <2>1, <2>2, AfterFiringTyped, CallFields
  <2>. HIDE DEF row
  <2>6. FiringIsActive' /\ RowsAreExclusive'
    BY <1>a, <1>b, <2>1, <2>4 DEF Idle
  <2>7. \A t \in Schedule \ {s} : schedule'[t] = schedule[t] /\ fired'[t] = fired[t]
    BY <1>a, <2>1
  <2>8. schedule'[s] = row /\ fired'[s] = fired[s] + 1 /\ fired[s] \in Nat
    BY <1>a, <2>1, <2>2
  <2>9. schedule[s].cadence = Once => fired[s] = 0
    BY <1>a, <2>2
  <2>. QED  BY <1>a, <2>2, <2>3, <2>5, <2>6, <2>7, <2>8, <2>9 DEF Active
<1>7. ASSUME NEW c \in Client, NEW w \in WorkItem, NEW to \in ItemStatuses,
             UpdateItemBegin(c, w, to)
      PROVE  OnceInv'
  BY <1>7, <1>a DEF UpdateItemBegin
<1>8. ASSUME NEW c \in Client, UpdateItemCommit(c)
      PROVE  OnceInv'
  <2>. DEFINE r == Restarted(call[c].w, call[c].to)
  <2>1. /\ call' = [call EXCEPT ![c] = Idle]
        /\ fired' = fired
        /\ schedule' = [s \in Schedule |->
             IF s \in r THEN [schedule[s] EXCEPT !.anchor_at = call[c].now] ELSE schedule[s]]
    BY <1>8 DEF UpdateItemCommit
  <2>2. \A s \in Schedule :
          /\ schedule'[s] = Absent <=> schedule[s] = Absent
          /\ schedule[s] # Absent => /\ schedule'[s].status = schedule[s].status
                                     /\ schedule'[s].cadence = schedule[s].cadence
    <3>. TAKE s \in Schedule
    <3>1. CASE s \notin r
      BY <2>1, <3>1
    <3>2. CASE s \in r
      <4>1. schedule[s] \in ScheduleRow /\ call[c].now \in Time
        BY <1>8, <1>a, <3>2, CallFields DEF Restarted, UpdateItemCommit
      <4>2. [schedule[s] EXCEPT !.anchor_at = call[c].now] \in ScheduleRow
        BY <4>1 DEF ScheduleRow
      <4>3. schedule'[s] = [schedule[s] EXCEPT !.anchor_at = call[c].now]
        BY <2>1, <3>2
      <4>. QED  BY <1>a, <4>1, <4>2, <4>3 DEF ScheduleRow
    <3>. QED  BY <3>1, <3>2
  <2>3. \A d \in Client : call'[d].at = "firing" => call'[d] = call[d]
    BY <1>a, <2>1 DEF Idle
  <2>. HIDE DEF r
  <2>4. FiringIsActive'
    BY <1>a, <1>b, <2>2, <2>3
  <2>5. RowsAreExclusive'
    BY <2>3
  <2>. QED  BY <2>1, <2>2, <2>4, <2>5
<1>9. ASSUME NEW c \in Client, Abort(c)
      PROVE  OnceInv'
  BY <1>9, <1>a DEF Abort, Idle
<1>10. ASSUME Tick
       PROVE  OnceInv'
  BY <1>10 DEF Tick
<1>11. CASE UNCHANGED vars
  BY <1>11 DEF vars
<1>. QED
  BY <1>1, <1>2, <1>3, <1>4, <1>5, <1>6, <1>7, <1>8, <1>9, <1>10, <1>11 DEF Next

\* However many clients race a one-shot, with and without force, it produces one
\* item before its row is patched again.
THEOREM OneShotFiresOnce == Spec => []OnceFiresOnce
<1>1. OnceInv => OnceFiresOnce
  BY DEF OnceInv, OnceFiresOnce
<1>. QED  BY <1>1, SchedulesTypeCorrect, OnceInit, OnceStep, PTL DEF Spec

-------------------------------------------------------------------------------
(***************************************************************************)
(* At most one outstanding item, where finished items stay finished.       *)
(***************************************************************************)

\* A materialized item that is still unfinished is the one its schedule points at.
NewestIsOutstanding ==
  \A s \in Schedule, w \in WorkItem :
    <<s, w>> \in materializes /\ Unfinished(w)
      => schedule[s] # Absent /\ schedule[s].last_wi_id = w

\* Edges and pointers lead to items that have been inserted.
ItemsInserted ==
  /\ \A s \in Schedule, w \in WorkItem : <<s, w>> \in materializes => wi[w] # Absent
  /\ \A s \in Schedule : schedule[s] # Absent /\ schedule[s].last_wi_id # NoWorkItem
       => wi[schedule[s].last_wi_id] # Absent

\* From the second gate to the commit the schedule's last item stays finished.
FiringIsFree ==
  \A c \in Client : call[c].at = "firing" => ~Outstanding(call[c].s)

\* An item is patched by one transaction at a time, and none takes it back.
PatchesFinish ==
  \A c \in Client : call[c].at = "patching"
    => /\ Unfinished(call[c].w) \/ call[c].to \in WiFinished
       /\ \A d \in Client : call[d].at = "patching" /\ call[d].w = call[c].w => d = c

OutstandingInv ==
  /\ NewestIsOutstanding
  /\ ItemsInserted
  /\ FiringIsFree
  /\ RowsAreExclusive
  /\ PatchesFinish

LEMMA OutstandingInit == Init => OutstandingInv
  BY DEF Init, OutstandingInv, NewestIsOutstanding, ItemsInserted, FiringIsFree,
         RowsAreExclusive, PatchesFinish, Idle

\* A call of one client that neither begins firing nor patching leaves the facts
\* about calls alone; nothing else moved.
LEMMA OtherCalls ==
  ASSUME TypeOK, OutstandingInv, NEW c \in Client, NEW next,
         next.at \notin {"firing", "patching"},
         call' = [call EXCEPT ![c] = next],
         UNCHANGED <<schedule, wi, materializes>>
  PROVE  OutstandingInv'
  BY DEF TypeOK, OutstandingInv, NewestIsOutstanding, ItemsInserted, FiringIsFree,
         RowsAreExclusive, PatchesFinish, Outstanding, Unfinished

LEMMA OutstandingStep ==
  ASSUME ~Reopen
  PROVE  TypeOK /\ CallsReferToRows /\ OutstandingInv /\ [Next]_vars => OutstandingInv'
<1>. SUFFICES ASSUME TypeOK, CallsReferToRows, OutstandingInv, [Next]_vars
              PROVE  OutstandingInv'
  OBVIOUS
<1>. USE DEF OutstandingInv
<1>a. /\ schedule \in [Schedule -> ScheduleRow \cup {Absent}]
      /\ wi \in [WorkItem -> WiStatuses \cup {Absent}]
      /\ call \in [Client -> Call]
      /\ Absent \notin ScheduleRow /\ Absent \notin WiStatuses
  BY ScheduleAssumption DEF TypeOK
<1>b. \A c \in Client :
        /\ call[c].at = "firing"
             => call[c].s \in Schedule /\ schedule[call[c].s] \in ScheduleRow
        /\ call[c].at = "patching"
             => /\ call[c].w \in WorkItem /\ wi[call[c].w] \in WiStatuses
                /\ call[c].to \in WiStatuses
  BY <1>a, CallFields DEF CallsReferToRows, Materializing
<1>c. NoWorkItem \notin WorkItem
  BY ScheduleAssumption
<1>1. ASSUME NEW s \in Schedule, NEW new \in NewSchedules, CreateSchedule(s, new)
      PROVE  OutstandingInv'
  <2>. DEFINE row == [cadence |-> new.cadence, anchor_mode |-> new.anchor_mode,
                      anchor_at |-> new.anchor_at, status |-> Active, last_wi_id |-> NoWorkItem]
  <2>1. schedule' = [schedule EXCEPT ![s] = row] /\ schedule[s] = Absent
        /\ UNCHANGED <<wi, materializes, call>>
    BY <1>1 DEF CreateSchedule
  <2>2. \A c \in Client : call[c].at = "firing" => call[c].s # s
    BY <1>a, <1>b, <2>1
  <2>3. row.last_wi_id = NoWorkItem
    OBVIOUS
  <2>. HIDE DEF row
  <2>4. NewestIsOutstanding'
    BY <1>a, <2>1 DEF NewestIsOutstanding, Unfinished
  <2>5. ItemsInserted'
    BY <1>a, <2>1, <2>3 DEF ItemsInserted
  <2>6. FiringIsFree'
    BY <1>a, <1>b, <2>1, <2>2 DEF FiringIsFree, Outstanding, Unfinished
  <2>7. RowsAreExclusive' /\ PatchesFinish'
    BY <2>1 DEF RowsAreExclusive, PatchesFinish, Unfinished
  <2>. QED  BY <2>4, <2>5, <2>6, <2>7
<1>2. ASSUME NEW s \in Schedule, NEW edit \in SchedulePatches, UpdateSchedule(s, edit)
      PROVE  OutstandingInv'
  <2>. DEFINE row == PatchedRow(schedule[s], edit)
  <2>1. /\ schedule' = [schedule EXCEPT ![s] = row]
        /\ schedule[s] # Absent
        /\ UNCHANGED <<wi, materializes, call>>
    BY <1>2 DEF UpdateSchedule
  <2>2. row.last_wi_id = schedule[s].last_wi_id /\ row \in ScheduleRow
    <3>1. schedule[s] \in ScheduleRow
      BY <1>a, <2>1
    <3>. QED  BY <3>1, PatchedRowTyped
  <2>3. \A c \in Client : call[c].at = "firing" => call[c].s # s
    BY <1>2 DEF UpdateSchedule, Locked
  <2>. HIDE DEF row
  <2>4. NewestIsOutstanding'
    BY <1>a, <2>1, <2>2 DEF NewestIsOutstanding, Unfinished
  <2>5. ItemsInserted'
    BY <1>a, <2>1, <2>2 DEF ItemsInserted
  <2>6. FiringIsFree'
    BY <1>a, <1>b, <2>1, <2>3 DEF FiringIsFree, Outstanding, Unfinished
  <2>7. RowsAreExclusive' /\ PatchesFinish'
    BY <2>1 DEF RowsAreExclusive, PatchesFinish, Unfinished
  <2>. QED  BY <2>4, <2>5, <2>6, <2>7
<1>3. ASSUME NEW c \in Client, NEW s \in Schedule, NEW force \in BOOLEAN,
             MaterializeCheck(c, s, force)
      PROVE  OutstandingInv'
  BY <1>3, OtherCalls DEF MaterializeCheck
<1>4. ASSUME NEW c \in Client, MaterializeBegin(c)
      PROVE  OutstandingInv'
  BY <1>4, OtherCalls DEF MaterializeBegin
<1>5. ASSUME NEW c \in Client, MaterializeLock(c)
      PROVE  OutstandingInv'
  <2>. DEFINE next == [call[c] EXCEPT !.at = "firing"]
  <2>1. call[c].at = "waiting" /\ ~Locked(call[c].s) /\ UNCHANGED <<schedule, wi, materializes>>
    BY <1>5 DEF MaterializeLock
  <2>2. CASE Regate(c)
    <3>1. call' = [call EXCEPT ![c] = next]
      BY <1>5, <2>2 DEF MaterializeLock
    <3>2. next.s = call[c].s /\ next.at = "firing"
      BY <2>1, CallFields
    <3>3. ~Outstanding(call[c].s)
      BY <2>2 DEF Regate, Gate
    <3>. HIDE DEF next
    <3>4. NewestIsOutstanding' /\ ItemsInserted'
      BY <2>1 DEF NewestIsOutstanding, ItemsInserted, Unfinished
    <3>5. FiringIsFree'
      BY <1>a, <2>1, <3>1, <3>2, <3>3 DEF FiringIsFree, Outstanding, Unfinished
    <3>6. RowsAreExclusive'
      BY <1>a, <2>1, <3>1, <3>2 DEF RowsAreExclusive, Locked
    <3>7. PatchesFinish'
      BY <1>a, <2>1, <3>1, <3>2 DEF PatchesFinish, Unfinished
    <3>. QED  BY <3>4, <3>5, <3>6, <3>7
  <2>3. CASE ~Regate(c)
    BY <1>5, <2>1, <2>3, OtherCalls DEF MaterializeLock, Idle
  <2>. QED  BY <2>2, <2>3
<1>6. ASSUME NEW c \in Client, NEW w \in WorkItem, MaterializeCommit(c, w)
      PROVE  OutstandingInv'
  <2>. DEFINE s == call[c].s
              row == AfterFiring(schedule[s], w, call[c].now)
              written == "open"
  <2>1. /\ call[c].at = "firing"
        /\ wi[w] = Absent
        /\ wi' = [wi EXCEPT ![w] = written]
        /\ materializes' = materializes \cup {<<s, w>>}
        /\ schedule' = [schedule EXCEPT ![s] = row]
        /\ call' = [call EXCEPT ![c] = Idle]
    BY <1>6 DEF MaterializeCommit
  <2>2. s \in Schedule /\ schedule[s] \in ScheduleRow /\ ~Outstanding(s)
    BY <1>b, <2>1 DEF FiringIsFree
  <2>3. row.last_wi_id = w
    BY <2>2 DEF AfterFiring, ScheduleRow
  <2>4. written \in WiStatuses /\ row \in ScheduleRow
    BY <2>1, <2>2, AfterFiringTyped, CallFields DEF WiStatuses, Materializing
  <2>. HIDE DEF row, written
  <2>5. \A v \in WorkItem : v # w => wi'[v] = wi[v]
    BY <1>a, <2>1
  <2>6. /\ \A t \in Schedule : t # s => schedule'[t] = schedule[t]
        /\ schedule'[s] = row
    BY <1>a, <2>1, <2>2
  <2>7. \A t \in Schedule : <<t, w>> \notin materializes
    BY <2>1 DEF ItemsInserted
  <2>8. \A v \in WorkItem : <<s, v>> \in materializes => ~Unfinished(v)
    BY <1>c, <2>2 DEF NewestIsOutstanding, Outstanding
  <2>9. NewestIsOutstanding'
    <3>. SUFFICES ASSUME NEW t \in Schedule, NEW v \in WorkItem,
                         <<t, v>> \in materializes', Unfinished(v)'
                  PROVE  (schedule[t] # Absent /\ schedule[t].last_wi_id = v)'
      BY DEF NewestIsOutstanding
    <3>1. CASE v = w
      <4>1. t = s
        BY <2>1, <2>7, <3>1
      <4>. QED  BY <1>a, <2>3, <2>4, <2>6, <3>1, <4>1
    <3>2. CASE v # w
      <4>1. <<t, v>> \in materializes /\ Unfinished(v)
        BY <2>1, <2>5, <3>2 DEF Unfinished
      <4>2. t # s
        BY <2>8, <4>1
      <4>. QED  BY <2>6, <4>1, <4>2 DEF NewestIsOutstanding
    <3>. QED  BY <3>1, <3>2
  <2>10. ItemsInserted'
    <3>1. wi'[w] # Absent
      BY <1>a, <2>1, <2>4
    <3>2. \A v : wi[v] # Absent /\ v \in WorkItem => wi'[v] # Absent
      BY <2>5, <3>1
    <3>3. \A t \in Schedule : schedule[t] # Absent /\ schedule[t].last_wi_id # NoWorkItem
            => schedule[t].last_wi_id \in WorkItem
      BY <1>a DEF ScheduleRow
    <3>. QED  BY <2>1, <2>3, <2>6, <3>1, <3>2, <3>3 DEF ItemsInserted
  <2>11. FiringIsFree'
    <3>. SUFFICES ASSUME NEW d \in Client, call'[d].at = "firing"
                  PROVE  ~Outstanding(call[d].s)'
      BY DEF FiringIsFree
    <3>1. d # c /\ call'[d] = call[d]
      BY <1>a, <2>1 DEF Idle
    <3>2. call[d].s # s /\ call[d].s \in Schedule /\ schedule[call[d].s] \in ScheduleRow
      BY <1>b, <2>1, <3>1 DEF RowsAreExclusive
    <3>3. ~Outstanding(call[d].s)
      BY <3>1 DEF FiringIsFree
    <3>4. schedule[call[d].s].last_wi_id \in WorkItem \cup {NoWorkItem}
      BY <3>2 DEF ScheduleRow
    <3>5. schedule[call[d].s].last_wi_id # NoWorkItem => schedule[call[d].s].last_wi_id # w
      BY <1>a, <2>1, <3>2 DEF ItemsInserted
    <3>. QED  BY <2>5, <2>6, <3>1, <3>2, <3>3, <3>4, <3>5 DEF Outstanding, Unfinished
  <2>12. RowsAreExclusive'
    BY <1>a, <2>1 DEF RowsAreExclusive, Idle
  <2>13. PatchesFinish'
    <3>1. \A d \in Client : call'[d].at = "patching" => call'[d] = call[d]
      BY <1>a, <2>1 DEF Idle
    <3>2. \A d \in Client : call[d].at = "patching" => call[d].w \in WorkItem /\ call[d].w # w
      BY <1>a, <1>b, <2>1
    <3>. QED  BY <2>5, <3>1, <3>2 DEF PatchesFinish, Unfinished
  <2>. QED  BY <2>9, <2>10, <2>11, <2>12, <2>13
<1>7. ASSUME NEW c \in Client, NEW w \in WorkItem, NEW to \in ItemStatuses,
             UpdateItemBegin(c, w, to)
      PROVE  OutstandingInv'
  <2>. DEFINE next == [at |-> "patching", w |-> w, to |-> to, now |-> clock]
  <2>1. /\ call[c] = Idle
        /\ ~WiLocked(w)
        /\ wi[w] # Absent
        /\ wi[w] \in WiUnfinished \/ to \in WiFinished
        /\ call' = [call EXCEPT ![c] = next]
        /\ UNCHANGED <<schedule, wi, materializes>>
    BY <1>7 DEF UpdateItemBegin
  <2>2. next.at = "patching" /\ next.w = w /\ next.to = to
    OBVIOUS
  <2>. HIDE DEF next
  <2>3. NewestIsOutstanding' /\ ItemsInserted'
    BY <2>1 DEF NewestIsOutstanding, ItemsInserted, Unfinished
  <2>4. FiringIsFree' /\ RowsAreExclusive'
    BY <1>a, <2>1, <2>2 DEF FiringIsFree, RowsAreExclusive, Outstanding, Unfinished
  <2>5. PatchesFinish'
    BY <1>a, <2>1, <2>2 DEF PatchesFinish, Unfinished, WiLocked
  <2>. QED  BY <2>3, <2>4, <2>5
<1>8. ASSUME NEW c \in Client, UpdateItemCommit(c)
      PROVE  OutstandingInv'
  <2>. DEFINE w == call[c].w
              r == Restarted(w, call[c].to)
              written == call[c].to
  <2>1. /\ call[c].at = "patching"
        /\ wi' = [wi EXCEPT ![w] = written]
        /\ call' = [call EXCEPT ![c] = Idle]
        /\ materializes' = materializes
        /\ schedule' = [s \in Schedule |->
             IF s \in r THEN [schedule[s] EXCEPT !.anchor_at = call[c].now] ELSE schedule[s]]
    BY <1>8 DEF UpdateItemCommit
  <2>2. w \in WorkItem /\ wi[w] \in WiStatuses /\ call[c].to \in WiStatuses /\ call[c].now \in Time
    BY <1>b, <2>1, CallFields
  <2>3. written \in WiStatuses /\ written = call[c].to
    BY <2>2
  <2>4. \A s \in Schedule :
          /\ schedule'[s] = Absent <=> schedule[s] = Absent
          /\ schedule[s] # Absent => schedule'[s].last_wi_id = schedule[s].last_wi_id
    <3>. TAKE s \in Schedule
    <3>1. CASE s \notin r
      BY <2>1, <3>1
    <3>2. CASE s \in r
      <4>1. schedule[s] \in ScheduleRow
        BY <1>a, <3>2 DEF Restarted
      <4>2. [schedule[s] EXCEPT !.anchor_at = call[c].now] \in ScheduleRow
        BY <2>2, <4>1 DEF ScheduleRow
      <4>3. schedule'[s] = [schedule[s] EXCEPT !.anchor_at = call[c].now]
        BY <2>1, <3>2
      <4>. QED  BY <1>a, <4>1, <4>2, <4>3 DEF ScheduleRow
    <3>. QED  BY <3>1, <3>2
  <2>. HIDE DEF r, written
  <2>5. \A v \in WorkItem : v # w => wi'[v] = wi[v]
    BY <1>a, <2>1
  <2>6. wi'[w] = written /\ written # Absent
    BY <1>a, <2>1, <2>2, <2>3
  <2>7. \A v \in WorkItem : Unfinished(v)' => Unfinished(v)
    <3>1. WiFinished \cap WiUnfinished = {}
      BY DEF WiFinished, WiUnfinished, Parked
    <3>2. Unfinished(w) \/ call[c].to \in WiFinished
      BY <2>1 DEF PatchesFinish
    <3>3. \A v \in WorkItem : v = w => (Unfinished(v)' => Unfinished(v))
      BY <2>3, <2>6, <3>1, <3>2 DEF Unfinished
    <3>. QED  BY <2>5, <3>3 DEF Unfinished
  <2>8. NewestIsOutstanding'
    BY <2>1, <2>4, <2>7 DEF NewestIsOutstanding
  <2>9. ItemsInserted'
    <3>1. \A v \in WorkItem : wi[v] # Absent => wi'[v] # Absent
      BY <2>5, <2>6
    <3>2. \A s \in Schedule : schedule[s] # Absent /\ schedule[s].last_wi_id # NoWorkItem
            => schedule[s].last_wi_id \in WorkItem
      BY <1>a DEF ScheduleRow
    <3>. QED  BY <2>1, <2>4, <3>1, <3>2 DEF ItemsInserted
  <2>10. \A d \in Client : call'[d].at \in {"firing", "patching"} => d # c /\ call'[d] = call[d]
    BY <1>a, <2>1 DEF Idle
  <2>11. FiringIsFree'
    <3>. SUFFICES ASSUME NEW d \in Client, call'[d].at = "firing"
                  PROVE  ~Outstanding(call[d].s)'
      BY DEF FiringIsFree
    <3>1. call'[d] = call[d] /\ call[d].at = "firing"
      BY <2>10
    <3>2. call[d].s \in Schedule /\ schedule[call[d].s] \in ScheduleRow
      BY <1>b, <3>1
    <3>3. ~Outstanding(call[d].s)
      BY <3>1 DEF FiringIsFree
    <3>4. schedule[call[d].s].last_wi_id \in WorkItem \cup {NoWorkItem}
          /\ schedule'[call[d].s].last_wi_id = schedule[call[d].s].last_wi_id
      BY <1>a, <2>4, <3>2 DEF ScheduleRow
    <3>. QED  BY <2>7, <3>1, <3>2, <3>3, <3>4 DEF Outstanding
  <2>12. RowsAreExclusive'
    BY <2>10 DEF RowsAreExclusive
  <2>13. PatchesFinish'
    <3>1. \A d \in Client : call'[d].at = "patching" => call[d].w \in WorkItem /\ call[d].w # w
      BY <1>b, <2>1, <2>10 DEF PatchesFinish
    <3>. QED  BY <2>5, <2>10, <3>1 DEF PatchesFinish, Unfinished
  <2>. QED  BY <2>8, <2>9, <2>11, <2>12, <2>13
<1>9. ASSUME NEW c \in Client, Abort(c)
      PROVE  OutstandingInv'
  BY <1>9, OtherCalls DEF Abort, Idle
<1>10. ASSUME Tick
       PROVE  OutstandingInv'
  BY <1>10 DEF Tick, NewestIsOutstanding, ItemsInserted, FiringIsFree,
               RowsAreExclusive, PatchesFinish, Outstanding, Unfinished
<1>11. CASE UNCHANGED vars
  BY <1>11 DEF vars, NewestIsOutstanding, ItemsInserted, FiringIsFree,
               RowsAreExclusive, PatchesFinish, Outstanding, Unfinished
<1>. QED
  BY <1>1, <1>2, <1>3, <1>4, <1>5, <1>6, <1>7, <1>8, <1>9, <1>10, <1>11 DEF Next

\* Where nobody takes a finished item back, no schedule ever has two unfinished
\* items: not for racing callers, not with force, not across pauses and rollbacks.
THEOREM OneOutstandingItem ==
  ASSUME ~Reopen
  PROVE  Spec => []AtMostOneOutstanding
<1>1. OutstandingInv => AtMostOneOutstanding
  BY DEF OutstandingInv, NewestIsOutstanding, AtMostOneOutstanding
<1>2. TypeOK /\ CallsReferToRows /\ OutstandingInv /\ [Next]_vars => OutstandingInv'
  BY OutstandingStep
<1>. QED  BY <1>1, <1>2, SchedulesTypeCorrect, OutstandingInit, PTL DEF Spec

-------------------------------------------------------------------------------
(***************************************************************************)
(* Recurring items are spaced.                                             *)
(***************************************************************************)

\* The anchor is never behind the event it stands for; what fires unforced was due on
\* the locked row; and no transaction spans midnight.
SpacedInv ==
  /\ \A s \in Schedule : schedule[s] # Absent => event[s] <= schedule[s].anchor_at
  /\ \A c \in Client : InTransaction(c) => call[c].now = clock
  /\ \A c \in Client : call[c].at = "firing" /\ ~call[c].force => Elapsed(call[c].s, call[c].now)

LEMMA SpacedInit == Init => SpacedInv
  BY DEF Init, SpacedInv, InTransaction, Idle

LEMMA SpacedStep ==
  TypeOK /\ CallsReferToRows /\ OnceInv /\ SpacedInv /\ [Next]_vars => SpacedInv'
<1>. SUFFICES ASSUME TypeOK, CallsReferToRows, OnceInv, SpacedInv, [Next]_vars
              PROVE  SpacedInv'
  OBVIOUS
<1>. USE DEF SpacedInv, InTransaction, Elapsed
<1>a. /\ schedule \in [Schedule -> ScheduleRow \cup {Absent}]
      /\ call \in [Client -> Call] /\ event \in [Schedule -> Time]
      /\ Absent \notin ScheduleRow /\ Time \subseteq Nat
  BY ScheduleAssumption DEF TypeOK, Time
<1>b. \A c \in Client : call[c].at = "firing"
        => call[c].s \in Schedule /\ schedule[call[c].s] \in ScheduleRow
  BY <1>a, CallFields DEF CallsReferToRows, Materializing
<1>c. \A row \in ScheduleRow : row.anchor_at \in Nat /\ row.cadence \in Nat
  BY <1>a DEF ScheduleRow, Cadence
<1>1. ASSUME NEW s \in Schedule, NEW new \in NewSchedules, CreateSchedule(s, new)
      PROVE  SpacedInv'
  <2>. DEFINE row == [cadence |-> new.cadence, anchor_mode |-> new.anchor_mode,
                      anchor_at |-> new.anchor_at, status |-> Active, last_wi_id |-> NoWorkItem]
  <2>1. schedule' = [schedule EXCEPT ![s] = row] /\ schedule[s] = Absent
        /\ event' = [event EXCEPT ![s] = new.anchor_at] /\ UNCHANGED <<call, clock>>
    BY <1>1 DEF CreateSchedule
  <2>2. \A c \in Client : call[c].at = "firing" => call[c].s # s
    BY <1>a, <1>b, <2>1
  <2>3. row.anchor_at = new.anchor_at /\ new.anchor_at \in Nat
    BY <1>a, ScheduleAssumption DEF NewSchedule
  <2>. HIDE DEF row
  <2>4. /\ \A t \in Schedule \ {s} : schedule'[t] = schedule[t] /\ event'[t] = event[t]
        /\ event'[s] = schedule'[s].anchor_at /\ event'[s] \in Nat
    BY <1>a, <2>1, <2>3
  <2>5. \A t \in Schedule : schedule'[t] # Absent => event'[t] <= schedule'[t].anchor_at
    BY <2>4
  <2>. QED  BY <1>a, <1>b, <2>1, <2>2, <2>4, <2>5
<1>2. ASSUME NEW s \in Schedule, NEW edit \in SchedulePatches, UpdateSchedule(s, edit)
      PROVE  SpacedInv'
  <2>1. /\ \A t \in Schedule \ {s} : schedule'[t] = schedule[t] /\ event'[t] = event[t]
        /\ schedule'[s] = PatchedRow(schedule[s], edit)
        /\ event'[s] = Patched(event[s], edit.anchor_at)
        /\ schedule[s] # Absent /\ schedule[s] \in ScheduleRow /\ UNCHANGED <<call, clock>>
    BY <1>2, <1>a DEF UpdateSchedule
  <2>2. \A c \in Client : call[c].at = "firing" => call[c].s # s
    BY <1>2 DEF UpdateSchedule, Locked
  <2>3. schedule'[s].anchor_at = Patched(schedule[s].anchor_at, edit.anchor_at)
    BY <2>1 DEF PatchedRow, ScheduleRow
  <2>4. edit.anchor_at \in Time \cup {Keep}
    BY ScheduleAssumption DEF SchedulePatch
  <2>5. event[s] \in Nat /\ schedule[s].anchor_at \in Nat /\ event[s] <= schedule[s].anchor_at
    BY <1>a, <1>c, <2>1
  <2>6. event'[s] <= schedule'[s].anchor_at
    <3>1. CASE edit.anchor_at = Keep
      BY <2>1, <2>3, <2>5, <3>1 DEF Patched
    <3>2. CASE edit.anchor_at # Keep
      <4>1. edit.anchor_at \in Nat
        BY <1>a, <2>4, <3>2
      <4>2. event'[s] = edit.anchor_at /\ schedule'[s].anchor_at = edit.anchor_at
        BY <2>1, <2>3, <3>2 DEF Patched
      <4>. QED  BY <4>1, <4>2
    <3>. QED  BY <3>1, <3>2
  <2>7. \A t \in Schedule : schedule'[t] # Absent => event'[t] <= schedule'[t].anchor_at
    BY <2>1, <2>6
  <2>. QED  BY <1>a, <1>b, <2>1, <2>2, <2>7
<1>3. ASSUME NEW c \in Client, NEW s \in Schedule, NEW force \in BOOLEAN,
             MaterializeCheck(c, s, force)
      PROVE  SpacedInv'
  BY <1>3, <1>a DEF MaterializeCheck
<1>4. ASSUME NEW c \in Client, MaterializeBegin(c)
      PROVE  SpacedInv'
  BY <1>4, <1>a DEF MaterializeBegin
<1>5. ASSUME NEW c \in Client, MaterializeLock(c)
      PROVE  SpacedInv'
  <2>. DEFINE next == [call[c] EXCEPT !.at = "firing"]
  <2>1. call[c].at = "waiting" /\ UNCHANGED <<schedule, event, clock>>
    BY <1>5 DEF MaterializeLock
  <2>2. CASE Regate(c)
    <3>1. call' = [call EXCEPT ![c] = next]
      BY <1>5, <2>2 DEF MaterializeLock
    <3>2. next.s = call[c].s /\ next.at = "firing" /\ next.now = call[c].now /\ next.force = call[c].force
      BY <2>1, CallFields
    <3>3. call[c].force \/ Elapsed(call[c].s, call[c].now)
      BY <2>2 DEF Regate, Gate
    <3>. HIDE DEF next
    <3>. QED  BY <1>a, <2>1, <3>1, <3>2, <3>3
  <2>3. CASE ~Regate(c)
    <3>1. call' = [call EXCEPT ![c] = Idle]
      BY <1>5, <2>3 DEF MaterializeLock
    <3>. QED  BY <1>a, <2>1, <3>1 DEF Idle
  <2>. QED  BY <2>2, <2>3
<1>6. ASSUME NEW c \in Client, NEW w \in WorkItem, MaterializeCommit(c, w)
      PROVE  SpacedInv'
  <2>. DEFINE s == call[c].s
              row == AfterFiring(schedule[s], w, call[c].now)
  <2>1. /\ schedule' = [schedule EXCEPT ![s] = row]
        /\ event' = [event EXCEPT ![s] = IF schedule[s].anchor_mode = "created" THEN call[c].now ELSE event[s]]
        /\ call' = [call EXCEPT ![c] = Idle] /\ UNCHANGED clock
        /\ call[c].at = "firing"
    BY <1>6 DEF MaterializeCommit
  <2>2. s \in Schedule /\ schedule[s] \in ScheduleRow /\ call[c].now \in Nat
    BY <1>a, <1>b, <2>1, CallFields
  <2>3. row.anchor_at = IF schedule[s].anchor_mode = "created" THEN call[c].now ELSE schedule[s].anchor_at
    BY <2>2 DEF AfterFiring, ScheduleRow
  <2>4. \A d \in Client \ {c} : call[d].at = "firing" => call[d].s # s
    BY <2>1 DEF OnceInv, RowsAreExclusive
  <2>. HIDE DEF row
  <2>5. /\ \A t \in Schedule \ {s} : schedule'[t] = schedule[t] /\ event'[t] = event[t]
        /\ schedule'[s] = row
        /\ event'[s] = IF schedule[s].anchor_mode = "created" THEN call[c].now ELSE event[s]
        /\ \A d \in Client \ {c} : call'[d] = call[d]
        /\ call'[c] = Idle
    BY <1>a, <2>1, <2>2
  <2>6. event'[s] <= schedule'[s].anchor_at
    BY <1>a, <2>2, <2>3, <2>5
  <2>. HIDE DEF s
  <2>7. ASSUME NEW d \in Client \ {c}, call[d].at = "firing"
        PROVE  schedule'[call[d].s] = schedule[call[d].s]
    BY <1>b, <2>4, <2>5, <2>7
  <2>. QED  BY <1>a, <1>b, <2>1, <2>5, <2>6, <2>7 DEF Idle
<1>7. ASSUME NEW c \in Client, NEW w \in WorkItem, NEW to \in ItemStatuses,
             UpdateItemBegin(c, w, to)
      PROVE  SpacedInv'
  BY <1>7, <1>a DEF UpdateItemBegin
<1>8. ASSUME NEW c \in Client, UpdateItemCommit(c)
      PROVE  SpacedInv'
  <2>. DEFINE w == call[c].w
              r == Restarted(w, call[c].to)
              moment == call[c].now
  <2>1. /\ call' = [call EXCEPT ![c] = Idle] /\ UNCHANGED clock
        /\ \A s \in Schedule : schedule'[s] = IF s \in r THEN [schedule[s] EXCEPT !.anchor_at = moment] ELSE schedule[s]
        /\ \A s \in Schedule : event'[s] = IF s \in r /\ (Unfinished(w) \/ moment < event[s]) THEN moment ELSE event[s]
        /\ \A s \in r : ~Locked(s)
        /\ call[c].at = "patching"
    BY <1>8 DEF UpdateItemCommit
  <2>2. moment \in Nat
    BY <1>a, <2>1, CallFields
  <2>3. \A s \in r : s \in Schedule /\ schedule[s] # Absent
    BY DEF Restarted
  <2>. HIDE DEF w, r, moment
  <2>4. ASSUME NEW s \in Schedule, schedule'[s] # Absent PROVE event'[s] <= schedule'[s].anchor_at
    <3>1. CASE s \in r
      <4>1. schedule'[s].anchor_at = moment
        BY <1>a, <2>1, <2>3, <3>1 DEF ScheduleRow
      <4>2. event'[s] <= moment
        BY <1>a, <2>1, <2>2, <3>1
      <4>. QED  BY <4>1, <4>2
    <3>2. CASE s \notin r
      BY <2>1, <2>4, <3>2
    <3>. QED  BY <3>1, <3>2
  <2>5. \A d \in Client : call[d].at = "firing" => call[d].s \notin r
    BY <2>1 DEF Locked
  <2>. QED  BY <1>a, <1>b, <2>1, <2>4, <2>5 DEF Idle
<1>9. ASSUME NEW c \in Client, Abort(c)
      PROVE  SpacedInv'
  BY <1>9, <1>a DEF Abort, Idle
<1>10. ASSUME Tick
       PROVE  SpacedInv'
  BY <1>10, <1>a DEF Tick
<1>11. CASE UNCHANGED vars
  BY <1>11 DEF vars
<1>. QED
  BY <1>1, <1>2, <1>3, <1>4, <1>5, <1>6, <1>7, <1>8, <1>9, <1>10, <1>11 DEF Next

\* Unless forced, no recurring item is raised before its cadence has passed since the
\* event it counts from, whoever races whom (materialize_schedule, schedule_due_sql).
THEOREM RecurrencesAreSpaced == Spec => DrillsAreSpaced
<1>1. ASSUME TypeOK, CallsReferToRows, SpacedInv,
             NEW s \in Schedule, NEW c \in Client, call[c].at = "firing", call[c].s = s, ~call[c].force
      PROVE  event[s] + schedule[s].cadence <= clock
  <2>1. schedule[s] # Absent /\ schedule[s] \in ScheduleRow /\ event[s] \in Time /\ call[c].now \in Time
    BY <1>1, CallFields DEF CallsReferToRows, Materializing, TypeOK
  <2>2. event[s] \in Nat /\ call[c].now \in Nat /\ schedule[s].anchor_at \in Nat /\ schedule[s].cadence \in Nat
    BY <2>1, ScheduleAssumption DEF Time, ScheduleRow, Cadence
  <2>3. event[s] <= schedule[s].anchor_at /\ call[c].now = clock
        /\ schedule[s].anchor_at + schedule[s].cadence <= call[c].now
    BY <1>1, <2>1 DEF SpacedInv, InTransaction, Elapsed
  <2>. QED  BY <2>2, <2>3
<1>2. TypeOK /\ CallsReferToRows /\ SpacedInv
        => [\A s \in Schedule, c \in Client :
              /\ fired'[s] = fired[s] + 1 /\ schedule[s].cadence # Once
              /\ call[c].at = "firing" /\ call[c].s = s /\ ~call[c].force
              => event[s] + schedule[s].cadence <= clock]_vars
  BY <1>1
<1>. QED
  BY <1>2, TypeInit, TypeStep, OnceInit, OnceStep, SpacedInit, SpacedStep, PTL DEF Spec, DrillsAreSpaced

-------------------------------------------------------------------------------
(***************************************************************************)
(* The flow series.  What it says of a day that is over is computed from   *)
(* the items as they are now; that it is right rests on UnwalkInv, which   *)
(* says what the un-walk of each item will find.                           *)
(***************************************************************************)

ItemRow  == [status : Status, created : Nat, archived : BOOLEAN]
PatchRow == [item : Item, to : Status, at : Nat, from : Status \cup {None}]
MoveRow  == [item : Item, from : Status, to : Status, at : Nat]

FlowTypeOK ==
  /\ item \in [Item -> ItemRow \cup {None}]
  /\ log \in Seq(MoveRow)
  /\ now \in Nat
  /\ patch \in [Writer -> PatchRow \cup {None}]
  /\ pending \in [Item -> ItemRow \cup {None}]
  /\ past \in [0..(Today - 1) -> [Item -> Status \cup {None}]]
  /\ tangled \in SUBSET Item /\ belated \in SUBSET Item

\* Nothing is dated in the future, and a day's record has no item that is dated later.
\* It has all that are not, but for those that came late.
TimelyInv ==
  /\ \A i \in Item : Present(i) => item[i].created <= now
  /\ \A i \in Item : pending[i] # None => pending[i].created <= now /\ ~Present(i)
  /\ \A c \in Writer : patch[c] # None => patch[c].at <= now /\ Present(patch[c].item)
  /\ \A k \in DOMAIN log : log[k].at <= now /\ Present(log[k].item)
  /\ \A d \in 0..(Today - 1), i \in Item :
       past[d][i] # None => Present(i) /\ Day(item[i].created) <= d
  /\ \A d \in 0..(Today - 1), i \in Item \ belated :
       Present(i) /\ Day(item[i].created) <= d => past[d][i] # None

\* k is the first move of i after day d.
FirstAfter(i, d, k) ==
  /\ k \in MovesAfter(i, d)
  /\ \A j \in MovesAfter(i, d) : log[k].at < log[j].at \/ (log[k].at = log[j].at /\ k <= j)

\* The days an item counts for although it was committed after them.
Backdated(i, d) ==
  Present(i) /\ Day(item[i].created) <= d /\ past[d][i] = None /\ i \notin reborn

\* The statuses an un-walk of i to the end of day d may find: the one recorded then, or,
\* of an item that was not there yet, any it can have been created with.
Thens(i, d) == IF past[d][i] # None THEN {past[d][i]} ELSE Status \ {Closed}

\* What an un-walk to the end of day d will find.  While nothing has been logged since,
\* the item has a status it had then, and whoever has read it since has read that.
StillAsThen(i, d) ==
  /\ MovesAfter(i, d) = {}
  /\ item[i].status \in Thens(i, d)
  /\ \A c \in Writer :
       patch[c] # None /\ patch[c].item = i /\ patch[c].from # None /\ Day(patch[c].at) > d
         => patch[c].from \in Thens(i, d)

MovedSince(i, d) == \E k \in DOMAIN log : FirstAfter(i, d, k) /\ log[k].from \in Thens(i, d)

UnwalkInv ==
  \A i \in Item \ tangled, d \in Horizon..(Today - 1) :
    past[d][i] # None \/ Backdated(i, d) => StillAsThen(i, d) \/ MovedSince(i, d)


-------------------------------------------------------------------------------
(***************************************************************************)
(* Days.                                                                   *)
(***************************************************************************)

LEMMA DayIsNat == \A t \in Nat : Day(t) \in Nat
  BY FlowAssumption, SMTT(30) DEF Day

LEMMA DayGrows == \A t, u \in Nat : t <= u => Day(t) <= Day(u)
  BY FlowAssumption, SMTT(30) DEF Day

LEMMA DayAfterDay == \A t \in Nat : Day(t + 1) \in {Day(t), Day(t) + 1}
  BY FlowAssumption, SMTT(30) DEF Day

LEMMA TodayIsNat == FlowTypeOK => Today \in Nat
  BY DayIsNat DEF FlowTypeOK, Today

-------------------------------------------------------------------------------
(***************************************************************************)
(* Types, and what is dated when.                                          *)
(***************************************************************************)

\* What a commit adds to the log.
LoggedBy(p) == [item |-> p.item, from |-> p.from, to |-> p.to, at |-> p.at]
Silent(p)   == p.from = p.to \/ now < LogStart

LEMMA LogGrows ==
  ASSUME FlowTypeOK, NEW c \in Writer, PatchCommit(c)
  PROVE  /\ patch[c] \in PatchRow /\ patch[c].from \in Status
         /\ log' \in Seq(MoveRow)
         /\ Silent(patch[c]) => log' = log
         /\ ~Silent(patch[c]) =>
              /\ DOMAIN log' = DOMAIN log \cup {Len(log) + 1}
              /\ log'[Len(log) + 1] = LoggedBy(patch[c])
              /\ \A k \in DOMAIN log : log'[k] = log[k] /\ k \in Nat /\ k < Len(log) + 1
<1> DEFINE p == patch[c]
<1>1. p \in PatchRow /\ p.from \in Status
  BY DEF FlowTypeOK, PatchCommit, PatchRow
<1>2. LoggedBy(p) \in MoveRow
  BY <1>1 DEF LoggedBy, MoveRow, PatchRow
<1>3. log \in Seq(MoveRow)
  BY DEF FlowTypeOK
<1>4. log' = log \o LoggedMove(p.item, p.from, p.to, p.at)
  BY DEF PatchCommit
<1>5. CASE Silent(p)
  <2>1. LoggedMove(p.item, p.from, p.to, p.at) = <<>>
    BY <1>5 DEF Silent, LoggedMove
  <2>2. log' = log
    BY <1>3, <1>4, <2>1
  <2> QED
    BY <1>1, <1>3, <1>5, <2>2
<1>6. CASE ~Silent(p)
  <2>1. LoggedMove(p.item, p.from, p.to, p.at) = <<LoggedBy(p)>>
    BY <1>6 DEF Silent, LoggedMove, LoggedBy
  <2> DEFINE r == LoggedBy(p)
  <2>2. log' = log \o <<r>> /\ r \in MoveRow
    BY <1>2, <1>4, <2>1
  <2> HIDE DEF r
  <2>3. log' = Append(log, r)
    BY <1>3, <2>2
  <2>4. /\ log' \in Seq(MoveRow) /\ Len(log') = Len(log) + 1 /\ Len(log) \in Nat
        /\ log'[Len(log) + 1] = r /\ \A k \in 1..Len(log) : log'[k] = log[k]
    BY <1>3, <2>2, <2>3
  <2>5. DOMAIN log = 1..Len(log) /\ DOMAIN log' = 1..(Len(log) + 1)
    BY <1>3, <2>4
  <2> QED
    BY <1>1, <1>6, <2>4, <2>5 DEF r
<1> QED
  BY <1>5, <1>6

LEMMA LogTyped ==
  ASSUME FlowTypeOK, NEW k \in DOMAIN log
  PROVE  /\ k \in Nat /\ log[k] \in MoveRow
         /\ log[k].item \in Item /\ log[k].at \in Nat /\ log[k].to \in Status
<1>1. k \in Nat /\ log[k] \in MoveRow
  BY DEF FlowTypeOK
<1> QED
  BY <1>1 DEF MoveRow

LEMMA FlowBegins == FlowInit => FlowTypeOK /\ TimelyInv /\ UnwalkInv
<1> SUFFICES ASSUME FlowInit PROVE FlowTypeOK /\ TimelyInv /\ UnwalkInv
  OBVIOUS
<1>1. Today = 0
  BY FlowAssumption, SMTT(30) DEF FlowInit, Today, Day
<1>2. 0..(Today - 1) = {} /\ Horizon..(Today - 1) = {}
  BY <1>1, FlowAssumption
<1>3. past \in [0..(Today - 1) -> [Item -> Status \cup {None}]]
  BY <1>2 DEF FlowInit
<1>4. log \in Seq(MoveRow) /\ DOMAIN log = {}
  BY DEF FlowInit
<1> QED
  BY <1>2, <1>3, <1>4 DEF FlowInit, FlowTypeOK, TimelyInv, UnwalkInv, Present

\* A day that ends is recorded as it is.
LEMMA TickRecords ==
  ASSUME FlowTypeOK, ClockTick
  PROVE  /\ Today' \in {Today, Today + 1}
         /\ past' \in [0..(Today' - 1) -> [Item -> Status \cup {None}]]
         /\ \A d \in 0..(Today' - 1), i \in Item :
              past'[d][i] = IF d < Today THEN past[d][i]
                            ELSE IF Present(i) THEN item[i].status ELSE None
<1> DEFINE snap == [i \in Item |-> IF Present(i) THEN item[i].status ELSE None]
<1>1. now \in Nat /\ Today \in Nat /\ now' = now + 1
  BY TodayIsNat DEF FlowTypeOK, ClockTick
<1>2. snap \in [Item -> Status \cup {None}]
  BY DEF FlowTypeOK, Present, ItemRow
<1>3. CASE Today' = Today
  <2>1. past' = past
    BY <1>1, <1>3 DEF ClockTick, Today, Day
  <2> QED
    BY <1>1, <1>3, <2>1 DEF FlowTypeOK
<1>4. CASE Today' = Today + 1
  <2>1. past' = [d \in 0..Today |-> IF d < Today THEN past[d] ELSE snap]
    BY <1>1, <1>4 DEF ClockTick, Today, Day
  <2> HIDE DEF snap
  <2>2. past' \in [0..(Today' - 1) -> [Item -> Status \cup {None}]]
        /\ \A d \in 0..(Today' - 1) : past'[d] = IF d < Today THEN past[d] ELSE snap
    BY <1>1, <1>2, <1>4, <2>1 DEF FlowTypeOK
  <2> QED
    BY <1>4, <2>2 DEF snap
<1>5. Today' \in {Today, Today + 1}
  BY <1>1, DayAfterDay DEF Today, Day
<1> QED
  BY <1>3, <1>4, <1>5

LEMMA FlowTyped ==
  ASSUME FlowTypeOK, TimelyInv, [FlowNext]_flowVars
  PROVE  FlowTypeOK' /\ TimelyInv'
<1>0. /\ now \in Nat /\ Today \in Nat /\ None \notin Status /\ None \notin ItemRow
      /\ \A i \in Item : Present(i) => item[i] \in ItemRow
  BY TodayIsNat, FlowAssumption DEF FlowTypeOK, ItemRow, Present
<1>p. \A i \in Item : pending[i] # None => pending[i] \in ItemRow
  BY DEF FlowTypeOK
<1>1. ASSUME NEW i \in Item, NEW s \in Status, CreateBegin(i, s)
      PROVE  FlowTypeOK' /\ TimelyInv'
  <2> DEFINE row == [status |-> s, created |-> now, archived |-> FALSE]
  <2>1. row \in ItemRow /\ row.created = now
    BY <1>0 DEF ItemRow
  <2>2. pending' = [pending EXCEPT ![i] = row] /\ ~Present(i)
    BY <1>1 DEF CreateBegin
  <2> HIDE DEF row
  <2>3. pending' \in [Item -> ItemRow \cup {None}]
    BY <2>1, <2>2 DEF FlowTypeOK
  <2>4. UNCHANGED <<item, log, now, patch, past, tangled, belated, Today>>
    BY <1>1 DEF CreateBegin, Today
  <2>5. (\A j \in Item : pending[j] # None => pending[j].created <= now /\ ~Present(j))'
    BY <1>0, <2>1, <2>2, <2>4 DEF TimelyInv, Present, FlowTypeOK
  <2> QED
    BY <2>3, <2>4, <2>5 DEF FlowTypeOK, TimelyInv, Present
<1>8. ASSUME NEW i \in Item, CreateCommit(i)
      PROVE  FlowTypeOK' /\ TimelyInv'
  <2> DEFINE row == pending[i]
  <2>1. row \in ItemRow /\ row.created <= now /\ row.created \in Nat
    BY <1>8, <1>p DEF CreateCommit, TimelyInv, ItemRow
  <2>2. /\ item' = [item EXCEPT ![i] = row] /\ item[i] = None
        /\ pending' = [pending EXCEPT ![i] = None]
        /\ belated' = IF Day(row.created) # Today THEN belated \cup {i} ELSE belated
    BY <1>8 DEF CreateCommit, Present, TimelyInv
  <2> HIDE DEF row
  <2>3. item' \in [Item -> ItemRow \cup {None}] /\ pending' \in [Item -> ItemRow \cup {None}]
    BY <2>1, <2>2 DEF FlowTypeOK
  <2>4. /\ item'[i] = row /\ row # None /\ pending'[i] = None
        /\ \A j \in Item \ {i} : item'[j] = item[j] /\ pending'[j] = pending[j]
    BY <1>0, <2>1, <2>2 DEF FlowTypeOK
  <2>5. ASSUME NEW d \in 0..(Today - 1) PROVE past[d][i] = None
    BY <1>0, <2>2, <2>5 DEF TimelyInv, Present
  <2>6. UNCHANGED <<log, now, patch, past, tangled, Today>>
    BY <1>8 DEF CreateCommit, Today
  <2>7. FlowTypeOK'
    BY <2>2, <2>3, <2>6 DEF FlowTypeOK
  <2>8. (\A j \in Item : Present(j) => item[j].created <= now)'
    BY <2>1, <2>4, <2>6 DEF TimelyInv, Present
  <2>9. (\A c \in Writer : patch[c] # None => patch[c].at <= now /\ Present(patch[c].item))'
    BY <2>4, <2>6 DEF TimelyInv, Present, FlowTypeOK, PatchRow
  <2>10. (\A d \in 0..(Today - 1), j \in Item :
            past[d][j] # None => Present(j) /\ Day(item[j].created) <= d)'
    BY <2>4, <2>5, <2>6 DEF TimelyInv, Present, Day
  <2>11. (\A k \in DOMAIN log : log[k].at <= now /\ Present(log[k].item))'
    BY <2>2, <2>4, <2>6, LogTyped DEF TimelyInv, Present
  <2>12. (\A j \in Item : pending[j] # None => pending[j].created <= now /\ ~Present(j))'
    BY <2>4, <2>6 DEF TimelyInv, Present
  <2>13. (\A d \in 0..(Today - 1), j \in Item \ belated :
            Present(j) /\ Day(item[j].created) <= d => past[d][j] # None)'
    <3> SUFFICES ASSUME NEW d \in 0..(Today - 1), NEW j \in Item, j \notin belated',
                        item'[j] # None, Day(item'[j].created) <= d
                 PROVE  past[d][j] # None
      BY <2>6 DEF Present, Day
    <3>1. CASE j = i
      <4>1. Day(row.created) = Today
        BY <2>2, <3>1
      <4> QED
        BY <1>0, <2>4, <3>1, <4>1
    <3>2. CASE j # i
      BY <2>2, <2>4, <3>2 DEF TimelyInv, Present
    <3> QED
      BY <3>1, <3>2
  <2> QED
    BY <2>7, <2>8, <2>9, <2>10, <2>11, <2>12, <2>13 DEF TimelyInv
<1>2. ASSUME NEW c \in Writer, NEW i \in Item, NEW s \in Status, PatchBegin(c, i, s)
      PROVE  FlowTypeOK' /\ TimelyInv'
  <2> DEFINE p == [item |-> i, to |-> s, at |-> now, from |-> None]
  <2>1. p \in PatchRow /\ p.at = now /\ p.item = i
    BY <1>0 DEF PatchRow
  <2>2. patch' = [patch EXCEPT ![c] = p] /\ Present(i)
    BY <1>2 DEF PatchBegin
  <2>3. UNCHANGED <<item, log, now, pending, past, tangled, belated, Today>>
    BY <1>2 DEF PatchBegin, Today
  <2> HIDE DEF p
  <2>4. patch' \in [Writer -> PatchRow \cup {None}]
    BY <2>1, <2>2 DEF FlowTypeOK
  <2>5. (\A d \in Writer : patch[d] # None => patch[d].at <= now /\ Present(patch[d].item))'
    BY <1>0, <2>1, <2>2, <2>3 DEF TimelyInv, Present, FlowTypeOK
  <2> QED
    BY <2>3, <2>4, <2>5 DEF FlowTypeOK, TimelyInv, Present
<1>3. ASSUME NEW c \in Writer, PatchRead(c)
      PROVE  FlowTypeOK' /\ TimelyInv'
  <2> DEFINE st == item[patch[c].item].status
  <2>1. patch[c] \in PatchRow /\ patch[c] # None /\ st \in Status
    BY <1>0, <1>3 DEF PatchRead, FlowTypeOK, TimelyInv, PatchRow, ItemRow
  <2>2. patch' = [patch EXCEPT ![c] = [patch[c] EXCEPT !.from = st]]
    BY <1>3 DEF PatchRead
  <2> HIDE DEF st
  <2>3. /\ [patch[c] EXCEPT !.from = st] \in PatchRow
        /\ [patch[c] EXCEPT !.from = st].at = patch[c].at
        /\ [patch[c] EXCEPT !.from = st].item = patch[c].item
    BY <2>1 DEF PatchRow
  <2>4. UNCHANGED <<item, log, now, pending, past, tangled, belated, Today>>
    BY <1>3 DEF PatchRead, Today
  <2>5. patch' \in [Writer -> PatchRow \cup {None}]
    BY <2>2, <2>3 DEF FlowTypeOK
  <2>6. (\A d \in Writer : patch[d] # None => patch[d].at <= now /\ Present(patch[d].item))'
    BY <2>1, <2>2, <2>3, <2>4 DEF TimelyInv, Present, FlowTypeOK
  <2> QED
    BY <2>4, <2>5, <2>6 DEF FlowTypeOK, TimelyInv, Present
<1>4. ASSUME NEW c \in Writer, PatchCommit(c)
      PROVE  FlowTypeOK' /\ TimelyInv'
  <2> DEFINE p == patch[c]
  <2>1. p \in PatchRow /\ p.at <= now /\ item[p.item] \in ItemRow
    BY <1>0, <1>4, LogGrows DEF TimelyInv, PatchCommit, PatchRow
  <2>2. item' = [item EXCEPT ![p.item] = [item[p.item] EXCEPT !.status = p.to]]
        /\ patch' = [patch EXCEPT ![c] = None]
        /\ UNCHANGED <<now, pending, past, belated, Today>>
    BY <1>4 DEF PatchCommit, Today
  <2>3. /\ [item[p.item] EXCEPT !.status = p.to] \in ItemRow
        /\ [item[p.item] EXCEPT !.status = p.to].created = item[p.item].created
    BY <2>1 DEF ItemRow, PatchRow
  <2>4. tangled' \in SUBSET Item
    BY <1>4, <2>1 DEF PatchCommit, FlowTypeOK, PatchRow
  <2>5. item' \in [Item -> ItemRow \cup {None}] /\ patch' \in [Writer -> PatchRow \cup {None}]
    BY <2>1, <2>2, <2>3 DEF FlowTypeOK
  <2>6. FlowTypeOK'
    BY <1>4, <2>2, <2>4, <2>5, LogGrows DEF FlowTypeOK
  <2>7. \A i \in Item : /\ item'[i] # None <=> item[i] # None
                        /\ item'[i] # None => item'[i].created = item[i].created
    BY <1>0, <2>1, <2>2, <2>3 DEF FlowTypeOK, PatchRow
  <2>8. (\A i \in Item : Present(i) => item[i].created <= now)'
    BY <2>2, <2>7 DEF TimelyInv, Present
  <2>9. (\A d \in Writer : patch[d] # None => patch[d].at <= now /\ Present(patch[d].item))'
    BY <2>2, <2>7 DEF TimelyInv, Present, FlowTypeOK, PatchRow
  <2>10. /\ (\A d \in 0..(Today - 1), j \in Item :
               past[d][j] # None => Present(j) /\ Day(item[j].created) <= d)'
         /\ (\A d \in 0..(Today - 1), j \in Item \ belated :
               Present(j) /\ Day(item[j].created) <= d => past[d][j] # None)'
    BY <2>2, <2>7 DEF TimelyInv, Present, Day
  <2>12. (\A j \in Item : pending[j] # None => pending[j].created <= now /\ ~Present(j))'
    BY <2>2, <2>7 DEF TimelyInv, Present
  <2>11. (\A k \in DOMAIN log : log[k].at <= now /\ Present(log[k].item))'
    <3>0. \A k \in DOMAIN log : log[k].at <= now /\ item'[log[k].item] # None
      BY <2>7, LogTyped DEF TimelyInv, Present
    <3>1. CASE Silent(p)
      BY <1>4, <2>2, <3>0, <3>1, LogGrows DEF Present
    <3>2. CASE ~Silent(p)
      <4>1. LoggedBy(p).at <= now /\ item'[LoggedBy(p).item] # None
        BY <1>4, <2>1, <2>7 DEF LoggedBy, TimelyInv, Present, PatchRow, PatchCommit
      <4> QED
        BY <1>4, <2>2, <3>0, <3>2, <4>1, LogGrows DEF Present
    <3> QED
      BY <3>1, <3>2
  <2> QED
    BY <2>6, <2>8, <2>9, <2>10, <2>11, <2>12 DEF TimelyInv
<1>5. ASSUME NEW i \in Item, SetArchived(i)
      PROVE  FlowTypeOK' /\ TimelyInv'
  <2> DEFINE row == [item[i] EXCEPT !.archived = ~item[i].archived]
  <2>1. row \in ItemRow /\ row.created = item[i].created
    BY <1>0, <1>5 DEF SetArchived, ItemRow
  <2>2. item' = [item EXCEPT ![i] = row] /\ item[i] # None
    BY <1>5 DEF SetArchived, Present
  <2>3. UNCHANGED <<log, now, patch, pending, past, tangled, belated, Today>>
    BY <1>5 DEF SetArchived, Today
  <2> HIDE DEF row
  <2>4. item' \in [Item -> ItemRow \cup {None}]
    BY <2>1, <2>2 DEF FlowTypeOK
  <2>5. \A j \in Item : /\ item'[j] # None <=> item[j] # None
                        /\ item'[j].created = item[j].created
    BY <1>0, <2>1, <2>2 DEF FlowTypeOK
  <2>6. FlowTypeOK'
    BY <2>3, <2>4 DEF FlowTypeOK
  <2>7. (\A k \in DOMAIN log : log[k].at <= now /\ Present(log[k].item))'
    BY <2>3, <2>5, LogTyped DEF TimelyInv, Present
  <2>8. (\A c \in Writer : patch[c] # None => patch[c].at <= now /\ Present(patch[c].item))'
    BY <2>3, <2>5 DEF TimelyInv, Present, FlowTypeOK, PatchRow
  <2> QED
    BY <2>3, <2>5, <2>6, <2>7, <2>8 DEF TimelyInv, Present, Day
<1>6. CASE ClockTick
  <2>1. now' = now + 1 /\ UNCHANGED <<item, log, patch, pending, tangled, belated>>
    BY <1>6 DEF ClockTick
  <2>2. Today' \in {Today, Today + 1}
    BY <1>0, <2>1, DayAfterDay DEF Today, Day
  <2>3. /\ past' \in [0..(Today' - 1) -> [Item -> Status \cup {None}]]
        /\ \A d \in 0..(Today' - 1), i \in Item :
             past'[d][i] = IF d < Today THEN past[d][i]
                           ELSE IF Present(i) THEN item[i].status ELSE None
    BY <1>6, TickRecords
  <2>4. FlowTypeOK'
    BY <1>0, <2>1, <2>3 DEF FlowTypeOK
  <2>5. ASSUME NEW d \in 0..(Today' - 1), NEW i \in Item
        PROVE  /\ past'[d][i] # None => Present(i) /\ Day(item[i].created) <= d
               /\ i \notin belated /\ Present(i) /\ Day(item[i].created) <= d => past'[d][i] # None
    <3>1. CASE d < Today
      BY <1>0, <2>3, <3>1 DEF TimelyInv
    <3>2. CASE ~(d < Today)
      <4>1. d = Today
        <5> DEFINE t == Today
                   u == Today'
        <5>1. t \in Nat /\ u \in {t, t + 1} /\ d \in 0..(u - 1) /\ ~(d < t)
          BY <1>0, <2>2, <3>2
        <5> HIDE DEF t, u
        <5>2. d = t
          BY <5>1
        <5> QED
          BY <5>2 DEF t
      <4>2. Present(i) => item[i].status # None /\ item[i].created \in Nat
        BY <1>0 DEF ItemRow
      <4>3. Present(i) => Day(item[i].created) <= Today
        BY <1>0, <4>2, DayGrows DEF TimelyInv, Today
      <4> QED
        BY <2>3, <3>2, <4>1, <4>2, <4>3
    <3> QED
      BY <3>1, <3>2
  <2>6. /\ (\A d \in 0..(Today - 1), i \in Item :
              past[d][i] # None => Present(i) /\ Day(item[i].created) <= d)'
        /\ (\A d \in 0..(Today - 1), i \in Item \ belated :
              Present(i) /\ Day(item[i].created) <= d => past[d][i] # None)'
    BY <2>1, <2>5 DEF Present, Day
  <2>7. /\ \A i \in Item : Present(i) => item[i].created \in Nat
        /\ \A i \in Item : pending[i] # None => pending[i].created \in Nat
        /\ \A c \in Writer : patch[c] # None => patch[c].at \in Nat
        /\ \A k \in DOMAIN log : log[k].at \in Nat
    <3>1. \A i \in Item : Present(i) => item[i].created \in Nat
      BY <1>0 DEF ItemRow
    <3>2. \A c \in Writer : patch[c] # None => patch[c].at \in Nat
      BY DEF FlowTypeOK, PatchRow
    <3>3. \A i \in Item : pending[i] # None => pending[i].created \in Nat
      BY <1>p DEF ItemRow
    <3> QED
      BY <3>1, <3>2, <3>3, LogTyped
  <2>8. \A n \in Nat : n <= now => n <= now + 1
    BY <1>0
  <2> QED
    BY <2>1, <2>4, <2>6, <2>7, <2>8 DEF TimelyInv, Present
<1>7. CASE UNCHANGED flowVars
  BY <1>7 DEF flowVars, FlowTypeOK, TimelyInv, Present, Today, Day
<1> QED
  BY <1>1, <1>2, <1>3, <1>4, <1>5, <1>6, <1>7, <1>8 DEF FlowNext


-------------------------------------------------------------------------------
(***************************************************************************)
(* The un-walk.                                                            *)
(***************************************************************************)

\* An item that nobody writes, and whose moves stay the same, un-walks as before.
LEMMA UnwalkStays ==
  ASSUME FlowTypeOK, NEW i \in Item, NEW d \in Horizon..(Today - 1),
         log' = log, item'[i].status = item[i].status, past'[d][i] = past[d][i],
         \A c \in Writer : patch'[c] = patch[c] \/ patch'[c] = None \/ patch'[c].from = None
                             \/ patch'[c].from = item[i].status \/ patch'[c].item # i,
         StillAsThen(i, d) \/ MovedSince(i, d)
  PROVE  (StillAsThen(i, d) \/ MovedSince(i, d))'
<1>1. MovesAfter(i, d)' = MovesAfter(i, d) /\ Thens(i, d)' = Thens(i, d)
  BY DEF MovesAfter, Moves, Day, Thens
<1>2. CASE StillAsThen(i, d)
  BY <1>1, <1>2 DEF StillAsThen, Day
<1>3. CASE MovedSince(i, d)
  BY <1>1, <1>3 DEF MovedSince, FirstAfter
<1> QED
  BY <1>2, <1>3

LEMMA UnwalkCommits ==
  ASSUME FlowTypeOK, TimelyInv, NEW c \in Writer, PatchCommit(c),
         NEW i \in Item \ tangled', NEW d \in Horizon..(Today - 1),
         StillAsThen(i, d) \/ MovedSince(i, d)
  PROVE  (StillAsThen(i, d) \/ MovedSince(i, d))'
<1> DEFINE p == patch[c]
<1>n. PICK n \in Nat : n = Len(log) + 1
  BY DEF FlowTypeOK
<1>0. /\ p \in PatchRow /\ p.from \in Status /\ p # None /\ p.item \in Item
      /\ item[p.item] \in ItemRow /\ log \in Seq(MoveRow)
      /\ DOMAIN log = 1..(n - 1)
  BY <1>n, LogGrows, FlowAssumption
     DEF PatchCommit, TimelyInv, Present, PatchRow, FlowTypeOK, ItemRow
<1>1. /\ item' = [item EXCEPT ![p.item].status = p.to]
      /\ patch' = [patch EXCEPT ![c] = None]
      /\ UNCHANGED <<now, past, Today>> /\ Thens(i, d)' = Thens(i, d)
  BY DEF PatchCommit, Today, Thens
<1>2. \A e \in Writer : patch'[e] = patch[e] \/ patch'[e] = None
  BY <1>1 DEF FlowTypeOK
<1>3. i # p.item => item'[i].status = item[i].status
  BY <1>0, <1>1 DEF FlowTypeOK
<1>4. i = p.item => item'[i].status = p.to
  BY <1>0, <1>1 DEF FlowTypeOK, ItemRow
<1>5. i = p.item => /\ Day(p.at) = Today
                    /\ \A k \in DOMAIN log : log[k].item = i => ~(log[k].at > p.at)
  BY DEF PatchCommit, Misdated
<1>6. d < Today /\ d \in Nat /\ Horizon <= d /\ Today \in Nat
  BY FlowAssumption, TodayIsNat
<1>7. ~(now < LogStart)
  <2>1. now \in Nat /\ LogStart \in Nat /\ Day(LogStart) = Horizon
    BY FlowAssumption DEF FlowTypeOK, Day
  <2>2. now < LogStart => Today <= Horizon
    BY <2>1, DayGrows DEF Today
  <2> QED
    BY <1>6, <2>2, FlowAssumption
<1>8. CASE p.from = p.to
  <2>1. log' = log
    BY <1>8, LogGrows DEF Silent
  <2>2. CASE i # p.item
    BY <1>1, <1>2, <1>3, <2>1, <2>2, UnwalkStays
  <2>3. CASE i = p.item /\ MovedSince(i, d)
    <3>1. MovesAfter(i, d)' = MovesAfter(i, d)
      BY <2>1 DEF MovesAfter, Moves, Day
    <3> QED
      BY <1>1, <2>1, <2>3, <3>1 DEF MovedSince, FirstAfter
  <2>4. CASE i = p.item /\ StillAsThen(i, d)
    <3>1. p.from \in Thens(i, d)
      BY <1>0, <1>5, <1>6, <2>4, FlowAssumption DEF StillAsThen
    <3>2. MovesAfter(i, d)' = MovesAfter(i, d)
      BY <2>1 DEF MovesAfter, Moves, Day
    <3> QED
      BY <1>1, <1>2, <1>4, <1>8, <2>4, <3>1, <3>2 DEF StillAsThen, Day
  <2> QED
    BY <2>2, <2>3, <2>4
<1>9. CASE p.from # p.to
  <2>1. /\ DOMAIN log' = DOMAIN log \cup {n} /\ log'[n] = LoggedBy(p)
        /\ \A k \in DOMAIN log : log'[k] = log[k] /\ k \in Nat /\ k < n
    BY <1>7, <1>9, <1>n, LogGrows DEF Silent
  <2>2. log'[n].item = p.item /\ log'[n].from = p.from /\ log'[n].at = p.at /\ p.at \in Nat
    BY <1>0, <2>1 DEF LoggedBy, PatchRow
  <2>3. n \notin DOMAIN log
    BY <1>0, <2>1
  <2>4. CASE i # p.item
    <3>1. MovesAfter(i, d)' = MovesAfter(i, d)
      BY <2>1, <2>2, <2>4 DEF MovesAfter, Moves, Day
    <3>2. CASE StillAsThen(i, d)
      BY <1>1, <1>2, <1>3, <2>4, <3>1, <3>2 DEF StillAsThen, Day
    <3>3. CASE MovedSince(i, d)
      BY <1>1, <2>1, <3>1, <3>3 DEF MovedSince, FirstAfter, MovesAfter, Moves
    <3> QED
      BY <3>2, <3>3
  <2>5. CASE i = p.item
    <3>1. MovesAfter(i, d)' = MovesAfter(i, d) \cup {n}
      BY <1>5, <1>6, <2>1, <2>2, <2>5 DEF MovesAfter, Moves, Day
    <3>2. CASE MovesAfter(i, d) = {} /\ StillAsThen(i, d)
      <4>1. p.from \in Thens(i, d)
        BY <1>0, <1>5, <1>6, <2>5, <3>2, FlowAssumption DEF StillAsThen
      <4>2. FirstAfter(i, d, n)'
        BY <1>0, <3>1, <3>2 DEF FirstAfter
      <4> QED
        BY <1>1, <2>1, <2>2, <4>1, <4>2 DEF MovedSince
    <3>3. CASE MovedSince(i, d)
      <4>1. PICK k \in DOMAIN log : FirstAfter(i, d, k) /\ log[k].from \in Thens(i, d)
        BY <3>3 DEF MovedSince
      <4>2. log[k].at \in Nat /\ log[k].item = i /\ log[k].at <= p.at
        <5>1. log[k] \in MoveRow /\ log[k].item = i
          BY <1>0, <4>1 DEF FirstAfter, MovesAfter, Moves
        <5> QED
          BY <1>5, <2>2, <2>5, <5>1 DEF MoveRow
      <4>3. k < n /\ k \in Nat /\ log'[k] = log[k]
        BY <2>1
      <4>4. \A j \in MovesAfter(i, d) : j \in DOMAIN log /\ log'[j] = log[j]
        BY <2>1 DEF MovesAfter, Moves
      <4>5. log'[k].at < log'[n].at \/ (log'[k].at = log'[n].at /\ k <= n)
        BY <1>0, <2>2, <4>2, <4>3
      <4>6. FirstAfter(i, d, k)'
        BY <3>1, <4>1, <4>3, <4>4, <4>5 DEF FirstAfter
      <4> QED
        BY <1>1, <2>1, <4>1, <4>3, <4>6 DEF MovedSince
    <3> QED
      BY <3>2, <3>3 DEF StillAsThen
  <2> QED
    BY <2>4, <2>5
<1> QED
  BY <1>8, <1>9

LEMMA UnwalkInductive ==
  ASSUME FlowTypeOK, TimelyInv, UnwalkInv, [FlowNext]_flowVars
  PROVE  UnwalkInv'
<1> SUFFICES ASSUME NEW i \in Item, i \notin tangled', NEW d \in Horizon..(Today' - 1),
                    (past[d][i] # None \/ Backdated(i, d))'
             PROVE  (StillAsThen(i, d) \/ MovedSince(i, d))'
  BY DEF UnwalkInv
<1>0. /\ now \in Nat /\ Today \in Nat /\ None \notin Status /\ None \notin ItemRow
      /\ Horizon \in Nat
      /\ \A j \in Item : Present(j) => item[j] \in ItemRow
  BY TodayIsNat, FlowAssumption DEF FlowTypeOK, ItemRow, Present
<1>1. ASSUME d \in Horizon..(Today - 1), past'[d][i] = past[d][i], tangled \subseteq tangled',
             reborn \subseteq reborn',
             item'[i] # None => item[i] # None /\ item'[i].created = item[i].created
      PROVE  StillAsThen(i, d) \/ MovedSince(i, d)
  <2>1. past[d][i] # None \/ Backdated(i, d)
    BY <1>1 DEF Backdated, Present, Day
  <2> QED
    BY <1>1, <2>1 DEF UnwalkInv
<1>2. ASSUME NEW j \in Item, NEW s \in Status, CreateBegin(j, s)
      PROVE  (StillAsThen(i, d) \/ MovedSince(i, d))'
  <2>1. UNCHANGED <<item, log, patch, past, tangled, reborn, Today>>
    BY <1>2 DEF CreateBegin, Today
  <2> QED
    BY <1>1, <2>1, UnwalkStays
<1>9. ASSUME NEW j \in Item, CreateCommit(j)
      PROVE  (StillAsThen(i, d) \/ MovedSince(i, d))'
  <2>1. UNCHANGED <<log, patch, past, tangled, Today>> /\ reborn \subseteq reborn'
    BY <1>9 DEF CreateCommit, Today
  <2>2. CASE i # j
    <3>1. item'[i] = item[i]
      BY <1>9, <2>2 DEF CreateCommit, FlowTypeOK
    <3> QED
      BY <1>1, <2>1, <3>1, UnwalkStays
  <2>3. CASE i = j
    <3>1. ~Present(i) /\ pending[i] \in ItemRow /\ item'[i] = pending[i]
      BY <1>9, <2>3 DEF CreateCommit, TimelyInv, FlowTypeOK
    <3>2. past[d][i] = None /\ past' = past
      BY <1>0, <2>1, <3>1 DEF TimelyInv
    <3>3. i \notin reborn' /\ Thens(i, d)' = Status \ {Closed}
      BY <3>2 DEF Backdated, Thens
    <3>4. item'[i].status \in Status \ {Closed}
      BY <1>9, <2>3, <3>1, <3>3 DEF CreateCommit, ItemRow
    <3>5. MovesAfter(i, d)' = {}
      BY <2>1, <3>1 DEF MovesAfter, Moves, TimelyInv
    <3>6. \A c \in Writer : patch'[c] # None => patch'[c].item # i
      BY <2>1, <3>1 DEF TimelyInv
    <3> QED
      BY <3>3, <3>4, <3>5, <3>6 DEF StillAsThen
  <2> QED
    BY <2>2, <2>3
<1>3. ASSUME NEW c \in Writer, NEW j \in Item, NEW s \in Status, PatchBegin(c, j, s)
      PROVE  (StillAsThen(i, d) \/ MovedSince(i, d))'
  <2>1. UNCHANGED <<item, log, past, tangled, reborn, Today>>
    BY <1>3 DEF PatchBegin, Today
  <2>2. StillAsThen(i, d) \/ MovedSince(i, d)
    BY <1>1, <2>1
  <2>3. \A e \in Writer : patch'[e] = patch[e] \/ patch'[e].from = None
    BY <1>3 DEF PatchBegin, FlowTypeOK
  <2> QED
    BY <2>1, <2>2, <2>3, UnwalkStays
<1>4. ASSUME NEW c \in Writer, PatchRead(c)
      PROVE  (StillAsThen(i, d) \/ MovedSince(i, d))'
  <2>1. UNCHANGED <<item, log, past, tangled, reborn, Today>>
    BY <1>4 DEF PatchRead, Today
  <2>2. StillAsThen(i, d) \/ MovedSince(i, d)
    BY <1>1, <2>1
  <2>3. patch[c] \in PatchRow
    BY <1>4 DEF PatchRead, FlowTypeOK
  <2>4. patch'[c].item = patch[c].item /\ patch'[c].from = item[patch[c].item].status
        /\ \A e \in Writer \ {c} : patch'[e] = patch[e]
    BY <1>4, <2>3 DEF PatchRead, FlowTypeOK, PatchRow
  <2> QED
    BY <2>1, <2>2, <2>4, UnwalkStays
<1>5. ASSUME NEW c \in Writer, PatchCommit(c)
      PROVE  (StillAsThen(i, d) \/ MovedSince(i, d))'
  <2>1. UNCHANGED <<past, Today>> /\ tangled \subseteq tangled' /\ reborn \subseteq reborn'
    BY <1>5 DEF PatchCommit, Today
  <2>3. item'[i] # None => item[i] # None /\ item'[i].created = item[i].created
    <3> DEFINE row == [item[patch[c].item] EXCEPT !.status = patch[c].to]
    <3>1. /\ patch[c].item \in Item /\ item[patch[c].item] \in ItemRow
          /\ item' = [item EXCEPT ![patch[c].item] = row]
      BY <1>0, <1>5, LogGrows DEF PatchCommit, TimelyInv, PatchRow
    <3>2. row.created = item[patch[c].item].created
      BY <3>1 DEF ItemRow
    <3> HIDE DEF row
    <3> QED
      BY <1>0, <3>1, <3>2 DEF FlowTypeOK
  <2>2. StillAsThen(i, d) \/ MovedSince(i, d)
    BY <1>1, <2>1, <2>3
  <2> QED
    BY <1>5, <2>1, <2>2, UnwalkCommits
<1>6. ASSUME NEW j \in Item, SetArchived(j)
      PROVE  (StillAsThen(i, d) \/ MovedSince(i, d))'
  <2>1. UNCHANGED <<log, patch, past, tangled, reborn, Today>>
    BY <1>6 DEF SetArchived, Today
  <2>2. /\ item'[i].status = item[i].status
        /\ item'[i] # None => item[i] # None /\ item'[i].created = item[i].created
    <3> DEFINE row == [item[j] EXCEPT !.archived = ~item[j].archived]
    <3>1. item' = [item EXCEPT ![j] = row] /\ item[j] \in ItemRow
      BY <1>0, <1>6 DEF SetArchived
    <3>2. row.created = item[j].created /\ row.status = item[j].status
      BY <3>1 DEF ItemRow
    <3> HIDE DEF row
    <3> QED
      BY <1>0, <3>1, <3>2 DEF FlowTypeOK
  <2>3. StillAsThen(i, d) \/ MovedSince(i, d)
    BY <1>1, <2>1, <2>2
  <2> QED
    BY <2>1, <2>2, <2>3, UnwalkStays
<1>7. CASE ClockTick
  <2>1. now' = now + 1 /\ UNCHANGED <<item, log, patch, tangled, reborn>>
    BY <1>7 DEF ClockTick
  <2>2. /\ d \in Horizon..Today /\ d \in Nat
        /\ past'[d][i] = IF d < Today THEN past[d][i]
                         ELSE IF Present(i) THEN item[i].status ELSE None
    <3> DEFINE t == Today
               u == Today'
    <3>1. t \in Nat /\ u \in {t, t + 1} /\ d \in Horizon..(u - 1)
      BY <1>0, <1>7, TickRecords
    <3> HIDE DEF t, u
    <3>2. d \in Horizon..t /\ d \in 0..(u - 1) /\ d \in Nat
      BY <1>0, <3>1
    <3> QED
      BY <1>7, <3>2, TickRecords DEF t, u
  <2>3. CASE d < Today
    <3>2. d \in Horizon..(Today - 1)
      BY <1>0, <2>2, <2>3
    <3>1. StillAsThen(i, d) \/ MovedSince(i, d)
      BY <1>1, <2>1, <2>2, <2>3, <3>2
    <3> QED
      BY <2>1, <2>2, <2>3, <3>1, <3>2, UnwalkStays
  <2>4. CASE ~(d < Today)
    <3>0. d = Today /\ past'[d][i] = IF Present(i) THEN item[i].status ELSE None
      BY <1>0, <2>2, <2>4
    <3>1. Present(i) /\ d = Today /\ past'[d][i] = item[i].status
      <4>1. Backdated(i, d)' => Present(i)
        BY <2>1 DEF Backdated, Present
      <4>2. past'[d][i] # None => Present(i)
        BY <3>0
      <4> QED
        BY <3>0, <4>1, <4>2
    <3>2. \A k \in DOMAIN log : ~(Day(log[k].at) > d)
      <4>1. \A k \in DOMAIN log : log[k] \in MoveRow /\ log[k].at <= now
        BY DEF FlowTypeOK, TimelyInv
      <4> QED
        BY <1>0, <3>1, <4>1, DayGrows, DayIsNat DEF Today, MoveRow
    <3>3. \A c \in Writer : patch[c] # None => ~(Day(patch[c].at) > d)
      <4>1. \A c \in Writer : patch[c] # None => patch[c].at \in Nat /\ patch[c].at <= now
        BY DEF FlowTypeOK, TimelyInv, PatchRow
      <4> QED
        BY <1>0, <3>1, <4>1, DayGrows, DayIsNat DEF Today
    <3>4. MovesAfter(i, d)' = {}
      BY <2>1, <3>2 DEF MovesAfter, Moves, Day
    <3>5. past'[d][i] # None
      BY <1>0, <3>1 DEF ItemRow
    <3>6. item'[i].status \in Thens(i, d)'
      BY <2>1, <3>1, <3>5 DEF Thens
    <3> QED
      BY <2>1, <3>3, <3>4, <3>6 DEF StillAsThen, Day
  <2> QED
    BY <2>3, <2>4
<1>8. CASE UNCHANGED flowVars
  <2>1. UNCHANGED <<item, log, past, patch, tangled, reborn, Today>>
    BY <1>8 DEF flowVars, Today, Day
  <2> QED
    BY <1>1, <2>1, UnwalkStays
<1> QED
  BY <1>2, <1>3, <1>4, <1>5, <1>6, <1>7, <1>8, <1>9 DEF FlowNext


\* The un-walk finds a status the item had.
LEMMA UnwalkFinds ==
  ASSUME FlowTypeOK, NEW i \in Item, NEW d, StillAsThen(i, d) \/ MovedSince(i, d)
  PROVE  StatusAt(i, d) \in Thens(i, d)
<1>1. CASE StillAsThen(i, d)
  BY <1>1 DEF StillAsThen, StatusAt
<1>2. CASE MovedSince(i, d)
  <2>1. PICK k \in DOMAIN log : FirstAfter(i, d, k) /\ log[k].from \in Thens(i, d)
    BY <1>2 DEF MovedSince
  <2> DEFINE K == MovesAfter(i, d)
             e == Earliest(K)
  <2>2. K \subseteq DOMAIN log /\ k \in K
    BY <2>1 DEF MovesAfter, Moves, FirstAfter
  <2>3. FirstAfter(i, d, e)
    BY <2>1, <2>2 DEF Earliest, FirstAfter
  <2>4. \A j \in DOMAIN log : j \in Nat /\ log[j].at \in Nat
    BY LogTyped
  <2>5. e \in K
    BY <2>3 DEF FirstAfter
  <2> HIDE DEF K, e
  <2>6. /\ log[k].at < log[e].at \/ (log[k].at = log[e].at /\ k <= e)
        /\ log[e].at < log[k].at \/ (log[e].at = log[k].at /\ e <= k)
    BY <2>1, <2>2, <2>3, <2>5 DEF FirstAfter, K
  <2>7. e = k
    BY <2>2, <2>4, <2>5, <2>6
  <2> QED
    BY <2>1, <2>2, <2>7 DEF StatusAt, K, e
<1> QED
  BY <1>1, <1>2

FlowInv == FlowTypeOK /\ TimelyInv /\ UnwalkInv

LEMMA FlowHolds == FlowSpec => []FlowInv
<1>1. FlowInit => FlowInv
  BY FlowBegins DEF FlowInv
<1>2. FlowInv /\ [FlowNext]_flowVars => FlowInv'
  BY FlowTyped, UnwalkInductive DEF FlowInv
<1> QED
  BY <1>1, <1>2, PTL DEF FlowSpec

\* The items served as open at the end of a day are those dated by then that were not
\* closed; without items that came late, or were created closed, at any rate.
LEMMA OpenAsDated ==
  ASSUME FlowInv, tangled = {}, belated = {} \/ reborn = {}, NEW d \in Horizon..(Today - 1)
  PROVE  OpenAt(d) = {i \in Counted : Day(item[i].created) <= d /\ past[d][i] # Closed}
<1>1. d \in 0..(Today - 1) /\ None # Closed
  BY FlowAssumption, TodayIsNat DEF FlowInv
<1>2. ASSUME NEW i \in Counted, Day(item[i].created) <= d
      PROVE  StatusAt(i, d) # Closed <=> past[d][i] # Closed
  <2>1. i \in Item /\ Present(i)
    BY DEF Counted
  <2>2. past[d][i] # None \/ Backdated(i, d)
    BY <1>1, <1>2, <2>1 DEF FlowInv, TimelyInv, Backdated
  <2>3. StatusAt(i, d) \in Thens(i, d)
    BY <2>1, <2>2, UnwalkFinds DEF FlowInv, UnwalkInv
  <2> QED
    BY <1>1, <2>3 DEF Thens
<1> QED
  BY <1>2 DEF OpenAt

\* Without items that came late, they are those that were open then.
LEMMA OpenAsThen ==
  ASSUME FlowInv, tangled = {}, belated = {}, NEW d \in Horizon..(Today - 1)
  PROVE  OpenAt(d) = {i \in Counted : past[d][i] \notin {None, Closed}}
<1>1. d \in 0..(Today - 1)
  BY FlowAssumption, TodayIsNat DEF FlowInv
<1>2. \A i \in Counted : past[d][i] # None <=> Day(item[i].created) <= d
  BY <1>1 DEF FlowInv, TimelyInv, Counted
<1> QED
  BY <1>2, OpenAsDated

LEMMA MaxOfTwo ==
  ASSUME NEW a \in Int, NEW b \in Int
  PROVE  Max({a, b}) \in Int /\ Max({a, b}) >= a /\ Max({a, b}) >= b
<1>1. \E x \in {a, b} : \A y \in {a, b} : x >= y
  OBVIOUS
<1>2. Max({a, b}) \in {a, b} /\ \A y \in {a, b} : Max({a, b}) >= y
  BY <1>1 DEF Max
<1> QED
  BY <1>2

LEMMA MinOfTwo ==
  ASSUME NEW a \in Int, NEW b \in Int
  PROVE  Min({a, b}) \in Int
<1>1. \E x \in {a, b} : \A y \in {a, b} : x <= y
  OBVIOUS
<1>2. Min({a, b}) \in {a, b}
  BY <1>1 DEF Min
<1> QED
  BY <1>2

LEMMA MinOfNaturals ==
  ASSUME NEW S \in SUBSET Nat, S # {}
  PROVE  Min(S) \in S /\ \A y \in S : Min(S) <= y
<1>1. PICK x \in S : \A y \in S : ~(<<y, x>> \in OpToRel(<, Nat))
  BY NatLessThanWellFounded, WFMin
<1>2. ASSUME NEW y \in S PROVE x <= y
  <2>1. x \in Nat /\ y \in Nat
    OBVIOUS
  <2>2. ~(y < x)
    BY <1>1, <2>1 DEF OpToRel
  <2> QED
    BY <2>1, <2>2
<1> QED
  BY <1>2 DEF Min

LEMMA MaxOfBounded ==
  ASSUME NEW n \in Nat, NEW S \in SUBSET Nat, \A x \in S : x <= n, S # {}
  PROVE  Max(S) \in S /\ \A y \in S : Max(S) >= y
<1> DEFINE below == {n - x : x \in S}
<1>1. \A x \in S : x \in Nat /\ x <= n /\ n - x \in Nat
  OBVIOUS
<1>2. below \in SUBSET Nat /\ below # {}
  BY <1>1
<1>3. Min(below) \in below /\ \A y \in below : Min(below) <= y
  <2> HIDE DEF below
  <2> QED
    BY <1>2, MinOfNaturals
<1>4. PICK x \in S : Min(below) = n - x
  BY <1>3
<1>5. ASSUME NEW y \in S PROVE x >= y
  <2>1. n - x <= n - y
    BY <1>3, <1>4
  <2> QED
    BY <1>1, <2>1
<1> QED
  BY <1>5 DEF Max

LEMMA SeriesIsPast ==
  ASSUME FlowTypeOK, NEW w \in Windows, NEW d \in SeriesDays(w) \ {Today}
  PROVE  d \in Horizon..(Today - 1)
<1>1. Today \in Nat /\ Horizon \in Nat /\ w \in Nat
  BY TodayIsNat, FlowAssumption
<1> DEFINE m == Min({w, Today - Horizon + 1})
<1>2. m \in Int
  BY <1>1, MinOfTwo
<1> HIDE DEF m
<1>3. StartDay(w) \in Int
  BY <1>1, <1>2 DEF StartDay, m
<1> DEFINE s == StartDay(w) - 1
           M == Max({s, Horizon})
<1>4. M \in Int /\ M >= Horizon
  <2>1. s \in Int /\ Horizon \in Int
    BY <1>1, <1>3
  <2> HIDE DEF s
  <2> QED
    BY <2>1, MaxOfTwo
<1>5. d \in M..Today /\ d # Today
  BY DEF SeriesDays
<1> HIDE DEF M
<1> QED
  BY <1>1, <1>4, <1>5

\* The backlog served for a day that is over is the one there was, for any number of
\* items, writers and days, however patches overlapped within a day, where no
\* creation has spanned midnight.
THEOREM UnwalkIsHistory == FlowSpec => []BacklogIsHistory
<1>1. FlowInv => BacklogIsHistory
  <2> SUFFICES ASSUME FlowInv, tangled = {}, belated = {}, NEW w \in Windows,
                      NEW d \in SeriesDays(w) \ {Today}
               PROVE  Row(d).backlog
                        = Cardinality({i \in Counted : past[d][i] \notin {None, Closed}})
    BY DEF BacklogIsHistory
  <2>1. d \in Horizon..(Today - 1)
    BY SeriesIsPast DEF FlowInv
  <2>2. Row(d).backlog = Cardinality(OpenAt(d))
    BY DEF Row
  <2> QED
    BY <2>1, <2>2, OpenAsThen
<1> QED
  BY <1>1, FlowHolds, PTL


-------------------------------------------------------------------------------
(***************************************************************************)
(* Closures.                                                               *)
(***************************************************************************)

LEMMA ClosingsTyped ==
  ASSUME FlowInv, NEW i \in Item
  PROVE  /\ Closings(i) \in SUBSET Nat /\ \A t \in Closings(i) : t <= now
         /\ Closings(i) # {} => Present(i)
  BY LogTyped DEF FlowInv, TimelyInv, Closings, Moves

\* The two halves of the churn split agree, for any items, days and window.
THEOREM SplitAgrees == FlowSpec => []DurableSplitAgrees
<1>1. FlowInv => DurableSplitAgrees
  <2> SUFFICES ASSUME FlowInv, NEW d, NEW e, NEW i \in DurableCloses(d) \cap ArrivedOn(e)
               PROVE  i \in DurableArrivals(e)
    BY DEF DurableSplitAgrees
  <2>1. i \in Item /\ Present(i) /\ i \in ArrivedOn(e)
    BY DEF DurableCloses, Counted
  <2>2. PICK t \in DayCloses(i) : Durable(item[i].created, t)
    BY DEF DurableCloses
  <2>3. t \in Closings(i)
    BY DEF DayCloses
  <2>4. /\ t \in Nat /\ t <= now /\ now \in Nat
        /\ item[i].created \in Nat
    BY <2>1, <2>3, ClosingsTyped DEF FlowInv, FlowTypeOK, Present, ItemRow
  <2>5. LifeEnd(i) \in Nat /\ LifeEnd(i) >= t
    <3>1. CASE item[i].status = Closed
      <4>1. /\ Closings(i) \in SUBSET Nat /\ Closings(i) # {}
            /\ \A x \in Closings(i) : x <= now
        BY <2>1, <2>3, ClosingsTyped
      <4>2. Max(Closings(i)) \in Closings(i) /\ Max(Closings(i)) >= t
        BY <2>3, <2>4, <4>1, MaxOfBounded
      <4> QED
        BY <3>1, <4>1, <4>2 DEF LifeEnd
    <3>2. CASE item[i].status # Closed
      BY <2>4, <3>2 DEF LifeEnd
    <3> QED
      BY <3>1, <3>2
  <2> DEFINE long == DurableAfter * TicksPerDay
             a == item[i].created
             l == LifeEnd(i)
  <2>6. long \in Nat
    BY FlowAssumption
  <2>7. t - a > long
    BY <2>2 DEF Durable
  <2>8. l - a > long
    <3>1. a \in Nat /\ l \in Nat /\ l >= t
      BY <2>4, <2>5
    <3> HIDE DEF long, a, l
    <3> QED
      BY <2>4, <2>6, <2>7, <3>1
  <2> QED
    BY <2>1, <2>8 DEF DurableArrivals, Durable
<1> QED
  BY <1>1, FlowHolds, PTL

\* What a step does to the items there are, as far as past days can tell.
LEMMA StepKeepsItems ==
  ASSUME FlowInv, [FlowNext]_flowVars, NEW i \in Item
  PROVE  Present(i) => Present(i)' /\ item'[i].created = item[i].created
<1>0. None \notin ItemRow
  BY FlowAssumption DEF ItemRow
<1>1. ASSUME NEW j \in Item, CreateCommit(j)
      PROVE  Present(i) => item'[i] = item[i]
  BY <1>1 DEF CreateCommit, Present, FlowInv, FlowTypeOK, TimelyInv
<1>2. ASSUME NEW c \in Writer, PatchCommit(c)
      PROVE  item[i] # None => item'[i] # None /\ item'[i].created = item[i].created
  <2>1. /\ patch[c].item \in Item /\ item[patch[c].item] \in ItemRow
        /\ patch[c].to \in Status
    BY <1>2, LogGrows DEF FlowInv, FlowTypeOK, TimelyInv, PatchCommit, Present, PatchRow
  <2> DEFINE row == [item[patch[c].item] EXCEPT !.status = patch[c].to]
  <2>2. item' = [item EXCEPT ![patch[c].item] = row]
    BY <1>2 DEF PatchCommit
  <2>3. row \in ItemRow /\ row.created = item[patch[c].item].created
    BY <2>1 DEF ItemRow
  <2> HIDE DEF row
  <2> QED
    BY <1>0, <2>1, <2>2, <2>3 DEF FlowInv, FlowTypeOK
<1>3. ASSUME NEW j \in Item, SetArchived(j)
      PROVE  item[i] # None => item'[i] # None /\ item'[i].created = item[i].created
  <2> DEFINE row == [item[j] EXCEPT !.archived = ~item[j].archived]
  <2>1. item' = [item EXCEPT ![j] = row] /\ item[j] \in ItemRow
    BY <1>3 DEF SetArchived, Present, FlowInv, FlowTypeOK
  <2>2. row \in ItemRow /\ row.created = item[j].created
    BY <2>1 DEF ItemRow
  <2> HIDE DEF row
  <2> QED
    BY <1>0, <2>1, <2>2 DEF FlowInv, FlowTypeOK
<1> QED
  BY <1>1, <1>2, <1>3 DEF FlowNext, flowVars, CreateBegin, PatchBegin, PatchRead, ClockTick, Present

\* What has been recorded of a day that is over stays.
LEMMA PastIsKept ==
  ASSUME FlowInv, [FlowNext]_flowVars, NEW d \in Horizon..(Today - 1)
  PROVE  /\ d \in Horizon..(Today' - 1) /\ past'[d] = past[d]
         /\ tangled \subseteq tangled' /\ belated \subseteq belated'
<1>0. Today \in Nat /\ Horizon \in Nat /\ FlowTypeOK
  BY TodayIsNat, FlowAssumption DEF FlowInv
<1>1. CASE ClockTick
  <2>1. Today' \in {Today, Today + 1} /\ tangled' = tangled /\ belated' = belated
    BY <1>0, <1>1, TickRecords DEF ClockTick
  <2>2. past'[d] = past[d]
    <3>1. CASE past' = past
      BY <3>1
    <3>2. CASE past' # past
      <4> DEFINE snap == [i \in Item |-> IF Present(i) THEN item[i].status ELSE None]
      <4>1. past' = [e \in 0..Today |-> IF e < Today THEN past[e] ELSE snap]
        BY <1>1, <3>2 DEF ClockTick
      <4>2. d \in 0..Today /\ d < Today
        BY <1>0
      <4> HIDE DEF snap
      <4> QED
        BY <4>1, <4>2
    <3> QED
      BY <3>1, <3>2
  <2> DEFINE t == Today
             u == Today'
  <2>3. t \in Nat /\ u \in {t, t + 1} /\ d \in Horizon..(t - 1)
    BY <1>0, <2>1
  <2> HIDE DEF t, u
  <2>4. d \in Horizon..(u - 1)
    BY <1>0, <2>3
  <2> QED
    BY <2>1, <2>2, <2>4 DEF u
<1>2. CASE ~ClockTick
  <2>1. UNCHANGED <<now, past>> /\ tangled \subseteq tangled' /\ belated \subseteq belated'
    BY <1>2 DEF FlowNext, flowVars, CreateBegin, CreateCommit, PatchBegin, PatchRead, PatchCommit,
       SetArchived
  <2>2. Today' = Today
    BY <2>1 DEF Today
  <2> QED
    BY <2>1, <2>2
<1> QED
  BY <1>1, <1>2

\* No closure is dated on a day that is over, unless its patch was.
LEMMA PastClosingsStay ==
  ASSUME FlowInv, [FlowNext]_flowVars, tangled' = {}, NEW i \in Item, NEW t \in Nat,
         Day(t) < Today
  PROVE  t \in Closings(i)' <=> t \in Closings(i)
<1>1. CASE log' = log
  BY <1>1 DEF Closings, Moves
<1>2. ASSUME NEW c \in Writer, PatchCommit(c), log' # log
      PROVE  t \in Closings(i)' <=> t \in Closings(i)
  <2> DEFINE n == Len(log) + 1
  <2>1. /\ DOMAIN log' = DOMAIN log \cup {n} /\ log'[n] = LoggedBy(patch[c])
        /\ \A k \in DOMAIN log : log'[k] = log[k] /\ k < n
    BY <1>2, LogGrows DEF FlowInv
  <2>2. log'[n].at = patch[c].at
    BY <2>1 DEF LoggedBy
  <2>3. Day(patch[c].at) = Today
    BY <1>2 DEF PatchCommit, Misdated
  <2>4. log'[n].at # t
    BY <2>2, <2>3, TodayIsNat DEF FlowInv
  <2> HIDE DEF n
  <2>5. t \in Closings(i) <=> \E k \in DOMAIN log : /\ log[k].item = i /\ log[k].to = Closed
                                                   /\ log[k].at = t
    BY DEF Closings, Moves
  <2>6. t \in Closings(i)' <=> \E k \in DOMAIN log' : /\ log'[k].item = i /\ log'[k].to = Closed
                                                     /\ log'[k].at = t
    BY DEF Closings, Moves
  <2> QED
    BY <2>1, <2>4, <2>5, <2>6
<1> QED
  BY <1>1, <1>2 DEF FlowNext, flowVars, CreateBegin, CreateCommit, PatchBegin, PatchRead,
     SetArchived, ClockTick

\* A day that is over is over: no later call changes what the series says of its closures,
\* the items' archiving apart, nor of its backlog while no creation has spanned midnight.
THEOREM PastStands == FlowSpec => PastDaysStand
<1> DEFINE OpenThen == FlowInv /\ tangled = {} /\ belated = {} =>
             \A d \in Horizon..(Today - 1) : OpenAt(d) = {i \in Counted : past[d][i] \notin {None, Closed}}
           TypedThen ==
             FlowInv => \A i \in Item : Closings(i) \in SUBSET Nat
<1>o. OpenThen
  BY OpenAsThen
<1>c. TypedThen
  BY ClosingsTyped
<1>p. OpenThen' /\ TypedThen'
  BY <1>o, <1>c, PTL
<1>1. ASSUME FlowInv, FlowInv', [FlowNext]_flowVars, tangled' = {},
             \A i \in Item : Present(i) => item'[i].archived = item[i].archived,
             NEW d \in Horizon..(Today - 1)
      PROVE  /\ belated' = {} => Row(d).backlog' = Row(d).backlog
             /\ Row(d).closed' = Row(d).closed
             /\ Row(d).closed_durable' = Row(d).closed_durable
  <2>0. /\ Today \in Nat /\ Horizon \in Nat /\ d \in Nat /\ d < Today /\ d \in 0..(Today - 1)
        /\ d \in Horizon..(Today' - 1) /\ past'[d] = past[d] /\ tangled = {}
        /\ (belated' = {} => belated = {})
    BY <1>1, TodayIsNat, FlowAssumption, PastIsKept DEF FlowInv
  <2>1. ASSUME NEW i \in Item, Present(i)
        PROVE  (i \in Counted' <=> i \in Counted) /\ item'[i].created = item[i].created
    BY <1>1, <2>1, StepKeepsItems DEF Counted, Present
  <2>2. ASSUME belated' = {} PROVE OpenAt(d)' = OpenAt(d)
    <3>1. OpenAt(d) = {i \in Counted : past[d][i] \notin {None, Closed}}
      BY <1>1, <2>0, <2>2, OpenAsThen
    <3>2. OpenAt(d)' = {i \in Counted' : past[d][i] \notin {None, Closed}}
      BY <1>1, <1>p, <2>0, <2>2
    <3>3. \A i \in Item : past[d][i] # None => Present(i)
      BY <1>1, <2>0 DEF FlowInv, TimelyInv
    <3> QED
      BY <2>1, <3>1, <3>2, <3>3 DEF Counted
  <2>3. ASSUME NEW i \in Item, NEW t, Day(t) = d, t \in DayCloses(i) \/ t \in DayCloses(i)'
        PROVE  /\ t \in DayCloses(i) /\ t \in DayCloses(i)'
               /\ Present(i)
    <3>1. Closings(i) \in SUBSET Nat /\ Closings(i)' \in SUBSET Nat
      BY <1>1, <1>c, <1>p
    <3>2. \A u \in Nat : Day(u) = d => (u \in Closings(i)' <=> u \in Closings(i))
      BY <1>1, <2>0, PastClosingsStay
    <3>3. t \in Nat
      BY <2>3, <3>1 DEF DayCloses
    <3>4. t \in Closings(i) /\ t \in Closings(i)'
      BY <2>3, <3>2, <3>3 DEF DayCloses
    <3>5. \A u \in Nat : Day(u) = Day(t) => (u \in Closings(i)' <=> u \in Closings(i))
      BY <2>3, <3>2
    <3>6. t \in DayCloses(i) <=> t \in DayCloses(i)'
      BY <3>1, <3>4, <3>5 DEF DayCloses, Day
    <3> QED
      BY <1>1, <2>3, <3>4, <3>6, ClosingsTyped
  <2>4. ClosesOn(d)' = ClosesOn(d)
    <3>1. \A i \in Item : i \in ClosesOn(d) <=> i \in Counted /\ \E t \in DayCloses(i) : Day(t) = d
      BY DEF ClosesOn, Counted
    <3>2. \A i \in Item : i \in ClosesOn(d)'
                            <=> i \in Counted' /\ \E t \in DayCloses(i)' : Day(t) = d
      BY DEF ClosesOn, Counted, Day
    <3>3. ClosesOn(d) \subseteq Item /\ ClosesOn(d)' \subseteq Item
      BY DEF ClosesOn, Counted
    <3>4. \A i \in Item : i \in ClosesOn(d)' <=> i \in ClosesOn(d)
      BY <2>1, <2>3, <3>1, <3>2
    <3> QED
      BY <3>3, <3>4
  <2>5. DurableCloses(d)' = DurableCloses(d)
    <3>1. \A i \in Item : i \in DurableCloses(d)
            <=> i \in Counted /\ \E t \in DayCloses(i) : Day(t) = d /\ Durable(item[i].created, t)
      BY DEF DurableCloses, Counted
    <3>2. \A i \in Item : i \in DurableCloses(d)'
            <=> i \in Counted' /\ \E t \in DayCloses(i)' : Day(t) = d /\ Durable(item'[i].created, t)
      BY DEF DurableCloses, Counted, Day, Durable
    <3>3. DurableCloses(d) \subseteq Item /\ DurableCloses(d)' \subseteq Item
      BY DEF DurableCloses, Counted
    <3>4. \A i \in Item : i \in DurableCloses(d)' <=> i \in DurableCloses(d)
      BY <2>1, <2>3, <3>1, <3>2
    <3> QED
      BY <3>3, <3>4
  <2> QED
    BY <2>2, <2>4, <2>5 DEF Row
<1>2. FlowInv /\ FlowInv' /\ [FlowNext]_flowVars
      => [ tangled' = {} /\ (\A i \in Item : Present(i) => item'[i].archived = item[i].archived)
           => \A d \in Horizon..(Today - 1) :
                /\ belated' = {} => Row(d).backlog' = Row(d).backlog
                /\ Row(d).closed' = Row(d).closed
                /\ Row(d).closed_durable' = Row(d).closed_durable ]_flowVars
  BY <1>1
<1> QED
  BY <1>2, FlowHolds, PTL DEF FlowSpec, PastDaysStand
-------------------------------------------------------------------------------
(***************************************************************************)
(* The balance.                                                            *)
(***************************************************************************)

\* The status of i when day d ended, or now.
EndOf(i, d) == IF d < Today THEN past[d][i] ELSE item[i].status

\* An item that has never left Closed was closed on the day its log says it was, once
\* there is a log: a day that finds it open and leaves it closed has a row, and a row
\* is of such a day.  A patch that is still open has read what it will not contradict.
OnceClosed(i) ==
  /\ \A d \in 0..(Today - 1) : past[d][i] = Closed =>
       item[i].status = Closed /\ \A e \in d..(Today - 1) : past[e][i] = Closed
  /\ \A t \in Closings(i) :
       item[i].status = Closed /\ \A e \in 0..(Today - 1) : past[e][i] = Closed <=> Day(t) <= e
  /\ \A d \in (Horizon + 1)..Today :
       EndOf(i, d) = Closed /\ past[d - 1][i] # Closed => \E t \in Closings(i) : Day(t) = d
  /\ \A c \in Writer : patch[c] # None /\ patch[c].item = i /\ patch[c].from # None =>
       IF patch[c].from = Closed THEN item[i].status = Closed
       ELSE Day(patch[c].at) = Today => \A e \in 0..(Today - 1) : past[e][i] # Closed

ClosedOnceInv == \A i \in Item \ (tangled \cup reborn) : Present(i) => OnceClosed(i)

LEMMA OnceStays ==
  ASSUME FlowTypeOK, NEW i \in Item, OnceClosed(i),
         Closings(i)' = Closings(i), item'[i].status = item[i].status,
         past' = past, Today' = Today,
         \A c \in Writer : \/ patch'[c] = patch[c] \/ patch'[c] = None \/ patch'[c].from = None
                           \/ patch'[c].from = item[i].status \/ patch'[c].item # i
  PROVE  OnceClosed(i)'
<1>1. /\ \A d \in 0..(Today - 1) : past[d][i] = Closed =>
           item[i].status = Closed /\ \A e \in d..(Today - 1) : past[e][i] = Closed
      /\ \A t \in Closings(i) :
           item[i].status = Closed /\ \A e \in 0..(Today - 1) : past[e][i] = Closed <=> Day(t) <= e
      /\ \A d \in (Horizon + 1)..Today :
           EndOf(i, d) = Closed /\ past[d - 1][i] # Closed => \E t \in Closings(i) : Day(t) = d
  BY DEF OnceClosed
<1>2. \A d \in (Horizon + 1)..Today : EndOf(i, d)' = EndOf(i, d)
  BY DEF EndOf
<1>3. ASSUME NEW c \in Writer, patch'[c] # None, patch'[c].item = i, patch'[c].from # None
      PROVE  IF patch'[c].from = Closed THEN item[i].status = Closed
             ELSE Day(patch'[c].at) = Today => \A e \in 0..(Today - 1) : past[e][i] # Closed
  <2>1. CASE patch'[c] = patch[c]
    BY <1>3, <2>1 DEF OnceClosed
  <2>2. CASE patch'[c].from = item[i].status
    BY <1>1, <2>2
  <2> QED
    BY <1>3, <2>1, <2>2
<1> QED
  BY <1>1, <1>2, <1>3 DEF OnceClosed, Day

\* What a commit adds to the closures.
LEMMA CommitCloses ==
  ASSUME FlowTypeOK, NEW c \in Writer, PatchCommit(c), NEW i \in Item
  PROVE  Closings(i)' = IF i = patch[c].item /\ patch[c].to = Closed /\ ~Silent(patch[c])
                        THEN Closings(i) \cup {patch[c].at} ELSE Closings(i)
<1> DEFINE p == patch[c]
<1>n. PICK n \in Nat : n = Len(log) + 1
  BY DEF FlowTypeOK
<1>1. CASE Silent(p)
  BY <1>1, LogGrows DEF Closings, Moves
<1>2. CASE ~Silent(p)
  <2>1. /\ DOMAIN log' = DOMAIN log \cup {n} /\ log'[n] = LoggedBy(p)
        /\ \A k \in DOMAIN log : log'[k] = log[k] /\ k < n
    BY <1>2, <1>n, LogGrows
  <2>2. log'[n].item = p.item /\ log'[n].to = p.to /\ log'[n].at = p.at
    BY <2>1 DEF LoggedBy
  <2>3. \A t : t \in Closings(i)
                 <=> \E k \in DOMAIN log : log[k].item = i /\ log[k].to = Closed /\ log[k].at = t
    BY DEF Closings, Moves
  <2>4. \A t : t \in Closings(i)'
                 <=> \E k \in DOMAIN log' : log'[k].item = i /\ log'[k].to = Closed /\ log'[k].at = t
    BY DEF Closings, Moves
  <2>5. \A t : t \in Closings(i)'
                 <=> t \in Closings(i) \/ (p.item = i /\ p.to = Closed /\ t = p.at)
    <3>1. n \in DOMAIN log' /\ \A k \in DOMAIN log' : k \in DOMAIN log \/ k = n
      BY <2>1
    <3>2. \A k \in DOMAIN log : k \in DOMAIN log' /\ log'[k] = log[k]
      BY <2>1
    <3> HIDE DEF p
    <3> QED
      BY <2>2, <2>3, <2>4, <3>1, <3>2
  <2>6. CASE p.item = i /\ p.to = Closed
    <3>1. Closings(i)' = Closings(i) \cup {p.at}
      BY <2>5, <2>6
    <3> QED
      BY <1>2, <2>6, <3>1
  <2>7. CASE ~(p.item = i /\ p.to = Closed)
    <3>1. Closings(i)' = Closings(i)
      BY <2>5, <2>7
    <3> QED
      BY <2>7, <3>1
  <2> QED
    BY <2>6, <2>7
<1> QED
  BY <1>1, <1>2

\* A commit on an item that it neither takes out of Closed nor misdates.
LEMMA OnceCommits ==
  ASSUME FlowTypeOK, TimelyInv, NEW c \in Writer, PatchCommit(c), NEW i \in Item,
         i = patch[c].item, i \notin tangled', i \notin reborn', OnceClosed(i)
  PROVE  OnceClosed(i)'
<1> DEFINE p == patch[c]
<1>0. /\ p \in PatchRow /\ p.from \in Status /\ p # None /\ item[i] \in ItemRow
      /\ Today \in Nat /\ Horizon \in Nat /\ now \in Nat /\ None \notin Status
  BY LogGrows, FlowAssumption, TodayIsNat DEF PatchCommit, TimelyInv, Present, FlowTypeOK
<1>1. /\ item'[i].status = p.to /\ patch' = [patch EXCEPT ![c] = None]
      /\ UNCHANGED <<now, past, Today>>
  BY <1>0 DEF PatchCommit, FlowTypeOK, ItemRow, Today
<1>2. Day(p.at) = Today
  BY DEF PatchCommit, Misdated
<1>3. item[i].status = Closed => p.to = Closed
  BY DEF PatchCommit
<1>4. p.from = Closed => item[i].status = Closed
  BY <1>0 DEF OnceClosed
<1>5. p.from # Closed => \A e \in 0..(Today - 1) : past[e][i] # Closed
  BY <1>0, <1>2 DEF OnceClosed
<1>6. \A e \in Writer : patch'[e] = patch[e] \/ patch'[e] = None
  BY <1>1 DEF FlowTypeOK
<1>7. Closings(i)' = IF p.to = Closed /\ ~Silent(p) THEN Closings(i) \cup {p.at} ELSE Closings(i)
  BY CommitCloses
<1>8. /\ \A d \in 0..(Today - 1) : past[d][i] = Closed =>
           item[i].status = Closed /\ \A e \in d..(Today - 1) : past[e][i] = Closed
      /\ \A t \in Closings(i) :
           item[i].status = Closed /\ \A e \in 0..(Today - 1) : past[e][i] = Closed <=> Day(t) <= e
      /\ \A d \in (Horizon + 1)..Today :
           EndOf(i, d) = Closed /\ past[d - 1][i] # Closed => \E t \in Closings(i) : Day(t) = d
  BY DEF OnceClosed
<1>9. Today > Horizon => ~(now < LogStart)
  <2>1. now \in Nat /\ LogStart \in Nat /\ Day(LogStart) = Horizon
    BY FlowAssumption DEF FlowTypeOK, Day
  <2>2. now < LogStart => Today <= Horizon
    BY <2>1, DayGrows DEF Today
  <2> QED
    BY <1>0, <2>2
<1>a. \A d \in 0..(Today' - 1) : past'[d][i] = Closed =>
        item'[i].status = Closed /\ \A e \in d..(Today' - 1) : past'[e][i] = Closed
  BY <1>1, <1>3, <1>8
<1>b. ASSUME NEW t \in Closings(i)'
      PROVE  /\ item'[i].status = Closed
             /\ \A e \in 0..(Today - 1) : past[e][i] = Closed <=> Day(t) <= e
  <2>1. CASE t \in Closings(i)
    BY <1>1, <1>3, <1>8, <2>1
  <2>2. CASE t \notin Closings(i)
    <3>1. t = p.at /\ p.to = Closed /\ p.from # Closed
      BY <1>7, <2>2 DEF Silent
    <3>2. Day(t) = Today
      BY <1>2, <3>1
    <3> QED
      BY <1>0, <1>1, <1>5, <3>1, <3>2
  <2> QED
    BY <2>1, <2>2
<1>c. ASSUME NEW d \in (Horizon + 1)..Today, EndOf(i, d)' = Closed, past[d - 1][i] # Closed
      PROVE  \E t \in Closings(i)' : Day(t) = d
  <2>1. CASE d < Today
    <3>1. EndOf(i, d) = Closed
      BY <1>1, <1>c, <2>1 DEF EndOf
    <3> QED
      BY <1>7, <1>8, <1>c, <3>1
  <2>2. CASE d = Today /\ item[i].status = Closed
    <3>1. EndOf(i, d) = Closed
      BY <1>0, <2>2 DEF EndOf
    <3> QED
      BY <1>7, <1>8, <1>c, <3>1
  <2>3. CASE d = Today /\ item[i].status # Closed
    <3>1. p.to = Closed /\ p.from # Closed
      BY <1>0, <1>1, <1>4, <1>c, <2>3 DEF EndOf
    <3>2. ~Silent(p)
      BY <1>0, <1>9, <2>3, <3>1 DEF Silent
    <3> QED
      BY <1>2, <1>7, <2>3, <3>1, <3>2
  <2> QED
    BY <1>0, <2>1, <2>2, <2>3
<1>d. ASSUME NEW e \in Writer, patch'[e] # None, patch'[e].item = i, patch'[e].from # None
      PROVE  IF patch'[e].from = Closed THEN item'[i].status = Closed
             ELSE Day(patch'[e].at) = Today => \A d \in 0..(Today - 1) : past[d][i] # Closed
  BY <1>1, <1>3, <1>6, <1>d DEF OnceClosed
<1> QED
  BY <1>1, <1>a, <1>b, <1>c, <1>d DEF OnceClosed, Day

\* The day ends.
LEMMA OnceTicks ==
  ASSUME FlowTypeOK, TimelyInv, ClockTick, NEW i \in Item, Present(i), OnceClosed(i)
  PROVE  OnceClosed(i)'
<1> DEFINE t == Today
           u == Today'
<1>0. /\ t \in Nat /\ Horizon \in Nat /\ now \in Nat /\ u \in {t, t + 1}
      /\ UNCHANGED <<item, log, patch>>
      /\ \A d \in 0..(u - 1) :
           past'[d][i] = IF d < t THEN past[d][i] ELSE item[i].status
  BY FlowAssumption, TodayIsNat, TickRecords DEF ClockTick, FlowTypeOK
<1>1. Closings(i)' = Closings(i)
  BY <1>0 DEF Closings, Moves
<1>2. \A x \in Closings(i) : Day(x) \in Nat /\ Day(x) <= t
  <2>1. \A k \in DOMAIN log : log[k].at \in Nat /\ log[k].at <= now
    BY LogTyped DEF TimelyInv
  <2>2. \A x \in Closings(i) : x \in Nat /\ x <= now
    BY <2>1 DEF Closings, Moves
  <2> QED
    BY <1>0, <2>2, DayIsNat, DayGrows DEF Today
<1>3. \A c \in Writer : patch[c] # None => Day(patch[c].at) \in Nat /\ Day(patch[c].at) <= t
  <2>1. \A c \in Writer : patch[c] # None => patch[c].at \in Nat /\ patch[c].at <= now
    BY DEF FlowTypeOK, TimelyInv, PatchRow
  <2> QED
    BY <1>0, <2>1, DayIsNat, DayGrows DEF Today
<1>4. /\ \A d \in 0..(t - 1) : past[d][i] = Closed =>
           item[i].status = Closed /\ \A e \in d..(t - 1) : past[e][i] = Closed
      /\ \A x \in Closings(i) :
           item[i].status = Closed /\ \A e \in 0..(t - 1) : past[e][i] = Closed <=> Day(x) <= e
      /\ \A d \in (Horizon + 1)..t :
           (IF d < t THEN past[d][i] ELSE item[i].status) = Closed /\ past[d - 1][i] # Closed
             => \E x \in Closings(i) : Day(x) = d
      /\ \A c \in Writer : patch[c] # None /\ patch[c].item = i /\ patch[c].from # None =>
           IF patch[c].from = Closed THEN item[i].status = Closed
           ELSE Day(patch[c].at) = t => \A e \in 0..(t - 1) : past[e][i] # Closed
  BY DEF OnceClosed, EndOf
<1> HIDE DEF t, u
<1>a. \A d \in 0..(u - 1) : past'[d][i] = Closed =>
        item[i].status = Closed /\ \A e \in d..(u - 1) : past'[e][i] = Closed
  <2> SUFFICES ASSUME NEW d \in 0..(u - 1), past'[d][i] = Closed
               PROVE  item[i].status = Closed /\ \A e \in d..(u - 1) : past'[e][i] = Closed
    OBVIOUS
  <2>1. CASE d < t
    <3>1. past[d][i] = Closed /\ d \in 0..(t - 1)
      BY <1>0, <2>1
    <3>2. item[i].status = Closed /\ \A e \in d..(t - 1) : past[e][i] = Closed
      BY <1>4, <3>1
    <3>3. ASSUME NEW e \in d..(u - 1) PROVE past'[e][i] = Closed
      <4>1. e \in 0..(u - 1) /\ (e < t => e \in d..(t - 1))
        BY <1>0
      <4> QED
        BY <1>0, <3>2, <4>1
    <3> QED
      BY <3>2, <3>3
  <2>2. CASE ~(d < t)
    <3>1. item[i].status = Closed
      BY <1>0, <2>2
    <3>2. ASSUME NEW e \in d..(u - 1) PROVE past'[e][i] = Closed
      BY <1>0, <2>2, <3>1
    <3> QED
      BY <3>1, <3>2
  <2> QED
    BY <2>1, <2>2
<1>b. \A x \in Closings(i) :
        item[i].status = Closed /\ \A e \in 0..(u - 1) : past'[e][i] = Closed <=> Day(x) <= e
  <2> SUFFICES ASSUME NEW x \in Closings(i), NEW e \in 0..(u - 1)
               PROVE  item[i].status = Closed /\ (past'[e][i] = Closed <=> Day(x) <= e)
    BY <1>4
  <2>1. CASE e < t
    <3>1. e \in 0..(t - 1)
      BY <1>0, <2>1
    <3> QED
      BY <1>0, <1>4, <2>1, <3>1
  <2>2. CASE ~(e < t)
    BY <1>0, <1>2, <1>4, <2>2
  <2> QED
    BY <2>1, <2>2
<1>c. \A d \in (Horizon + 1)..u :
        (IF d < u THEN past'[d][i] ELSE item[i].status) = Closed /\ past'[d - 1][i] # Closed
          => \E x \in Closings(i) : Day(x) = d
  <2> SUFFICES ASSUME NEW d \in (Horizon + 1)..u, past'[d - 1][i] # Closed,
                      (IF d < u THEN past'[d][i] ELSE item[i].status) = Closed
               PROVE  \E x \in Closings(i) : Day(x) = d
    OBVIOUS
  <2>1. d - 1 \in 0..(u - 1) /\ (d < u => d \in 0..(u - 1))
    BY <1>0
  <2>2. CASE d <= t
    <3>1. past[d - 1][i] # Closed /\ d \in (Horizon + 1)..t
      BY <1>0, <2>1, <2>2
    <3>2. (IF d < t THEN past[d][i] ELSE item[i].status) = Closed
      BY <1>0, <2>1, <2>2
    <3> QED
      BY <1>4, <3>1, <3>2
  <2>3. CASE ~(d <= t)
    BY <1>0, <2>1, <2>3
  <2> QED
    BY <2>2, <2>3
<1>d. \A c \in Writer : patch[c] # None /\ patch[c].item = i /\ patch[c].from # None =>
        IF patch[c].from = Closed THEN item[i].status = Closed
        ELSE Day(patch[c].at) = u => \A e \in 0..(u - 1) : past'[e][i] # Closed
  <2> SUFFICES ASSUME NEW c \in Writer, patch[c] # None, patch[c].item = i,
                      patch[c].from # None, patch[c].from # Closed, Day(patch[c].at) = u,
                      NEW e \in 0..(u - 1)
               PROVE  past'[e][i] # Closed
    BY <1>4
  <2>1. u = t /\ e \in 0..(t - 1)
    BY <1>0, <1>3
  <2> QED
    BY <1>0, <1>4, <2>1
<1> QED
  BY <1>0, <1>1, <1>a, <1>b, <1>c, <1>d DEF OnceClosed, EndOf, Day, t, u

LEMMA ClosedOnceInductive ==
  ASSUME FlowTypeOK, TimelyInv, ClosedOnceInv, [FlowNext]_flowVars
  PROVE  ClosedOnceInv'
<1> SUFFICES ASSUME NEW i \in Item, i \notin tangled', i \notin reborn', Present(i)'
             PROVE  OnceClosed(i)'
  BY DEF ClosedOnceInv
<1>0. /\ Today \in Nat /\ Horizon \in Nat /\ None \notin Status /\ None \notin ItemRow
      /\ \A j \in Item : Present(j) => item[j] \in ItemRow
  BY TodayIsNat, FlowAssumption DEF FlowTypeOK, ItemRow, Present
<1>1. ASSUME Present(i), i \notin tangled, i \notin reborn
      PROVE  OnceClosed(i)
  BY <1>1 DEF ClosedOnceInv
<1>2. ASSUME NEW j \in Item, NEW s \in Status, CreateBegin(j, s)
      PROVE  OnceClosed(i)'
  <2>1. UNCHANGED <<item, log, patch, past, tangled, reborn, Today>>
    BY <1>2 DEF CreateBegin, Today
  <2>2. Closings(i)' = Closings(i)
    BY <2>1 DEF Closings, Moves
  <2> QED
    BY <1>1, <2>1, <2>2, OnceStays DEF Present
<1>9. ASSUME NEW j \in Item, CreateCommit(j)
      PROVE  OnceClosed(i)'
  <2>1. UNCHANGED <<now, log, patch, past, tangled, Today>>
    BY <1>9 DEF CreateCommit, Today
  <2>2. Closings(i)' = Closings(i)
    BY <2>1 DEF Closings, Moves
  <2>3. CASE i # j
    <3>1. item'[i] = item[i] /\ i \notin reborn
      BY <1>9, <2>3 DEF CreateCommit, FlowTypeOK
    <3> QED
      BY <1>1, <2>1, <2>2, <3>1, OnceStays DEF Present
  <2>4. CASE i = j
    <3>1. item'[i] = pending[i] /\ pending[i].status # Closed /\ ~Present(i)
      BY <1>9, <2>4 DEF CreateCommit, FlowTypeOK, TimelyInv
    <3>2. Closings(i) = {}
      BY <3>1 DEF Closings, Moves, TimelyInv
    <3>3. \A d \in 0..(Today - 1) : past[d][i] = None
      BY <3>1 DEF TimelyInv
    <3>4. None # Closed
      BY FlowAssumption
    <3>5. \A c \in Writer : patch[c] # None => patch[c].item # i
      BY <3>1 DEF TimelyInv
    <3>6. \A d \in (Horizon + 1)..Today : EndOf(i, d)' # Closed
      BY <1>0, <2>1, <3>1, <3>3, <3>4 DEF EndOf
    <3> QED
      BY <2>1, <2>2, <3>1, <3>2, <3>3, <3>4, <3>5, <3>6 DEF OnceClosed
  <2> QED
    BY <2>3, <2>4
<1>3. ASSUME NEW c \in Writer, NEW j \in Item, NEW s \in Status, PatchBegin(c, j, s)
      PROVE  OnceClosed(i)'
  <2>1. UNCHANGED <<item, log, past, tangled, reborn, Today>>
    BY <1>3 DEF PatchBegin, Today
  <2>2. Closings(i)' = Closings(i)
    BY <2>1 DEF Closings, Moves
  <2>3. \A e \in Writer : patch'[e] = patch[e] \/ patch'[e].from = None
    BY <1>3 DEF PatchBegin, FlowTypeOK
  <2> QED
    BY <1>1, <2>1, <2>2, <2>3, OnceStays DEF Present
<1>4. ASSUME NEW c \in Writer, PatchRead(c)
      PROVE  OnceClosed(i)'
  <2>1. UNCHANGED <<item, log, past, tangled, reborn, Today>>
    BY <1>4 DEF PatchRead, Today
  <2>2. Closings(i)' = Closings(i)
    BY <2>1 DEF Closings, Moves
  <2>3. patch[c] \in PatchRow
    BY <1>4 DEF PatchRead, FlowTypeOK
  <2>4. patch'[c].item = patch[c].item /\ patch'[c].from = item[patch[c].item].status
        /\ \A e \in Writer \ {c} : patch'[e] = patch[e]
    BY <1>4, <2>3 DEF PatchRead, FlowTypeOK, PatchRow
  <2> QED
    BY <1>1, <2>1, <2>2, <2>4, OnceStays DEF Present
<1>5. ASSUME NEW c \in Writer, PatchCommit(c)
      PROVE  OnceClosed(i)'
  <2>1. UNCHANGED <<past, Today>> /\ tangled \subseteq tangled' /\ reborn \subseteq reborn'
        /\ patch' = [patch EXCEPT ![c] = None]
    BY <1>5 DEF PatchCommit, Today
  <2>2. /\ patch[c] \in PatchRow /\ patch[c].item \in Item /\ Present(patch[c].item)
        /\ item' = [item EXCEPT ![patch[c].item].status = patch[c].to]
    BY <1>5, LogGrows DEF PatchCommit, TimelyInv, PatchRow
  <2>3. CASE i = patch[c].item
    BY <1>1, <1>5, <2>1, <2>2, <2>3, OnceCommits
  <2>4. CASE i # patch[c].item
    <3>1. item'[i] = item[i] /\ Closings(i)' = Closings(i)
      BY <1>5, <2>2, <2>4, CommitCloses DEF FlowTypeOK
    <3>2. \A e \in Writer : patch'[e] = patch[e] \/ patch'[e] = None
      BY <2>1 DEF FlowTypeOK
    <3> QED
      BY <1>1, <2>1, <3>1, <3>2, OnceStays DEF Present
  <2> QED
    BY <2>3, <2>4
<1>6. ASSUME NEW j \in Item, SetArchived(j)
      PROVE  OnceClosed(i)'
  <2>1. UNCHANGED <<log, patch, past, tangled, reborn, Today>>
    BY <1>6 DEF SetArchived, Today
  <2>2. item'[i].status = item[i].status /\ (Present(i)' => Present(i))
    BY <1>0, <1>6 DEF SetArchived, FlowTypeOK, ItemRow, Present
  <2>3. Closings(i)' = Closings(i)
    BY <2>1 DEF Closings, Moves
  <2> QED
    BY <1>1, <2>1, <2>2, <2>3, OnceStays
<1>7. CASE ClockTick
  <2>1. UNCHANGED <<item, tangled, reborn>>
    BY <1>7 DEF ClockTick
  <2> QED
    BY <1>1, <1>7, <2>1, OnceTicks DEF Present
<1>8. CASE UNCHANGED flowVars
  <2>1. UNCHANGED <<item, log, past, patch, tangled, reborn, Today>>
    BY <1>8 DEF flowVars, Today, Day
  <2>2. Closings(i)' = Closings(i)
    BY <2>1 DEF Closings, Moves
  <2> QED
    BY <1>1, <2>1, <2>2, OnceStays DEF Present
<1> QED
  BY <1>2, <1>3, <1>4, <1>5, <1>6, <1>7, <1>8, <1>9 DEF FlowNext

-------------------------------------------------------------------------------
(***************************************************************************)
(* Sums over finite sets.  MapThenSumSet takes its elements in the order   *)
(* CHOOSE gives them; a sum is that of any order because there is a        *)
(* function of sets that can be taken apart at any element.                *)
(***************************************************************************)

Chosen(s) == CHOOSE x \in s : TRUE

\* sum gives each subset of S what its elements add up to.
Adds(sum, g, S) ==
  /\ sum \in [SUBSET S -> Int]
  /\ sum[{}] = 0
  /\ \A s \in SUBSET S : \A x \in s : sum[s] = g[x] + sum[s \ {x}]

\* A property of a finite set that holds of none is violated by a smallest subset.
LEMMA LeastOf ==
  ASSUME NEW S, IsFiniteSet(S), NEW Bad \in SUBSET SUBSET S, Bad # {}
  PROVE  \E s \in Bad : \A t \in Bad : ~(t \subseteq s /\ t # s)
<1>1. IsWellFoundedOn(StrictSubsetOrdering(S), FiniteSubsetsOf(S))
  BY FS_StrictSubsetOrderingWellFounded
<1>2. FiniteSubsetsOf(S) = SUBSET S
  BY FS_FiniteSubsetsOfFinite
<1>3. PICK s \in Bad : \A t \in Bad : <<t, s>> \notin StrictSubsetOrdering(S)
  BY <1>1, <1>2, WFMin, Zenon
<1>4. ASSUME NEW t \in Bad, t \subseteq s, t # s
      PROVE  FALSE
  <2>1. <<t, s>> \in StrictSubsetOrdering(S)
    BY <1>4 DEF StrictSubsetOrdering
  <2> QED
    BY <1>3, <2>1
<1> QED
  BY <1>3, <1>4

LEMMA SumsExist ==
  ASSUME NEW S, IsFiniteSet(S), NEW g \in [S -> Int]
  PROVE  \E sum : Adds(sum, g, S)
<1> DEFINE Bad == {s \in SUBSET S : ~\E sum : Adds(sum, g, s)}
<1>1. ASSUME Bad # {} PROVE FALSE
  <2>1. PICK s \in Bad : \A t \in Bad : ~(t \subseteq s /\ t # s)
    <3> HIDE DEF Bad
    <3>1. Bad \in SUBSET SUBSET S
      BY DEF Bad
    <3> QED
      BY <1>1, <3>1, LeastOf
  <2>2. s \in SUBSET S /\ ~\E sum : Adds(sum, g, s)
    BY <2>1
  <2>3. CASE s = {}
    <3> DEFINE sum == [t \in SUBSET {} |-> 0]
    <3>1. Adds(sum, g, {})
      BY DEF Adds
    <3> QED
      BY <2>2, <2>3, <3>1
  <2>4. ASSUME NEW y \in s PROVE FALSE
    <3>1. s \ {y} \notin Bad /\ s \ {y} \in SUBSET S
      BY <2>1, <2>2
    <3>2. PICK rest : Adds(rest, g, s \ {y})
      BY <3>1
    <3> DEFINE sum == [t \in SUBSET s |-> IF y \in t THEN g[y] + rest[t \ {y}] ELSE rest[t]]
    <3>3. \A t \in SUBSET s : /\ t \ {y} \in SUBSET (s \ {y})
                             /\ y \notin t => t \in SUBSET (s \ {y})
      OBVIOUS
    <3>4. g[y] \in Int /\ rest \in [SUBSET (s \ {y}) -> Int] /\ rest[{}] = 0
      BY <2>2, <3>2 DEF Adds
    <3>5. sum \in [SUBSET s -> Int] /\ sum[{}] = 0
      BY <3>3, <3>4
    <3>6. ASSUME NEW t \in SUBSET s, NEW x \in t
          PROVE  sum[t] = g[x] + sum[t \ {x}]
      <4>0. t \ {x} \in SUBSET s
        OBVIOUS
      <4>1. CASE y \notin t
        <5>1. sum[t] = rest[t] /\ sum[t \ {x}] = rest[t \ {x}]
          BY <4>0, <4>1
        <5> QED
          BY <3>2, <3>3, <4>1, <5>1 DEF Adds
      <4>2. CASE y = x
        BY <4>0, <4>2
      <4>3. CASE y \in t /\ y # x
        <5>1. sum[t] = g[y] + rest[t \ {y}]
          BY <4>3
        <5>2. sum[t \ {x}] = g[y] + rest[(t \ {x}) \ {y}]
          BY <4>0, <4>3
        <5>3. (t \ {x}) \ {y} = (t \ {y}) \ {x} /\ t \ {y} \in SUBSET (s \ {y}) /\ x \in t \ {y}
          BY <4>3
        <5>4. rest[t \ {y}] = g[x] + rest[(t \ {y}) \ {x}]
          BY <3>2, <5>3 DEF Adds
        <5>5. g[x] \in Int /\ rest[(t \ {y}) \ {x}] \in Int
          <6>1. (t \ {y}) \ {x} \in SUBSET (s \ {y})
            OBVIOUS
          <6> QED
            BY <2>2, <3>4, <6>1
        <5>6. rest[(t \ {x}) \ {y}] = rest[(t \ {y}) \ {x}]
          BY <5>3
        <5> HIDE DEF sum
        <5> QED
          BY <3>4, <5>1, <5>2, <5>4, <5>5, <5>6
      <4> QED
        BY <4>1, <4>2, <4>3
    <3>7. Adds(sum, g, s)
      <4> HIDE DEF sum
      <4> QED
        BY <3>5, <3>6 DEF Adds
    <3> QED
      BY <2>2, <3>7
  <2> QED
    BY <2>3, <2>4
<1> QED
  BY <1>1

LEMMA SumUnfolds ==
  ASSUME NEW S, NEW g
  PROVE  SumOver(S, g) =
           (CHOOSE it : it = [s \in SUBSET S |-> IF s = {} THEN 0
                                ELSE g[Chosen(s)] + it[s \ {Chosen(s)}]])[S]
  BY Zenon DEF SumOver, MapThenSumSet, MapThenFoldSet, Chosen

\* Whatever adds up the subsets of a finite set says what their sums are.
LEMMA SumsAreUnique ==
  ASSUME NEW T, IsFiniteSet(T), NEW g, NEW sum, Adds(sum, g, T), NEW S \in SUBSET T
  PROVE  SumOver(S, g) = sum[S]
<1> DEFINE Sums(it) == it = [s \in SUBSET S |-> IF s = {} THEN 0
                                ELSE g[Chosen(s)] + it[s \ {Chosen(s)}]]
<1>1. \A s \in SUBSET S : s # {} => Chosen(s) \in s
  BY DEF Chosen
<1>2. Sums([s \in SUBSET S |-> sum[s]])
  <2> DEFINE part == [s \in SUBSET S |-> sum[s]]
  <2>1. ASSUME NEW s \in SUBSET S
        PROVE  part[s] = IF s = {} THEN 0 ELSE g[Chosen(s)] + part[s \ {Chosen(s)}]
    <3>1. s \in SUBSET T /\ s \ {Chosen(s)} \in SUBSET S
      OBVIOUS
    <3> QED
      BY <1>1, <3>1 DEF Adds
  <2> QED
    BY <2>1
<1>3. PICK it : Sums(it) /\ it = CHOOSE t : Sums(t)
  BY <1>2
<1>4. it[S] = sum[S]
  <2> DEFINE Bad == {s \in SUBSET S : it[s] # sum[s]}
  <2>1. ASSUME Bad # {} PROVE FALSE
    <3>1. IsFiniteSet(S)
      BY FS_Subset
    <3>2. PICK s \in Bad : \A t \in Bad : ~(t \subseteq s /\ t # s)
      <4> HIDE DEF Bad
      <4>1. Bad \in SUBSET SUBSET S
        BY DEF Bad
      <4> QED
        BY <2>1, <3>1, <4>1, LeastOf
    <3>3. s \in SUBSET S /\ s \in SUBSET T /\ it[s] # sum[s]
      BY <3>2
    <3>4. it[s] = IF s = {} THEN 0 ELSE g[Chosen(s)] + it[s \ {Chosen(s)}]
      BY <1>3, <3>3
    <3>5. CASE s = {}
      BY <3>3, <3>4, <3>5 DEF Adds
    <3>6. CASE s # {}
      <4>1. s \ {Chosen(s)} \notin Bad /\ s \ {Chosen(s)} \in SUBSET S
        BY <1>1, <3>2, <3>3, <3>6
      <4>2. it[s \ {Chosen(s)}] = sum[s \ {Chosen(s)}]
        BY <4>1
      <4>3. sum[s] = g[Chosen(s)] + sum[s \ {Chosen(s)}]
        BY <1>1, <3>3, <3>6 DEF Adds
      <4> QED
        BY <3>3, <3>4, <3>6, <4>2, <4>3
    <3> QED
      BY <3>5, <3>6
  <2> QED
    BY <2>1
<1> QED
  BY <1>3, <1>4, SumUnfolds

\* A sum is a number, none over nothing, and can be taken apart at any element.
LEMMA SumTakenApart ==
  ASSUME NEW T, IsFiniteSet(T), NEW g \in [T -> Int], NEW S \in SUBSET T
  PROVE  /\ SumOver(S, g) \in Int
         /\ SumOver({}, g) = 0
         /\ \A x \in S : SumOver(S, g)
                           = g[x] + SumOver(S \ {x}, g)
<1>1. PICK sum : Adds(sum, g, T)
  BY SumsExist
<1>2. \A s \in SUBSET T : SumOver(s, g) = sum[s]
  <2>1. ASSUME NEW s \in SUBSET T
        PROVE  SumOver(s, g) = sum[s]
    BY <1>1, SumsAreUnique
  <2> QED
    BY <2>1
<1>3. {} \in SUBSET T /\ \A x \in S : S \ {x} \in SUBSET T
  OBVIOUS
<1> QED
  BY <1>1, <1>2, <1>3 DEF Adds

\* What grows by p and shrinks by q each day has grown by the sum of p less that of q.
LEMMA Telescopes ==
  ASSUME NEW m \in Nat, NEW n \in Nat, m <= n,
         NEW p \in [(m + 1)..n -> Int], NEW q \in [(m + 1)..n -> Int], NEW h \in [m..n -> Int],
         \A d \in (m + 1)..n : h[d] = h[d - 1] + p[d] - q[d]
  PROVE  h[n] = h[m] + SumOver((m + 1)..n, p) - SumOver((m + 1)..n, q)
<1> DEFINE T == (m + 1)..n
           Bad == {k \in m..n : h[k] # h[m] + SumOver((m + 1)..k, p) - SumOver((m + 1)..k, q)}
<1>1. IsFiniteSet(T)
  BY FS_Interval
<1>2. \A k \in m..n : (m + 1)..k \in SUBSET T
  OBVIOUS
<1>3. ASSUME Bad # {} PROVE FALSE
  <2>1. Bad \in SUBSET Nat
    OBVIOUS
  <2>2. PICK k \in Bad : \A j \in Bad : k <= j
    <3> HIDE DEF Bad
    <3> QED
      BY <1>3, <2>1, MinOfNaturals
  <2>3. k \in m..n /\ h[k] # h[m] + SumOver((m + 1)..k, p) - SumOver((m + 1)..k, q)
    BY <2>2
  <2> DEFINE K == (m + 1)..k
  <2>4. K \in SUBSET T
    BY <1>2, <2>3
  <2>5. /\ SumOver(K, p) \in Int /\ SumOver({}, p) = 0
        /\ \A x \in K : SumOver(K, p) = p[x] + SumOver(K \ {x}, p)
    <3>1. p \in [T -> Int]
      BY DEF T
    <3> HIDE DEF T, K
    <3> QED
      BY <1>1, <2>4, <3>1, SumTakenApart
  <2>6. /\ SumOver(K, q) \in Int /\ SumOver({}, q) = 0
        /\ \A x \in K : SumOver(K, q) = q[x] + SumOver(K \ {x}, q)
    <3>1. q \in [T -> Int]
      BY DEF T
    <3> HIDE DEF T, K
    <3> QED
      BY <1>1, <2>4, <3>1, SumTakenApart
  <2>7. CASE k = m
    <3>1. K = {}
      BY <2>7
    <3> QED
      BY <2>3, <2>5, <2>6, <2>7, <3>1
  <2>8. CASE k # m
    <3>0. k \in Nat /\ m < k /\ k <= n
      BY <2>3, <2>8
    <3>1. k \in K /\ k - 1 \in m..n /\ k - 1 < k /\ K \ {k} = (m + 1)..(k - 1)
      <4>1. k \in K /\ k - 1 \in m..n /\ k - 1 < k
        BY <3>0
      <4>2. \A x : x \in K \ {k} <=> x \in (m + 1)..(k - 1)
        <5>1. K \ {k} \subseteq (m + 1)..(k - 1)
          BY <3>0
        <5>2. (m + 1)..(k - 1) \subseteq K \ {k}
          BY <3>0
        <5> QED
          BY <5>1, <5>2
      <4> HIDE DEF K, Bad, T
      <4> QED
        BY <4>1, <4>2
    <3>2. k - 1 \notin Bad
      BY <2>2, <2>3, <3>1
    <3>3. h[k - 1] = h[m] + SumOver(K \ {k}, p) - SumOver(K \ {k}, q)
      BY <3>1, <3>2
    <3>4. SumOver(K \ {k}, p) \in Int /\ SumOver(K \ {k}, q) \in Int
      <4>1. K \ {k} \in SUBSET T
        BY <2>4
      <4> HIDE DEF T, K
      <4> QED
        BY <1>1, <4>1, SumTakenApart DEF T
    <3>5. h[k] = h[k - 1] + p[k] - q[k] /\ p[k] \in Int /\ q[k] \in Int /\ h[m] \in Int
      BY <2>3, <2>8
    <3>6. SumOver(K, p) = p[k] + SumOver(K \ {k}, p) /\ SumOver(K, q) = q[k] + SumOver(K \ {k}, q)
      BY <2>5, <2>6, <3>1
    <3>7. h[k] # h[m] + SumOver(K, p) - SumOver(K, q)
      BY <2>3
    <3> HIDE DEF K, Bad, T
    <3> QED
      BY <3>3, <3>4, <3>5, <3>6, <3>7
  <2> QED
    BY <2>7, <2>8
<1>4. n \in m..n /\ n \notin Bad
  <2>1. n \in m..n
    OBVIOUS
  <2> HIDE DEF Bad
  <2> QED
    BY <1>3, <2>1
<1> QED
  BY <1>4

\* Only finitely many items have been created.
FiniteInv == IsFiniteSet({i \in Item : Present(i)})

LEMMA FiniteInductive ==
  ASSUME FlowTypeOK, FiniteInv, [FlowNext]_flowVars
  PROVE  FiniteInv'
<1> DEFINE P == {i \in Item : Present(i)}
           Q == {i \in Item : Present(i)'}
<1>1. \E j : Q \subseteq P \cup {j}
  <2>1. ASSUME NEW j \in Item, CreateCommit(j)
        PROVE  Q \subseteq P \cup {j}
    BY <2>1 DEF CreateCommit, Present, FlowTypeOK
  <2>2. ASSUME NEW c \in Writer, PatchCommit(c)
        PROVE  Q \subseteq P \cup {patch[c].item}
    BY <2>2 DEF PatchCommit, Present, FlowTypeOK
  <2>3. ASSUME NEW j \in Item, SetArchived(j)
        PROVE  Q \subseteq P \cup {j}
    BY <2>3 DEF SetArchived, Present, FlowTypeOK
  <2>4. CASE item' = item
    BY <2>4 DEF Present
  <2> QED
    BY <2>1, <2>2, <2>3, <2>4 DEF FlowNext, flowVars, CreateBegin, PatchBegin, PatchRead, ClockTick
<1>2. PICK j : Q \subseteq P \cup {j}
  BY <1>1
<1>3. IsFiniteSet(P \cup {j})
  <2> HIDE DEF P
  <2> QED
    BY FS_AddElement DEF FiniteInv, P
<1>4. IsFiniteSet(Q)
  <2> HIDE DEF P, Q
  <2> QED
    BY <1>2, <1>3, FS_Subset
<1> QED
  BY <1>4 DEF FiniteInv

BalanceInv == FlowInv /\ ClosedOnceInv /\ FiniteInv

LEMMA BalanceHolds == FlowSpec => []BalanceInv
<1>1. FlowInit => FiniteInv /\ ClosedOnceInv
  <2>1. FlowInit => {i \in Item : Present(i)} = {}
    BY DEF FlowInit, Present
  <2> QED
    BY <2>1, FS_EmptySet DEF FiniteInv, ClosedOnceInv
<1>2. FlowInit => BalanceInv
  BY <1>1, FlowBegins DEF BalanceInv, FlowInv
<1>3. BalanceInv /\ [FlowNext]_flowVars => BalanceInv'
  BY FlowTyped, UnwalkInductive, ClosedOnceInductive, FiniteInductive DEF BalanceInv, FlowInv
<1> QED
  BY <1>2, <1>3, PTL DEF FlowSpec

\* The items open now.
LEMMA OpenNow ==
  ASSUME FlowInv
  PROVE  OpenAt(Today) = {i \in Counted : item[i].status # Closed}
<1>1. /\ now \in Nat /\ Today \in Nat
      /\ \A k \in DOMAIN log : log[k].at \in Nat /\ log[k].at <= now
  BY TodayIsNat, LogTyped DEF FlowInv, FlowTypeOK, TimelyInv
<1>2. ASSUME NEW i \in Counted
      PROVE  Day(item[i].created) <= Today /\ StatusAt(i, Today) = item[i].status
  <2>1. item[i].created \in Nat /\ item[i].created <= now
    BY DEF FlowInv, FlowTypeOK, TimelyInv, Counted, Present, ItemRow
  <2>2. \A k \in DOMAIN log : ~(Day(log[k].at) > Today)
    BY <1>1, DayIsNat, DayGrows DEF Today
  <2>3. MovesAfter(i, Today) = {}
    BY <2>2 DEF MovesAfter, Moves
  <2> QED
    BY <1>1, <2>1, <2>3, DayGrows DEF StatusAt, Today
<1> QED
  BY <1>2 DEF OpenAt

\* An item counts as closed on the days its log has a closure of.
LEMMA ClosesOfADay ==
  ASSUME FlowInv, NEW d
  PROVE  ClosesOn(d) = {i \in Counted : \E t \in Closings(i) : Day(t) = d}
<1>1. ASSUME NEW i \in Item, NEW t \in Closings(i), Day(t) = d
      PROVE  \E u \in DayCloses(i) : Day(u) = d
  <2> DEFINE S == {u \in Closings(i) : Day(u) = d}
  <2>1. S \in SUBSET Nat /\ S # {}
    BY <1>1, ClosingsTyped
  <2>2. PICK u \in S : \A v \in S : u <= v
    <3> HIDE DEF S
    <3> QED
      BY <2>1, MinOfNaturals
  <2>3. u \in DayCloses(i) /\ Day(u) = d
    BY <2>2 DEF DayCloses
  <2> QED
    BY <2>3
<1>2. \A i \in Item : DayCloses(i) \subseteq Closings(i)
  BY DEF DayCloses
<1>3. Counted \subseteq Item
  BY DEF Counted
<1> QED
  BY <1>1, <1>2, <1>3 DEF ClosesOn

\* The day before, with what arrived, is the day, with what closed.
LEMMA DayBalances ==
  ASSUME BalanceInv, tangled = {}, reborn = {}, NEW d \in (Horizon + 1)..Today
  PROVE  /\ Row(d).backlog = Row(d - 1).backlog + Row(d).added - Row(d).closed
         /\ Row(d).backlog \in Nat /\ Row(d - 1).backlog \in Nat
         /\ Row(d).added \in Nat /\ Row(d).closed \in Nat
<1>0. /\ FlowInv /\ Today \in Nat /\ Horizon \in Nat /\ None # Closed /\ None \notin Status
      /\ \A i \in Counted : i \in Item /\ Present(i) /\ item[i] \in ItemRow
  BY TodayIsNat, FlowAssumption DEF BalanceInv, FlowInv, FlowTypeOK, Counted, Present
<1>1. d - 1 \in Horizon..(Today - 1) /\ d - 1 \in 0..(Today - 1) /\ d \in Nat
      /\ (d < Today => d \in Horizon..(Today - 1) /\ d \in 0..(Today - 1))
  BY <1>0
<1> DEFINE before == OpenAt(d - 1)
           after  == OpenAt(d)
           came   == ArrivedOn(d)
           went   == ClosesOn(d)
<1>2. before = {i \in Counted : Day(item[i].created) <= d - 1 /\ past[d - 1][i] # Closed}
  BY <1>0, <1>1, OpenAsDated
<1>3. after = {i \in Counted : Day(item[i].created) <= d /\ EndOf(i, d) # Closed}
  <2>1. CASE d < Today
    <3>1. after = {i \in Counted : Day(item[i].created) <= d /\ past[d][i] # Closed}
      BY <1>0, <1>1, <2>1, OpenAsDated
    <3> QED
      BY <2>1, <3>1 DEF EndOf
  <2>2. CASE ~(d < Today)
    <3>1. d = Today
      BY <1>0, <2>2
    <3>2. after = {i \in Counted : item[i].status # Closed}
      BY <1>0, <3>1, OpenNow
    <3>3. \A i \in Counted : EndOf(i, d) = item[i].status
      BY <2>2 DEF EndOf
    <3>4. \A i \in Counted : Day(item[i].created) <= d
      BY <1>0, <3>1, DayGrows DEF FlowInv, TimelyInv, FlowTypeOK, ItemRow, Today
    <3> QED
      BY <3>2, <3>3, <3>4
  <2> QED
    BY <2>1, <2>2
<1>4. ASSUME NEW i \in Counted
      PROVE  /\ Day(item[i].created) \in Nat
             /\ past[d - 1][i] = Closed => Day(item[i].created) <= d - 1
             /\ EndOf(i, d) = Closed => Day(item[i].created) <= d
  <2>1. past[d - 1][i] # None => Day(item[i].created) <= d - 1
    BY <1>0, <1>1 DEF FlowInv, TimelyInv
  <2>2. Day(item[i].created) \in Nat
    BY <1>0, DayIsNat DEF ItemRow
  <2>3. EndOf(i, d) = Closed => Day(item[i].created) <= d
    <3>1. CASE d < Today
      BY <1>0, <1>1, <3>1 DEF FlowInv, TimelyInv, EndOf
    <3>2. CASE ~(d < Today)
      <4>1. item[i].created \in Nat /\ item[i].created <= now /\ now \in Nat
        BY <1>0 DEF FlowInv, TimelyInv, FlowTypeOK, ItemRow
      <4> QED
        BY <1>0, <1>1, <3>2, <4>1, DayGrows DEF Today
    <3> QED
      BY <3>1, <3>2
  <2> QED
    BY <1>0, <2>1, <2>2, <2>3
<1>5. ASSUME NEW i \in Counted
      PROVE  /\ past[d - 1][i] = Closed => EndOf(i, d) = Closed
             /\ (\E t \in Closings(i) : Day(t) = d)
                  <=> EndOf(i, d) = Closed /\ past[d - 1][i] # Closed
  <2>1. OnceClosed(i)
    BY <1>0 DEF BalanceInv, ClosedOnceInv
  <2>2. past[d - 1][i] = Closed => EndOf(i, d) = Closed
    <3>1. past[d - 1][i] = Closed =>
            item[i].status = Closed /\ \A e \in (d - 1)..(Today - 1) : past[e][i] = Closed
      BY <1>1, <2>1 DEF OnceClosed
    <3>2. d < Today => d \in (d - 1)..(Today - 1)
      BY <1>0, <1>1
    <3> QED
      BY <3>1, <3>2 DEF EndOf
  <2>3. ASSUME NEW t \in Closings(i), Day(t) = d
        PROVE  EndOf(i, d) = Closed /\ past[d - 1][i] # Closed
    <3>1. item[i].status = Closed /\ \A e \in 0..(Today - 1) : past[e][i] = Closed <=> d <= e
      BY <2>1, <2>3 DEF OnceClosed
    <3>2. ~(d <= d - 1) /\ d <= d
      BY <1>1
    <3> QED
      BY <1>1, <3>1, <3>2 DEF EndOf
  <2>4. EndOf(i, d) = Closed /\ past[d - 1][i] # Closed => \E t \in Closings(i) : Day(t) = d
    BY <2>1 DEF OnceClosed
  <2> QED
    BY <2>2, <2>3, <2>4
<1>6. came = {i \in Counted : Day(item[i].created) = d}
  BY DEF ArrivedOn
<1>7. went = {i \in Counted : EndOf(i, d) = Closed /\ past[d - 1][i] # Closed}
  BY <1>0, <1>5, ClosesOfADay
<1>8. /\ before \cup came = after \cup went
      /\ before \cap came = {} /\ after \cap went = {}
  <2>1. ASSUME NEW i \in Counted
        PROVE  /\ i \in before \/ i \in came <=> i \in after \/ i \in went
               /\ ~(i \in before /\ i \in came) /\ ~(i \in after /\ i \in went)
    <3> DEFINE day == Day(item[i].created)
    <3>1. /\ i \in before <=> day <= d - 1 /\ past[d - 1][i] # Closed
          /\ i \in came <=> day = d
          /\ i \in after <=> day <= d /\ EndOf(i, d) # Closed
          /\ i \in went <=> EndOf(i, d) = Closed /\ past[d - 1][i] # Closed
      <4> HIDE DEF before, after, came, went
      <4> QED
        BY <1>2, <1>3, <1>6, <1>7
    <3>2. /\ past[d - 1][i] = Closed => day <= d - 1 /\ EndOf(i, d) = Closed
          /\ EndOf(i, d) = Closed => day <= d
          /\ day \in Nat
      BY <1>4, <1>5
    <3> HIDE DEF before, after, came, went, day
    <3>3. (day <= d <=> day <= d - 1 \/ day = d) /\ ~(day <= d - 1 /\ day = d)
      BY <1>1, <3>2
    <3> QED
      BY <3>1, <3>2, <3>3, Zenon
  <2>2. before \subseteq Counted /\ after \subseteq Counted /\ came \subseteq Counted /\ went \subseteq Counted
    BY DEF OpenAt, ArrivedOn, ClosesOn
  <2> HIDE DEF before, after, came, went
  <2> QED
    BY <2>1, <2>2
<1>9. IsFiniteSet(before) /\ IsFiniteSet(after) /\ IsFiniteSet(came) /\ IsFiniteSet(went)
  <2>1. Counted \subseteq {i \in Item : Present(i)}
    BY DEF Counted
  <2>2. IsFiniteSet(Counted)
    BY <2>1, FS_Subset DEF BalanceInv, FiniteInv
  <2>3. before \subseteq Counted /\ after \subseteq Counted /\ came \subseteq Counted /\ went \subseteq Counted
    BY DEF OpenAt, ArrivedOn, ClosesOn
  <2> HIDE DEF before, after, came, went
  <2> QED
    BY <2>2, <2>3, FS_Subset
<1>10. /\ Cardinality(before) + Cardinality(came) = Cardinality(after) + Cardinality(went)
       /\ Cardinality(before) \in Nat /\ Cardinality(came) \in Nat
       /\ Cardinality(after) \in Nat /\ Cardinality(went) \in Nat
  <2> HIDE DEF before, after, came, went
  <2>1. /\ Cardinality(before) \in Nat /\ Cardinality(came) \in Nat
        /\ Cardinality(after) \in Nat /\ Cardinality(went) \in Nat
    BY <1>9, FS_CardinalityType
  <2>2. Cardinality({}) = 0
    BY FS_EmptySet
  <2>3. Cardinality(before \cup came) = Cardinality(before) + Cardinality(came)
    <3>1. Cardinality(before \cup came)
            = Cardinality(before) + Cardinality(came) - Cardinality(before \cap came)
      BY <1>9, FS_Union
    <3>2. Cardinality(before \cap came) = 0
      BY <1>8, <2>2, Zenon
    <3> QED
      BY <2>1, <3>1, <3>2
  <2>4. Cardinality(after \cup went) = Cardinality(after) + Cardinality(went)
    <3>1. Cardinality(after \cup went)
            = Cardinality(after) + Cardinality(went) - Cardinality(after \cap went)
      BY <1>9, FS_Union
    <3>2. Cardinality(after \cap went) = 0
      BY <1>8, <2>2, Zenon
    <3> QED
      BY <2>1, <3>1, <3>2
  <2> QED
    BY <1>8, <2>1, <2>3, <2>4
<1>11. /\ Row(d).backlog = Cardinality(after) /\ Row(d - 1).backlog = Cardinality(before)
       /\ Row(d).added = Cardinality(came) /\ Row(d).closed = Cardinality(went)
  BY DEF Row
<1> HIDE DEF before, after, came, went
<1> QED
  BY <1>10, <1>11

\* The days of a response that has a baseline.
LEMMA ServedWithBaseline ==
  ASSUME FlowTypeOK, NEW w \in Windows, BacklogBefore(w) # None
  PROVE  \E m \in Horizon..(Today - 1) : /\ BacklogBefore(w) = Row(m).backlog
                                         /\ ServedDays(w) = (m + 1)..Today
<1>1. Today \in Nat /\ Horizon \in Nat /\ w \in Nat
  BY TodayIsNat, FlowAssumption
<1>2. /\ Cardinality(SeriesDays(w)) > w
      /\ BacklogBefore(w) = Row(Min(SeriesDays(w))).backlog
  BY DEF BacklogBefore
<1>3. ServedDays(w) = SeriesDays(w) \ {Min(SeriesDays(w))}
  BY DEF ServedDays
<1> DEFINE least == Min({w, Today - Horizon + 1})
           s == StartDay(w) - 1
           m == Max({s, Horizon})
<1>4. least \in Int
  BY <1>1, MinOfTwo
<1>5. s \in Int
  <2> HIDE DEF least
  <2> QED
    BY <1>1, <1>4 DEF StartDay, least
<1>6. m \in Int /\ m >= Horizon
  <2>1. Horizon \in Int
    BY <1>1
  <2> HIDE DEF s
  <2> QED
    BY <1>5, <2>1, MaxOfTwo
<1>7. SeriesDays(w) = m..Today
  BY DEF SeriesDays
<1> HIDE DEF m, s, least
<1>8. m < Today
  <2>1. ~(m <= Today) => m..Today = {}
    BY <1>1, <1>6
  <2>2. m = Today => m..Today = {Today}
    BY <1>1
  <2>3. Cardinality({}) = 0 /\ Cardinality({Today}) = 1
    BY FS_EmptySet, FS_Singleton
  <2>4. w # 0
    BY FlowAssumption
  <2>5. m..Today # {} /\ m..Today # {Today}
    <3>1. m..Today = {} => Cardinality(SeriesDays(w)) = 0
      BY <1>7, <2>3, Zenon
    <3>2. m..Today = {Today} => Cardinality(SeriesDays(w)) = 1
      BY <1>7, <2>3, Zenon
    <3> QED
      BY <1>1, <1>2, <2>4, <3>1, <3>2
  <2> QED
    BY <1>1, <1>6, <2>1, <2>2, <2>5
<1>9. Min(SeriesDays(w)) = m
  <2>1. SeriesDays(w) \in SUBSET Nat /\ m \in SeriesDays(w) /\ \A x \in SeriesDays(w) : m <= x
    BY <1>1, <1>6, <1>7, <1>8
  <2>2. Min(SeriesDays(w)) \in SeriesDays(w) /\ \A x \in SeriesDays(w) : Min(SeriesDays(w)) <= x
    BY <2>1, MinOfNaturals
  <2>3. Min(SeriesDays(w)) <= m /\ m <= Min(SeriesDays(w))
    BY <2>1, <2>2
  <2>4. m \in Nat /\ Min(SeriesDays(w)) \in Nat
    BY <2>1, <2>2
  <2> QED
    BY <2>3, <2>4
<1>10. ServedDays(w) = (m + 1)..Today
  <2>1. \A x : x \in (m..Today) \ {m} <=> x \in (m + 1)..Today
    BY <1>1, <1>6
  <2> QED
    BY <1>3, <1>7, <1>9, <2>1
<1> QED
  BY <1>1, <1>2, <1>6, <1>8, <1>9, <1>10

\* With backlog_before, what arrived and what closed in the window add up to the last
\* backlog, for any window, horizon and number of items, when nothing was created
\* closed or reopened.
THEOREM FlowBalances == FlowSpec => []BalancesOnceClosed
<1>1. BalanceInv => BalancesOnceClosed
  <2> SUFFICES ASSUME BalanceInv, tangled = {}, reborn = {}, NEW w \in Windows,
                      BacklogBefore(w) # None
               PROVE  Row(Today).backlog
                        = BacklogBefore(w)
                            + SumOver(ServedDays(w), [d \in ServedDays(w) |-> Row(d).added])
                            - SumOver(ServedDays(w), [d \in ServedDays(w) |-> Row(d).closed])
    BY DEF BalancesOnceClosed, Balances
  <2>1. PICK m \in Horizon..(Today - 1) : /\ BacklogBefore(w) = Row(m).backlog
                                          /\ ServedDays(w) = (m + 1)..Today
    BY ServedWithBaseline DEF BalanceInv, FlowInv
  <2>2. Today \in Nat /\ Horizon \in Nat /\ m \in Nat /\ m <= Today
    BY TodayIsNat, FlowAssumption DEF BalanceInv, FlowInv
  <2> DEFINE h == [d \in m..Today |-> Row(d).backlog]
             p == [d \in (m + 1)..Today |-> Row(d).added]
             q == [d \in (m + 1)..Today |-> Row(d).closed]
  <2>3. ASSUME NEW d \in (m + 1)..Today
        PROVE  /\ Row(d).backlog = Row(d - 1).backlog + Row(d).added - Row(d).closed
               /\ Row(d).backlog \in Nat /\ Row(d - 1).backlog \in Nat
               /\ Row(d).added \in Nat /\ Row(d).closed \in Nat
    <3>1. d \in (Horizon + 1)..Today
      BY <2>2
    <3> QED
      BY <3>1, DayBalances
  <2>4. p \in [(m + 1)..Today -> Int] /\ q \in [(m + 1)..Today -> Int]
    BY <2>3
  <2>5. ASSUME NEW d \in m..Today PROVE Row(d).backlog \in Int
    <3>1. CASE d = m
      <4>1. m + 1 \in (m + 1)..Today /\ (m + 1) - 1 = m
        BY <2>2
      <4> QED
        BY <2>3, <3>1, <4>1
    <3>2. CASE d # m
      <4>1. d \in (m + 1)..Today
        BY <2>2, <3>2
      <4> QED
        BY <2>3, <4>1
    <3> QED
      BY <3>1, <3>2
  <2>6. h \in [m..Today -> Int]
    BY <2>5
  <2>7. \A d \in (m + 1)..Today : h[d] = h[d - 1] + p[d] - q[d]
    <3>1. \A d \in (m + 1)..Today : d \in m..Today /\ d - 1 \in m..Today
      BY <2>2
    <3> QED
      BY <2>3, <3>1
  <2>8. h[Today] = Row(Today).backlog /\ h[m] = Row(m).backlog
    BY <2>2
  <2> HIDE DEF h, p, q
  <2>9. h[Today] = h[m] + SumOver((m + 1)..Today, p) - SumOver((m + 1)..Today, q)
    BY <2>2, <2>4, <2>6, <2>7, Telescopes
  <2> QED
    BY <2>1, <2>8, <2>9 DEF p, q
<1> QED
  BY <1>1, BalanceHolds, PTL

===============================================================================
