------------------------------ MODULE Schedules ------------------------------
(***************************************************************************)
(* Recurring maintenance: schedules, the work items they materialize, and  *)
(* the two events that move an anchor.  Concurrent clients: a              *)
(* materialize_schedule is a gate outside any transaction, the transaction *)
(* start (which fixes its now()), the row lock with the second gate, and   *)
(* the commit; an update_work_item is the row write and the commit.        *)
(* Schedule rows are only written under their row lock, so update_schedule *)
(* is one step.  Under READ COMMITTED every statement sees what is         *)
(* committed when it runs.                                                 *)
(*                                                                         *)
(* Time is counted in days.  A cadence is its interval; 0 is `once'.       *)
(***************************************************************************)
EXTENDS Vocab, Naturals, FiniteSets

CONSTANTS Schedule, WorkItem, Client, NoWorkItem,
          Absent,          \* a row that has not been inserted
          Keep,            \* a patch field the request does not carry
          NewSchedules,    \* create_schedule requests
          SchedulePatches, \* update_schedule requests
          ItemStatuses,    \* the statuses clients patch materialized items to
          Reopen,          \* whether a finished item may be taken back to unfinished
          MaxTime          \* bound: the last day

Once   == 0
Active == "active"

ScheduleStatuses == {Active, "paused", "done"}
Anchors          == {"completed", "created"}
Time             == 0 .. MaxTime

\* Days per cadence; how long a calendar month is does not matter here.
Cadence       == Nat
NewSchedule   == [cadence : Cadence, anchor_mode : Anchors, anchor_at : Time]
SchedulePatch == [cadence : Cadence \cup {Keep}, anchor_mode : Anchors \cup {Keep},
                  anchor_at : Time \cup {Keep}, status : ScheduleStatuses \cup {Keep}]

ScheduleRow == [cadence : Cadence, anchor_mode : Anchors, anchor_at : Time,
                status : ScheduleStatuses,
                last_wi_id : WorkItem \cup {NoWorkItem}]

ASSUME ScheduleAssumption ==
  /\ MaxTime \in Nat
  /\ Reopen \in BOOLEAN
  /\ NoWorkItem \notin WorkItem
  /\ Keep \notin ScheduleStatuses \cup Anchors
  /\ Keep \notin Time /\ Keep \notin Cadence
  /\ Absent \notin ScheduleRow /\ Absent \notin WiStatuses
  /\ NewSchedules \subseteq NewSchedule
  /\ SchedulePatches \subseteq SchedulePatch
  /\ ItemStatuses \subseteq WiStatuses

VARIABLES
  schedule,    \* the schedule rows, Absent until created
  wi,          \* wi_status of each materialized item, or Absent
  materializes,\* relationship rows <<schedule, work item>>
  call,        \* what each client is in the middle of
  clock,       \* today
  fired,       \* items each schedule produced since its row was last patched
  event        \* the day of the event the cadence counts from, as the reader of
               \* anchor_mode would tell it (an auxiliary variable, like fired)

vars == <<schedule, wi, materializes, call, clock, fired, event>>

Idle == [at |-> "idle"]

Call == {Idle}
  \cup [at : {"checked"}, s : Schedule, force : BOOLEAN]
  \cup [at : {"waiting", "firing"}, s : Schedule, force : BOOLEAN, now : Time]
  \cup [at : {"patching"}, w : WorkItem, to : WiStatuses, now : Time]

TypeOK ==
  /\ schedule \in [Schedule -> ScheduleRow \cup {Absent}]
  /\ wi \in [WorkItem -> WiStatuses \cup {Absent}]
  /\ materializes \subseteq Schedule \X WorkItem
  /\ call \in [Client -> Call]
  /\ clock \in Time
  /\ fired \in [Schedule -> Nat]
  /\ event \in [Schedule -> Time]

Init ==
  /\ schedule = [s \in Schedule |-> Absent]
  /\ wi = [w \in WorkItem |-> Absent]
  /\ materializes = {}
  /\ call = [c \in Client |-> Idle]
  /\ clock = 0
  /\ fired = [s \in Schedule |-> 0]
  /\ event = [s \in Schedule |-> 0]

-------------------------------------------------------------------------------
Unfinished(w) == wi[w] \in WiUnfinished

Outstanding(s) == schedule[s].last_wi_id # NoWorkItem /\ Unfinished(schedule[s].last_wi_id)

\* schedule_due_sql's third clause, on a statement or transaction clock.
Elapsed(s, now) == schedule[s].anchor_at + schedule[s].cadence <= now

\* materialize_gate: force lifts only the last of the three refusals.
Gate(s, force, now) ==
  /\ ~Outstanding(s)
  /\ schedule[s].status = Active
  /\ force \/ Elapsed(s, now)

\* Faulty variants, used by no action: the second gate of #1390 left out, a
\* one-shot that stays active, an anchor that fires do not move.
RegateNothing(c) == TRUE

AfterFiringOnceStaysActive(row, w, now) ==
  [row EXCEPT !.last_wi_id = w,
              !.anchor_at = IF row.anchor_mode = "created" THEN now ELSE @]

AfterFiringAnchorStays(row, w, now) ==
  [row EXCEPT !.last_wi_id = w,
              !.status = IF row.cadence = Once THEN "done" ELSE @]

\* The gate asked again on the locked row, on the transaction's own clock.
Regate(c) == Gate(call[c].s, call[c].force, call[c].now)

\* The one UPDATE that ends a materialization.
AfterFiring(row, w, now) ==
  [row EXCEPT !.last_wi_id = w,
              !.anchor_at = IF row.anchor_mode = "created" THEN now ELSE @,
              !.status = IF row.cadence = Once THEN "done" ELSE @]

Locked(s)   == \E c \in Client : call[c].at = "firing" /\ call[c].s = s
WiLocked(w) == \E c \in Client : call[c].at = "patching" /\ call[c].w = w

\* advance_completed_anchor: the schedules a status patch of w restarts.
Restarted(w, to) ==
  {s \in Schedule : /\ to \in WiFinished
                    /\ schedule[s] # Absent
                    /\ schedule[s].last_wi_id = w
                    /\ schedule[s].anchor_mode = "completed"
                    /\ schedule[s].status = Active}

Patched(old, new) == IF new = Keep THEN old ELSE new

PatchedRow(row, patch) ==
  [row EXCEPT !.cadence = Patched(@, patch.cadence),
              !.anchor_mode = Patched(@, patch.anchor_mode),
              !.anchor_at = Patched(@, patch.anchor_at),
              !.status = Patched(@, patch.status)]

-------------------------------------------------------------------------------
CreateSchedule(s, new) ==
  /\ schedule[s] = Absent
  /\ schedule' = [schedule EXCEPT ![s] =
       [cadence |-> new.cadence, anchor_mode |-> new.anchor_mode, anchor_at |-> new.anchor_at,
        status |-> Active, last_wi_id |-> NoWorkItem]]
  /\ event' = [event EXCEPT ![s] = new.anchor_at]
  /\ UNCHANGED <<wi, materializes, call, clock, fired>>

\* update_schedule: waits for the row lock, checks nothing about the row.
UpdateSchedule(s, patch) ==
  /\ schedule[s] # Absent
  /\ ~Locked(s)
  /\ schedule' = [schedule EXCEPT ![s] = PatchedRow(@, patch)]
  /\ fired' = [fired EXCEPT ![s] = 0]
  /\ event' = [event EXCEPT ![s] = Patched(@, patch.anchor_at)]
  /\ UNCHANGED <<wi, materializes, call, clock>>

-------------------------------------------------------------------------------
\* materialize_schedule, before its transaction: read the row, ask the gate.
MaterializeCheck(c, s, force) ==
  /\ call[c] = Idle
  /\ schedule[s] # Absent
  /\ Gate(s, force, clock)
  /\ call' = [call EXCEPT ![c] = [at |-> "checked", s |-> s, force |-> force]]
  /\ UNCHANGED <<schedule, wi, materializes, clock, fired, event>>

\* The transaction begins, which fixes its now().
MaterializeBegin(c) ==
  /\ call[c].at = "checked"
  /\ call' = [call EXCEPT ![c] =
       [at |-> "waiting", s |-> @.s, force |-> @.force, now |-> clock]]
  /\ UNCHANGED <<schedule, wi, materializes, clock, fired, event>>

\* SELECT ... FOR UPDATE returns; the gate is asked again on the locked row.
MaterializeLock(c) ==
  /\ call[c].at = "waiting"
  /\ ~Locked(call[c].s)
  /\ call' = [call EXCEPT ![c] = IF Regate(c) THEN [@ EXCEPT !.at = "firing"] ELSE Idle]
  /\ UNCHANGED <<schedule, wi, materializes, clock, fired, event>>

\* The item, its edge and the schedule's new anchor and pointer commit together.
MaterializeCommit(c, w) ==
  LET s == call[c].s IN
  /\ call[c].at = "firing"
  /\ wi[w] = Absent
  /\ wi' = [wi EXCEPT ![w] = "open"]
  /\ materializes' = materializes \cup {<<s, w>>}
  /\ schedule' = [schedule EXCEPT ![s] = AfterFiring(@, w, call[c].now)]
  /\ fired' = [fired EXCEPT ![s] = @ + 1]
  /\ event' = [event EXCEPT ![s] = IF schedule[s].anchor_mode = "created" THEN call[c].now ELSE @]
  /\ call' = [call EXCEPT ![c] = Idle]
  /\ UNCHANGED clock

-------------------------------------------------------------------------------
\* update_work_item with a status: the row is written and stays locked.
UpdateItemBegin(c, w, to) ==
  /\ call[c] = Idle
  /\ wi[w] # Absent
  /\ ~WiLocked(w)
  /\ Reopen \/ wi[w] \in WiUnfinished \/ to \in WiFinished
  /\ call' = [call EXCEPT ![c] = [at |-> "patching", w |-> w, to |-> to, now |-> clock]]
  /\ UNCHANGED <<schedule, wi, materializes, clock, fired, event>>

\* ... the schedules above are restarted, waiting for their row locks, and it commits.
UpdateItemCommit(c) ==
  LET w == call[c].w
      restarted == Restarted(w, call[c].to)
  IN
  /\ call[c].at = "patching"
  /\ \A s \in restarted : ~Locked(s)
  /\ wi' = [wi EXCEPT ![w] = call[c].to]
  /\ schedule' = [s \in Schedule |->
       IF s \in restarted THEN [schedule[s] EXCEPT !.anchor_at = call[c].now] ELSE schedule[s]]
  /\ event' = [s \in Schedule |->
       IF s \in restarted /\ (Unfinished(w) \/ call[c].now < event[s]) THEN call[c].now ELSE event[s]]
  /\ call' = [call EXCEPT ![c] = Idle]
  /\ UNCHANGED <<materializes, clock, fired>>

-------------------------------------------------------------------------------
\* A call that fails, times out or loses its connection rolls back.
Abort(c) ==
  /\ call[c] # Idle
  /\ call' = [call EXCEPT ![c] = Idle]
  /\ UNCHANGED <<schedule, wi, materializes, clock, fired, event>>

InTransaction(c) == call[c].at \in {"waiting", "firing", "patching"}

\* A day passes.  Transactions take milliseconds: none spans midnight, but a gate
\* asked before a transaction may have been asked the day before it.
Tick ==
  /\ clock < MaxTime
  /\ \A c \in Client : ~InTransaction(c)
  /\ clock' = clock + 1
  /\ UNCHANGED <<schedule, wi, materializes, call, fired, event>>

Next ==
  \/ \E s \in Schedule, new \in NewSchedules : CreateSchedule(s, new)
  \/ \E s \in Schedule, patch \in SchedulePatches : UpdateSchedule(s, patch)
  \/ \E c \in Client, s \in Schedule, force \in BOOLEAN : MaterializeCheck(c, s, force)
  \/ \E c \in Client : MaterializeBegin(c)
  \/ \E c \in Client : MaterializeLock(c)
  \/ \E c \in Client, w \in WorkItem : MaterializeCommit(c, w)
  \/ \E c \in Client, w \in WorkItem, to \in ItemStatuses : UpdateItemBegin(c, w, to)
  \/ \E c \in Client : UpdateItemCommit(c)
  \/ \E c \in Client : Abort(c)
  \/ Tick

Spec == Init /\ [][Next]_vars

-------------------------------------------------------------------------------
(***************************************************************************)
(* Properties that hold.                                                   *)
(***************************************************************************)

\* materialize_schedule never leaves two open copies of a drill, however many
\* callers race it and with whatever force (where finished items stay finished).
AtMostOneOutstanding ==
  \A s \in Schedule : \A v, w \in WorkItem :
    /\ <<s, v>> \in materializes /\ Unfinished(v)
    /\ <<s, w>> \in materializes /\ Unfinished(w)
    => v = w

\* A one-shot fires once: racing, forced or repeated calls get no second item
\* until somebody patches the schedule.
OnceFiresOnce ==
  \A s \in Schedule : schedule[s] # Absent /\ schedule[s].cadence = Once => fired[s] <= 1

\* Unless forced, a recurring item is raised no sooner than the cadence after the
\* event the anchor mode counts from: the last firing, or the last time an item of
\* the schedule was finished (while it was active).  A day set by hand counts as the
\* event too, until, if it has yet to come, an item that is already finished is
\* patched finished again: the code then takes today for the anchor (Restarted).
DrillsAreSpaced ==
  [][\A s \in Schedule, c \in Client :
       /\ fired'[s] = fired[s] + 1 /\ schedule[s].cadence # Once
       /\ call[c].at = "firing" /\ call[c].s = s /\ ~call[c].force
       => event[s] + schedule[s].cadence <= clock]_vars
==============================================================================
