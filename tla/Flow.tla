-------------------------------- MODULE Flow --------------------------------
(***************************************************************************)
(* The work-item flow series (korg-core/src/repo/flow.rs): what arrived,   *)
(* what closed and where the backlog stood, day by day, computed from the  *)
(* items as they are now and from the transition log.                      *)
(*                                                                         *)
(* Work items are created, patched and archived meanwhile.  A creation is  *)
(* one transaction, and the item is dated (as now() is) when it began.  A  *)
(* patch is one that reads the status, writes it and appends its transition*)
(* row, dated likewise.  Both can commit on a later day.  The log is       *)
(* younger than the items: before LogStart nothing is recorded.            *)
(***************************************************************************)
EXTENDS Integers, Sequences, FiniteSets, FiniteSetsExt

CONSTANTS Item, Writer,
          Status, Closed,  \* the statuses callers set; Closed is one of them
          None,
          TicksPerDay,     \* a clock reading is a number of ticks
          Horizon,         \* FLOW_TRANSITION_HORIZON, a day
          LogStart,        \* the moment of that day when the log came to be
          DurableAfter,    \* FLOW_DURABLE_AFTER_DAYS
          Windows,         \* the window lengths readers ask for, in days
          LastDay,         \* bound: the day the clock stops in
          MaxLog           \* bound: transition rows in a behaviour

ASSUME FlowAssumption ==
  /\ Closed \in Status /\ None \notin Status
  /\ None \notin [status : Status, created : Nat, archived : BOOLEAN]
  /\ TicksPerDay \in Nat \ {0}
  /\ {Horizon, LogStart, DurableAfter, LastDay, MaxLog} \subseteq Nat
  /\ LogStart \div TicksPerDay = Horizon
  /\ Windows \subseteq Nat \ {0}

VARIABLES
  item,  \* [Item -> the committed row, or None]
  log,   \* the transition table in the order of its ids
  now,   \* the clock
  patch, \* [Writer -> its open patch, or None]
  pending, \* [Item -> the row an open creation has inserted, or None]
  \* What the properties are about; no action reads these.
  past,    \* [days that are over -> [Item -> the status at the day's end, or None]]
  tangled, \* the items with a transition row that is Misdated
  belated, \* the items committed on a later day than the one they are dated
  reborn   \* the items that were created closed or have left Closed

flowVars == <<item, log, now, patch, pending, past, tangled, belated, reborn>>

Day(t) == t \div TicksPerDay
Today  == Day(now)

Present(i) == item[i] # None

FlowInit ==
  /\ item = [i \in Item |-> None]
  /\ log = <<>>
  /\ now = 0
  /\ patch = [c \in Writer |-> None]
  /\ pending = [i \in Item |-> None]
  /\ past = [d \in {} |-> {}]
  /\ tangled = {} /\ belated = {}
  /\ reborn = {}

-------------------------------------------------------------------------------
(***************************************************************************)
(* The writers: create_work_item, materialize_schedule (which waits for a  *)
(* row after it has begun) and update_work_item, as far as the series can  *)
(* tell.                                                                   *)
(***************************************************************************)

CreateBegin(i, s) ==
  /\ ~Present(i) /\ pending[i] = None
  /\ pending' = [pending EXCEPT ![i] = [status |-> s, created |-> now, archived |-> FALSE]]
  /\ UNCHANGED <<item, log, now, patch, past, tangled, belated, reborn>>

CreateCommit(i) ==
  /\ pending[i] # None
  /\ item' = [item EXCEPT ![i] = pending[i]]
  /\ pending' = [pending EXCEPT ![i] = None]
  /\ reborn' = IF pending[i].status = Closed THEN reborn \cup {i} ELSE reborn
  /\ belated' = IF Day(pending[i].created) # Today THEN belated \cup {i} ELSE belated
  /\ UNCHANGED <<log, now, patch, past, tangled>>

PatchBegin(c, i, s) ==
  /\ patch[c] = None /\ Present(i)
  /\ Len(log) + Cardinality({d \in Writer : patch[d] # None}) < MaxLog
  /\ patch' = [patch EXCEPT ![c] = [item |-> i, to |-> s, at |-> now, from |-> None]]
  /\ UNCHANGED <<item, log, now, pending, past, tangled, belated, reborn>>

\* The status as committed when the transaction gets to read it.
PatchRead(c) ==
  /\ patch[c] # None /\ patch[c].from = None
  /\ patch' = [patch EXCEPT ![c].from = item[patch[c].item].status]
  /\ UNCHANGED <<item, log, now, pending, past, tangled, belated, reborn>>

\* record_transition, under its no-op guard and once migration 0026 is applied.
LoggedMove(i, from, to, at) ==
  IF from = to \/ now < LogStart THEN <<>>
  ELSE <<[item |-> i, from |-> from, to |-> to, at |-> at]>>

\* A row dated on another day than it is committed, or before one of its item
\* that is there already.
Misdated(i, at) == Day(at) # Today \/ \E k \in DOMAIN log : log[k].item = i /\ log[k].at > at

\* The status UPDATE, the transition row and the commit.
PatchCommit(c) ==
  LET i == patch[c].item IN
  /\ patch[c] # None /\ patch[c].from # None
  /\ item' = [item EXCEPT ![i].status = patch[c].to]
  /\ log' = log \o LoggedMove(i, patch[c].from, patch[c].to, patch[c].at)
  /\ patch' = [patch EXCEPT ![c] = None]
  /\ reborn' = IF item[i].status = Closed /\ patch[c].to # Closed THEN reborn \cup {i} ELSE reborn
  /\ tangled' = IF Misdated(i, patch[c].at) THEN tangled \cup {i} ELSE tangled
  /\ UNCHANGED <<now, pending, past, belated>>

SetArchived(i) ==
  /\ Present(i)
  /\ item' = [item EXCEPT ![i].archived = ~@]
  /\ UNCHANGED <<log, now, patch, pending, past, tangled, belated, reborn>>

ClockTick ==
  /\ Day(now + 1) <= LastDay
  /\ now' = now + 1
  /\ past' = IF Day(now + 1) = Today THEN past
             ELSE [d \in 0..Today |->
                     IF d < Today THEN past[d]
                     ELSE [i \in Item |-> IF Present(i) THEN item[i].status ELSE None]]
  /\ UNCHANGED <<item, log, patch, pending, tangled, belated, reborn>>

FlowNext ==
  \/ \E i \in Item, s \in Status : CreateBegin(i, s)
  \/ \E i \in Item : CreateCommit(i)
  \/ \E c \in Writer, i \in Item, s \in Status : PatchBegin(c, i, s)
  \/ \E c \in Writer : PatchRead(c)
  \/ \E c \in Writer : PatchCommit(c)
  \/ \E i \in Item : SetArchived(i)
  \/ ClockTick

FlowSpec == FlowInit /\ [][FlowNext]_flowVars

-------------------------------------------------------------------------------
(***************************************************************************)
(* work_item_flow.                                                         *)
(***************************************************************************)

\* The `wi' rows: archived items are left out throughout.
Counted == {i \in Item : Present(i) /\ ~item[i].archived}

Moves(i) == {k \in DOMAIN log : log[k].item = i}

\* Faulty variant: the newest of the rows.
Latest(K) == CHOOSE k \in K : \A j \in K : j <= k

\* ORDER BY tr.at ASC, tr.id ASC LIMIT 1 over the rows after day d.
MovesAfter(i, d) == {k \in Moves(i) : Day(log[k].at) > d}
Earliest(K) == CHOOSE k \in K : \A j \in K :
                 log[k].at < log[j].at \/ (log[k].at = log[j].at /\ k <= j)

\* The status of i at the end of day d, un-walked from what it is now.
StatusAt(i, d) == IF MovesAfter(i, d) = {} THEN item[i].status
                  ELSE log[Earliest(MovesAfter(i, d))].from

\* When i was closed, by the log; the first close of each day counts.
Closings(i)  == {log[k].at : k \in {j \in Moves(i) : log[j].to = Closed}}
DayCloses(i) == {t \in Closings(i) : \A u \in Closings(i) : Day(u) = Day(t) => t <= u}
\* Faulty variant: only items that are still closed.
ClosesThatStand(d) == {i \in Counted : /\ item[i].status = Closed
                                       /\ \E t \in DayCloses(i) : Day(t) = d}
ClosesOn(d)  == {i \in Counted : \E t \in DayCloses(i) : Day(t) = d}

\* A life of more than DurableAfter days.
Durable(created, end) == end - created > DurableAfter * TicksPerDay

\* Faulty variant: the life ended with the first close.
FirstLifeEnd(i) == IF item[i].status = Closed /\ Closings(i) # {} THEN Min(Closings(i)) ELSE now

\* The end of a life so far: the last close if it is closed now, else now.
LifeEnd(i) == IF item[i].status = Closed /\ Closings(i) # {} THEN Max(Closings(i)) ELSE now

ArrivedOn(d)       == {i \in Counted : Day(item[i].created) = d}
DurableArrivals(d) == {i \in ArrivedOn(d) : Durable(item[i].created, LifeEnd(i))}
DurableCloses(d)   == {i \in Counted : \E t \in DayCloses(i) :
                         Day(t) = d /\ Durable(item[i].created, t)}
OpenAt(d)          == {i \in Counted : Day(item[i].created) <= d /\ StatusAt(i, d) # Closed}

Row(d) == [added          |-> Cardinality(ArrivedOn(d)),
           closed         |-> Cardinality(ClosesOn(d)),
           backlog        |-> Cardinality(OpenAt(d)),
           added_durable  |-> Cardinality(DurableArrivals(d)),
           closed_durable |-> Cardinality(DurableCloses(d))]

\* The window, clamped to the horizon, and one day in front of it.
StartDay(days) == Today - (Min({days, Today - Horizon + 1}) - 1)
SeriesDays(days) == Max({StartDay(days) - 1, Horizon})..Today

BacklogBefore(days) == IF Cardinality(SeriesDays(days)) > days
                       THEN Row(Min(SeriesDays(days))).backlog ELSE None

\* Faulty variant: the baseline is read but its row stays.
ServedDaysAll(days) == SeriesDays(days)

\* The days of the response, without the baseline.
ServedDays(days) == IF BacklogBefore(days) = None THEN SeriesDays(days)
                    ELSE SeriesDays(days) \ {Min(SeriesDays(days))}

-------------------------------------------------------------------------------
(***************************************************************************)
(* Properties.                                                             *)
(***************************************************************************)

\* The un-walk: the backlog served for a day, the baseline day included, is the
\* number of open items there really were when that day ended, patches that
\* overlapped included, as long as no row is misdated and no item is dated on an
\* earlier day than it was committed: such an item joins the backlog of days that
\* ended without it.
BacklogIsHistory ==
  tangled = {} /\ belated = {} => \A w \in Windows : \A d \in SeriesDays(w) \ {Today} :
    Row(d).backlog = Cardinality({i \in Counted : past[d][i] \notin {None, Closed}})

SumOver(days, f) == MapThenSumSet(LAMBDA d : f[d], days)

Balances(w) ==
  LET days == ServedDays(w) IN
  BacklogBefore(w) # None =>
    Row(Today).backlog = BacklogBefore(w) + SumOver(days, [d \in days |-> Row(d).added])
                                          - SumOver(days, [d \in days |-> Row(d).closed])

\* backlog_before's delta: with it, the arrivals and the closures of the window
\* add up to the last backlog, when no item was created closed or reopened.  Creations
\* that span midnight do no harm: they arrive on the day whose backlog they join.
BalancesOnceClosed == tangled = {} /\ reborn = {} => \A w \in Windows : Balances(w)

\* The two halves of the churn split agree: an item one of whose closures counted
\* as durable is a durable arrival, however often it was reopened and closed since.
DurableSplitAgrees ==
  \A d, e \in Horizon..Today : DurableCloses(d) \cap ArrivedOn(e) \subseteq DurableArrivals(e)

\* A day that is over is over: whatever is patched later, what the series says of the
\* day's closures stays as it was, and so does its backlog, as long as no creation has
\* been committed on a later day than the one it began in.
PastDaysStand ==
  [][ tangled' = {} /\ (\A i \in Item : Present(i) => item'[i].archived = item[i].archived)
      => \A d \in Horizon..(Today - 1) :
           /\ belated' = {} => Row(d).backlog' = Row(d).backlog
           /\ Row(d).closed' = Row(d).closed
           /\ Row(d).closed_durable' = Row(d).closed_durable ]_flowVars
===============================================================================
