------------------------------- MODULE MCReports -------------------------------
(***************************************************************************)
(* The rows that declarations leave behind, however they race, and what    *)
(* the freshness query makes of them.                                      *)
(***************************************************************************)
EXTENDS Reports, Freshness

CONSTANT LastDay   \* bound: the days on which reports are dated

ASSUME MCReportsAssumption ==
  /\ LastDay \in Nat
  /\ Cadence \subseteq Nat
  /\ Undeclared = None /\ None \notin Int

Histories == SUBSET (1 .. LastDay)
\* As far ahead as the longest grace after the last report can reach, and a day more.
Days == 1 .. 3 * LastDay + 2

\* The columns Reports leaves out.
Declared(row, grace, retired) ==
  [cadence |-> row.cadence, on_demand |-> row.on_demand, grace |-> grace, retired |-> retired]
Declarations(row) ==
  {Declared(row, g, r) : g \in {Undeclared, 0, 1}, r \in BOOLEAN}

\* A day goes by without a report: the verdict can only turn from fresh to stale, on
\* the day after due_by, and the days overdue are counted from there.  What is not
\* fresh asserts nothing.
SilenceIsTold(d, dates, today) ==
  LET h == Health(d, dates, "ok", today)
      next == Health(d, dates, "ok", today + 1)
  IN
  /\ next.cadence = h.cadence /\ next.due_by = h.due_by
  /\ h.freshness # next.freshness =>
       h.freshness = "fresh" /\ next.freshness = "stale" /\ h.due_by = today
  /\ Alerts(h) => h.overdue > 0 /\ next.overdue = h.overdue + 1
  /\ h.overdue > 0 => Alerts(h) \/ d.retired
  /\ h.asserts = "ok" => h.freshness = "fresh" /\ today <= h.due_by

\* Reporting today ends the alarm, and a source that declares a cadence and has ever
\* reported is always judged by it.
ReportingEndsTheAlarm(d, dates, today) ==
  LET then == dates \cup {today} IN
  /\ today >= Max(then) => ~Alerts(Health(d, then, "ok", today))
  /\ d.cadence # Undeclared /\ ~d.on_demand /\ ~d.retired =>
       Health(d, then, "ok", today).freshness \in {"fresh", "stale"}

\* One missed day in a daily series does not raise the expectation to more than a day.
MissedDayKeepsThePace(dates) ==
  \A a, b \in 1 .. LastDay : \A missed \in a + 1 .. b - 1 :
    dates = (a .. b) \ {missed} => Inferred(dates) \in {1, Undeclared}

Rows == {[cadence |-> c, on_demand |-> o] : c \in Cadence \cup {None}, o \in BOOLEAN}

\* The rows all of whose verdicts are as they should be; a constant, so that TLC looks
\* at each history once.
WellJudged ==
  {row \in Rows :
     \A d \in Declarations(row), dates \in Histories :
        /\ MissedDayKeepsThePace(dates)
        /\ \A today \in {t \in Days : dates # {} => t >= Max(dates)} :
             SilenceIsTold(d, dates, today) /\ ReportingEndsTheAlarm(d, dates, today)}

Unheard ==
  {row \in Rows : row.on_demand =>
     \A d \in Declarations(row), dates \in Histories, today \in Days :
        LET h == Health(d, dates, "ok", today)
        IN  h.cadence = Undeclared /\ h.due_by = Undeclared /\ h.overdue = 0
            /\ ~Alerts(h) /\ h.asserts = "unknown"}

Stored(s) == IF source[s] = None THEN Unset ELSE source[s]

\* A source that stops reporting is told stale the day after it was due and until it
\* reports again, and says nothing meanwhile of what it watches (#950).
SilentSourcesAreTold == \A s \in Source : Stored(s) \in WellJudged

\* An on-demand source is never expected and so never overdue (#2183), not even with
\* the row two racing first declarations leave, on-demand and on a cadence.
OnDemandIsNeverDue == \A s \in Source : Stored(s) \in Unheard
================================================================================
