------------------------------- MODULE Freshness -------------------------------
(***************************************************************************)
(* What a report source is said to be on a given day                       *)
(* (list_report_sources): one query over the dates its reports carry and   *)
(* its report_source row, with nothing stored about staleness.  Dates are  *)
(* numbers of days.                                                        *)
(***************************************************************************)
EXTENDS Integers, FiniteSets, FiniteSetsExt

CONSTANTS SOURCE_CADENCE_WINDOW, SOURCE_MIN_HISTORY, SOURCE_MIN_SPAN_CADENCES,
          Undeclared  \* NULL

ASSUME FreshnessAssumption ==
  /\ SOURCE_CADENCE_WINDOW \in Nat \ {0}
  /\ SOURCE_MIN_HISTORY \in Nat \ {0}
  /\ SOURCE_MIN_SPAN_CADENCES \in Nat

\* The dates of a source's reports: report_one_per_day makes them a set.
\* What report_source declares of it is a record d
\*   [cadence, grace : Nat or Undeclared, retired, on_demand : BOOLEAN].

\* Faulty variants, used by nothing: the flag decides the word and not the cadence, and
\* a source is late on the day it is due.
CadenceInUse(d, inferred) == IF d.cadence # Undeclared THEN d.cadence ELSE inferred
LateWhenDue(today, due) == today >= due

-------------------------------------------------------------------------------
\* recency <= SOURCE_CADENCE_WINDOW
Recent(dates) ==
  {day \in dates : Cardinality({e \in dates : e >= day}) <= SOURCE_CADENCE_WINDOW}

\* The recent reports that have a predecessor, recent or not, and the gap before one.
WithGap(dates) == {day \in Recent(dates) : day # Min(dates)}
Gap(dates, day) == day - Max({e \in dates : e < day})

\* The k-th smallest of the gaps, and percentile_cont(0.5) rounded up.
GapOfRank(dates, k) ==
  Min({Gap(dates, day) : day \in {x \in WithGap(dates) :
         Cardinality({y \in WithGap(dates) : Gap(dates, y) <= Gap(dates, x)}) >= k}})
MedianGap(dates) ==
  LET n == Cardinality(WithGap(dates)) IN
  (GapOfRank(dates, (n + 1) \div 2) + GapOfRank(dates, n \div 2 + 1) + 1) \div 2

Span(dates) == Max(Recent(dates)) - Min(Recent(dates))

\* Enough reports over enough time to believe a cadence of `median' days.
Earned(dates, median) ==
  /\ Cardinality(dates) >= SOURCE_MIN_HISTORY
  /\ Span(dates) >= SOURCE_MIN_SPAN_CADENCES * median

Inferred(dates) ==
  IF WithGap(dates) # {} /\ Earned(dates, MedianGap(dates)) THEN MedianGap(dates) ELSE Undeclared

\* judged: a declared cadence beats an inferred one, and on-demand beats both.
Judged(d, inferred) ==
  IF d.on_demand THEN Undeclared
  ELSE IF d.cadence # Undeclared THEN d.cadence ELSE inferred

\* graced
Graced(d, cadence) ==
  IF d.grace # Undeclared THEN d.grace ELSE IF cadence < 1 THEN 1 ELSE cadence

\* (current_date - last_report_date) > (cadence_days + grace_days)
Late(today, due) == today > due

\* The answer about a source whose newest report says `status'.
Health(d, dates, status, today) ==
  LET cadence == Judged(d, Inferred(dates))
      rated   == cadence # Undeclared
      filed   == dates # {}
      due     == Max(dates) + cadence + Graced(d, cadence)
      freshness ==
        IF d.retired THEN "retired"
        ELSE IF d.on_demand THEN "on-demand"
        ELSE IF ~rated \/ ~filed THEN "unrated"
        ELSE IF Late(today, due) THEN "stale" ELSE "fresh"
  IN [freshness |-> freshness,
      asserts   |-> IF freshness = "fresh" THEN status ELSE "unknown",
      cadence   |-> cadence,
      due_by    |-> IF rated /\ filed THEN due ELSE Undeclared,
      overdue   |-> IF rated /\ filed /\ Late(today, due) THEN today - due ELSE 0]

Alerts(h) == h.freshness = "stale"
===============================================================================
