------------------------------- MODULE Reports -------------------------------
(***************************************************************************)
(* Daily reports and the declarations about their sources                  *)
(* (korg-core/src/repo/reports.rs), with reporters, operators and a reader *)
(* calling at once.  A call is one READ COMMITTED transaction: what it     *)
(* reads is what is committed at that statement, a row it has written is   *)
(* locked until it commits, and a write waits for such a lock.             *)
(*                                                                         *)
(* A slot is a (source, report_date) pair.  A text stands for everything a *)
(* run writes to the row: status, summary, body, model, escalated.         *)
(***************************************************************************)
EXTENDS Naturals, FiniteSets

CONSTANTS Client,    \* concurrent callers of create_report and set_report_source
          Slot, Text, Item, Source,
          Cadence,   \* the cadences callers declare
          None,      \* NULL, or a row that is not there
          Keep,      \* a patch field the request does not carry
          MaxRuns    \* bound: runs of create_report in a behaviour

ASSUME ReportsAssumption ==
  /\ MaxRuns \in Nat
  /\ None # Keep
  /\ {None, Keep} \cap Text = {} /\ {None, Keep} \cap Cadence = {}
  /\ {None, Keep} \cap BOOLEAN = {}
  /\ None \notin [text : Text, reviewed : BOOLEAN]
  /\ None \notin [cadence : Cadence \cup {None}, on_demand : BOOLEAN]

VARIABLES
  report,   \* [Slot -> the committed row, or None]
  finding,  \* [Slot -> the items its committed `finding' edges point at]
  source,   \* [Source -> the committed report_source row, or None]
  call,     \* [Client -> what its open transaction has read and written]
  \* What the properties are about; no action's guard reads these.
  entries,  \* [Slot -> the activity entries its runs have made]
  latest,   \* [Slot -> the findings of the run that committed last]
  first,    \* [Slot -> the text the report was created with, or None]
  raced,    \* the sources whose first two declarations overlapped
  runs      \* how many runs have begun

vars == <<report, finding, source, call, entries, latest, first, raced, runs>>

Row  == [text : Text, reviewed : BOOLEAN]
Decl == [cadence : Cadence \cup {None}, on_demand : BOOLEAN]
SourcePatch == [cadence : Cadence \cup {None, Keep}, on_demand : BOOLEAN \cup {Keep}]

Idle == [step |-> "idle"]
RunSteps  == {"looked", "wrote", "pruned"}
Call == {Idle}
  \cup [step : RunSteps, slot : Slot, text : Text, resolved : SUBSET Item,
        before : Row \cup {None}, obsolete : SUBSET Item]
  \cup [step : {"declaring"}, source : Source, patch : SourcePatch,
        stored : Decl \cup {None}]

Running(c)   == call[c].step \in RunSteps
Declaring(c) == call[c].step = "declaring"

TypeOK ==
  /\ report \in [Slot -> Row \cup {None}]
  /\ finding \in [Slot -> SUBSET Item]
  /\ source \in [Source -> Decl \cup {None}]
  /\ call \in [Client -> Call]
  /\ entries \in [Slot -> [created : Nat, edited : Nat]]
  /\ latest \in [Slot -> SUBSET Item]
  /\ first \in [Slot -> Text \cup {None}]
  /\ raced \subseteq Source
  /\ runs \in 0..MaxRuns

Init ==
  /\ report = [k \in Slot |-> None]
  /\ finding = [k \in Slot |-> {}]
  /\ source = [s \in Source |-> None]
  /\ call = [c \in Client |-> Idle]
  /\ entries = [k \in Slot |-> [created |-> 0, edited |-> 0]]
  /\ latest = [k \in Slot |-> {}]
  /\ first = [k \in Slot |-> None]
  /\ raced = {}
  /\ runs = 0

reportVars == <<report, finding, entries, latest, first>>

-------------------------------------------------------------------------------
(***************************************************************************)
(* Faulty variants, one per property; the specification uses none.         *)
(***************************************************************************)

\* Both fingerprints are taken after the write.
EntryLate(replaced, before, after) == IF ~replaced THEN {"created"} ELSE {}

\* The contradiction is looked for in the request alone.
ContradictsInCall(row, patch) == patch.on_demand = TRUE /\ patch.cadence \in Cadence

-------------------------------------------------------------------------------
(***************************************************************************)
(* create_report: create or replace the report of a slot.                  *)
(***************************************************************************)

\* The report row, or the unique key of one being inserted, is some other
\* transaction's until it commits.
RowLocked(c, k) ==
  \E d \in Client \ {c} : call[d].step \in {"wrote", "pruned"} /\ call[d].slot = k

\* report_one_per_day: an insert finds no committed row of the slot.
SlotFree(c) == report[call[c].slot] = None

\* Faulty variant: a rerun leaves the edges of earlier runs in place.
ObsoleteNone(k, resolved) == {}

\* The edges to drop: those in place that this run did not produce.
Obsolete(k, resolved) == finding[k] \ resolved

\* record_edit and record_activity: an entry for a creation or a change of the
\* row against the fingerprint taken before the write.
Entry(replaced, before, after) ==
  IF ~replaced THEN {"created"} ELSE IF after # before THEN {"edited"} ELSE {}

Replaces(c) == call[c].before # None

Written(c) == [text |-> call[c].text, reviewed |-> FALSE]

\* The look for the slot's report and, if there is one, its fingerprint.
RunLook(c, k, text, resolved) ==
  /\ call[c] = Idle
  /\ runs < MaxRuns
  /\ runs' = runs + 1
  /\ call' = [call EXCEPT ![c] =
       [step |-> "looked", slot |-> k, text |-> text, resolved |-> resolved,
        before |-> report[k], obsolete |-> {}]]
  /\ UNCHANGED <<reportVars, source, raced>>

\* The UPDATE of the report found, or the INSERT of one that was not there.
RunWrite(c) ==
  /\ call[c].step = "looked"
  /\ ~RowLocked(c, call[c].slot)
  /\ Replaces(c) \/ SlotFree(c)
  /\ call' = [call EXCEPT ![c].step = "wrote"]
  /\ UNCHANGED <<reportVars, source, raced, runs>>

\* The INSERT meets a report committed since the look: the call fails.
RunConflicts(c) ==
  /\ call[c].step = "looked"
  /\ ~RowLocked(c, call[c].slot)
  /\ ~Replaces(c) /\ ~SlotFree(c)
  /\ call' = [call EXCEPT ![c] = Idle]
  /\ UNCHANGED <<reportVars, source, raced, runs>>

\* The DELETE of the finding edges that this run did not produce.
RunPrune(c) ==
  /\ call[c].step = "wrote"
  /\ call' = [call EXCEPT ![c].step = "pruned",
                          ![c].obsolete = Obsolete(call[c].slot, call[c].resolved)]
  /\ UNCHANGED <<reportVars, source, raced, runs>>

\* The edge inserts, the activity entry and the commit.
RunCommit(c) ==
  LET k == call[c].slot
      entry == Entry(Replaces(c), call[c].before, Written(c))
  IN
  /\ call[c].step = "pruned"
  /\ report' = [report EXCEPT ![k] = Written(c)]
  /\ finding' = [finding EXCEPT ![k] = (@ \ call[c].obsolete) \cup call[c].resolved]
  /\ entries' = [entries EXCEPT
       ![k].created = @ + (IF "created" \in entry THEN 1 ELSE 0),
       ![k].edited  = @ + (IF "edited" \in entry THEN 1 ELSE 0)]
  /\ latest' = [latest EXCEPT ![k] = call[c].resolved]
  /\ first' = [first EXCEPT ![k] = IF @ = None THEN call[c].text ELSE @]
  /\ call' = [call EXCEPT ![c] = Idle]
  /\ UNCHANGED <<source, raced, runs>>

-------------------------------------------------------------------------------
\* set_report_reviewed: one UPDATE, which waits for the row.
SetReviewed(k, flag) ==
  /\ report[k] # None
  /\ \A c \in Client : ~RowLocked(c, k)
  /\ report' = [report EXCEPT ![k].reviewed = flag]
  /\ UNCHANGED <<finding, entries, latest, first, source, call, raced, runs>>

-------------------------------------------------------------------------------
(***************************************************************************)
(* set_report_source: declare a cadence, or that there is none.  Grace,    *)
(* retirement and the note are columns no rule here reads.                 *)
(***************************************************************************)

\* The row a patch would leave.
AfterPatch(row, patch) ==
  [cadence |-> IF patch.cadence = Keep THEN row.cadence ELSE patch.cadence,
   on_demand |-> IF patch.on_demand = Keep THEN row.on_demand ELSE patch.on_demand]

Unset == [cadence |-> None, on_demand |-> FALSE]

Contradictory(row) == row.on_demand /\ row.cadence # None

\* The check is on the row the patch would leave, not on the request.
Contradicts(row, patch) == Contradictory(AfterPatch(row, patch))

\* SELECT ... FOR UPDATE holds the row, when there is one, until the commit.
DeclLocked(c, s) ==
  \E d \in Client \ {c} : /\ Declaring(d) /\ call[d].source = s
                          /\ call[d].stored # None

DeclareLook(c, s, patch) ==
  LET stored == IF source[s] = None THEN Unset ELSE source[s] IN
  /\ call[c] = Idle
  /\ ~DeclLocked(c, s)
  /\ ~Contradicts(stored, patch)
  /\ call' = [call EXCEPT ![c] = [step |-> "declaring", source |-> s,
                                  patch |-> patch, stored |-> source[s]]]
  /\ UNCHANGED <<reportVars, source, raced, runs>>

\* INSERT ... ON CONFLICT DO UPDATE and the commit: a row that another first
\* declaration has committed meanwhile is updated, not looked at again.
DeclareWrite(c) ==
  LET s == call[c].source
      present == IF source[s] = None THEN Unset ELSE source[s]
  IN
  /\ Declaring(c)
  /\ ~DeclLocked(c, s)
  /\ source' = [source EXCEPT ![s] = AfterPatch(present, call[c].patch)]
  /\ raced' = IF call[c].stored = None /\ source[s] # None THEN raced \cup {s} ELSE raced
  /\ call' = [call EXCEPT ![c] = Idle]
  /\ UNCHANGED <<reportVars, runs>>

\* An error or a lost connection rolls the transaction back.
Abort(c) ==
  /\ call[c] # Idle
  /\ call' = [call EXCEPT ![c] = Idle]
  /\ UNCHANGED <<reportVars, source, raced, runs>>

-------------------------------------------------------------------------------

Next ==
  \/ \E c \in Client, k \in Slot, t \in Text, fs \in SUBSET Item : RunLook(c, k, t, fs)
  \/ \E c \in Client : RunWrite(c)
  \/ \E c \in Client : RunConflicts(c)
  \/ \E c \in Client : RunPrune(c)
  \/ \E c \in Client : RunCommit(c)
  \/ \E k \in Slot, flag \in BOOLEAN : SetReviewed(k, flag)
  \/ \E c \in Client, s \in Source, p \in SourcePatch : DeclareLook(c, s, p)
  \/ \E c \in Client : DeclareWrite(c)
  \/ \E c \in Client : Abort(c)

Spec == Init /\ [][Next]_vars

-------------------------------------------------------------------------------
(***************************************************************************)
(* Properties.                                                             *)
(***************************************************************************)

\* `get_report.findings reflects the latest run only': however the day's runs
\* overlap, a report's finding edges are those of the run that committed last.
FindingsAreTheLatestRuns == \A k \in Slot : finding[k] = latest[k]

\* The no-op guard compares with a fingerprint that another run may have made
\* stale.  Even so a report without an `edited' entry reads as it was created.
UneditedReadsAsCreated ==
  \A k \in Slot : report[k] # None /\ entries[k].edited = 0
                    => report[k].text = first[k]

\* No sequence of declarations and no timing makes a source both on-demand and
\* on a cadence, except two first declarations that overlap.
ContradictionOnlyAtBirth ==
  \A s \in Source : source[s] # None /\ Contradictory(source[s]) => s \in raced

===============================================================================
