----------------------------- MODULE ReportsProofs -----------------------------
(***************************************************************************)
(* What holds of Reports for any number of clients, slots, sources, texts  *)
(* and runs: types, the findings of the latest run, what an unlogged       *)
(* report reads, where a contradictory declaration can come from, and what *)
(* the freshness query says of each, for any histories.                    *)
(***************************************************************************)
EXTENDS MCReports, FiniteSetTheorems, WellFoundedInduction, TLAPS

\* The run that has written its row, or would insert it, has it to itself.
Holding(c) == call[c].step \in {"wrote", "pruned"}

RunsExclude ==
  \A c, d \in Client : Holding(c) /\ Holding(d) /\ call[c].slot = call[d].slot => c = d

\* What a pruning run is about to delete is still what the slot has too many.
PrunedStands ==
  \A c \in Client : call[c].step = "pruned" =>
    call[c].obsolete = finding[call[c].slot] \ call[c].resolved

\* What a run found of its slot: a row once there stays, and reads as when it was
\* created unless an edit has been logged since; no row, once the run holds the slot,
\* is no row still.
LookStands ==
  \A c \in Client : Running(c) =>
    LET k == call[c].slot IN
    /\ Replaces(c) => /\ report[k] # None
                      /\ entries[k].edited # 0 \/ call[c].before.text = first[k]
    /\ ~Replaces(c) /\ Holding(c) => report[k] = None

FirstStands == \A k \in Slot : report[k] = None <=> first[k] = None

\* What a declaration read of its source, when there was a row to lock, still stands,
\* nobody else has read it to write it, and the row it will leave was checked.
DeclarationStands ==
  \A c \in Client : Declaring(c) =>
    LET stored == call[c].stored
        s == call[c].source
    IN
    /\ ~Contradictory(AfterPatch(IF stored = None THEN Unset ELSE stored, call[c].patch))
    /\ stored # None => stored = source[s]
    /\ stored # None => \A d \in Client \ {c} :
         Declaring(d) /\ call[d].source = s => call[d].stored = None

RunInv ==
  /\ TypeOK /\ RunsExclude /\ PrunedStands /\ LookStands /\ FirstStands
  /\ FindingsAreTheLatestRuns /\ UneditedReadsAsCreated

DeclInv == TypeOK /\ DeclarationStands /\ ContradictionOnlyAtBirth

-------------------------------------------------------------------------------
RunCall == [step : RunSteps, slot : Slot, text : Text, resolved : SUBSET Item,
            before : Row \cup {None}, obsolete : SUBSET Item]
DeclCall == [step : {"declaring"}, source : Source, patch : SourcePatch, stored : Decl \cup {None}]

LEMMA RunFields == ASSUME TypeOK, NEW c \in Client, Running(c) PROVE call[c] \in RunCall
  BY DEF TypeOK, Call, Running, RunSteps, RunCall, Idle

LEMMA DeclFields == ASSUME TypeOK, NEW c \in Client, Declaring(c) PROVE call[c] \in DeclCall
  BY DEF TypeOK, Call, Declaring, RunSteps, DeclCall, Idle

LEMMA PatchedTyped ==
  ASSUME NEW row \in Decl, NEW patch \in SourcePatch PROVE AfterPatch(row, patch) \in Decl
  BY ReportsAssumption DEF AfterPatch, Decl, SourcePatch

LEMMA NextCallTyped ==
  ASSUME TypeOK, NEW c \in Client, NEW new \in Call, call' = [call EXCEPT ![c] = new]
  PROVE  call' \in [Client -> Call] /\ call'[c] = new /\ \A d \in Client \ {c} : call'[d] = call[d]
  BY DEF TypeOK

-------------------------------------------------------------------------------
(***************************************************************************)
(* What each step does to the call that takes it.                          *)
(***************************************************************************)

Others(c) == \A d \in Client \ {c} : call'[d] = call[d]

LEMMA LookMoves ==
  ASSUME TypeOK, NEW c \in Client, NEW k \in Slot, NEW t \in Text, NEW fs \in SUBSET Item,
         RunLook(c, k, t, fs)
  PROVE  /\ call' \in [Client -> Call] /\ Others(c) /\ runs' \in 0..MaxRuns
         /\ call'[c] = [step |-> "looked", slot |-> k, text |-> t, resolved |-> fs,
                        before |-> report[k], obsolete |-> {}]
<1>1. [step |-> "looked", slot |-> k, text |-> t, resolved |-> fs,
       before |-> report[k], obsolete |-> {}] \in Call
  BY DEF TypeOK, Call, RunSteps
<1>. QED  BY <1>1, NextCallTyped, ReportsAssumption DEF RunLook, Others, TypeOK

LEMMA WriteMoves ==
  ASSUME TypeOK, NEW c \in Client, RunWrite(c)
  PROVE  /\ call' \in [Client -> Call] /\ Others(c)
         /\ call'[c] = [call[c] EXCEPT !.step = "wrote"] /\ call'[c] \in RunCall
<1>1. call[c] \in RunCall
  BY RunFields DEF RunWrite, Running, RunSteps
<1>2. [call[c] EXCEPT !.step = "wrote"] \in RunCall
  BY <1>1 DEF RunCall, RunSteps
<1>3. [call[c] EXCEPT !.step = "wrote"] \in Call
  BY <1>2 DEF RunCall, Call
<1>4. call' = [call EXCEPT ![c] = [call[c] EXCEPT !.step = "wrote"]]
  BY DEF RunWrite
<1>. QED  BY <1>2, <1>3, <1>4, NextCallTyped DEF Others

LEMMA PruneMoves ==
  ASSUME TypeOK, NEW c \in Client, RunPrune(c)
  PROVE  /\ call' \in [Client -> Call] /\ Others(c) /\ call[c] \in RunCall
         /\ call'[c] = [call[c] EXCEPT !.step = "pruned",
                                       !.obsolete = finding[call[c].slot] \ call[c].resolved]
         /\ call'[c] \in RunCall
<1>1. call[c] \in RunCall
  BY RunFields DEF RunPrune, Running, RunSteps
<1>. DEFINE new == [call[c] EXCEPT !.step = "pruned",
                                   !.obsolete = finding[call[c].slot] \ call[c].resolved]
<1>2. finding[call[c].slot] \ call[c].resolved \in SUBSET Item
  BY <1>1 DEF RunCall, TypeOK
<1>3. new \in RunCall
  BY <1>1, <1>2 DEF RunCall, RunSteps
<1>4. new \in Call
  BY <1>3 DEF RunCall, Call
<1>5. call' = [call EXCEPT ![c] = new]
  BY DEF RunPrune, Obsolete
<1>. HIDE DEF new
<1>6. call' \in [Client -> Call] /\ call'[c] = new /\ \A d \in Client \ {c} : call'[d] = call[d]
  BY <1>4, <1>5, NextCallTyped
<1>. QED  BY <1>1, <1>3, <1>6 DEF Others, new

LEMMA IdleMoves ==
  ASSUME TypeOK, NEW c \in Client, call' = [call EXCEPT ![c] = Idle]
  PROVE  call' \in [Client -> Call] /\ Others(c) /\ call'[c] = Idle
<1>1. Idle \in Call
  BY DEF Call
<1>. QED  BY <1>1, NextCallTyped DEF Others

LEMMA DeclareMoves ==
  ASSUME TypeOK, NEW c \in Client, NEW s \in Source, NEW p \in SourcePatch, DeclareLook(c, s, p)
  PROVE  /\ call' \in [Client -> Call] /\ Others(c)
         /\ call'[c] = [step |-> "declaring", source |-> s, patch |-> p, stored |-> source[s]]
<1>1. [step |-> "declaring", source |-> s, patch |-> p, stored |-> source[s]] \in Call
  BY DEF TypeOK, Call
<1>. QED  BY <1>1, NextCallTyped DEF DeclareLook, Others

\* The commit of a run.
LEMMA CommitMoves ==
  ASSUME TypeOK, NEW c \in Client, RunCommit(c)
  PROVE  /\ call[c] \in RunCall /\ call[c].step = "pruned" /\ call[c].slot \in Slot
         /\ report'[call[c].slot] = [text |-> call[c].text, reviewed |-> FALSE]
         /\ first'[call[c].slot] = IF first[call[c].slot] = None THEN call[c].text
                                   ELSE first[call[c].slot]
         /\ latest'[call[c].slot] = call[c].resolved
         /\ finding'[call[c].slot] =
              (finding[call[c].slot] \ call[c].obsolete) \cup call[c].resolved
         /\ entries'[call[c].slot].edited =
              entries[call[c].slot].edited
                + (IF Replaces(c) /\ Written(c) # call[c].before THEN 1 ELSE 0)
         /\ \A k \in Slot \ {call[c].slot} :
              /\ report'[k] = report[k] /\ first'[k] = first[k] /\ latest'[k] = latest[k]
              /\ finding'[k] = finding[k] /\ entries'[k] = entries[k]
<1>1. call[c] \in RunCall /\ call[c].step = "pruned"
  BY RunFields DEF RunCommit, Running, RunSteps
<1>2. call[c].slot \in Slot
  BY <1>1 DEF RunCall
<1>. QED  BY <1>1, <1>2 DEF RunCommit, TypeOK, Written, Entry

\* Every step of Reports, by what it is.
LEMMA ReportSteps ==
  ASSUME [Next]_vars
  PROVE  \/ \E c \in Client, k \in Slot, t \in Text, fs \in SUBSET Item : RunLook(c, k, t, fs)
         \/ \E c \in Client : RunWrite(c)
         \/ \E c \in Client : RunConflicts(c) \/ Abort(c)
         \/ \E c \in Client : RunPrune(c)
         \/ \E c \in Client : RunCommit(c)
         \/ \E k \in Slot, flag \in BOOLEAN : SetReviewed(k, flag)
         \/ \E c \in Client, s \in Source, p \in SourcePatch : DeclareLook(c, s, p)
         \/ \E c \in Client : DeclareWrite(c)
         \/ UNCHANGED vars
  BY DEF Next

-------------------------------------------------------------------------------
LEMMA ReportInit == Init => RunInv /\ DeclInv
<1>1. Init => TypeOK
  BY ReportsAssumption DEF Init, TypeOK, Call
<1>. QED
  BY <1>1 DEF Init, RunInv, DeclInv, RunsExclude, Holding, PrunedStands, LookStands, Running, RunSteps,
     FirstStands, DeclarationStands, Declaring, Idle, FindingsAreTheLatestRuns,
     UneditedReadsAsCreated, ContradictionOnlyAtBirth

LEMMA ReportTypeStep == TypeOK /\ [Next]_vars => TypeOK'
<1>. SUFFICES ASSUME TypeOK, [Next]_vars PROVE TypeOK'
  OBVIOUS
<1>1. ASSUME NEW c \in Client, NEW k \in Slot, NEW t \in Text, NEW fs \in SUBSET Item,
             RunLook(c, k, t, fs)
      PROVE  TypeOK'
  BY <1>1, LookMoves DEF RunLook, reportVars, TypeOK
<1>2. ASSUME NEW c \in Client, RunWrite(c) PROVE TypeOK'
  BY <1>2, WriteMoves DEF RunWrite, reportVars, TypeOK
<1>3. ASSUME NEW c \in Client, RunConflicts(c) \/ Abort(c) PROVE TypeOK'
  BY <1>3, IdleMoves DEF RunConflicts, Abort, reportVars, TypeOK
<1>4. ASSUME NEW c \in Client, RunPrune(c) PROVE TypeOK'
  BY <1>4, PruneMoves DEF RunPrune, reportVars, TypeOK
<1>5. ASSUME NEW c \in Client, RunCommit(c) PROVE TypeOK'
  <2>1. call[c] \in RunCall
    BY <1>5, CommitMoves
  <2>. DEFINE k == call[c].slot
  <2>2. k \in Slot /\ Written(c) \in Row /\ call[c].text \in Text
    BY <2>1 DEF RunCall, Written, Row
  <2>3. call' \in [Client -> Call]
    BY <1>5, IdleMoves DEF RunCommit
  <2>4. report' \in [Slot -> Row \cup {None}] /\ first' \in [Slot -> Text \cup {None}]
    BY <1>5, <2>2 DEF RunCommit, TypeOK
  <2>5. finding' \in [Slot -> SUBSET Item] /\ latest' \in [Slot -> SUBSET Item]
    BY <1>5, <2>1 DEF RunCommit, TypeOK, RunCall
  <2>6. entries' \in [Slot -> [created : Nat, edited : Nat]]
    BY <1>5, <2>2 DEF RunCommit, TypeOK
  <2>. QED  BY <1>5, <2>3, <2>4, <2>5, <2>6 DEF RunCommit, TypeOK
<1>6. ASSUME NEW k \in Slot, NEW flag \in BOOLEAN, SetReviewed(k, flag) PROVE TypeOK'
  BY <1>6 DEF SetReviewed, TypeOK, Row
<1>7. ASSUME NEW c \in Client, NEW s \in Source, NEW p \in SourcePatch, DeclareLook(c, s, p)
      PROVE  TypeOK'
  BY <1>7, DeclareMoves DEF DeclareLook, reportVars, TypeOK
<1>8. ASSUME NEW c \in Client, DeclareWrite(c) PROVE TypeOK'
  <2>1. call[c] \in DeclCall
    BY <1>8, DeclFields DEF DeclareWrite
  <2>2. call[c].source \in Source /\ call[c].patch \in SourcePatch
    BY <2>1 DEF DeclCall
  <2>. DEFINE present == IF source[call[c].source] = None THEN Unset ELSE source[call[c].source]
  <2>3. present \in Decl
    BY <2>2 DEF TypeOK, Unset, Decl
  <2>4. AfterPatch(present, call[c].patch) \in Decl
    BY <2>2, <2>3, PatchedTyped
  <2>5. source' = [source EXCEPT ![call[c].source] = AfterPatch(present, call[c].patch)]
    BY <1>8 DEF DeclareWrite
  <2>. HIDE DEF present
  <2>6. source' \in [Source -> Decl \cup {None}]
    BY <2>2, <2>4, <2>5 DEF TypeOK
  <2>7. raced' \subseteq Source
    BY <1>8, <2>2 DEF DeclareWrite, TypeOK
  <2>8. call' \in [Client -> Call]
    BY <1>8, IdleMoves DEF DeclareWrite
  <2>. QED  BY <1>8, <2>6, <2>7, <2>8 DEF DeclareWrite, reportVars, TypeOK
<1>9. CASE UNCHANGED vars
  BY <1>9 DEF vars, TypeOK
<1>. QED  BY <1>1, <1>2, <1>3, <1>4, <1>5, <1>6, <1>7, <1>8, <1>9, ReportSteps

-------------------------------------------------------------------------------
(***************************************************************************)
(* The runs of create_report.                                              *)
(***************************************************************************)

LEMMA LookStep ==
  ASSUME RunInv, NEW c \in Client, NEW k \in Slot, NEW t \in Text, NEW fs \in SUBSET Item,
         RunLook(c, k, t, fs)
  PROVE  RunInv'
<1>a. TypeOK /\ TypeOK'
  BY ReportTypeStep DEF RunInv, Next
<1>b. /\ Others(c)
      /\ call'[c].step = "looked" /\ call'[c].slot = k /\ call'[c].before = report[k]
  <2>1. /\ Others(c)
        /\ call'[c] = [step |-> "looked", slot |-> k, text |-> t, resolved |-> fs,
                       before |-> report[k], obsolete |-> {}]
    BY <1>a, LookMoves
  <2>. QED  BY <2>1
<1>c. UNCHANGED reportVars
  BY DEF RunLook
<1>1. RunsExclude'
  BY <1>b DEF RunInv, RunsExclude, Holding, Others
<1>2. PrunedStands'
  BY <1>b, <1>c DEF RunInv, PrunedStands, Others, reportVars
<1>3. LookStands'
  <2>. SUFFICES ASSUME NEW d \in Client, Running(d)'
                PROVE  LET j == call'[d].slot IN
                       /\ call'[d].before # None
                            => /\ report'[j] # None
                               /\ entries'[j].edited # 0 \/ call'[d].before.text = first'[j]
                       /\ call'[d].before = None /\ call'[d].step \in {"wrote", "pruned"}
                            => report'[j] = None
    BY DEF LookStands, Replaces, Holding
  <2>1. CASE d = c
    BY <1>b, <1>c, <2>1 DEF RunInv, UneditedReadsAsCreated, reportVars
  <2>2. CASE d # c
    BY <1>b, <1>c, <2>2 DEF RunInv, LookStands, Replaces, Holding, Running, Others, reportVars
  <2>. QED  BY <2>1, <2>2
<1>4. (FirstStands /\ FindingsAreTheLatestRuns /\ UneditedReadsAsCreated)'
  BY <1>c DEF RunInv, FirstStands, FindingsAreTheLatestRuns, UneditedReadsAsCreated, reportVars
<1>. QED  BY <1>a, <1>1, <1>2, <1>3, <1>4 DEF RunInv

LEMMA WriteStep ==
  ASSUME RunInv, NEW c \in Client, RunWrite(c)
  PROVE  RunInv'
<1>a. TypeOK /\ TypeOK'
  BY ReportTypeStep DEF RunInv, Next
<1>b. /\ Others(c) /\ call[c].step = "looked" /\ call'[c].step = "wrote"
      /\ call'[c].slot = call[c].slot /\ call'[c].before = call[c].before
  <2>1. call[c].step = "looked" /\ call[c] \in RunCall
    BY <1>a, RunFields DEF RunWrite, Running, RunSteps
  <2>. QED  BY <1>a, <2>1, WriteMoves DEF RunCall
<1>c. UNCHANGED reportVars
  BY DEF RunWrite
<1>d. \A d \in Client \ {c} : ~(Holding(d) /\ call[d].slot = call[c].slot)
  BY DEF RunWrite, RowLocked, Holding
<1>1. RunsExclude'
  BY <1>b, <1>d DEF RunInv, RunsExclude, Holding, Others
<1>2. PrunedStands'
  BY <1>b, <1>c DEF RunInv, PrunedStands, Others, reportVars
<1>3. LookStands'
  <2>. SUFFICES ASSUME NEW d \in Client, Running(d)'
                PROVE  LET j == call'[d].slot IN
                       /\ call'[d].before # None
                            => /\ report'[j] # None
                               /\ entries'[j].edited # 0 \/ call'[d].before.text = first'[j]
                       /\ call'[d].before = None /\ call'[d].step \in {"wrote", "pruned"}
                            => report'[j] = None
    BY DEF LookStands, Replaces, Holding
  <2>1. CASE d = c
    BY <1>b, <1>c, <2>1
       DEF RunInv, LookStands, Replaces, Running, RunSteps, RunWrite, SlotFree, reportVars
  <2>2. CASE d # c
    BY <1>b, <1>c, <2>2 DEF RunInv, LookStands, Replaces, Holding, Running, Others, reportVars
  <2>. QED  BY <2>1, <2>2
<1>4. (FirstStands /\ FindingsAreTheLatestRuns /\ UneditedReadsAsCreated)'
  BY <1>c DEF RunInv, FirstStands, FindingsAreTheLatestRuns, UneditedReadsAsCreated, reportVars
<1>. QED  BY <1>a, <1>1, <1>2, <1>3, <1>4 DEF RunInv

LEMMA PruneStep ==
  ASSUME RunInv, NEW c \in Client, RunPrune(c)
  PROVE  RunInv'
<1>a. TypeOK /\ TypeOK'
  BY ReportTypeStep DEF RunInv, Next
<1>b. /\ Others(c) /\ call[c].step = "wrote" /\ call'[c].step = "pruned"
      /\ call'[c].slot = call[c].slot /\ call'[c].before = call[c].before
      /\ call'[c].resolved = call[c].resolved
      /\ call'[c].obsolete = finding[call[c].slot] \ call[c].resolved
  BY <1>a, PruneMoves DEF RunPrune, RunCall
<1>c. UNCHANGED reportVars
  BY DEF RunPrune
<1>1. RunsExclude'
  BY <1>b DEF RunInv, RunsExclude, Holding, Others
<1>2. PrunedStands'
  BY <1>b, <1>c DEF RunInv, PrunedStands, Others, reportVars
<1>3. LookStands'
  BY <1>b, <1>c DEF RunInv, LookStands, Replaces, Running, RunSteps, Holding, Others, reportVars
<1>4. (FirstStands /\ FindingsAreTheLatestRuns /\ UneditedReadsAsCreated)'
  BY <1>c DEF RunInv, FirstStands, FindingsAreTheLatestRuns, UneditedReadsAsCreated, reportVars
<1>. QED  BY <1>a, <1>1, <1>2, <1>3, <1>4 DEF RunInv

\* A call that ends, begins to declare or goes on declaring leaves the reports and the
\* other runs alone.
LEMMA OtherStep ==
  ASSUME RunInv, TypeOK', NEW c \in Client, Others(c), ~Running(c)', UNCHANGED reportVars
  PROVE  RunInv'
<1>. USE DEF Others, Running, RunSteps, reportVars
<1>1. RunsExclude'
  BY DEF RunInv, RunsExclude, Holding
<1>2. PrunedStands'
  BY DEF RunInv, PrunedStands
<1>3. LookStands'
  BY DEF RunInv, LookStands, Replaces, Holding
<1>4. (FirstStands /\ FindingsAreTheLatestRuns /\ UneditedReadsAsCreated)'
  BY DEF RunInv, FirstStands, FindingsAreTheLatestRuns, UneditedReadsAsCreated
<1>. QED  BY <1>1, <1>2, <1>3, <1>4 DEF RunInv

LEMMA CommitStep ==
  ASSUME RunInv, NEW c \in Client, RunCommit(c)
  PROVE  RunInv'
<1>a. TypeOK /\ TypeOK'
  BY ReportTypeStep DEF RunInv, Next
<1>. DEFINE k == call[c].slot
<1>b. Others(c) /\ call'[c] = Idle
  BY <1>a, IdleMoves DEF RunCommit
<1>c. /\ call[c] \in RunCall /\ call[c].step = "pruned" /\ k \in Slot /\ call[c].text \in Text
      /\ report'[k] = [text |-> call[c].text, reviewed |-> FALSE]
      /\ first'[k] = IF first[k] = None THEN call[c].text ELSE first[k]
      /\ latest'[k] = call[c].resolved
      /\ finding'[k] = (finding[k] \ call[c].obsolete) \cup call[c].resolved
      /\ entries'[k].edited = entries[k].edited
              + (IF Replaces(c) /\ Written(c) # call[c].before THEN 1 ELSE 0)
      /\ \A j \in Slot \ {k} :
           /\ report'[j] = report[j] /\ first'[j] = first[j] /\ latest'[j] = latest[j]
           /\ finding'[j] = finding[j] /\ entries'[j] = entries[j]
  BY <1>a, CommitMoves DEF RunCall
<1>d. call[c].obsolete = finding[k] \ call[c].resolved
  BY <1>c DEF RunInv, PrunedStands
<1>e. /\ Replaces(c) => report[k] # None /\ (entries[k].edited # 0 \/ call[c].before.text = first[k])
      /\ ~Replaces(c) => report[k] = None
  BY <1>c DEF RunInv, LookStands, Holding, Running, RunSteps
<1>f. \A d \in Client \ {c} : Holding(d) => call[d].slot # k
  BY <1>c DEF RunInv, RunsExclude, Holding
<1>g. report'[k] # None /\ first'[k] # None /\ (first[k] = None <=> report[k] = None)
  <2>1. [text |-> call[c].text, reviewed |-> FALSE] \in [text : Text, reviewed : BOOLEAN]
    BY <1>c
  <2>. QED  BY <1>c, <2>1, ReportsAssumption DEF RunInv, FirstStands
<1>h. \A j \in Slot : entries[j].edited \in Nat /\ entries'[j].edited \in Nat
                        /\ (entries[j].edited # 0 => entries'[j].edited # 0)
  BY <1>a, <1>c DEF TypeOK
<1>. HIDE DEF k
<1>1. RunsExclude'
  BY <1>b DEF RunInv, RunsExclude, Holding, Others, Idle
<1>2. PrunedStands'
  <2>. SUFFICES ASSUME NEW d \in Client, call'[d].step = "pruned"
                PROVE  call'[d].obsolete = finding'[call'[d].slot] \ call'[d].resolved
    BY DEF PrunedStands
  <2>1. d # c /\ call'[d] = call[d]
    BY <1>b DEF Idle, Others
  <2>2. call[d].slot \in Slot /\ call[d].slot # k
    BY <1>a, <1>f, <2>1, RunFields DEF Holding, Running, RunSteps, RunCall
  <2>. QED  BY <1>c, <2>1, <2>2 DEF RunInv, PrunedStands
<1>3. LookStands'
  <2>. SUFFICES ASSUME NEW d \in Client, Running(d)'
                PROVE  LET j == call'[d].slot IN
                       /\ call'[d].before # None
                            => /\ report'[j] # None
                               /\ entries'[j].edited # 0 \/ call'[d].before.text = first'[j]
                       /\ call'[d].before = None /\ call'[d].step \in {"wrote", "pruned"}
                            => report'[j] = None
    BY DEF LookStands, Replaces, Holding
  <2>1. d # c /\ call'[d] = call[d] /\ Running(d)
    BY <1>b DEF Idle, Others, Running, RunSteps
  <2>2. call[d].slot \in Slot
    BY <1>a, <2>1, RunFields DEF RunCall
  <2>3. /\ call[d].before # None
             => /\ report[call[d].slot] # None
                /\ entries[call[d].slot].edited # 0 \/ call[d].before.text = first[call[d].slot]
        /\ call[d].before = None /\ call[d].step \in {"wrote", "pruned"}
             => report[call[d].slot] = None
    BY <2>1 DEF RunInv, LookStands, Replaces, Holding
  <2>4. CASE call[d].slot = k
    BY <1>c, <1>f, <1>g, <1>h, <2>1, <2>2, <2>3, <2>4 DEF Holding
  <2>5. CASE call[d].slot # k
    BY <1>c, <2>1, <2>2, <2>3, <2>5
  <2>. QED  BY <2>4, <2>5
<1>4. FirstStands'
  BY <1>c, <1>g DEF RunInv, FirstStands
<1>5. FindingsAreTheLatestRuns'
  BY <1>c, <1>d DEF RunInv, FindingsAreTheLatestRuns
<1>6. UneditedReadsAsCreated'
  <2>. SUFFICES ASSUME NEW j \in Slot, report'[j] # None, entries'[j].edited = 0
                PROVE  report'[j].text = first'[j]
    BY DEF UneditedReadsAsCreated
  <2>1. CASE j # k
    BY <1>c, <2>1 DEF RunInv, UneditedReadsAsCreated
  <2>2. CASE j = k /\ ~Replaces(c)
    BY <1>c, <1>e, <1>g, <2>2
  <2>3. CASE j = k /\ Replaces(c)
    <3>1. entries[k].edited = 0 /\ Written(c) = call[c].before
      BY <1>c, <1>h, <2>3
    <3>. QED  BY <1>c, <1>e, <1>g, <2>3, <3>1 DEF Written
  <2>. QED  BY <2>1, <2>2, <2>3
<1>. QED  BY <1>a, <1>1, <1>2, <1>3, <1>4, <1>5, <1>6 DEF RunInv

LEMMA ReviewStep ==
  ASSUME RunInv, NEW k \in Slot, NEW flag \in BOOLEAN, SetReviewed(k, flag)
  PROVE  RunInv'
<1>a. TypeOK /\ TypeOK'
  BY ReportTypeStep DEF RunInv, Next
<1>b. UNCHANGED <<finding, entries, latest, first, call>>
  BY DEF SetReviewed
<1>c. \A j \in Slot : /\ report'[j] = None <=> report[j] = None
                      /\ report[j] # None => report'[j].text = report[j].text
  <2>1. report[k] \in Row /\ report'[k] = [report[k] EXCEPT !.reviewed = flag]
    BY <1>a DEF SetReviewed, TypeOK
  <2>2. report'[k] \in Row /\ report'[k].text = report[k].text
    BY <2>1 DEF Row
  <2>3. \A j \in Slot \ {k} : report'[j] = report[j]
    BY <1>a DEF SetReviewed, TypeOK
  <2>4. None \notin Row
    BY ReportsAssumption DEF Row
  <2>. QED  BY <2>1, <2>2, <2>3, <2>4
<1>1. (RunsExclude /\ PrunedStands)'
  BY <1>b DEF RunInv, RunsExclude, Holding, PrunedStands
<1>2. LookStands'
  <2>1. \A d \in Client : Running(d) => call[d].slot \in Slot
    BY <1>a, RunFields DEF RunCall
  <2>. QED  BY <1>b, <1>c, <2>1 DEF RunInv, LookStands, Running, Replaces, Holding
<1>3. (FirstStands /\ FindingsAreTheLatestRuns /\ UneditedReadsAsCreated)'
  BY <1>b, <1>c DEF RunInv, FirstStands, FindingsAreTheLatestRuns, UneditedReadsAsCreated
<1>. QED  BY <1>a, <1>1, <1>2, <1>3 DEF RunInv

LEMMA RunInvStep == RunInv /\ [Next]_vars => RunInv'
<1>. SUFFICES ASSUME RunInv, [Next]_vars PROVE RunInv'
  OBVIOUS
<1>a. TypeOK /\ TypeOK'
  BY ReportTypeStep DEF RunInv
<1>1. ASSUME NEW c \in Client, NEW k \in Slot, NEW t \in Text, NEW fs \in SUBSET Item,
             RunLook(c, k, t, fs)
      PROVE  RunInv'
  BY <1>1, LookStep
<1>2. ASSUME NEW c \in Client, RunWrite(c) PROVE RunInv'
  BY <1>2, WriteStep
<1>3. ASSUME NEW c \in Client, RunConflicts(c) \/ Abort(c) PROVE RunInv'
  BY <1>a, <1>3, IdleMoves, OtherStep DEF RunConflicts, Abort, Running, RunSteps, Idle
<1>4. ASSUME NEW c \in Client, RunPrune(c) PROVE RunInv'
  BY <1>4, PruneStep
<1>5. ASSUME NEW c \in Client, RunCommit(c) PROVE RunInv'
  BY <1>5, CommitStep
<1>6. ASSUME NEW k \in Slot, NEW flag \in BOOLEAN, SetReviewed(k, flag) PROVE RunInv'
  BY <1>6, ReviewStep
<1>7. ASSUME NEW c \in Client, NEW s \in Source, NEW p \in SourcePatch, DeclareLook(c, s, p)
      PROVE  RunInv'
  <2>1. /\ Others(c) /\ UNCHANGED reportVars
        /\ call'[c] = [step |-> "declaring", source |-> s, patch |-> p, stored |-> source[s]]
    BY <1>a, <1>7, DeclareMoves DEF DeclareLook
  <2>2. ~Running(c)'
    BY <2>1 DEF Running, RunSteps
  <2>. QED  BY <1>a, <2>1, <2>2, OtherStep
<1>8. ASSUME NEW c \in Client, DeclareWrite(c) PROVE RunInv'
  BY <1>a, <1>8, IdleMoves, OtherStep DEF DeclareWrite, Running, RunSteps, Idle
<1>9. CASE UNCHANGED vars
  BY <1>9 DEF vars, RunInv, TypeOK, RunsExclude, Holding, PrunedStands, LookStands, Running,
     Replaces, FirstStands, FindingsAreTheLatestRuns, UneditedReadsAsCreated
<1>. QED  BY <1>1, <1>2, <1>3, <1>4, <1>5, <1>6, <1>7, <1>8, <1>9, ReportSteps

-------------------------------------------------------------------------------
(***************************************************************************)
(* The declarations of set_report_source.                                  *)
(***************************************************************************)

\* The row a declaration read, as the check took it.
Read(c) == IF call[c].stored = None THEN Unset ELSE call[c].stored

LEMMA QuietDeclarations ==
  ASSUME DeclInv, TypeOK', NEW c \in Client, Others(c), ~Declaring(c)', UNCHANGED <<source, raced>>
  PROVE  DeclInv'
  BY DEF DeclInv, DeclarationStands, Declaring, Others, ContradictionOnlyAtBirth

LEMMA DeclareLookStep ==
  ASSUME DeclInv, NEW c \in Client, NEW s \in Source, NEW p \in SourcePatch, DeclareLook(c, s, p)
  PROVE  DeclInv'
<1>a. TypeOK /\ TypeOK'
  BY ReportTypeStep DEF DeclInv, Next
<1>b. /\ Others(c) /\ Declaring(c)'
      /\ call'[c].source = s /\ call'[c].patch = p /\ call'[c].stored = source[s]
  <2>1. /\ Others(c)
        /\ call'[c] = [step |-> "declaring", source |-> s, patch |-> p, stored |-> source[s]]
    BY <1>a, DeclareMoves
  <2>. QED  BY <2>1 DEF Declaring
<1>c. /\ UNCHANGED <<source, raced>>
      /\ ~Contradictory(AfterPatch(IF source[s] = None THEN Unset ELSE source[s], p))
  BY DEF DeclareLook, Contradicts
<1>d. \A d \in Client \ {c} : Declaring(d) /\ call[d].source = s => call[d].stored = None
  BY DEF DeclareLook, DeclLocked
<1>1. DeclarationStands'
  <2>. SUFFICES ASSUME NEW d \in Client, Declaring(d)'
                PROVE  /\ ~Contradictory(AfterPatch(IF call'[d].stored = None THEN Unset
                                                    ELSE call'[d].stored, call'[d].patch))
                       /\ call'[d].stored # None => call'[d].stored = source'[call'[d].source]
                       /\ call'[d].stored # None => \A e \in Client \ {d} :
                            Declaring(e)' /\ call'[e].source = call'[d].source
                              => call'[e].stored = None
    BY DEF DeclarationStands, Contradictory, AfterPatch, Unset
  <2>1. CASE d = c
    <3>1. \A e \in Client \ {c} : call'[e] = call[e] /\ (Declaring(e)' <=> Declaring(e))
      BY <1>b DEF Others, Declaring
    <3>. QED  BY <1>b, <1>c, <1>d, <2>1, <3>1
  <2>2. CASE d # c
    <3>1. \A e \in Client \ {c} : call'[e] = call[e] /\ (Declaring(e)' <=> Declaring(e))
      BY <1>b DEF Others, Declaring
    <3>2. /\ ~Contradictory(AfterPatch(IF call[d].stored = None THEN Unset
                                       ELSE call[d].stored, call[d].patch))
          /\ call[d].stored # None => call[d].stored = source[call[d].source]
          /\ call[d].stored # None => \A e \in Client \ {d} :
               Declaring(e) /\ call[e].source = call[d].source => call[e].stored = None
      BY <2>2, <3>1 DEF DeclInv, DeclarationStands
    <3>. QED  BY <1>b, <1>c, <1>d, <2>2, <3>1, <3>2
  <2>. QED  BY <2>1, <2>2
<1>2. ContradictionOnlyAtBirth'
  BY <1>c DEF DeclInv, ContradictionOnlyAtBirth
<1>. QED  BY <1>a, <1>1, <1>2 DEF DeclInv

LEMMA DeclareWriteStep ==
  ASSUME DeclInv, NEW c \in Client, DeclareWrite(c)
  PROVE  DeclInv'
<1>a. TypeOK /\ TypeOK'
  BY ReportTypeStep DEF DeclInv, Next
<1>. DEFINE s == call[c].source
            present == IF source[s] = None THEN Unset ELSE source[s]
<1>b. call[c] \in DeclCall /\ s \in Source /\ Declaring(c)
  BY <1>a, DeclFields DEF DeclareWrite, DeclCall
<1>c. Others(c) /\ call'[c] = Idle
  BY <1>a, IdleMoves DEF DeclareWrite
<1>d. /\ source'[s] = AfterPatch(present, call[c].patch)
      /\ \A r \in Source \ {s} : source'[r] = source[r]
      /\ raced' = IF call[c].stored = None /\ source[s] # None THEN raced \cup {s} ELSE raced
  BY <1>a, <1>b DEF DeclareWrite, TypeOK
<1>e. \A d \in Client \ {c} : Declaring(d) /\ call[d].source = s => call[d].stored = None
  BY DEF DeclareWrite, DeclLocked
<1>f. /\ ~Contradictory(AfterPatch(Read(c), call[c].patch))
      /\ call[c].stored # None => call[c].stored = source[s]
  BY <1>b DEF DeclInv, DeclarationStands, Read
<1>1. DeclarationStands'
  <2>. SUFFICES ASSUME NEW d \in Client, Declaring(d)'
                PROVE  /\ ~Contradictory(AfterPatch(IF call'[d].stored = None THEN Unset
                                                    ELSE call'[d].stored, call'[d].patch))
                       /\ call'[d].stored # None => call'[d].stored = source'[call'[d].source]
                       /\ call'[d].stored # None => \A e \in Client \ {d} :
                            Declaring(e)' /\ call'[e].source = call'[d].source
                              => call'[e].stored = None
    BY DEF DeclarationStands, Contradictory, AfterPatch, Unset
  <2>1. d # c /\ call'[d] = call[d] /\ Declaring(d)
    BY <1>c DEF Idle, Declaring, Others
  <2>2. \A e \in Client \ {c} : call'[e] = call[e] /\ (Declaring(e)' <=> Declaring(e))
    BY <1>c DEF Others, Declaring
  <2>3. ~Declaring(c)'
    BY <1>c DEF Idle, Declaring
  <2>4. call[d].source \in Source
    BY <1>a, <2>1, DeclFields DEF DeclCall
  <2>5. /\ ~Contradictory(AfterPatch(IF call[d].stored = None THEN Unset
                                     ELSE call[d].stored, call[d].patch))
        /\ call[d].stored # None => call[d].stored = source[call[d].source]
        /\ call[d].stored # None => \A e \in Client \ {d} :
             Declaring(e) /\ call[e].source = call[d].source => call[e].stored = None
    BY <2>1 DEF DeclInv, DeclarationStands
  <2>. HIDE DEF s
  <2>6. call[d].stored # None => call[d].source # s
    BY <1>e, <2>1
  <2>. QED  BY <1>d, <2>1, <2>2, <2>3, <2>4, <2>5, <2>6
<1>2. ContradictionOnlyAtBirth'
  <2>. SUFFICES ASSUME NEW r \in Source, source'[r] # None, Contradictory(source'[r])
                PROVE  r \in raced'
    BY DEF ContradictionOnlyAtBirth, Contradictory
  <2>1. raced \subseteq raced'
    BY <1>d
  <2>2. CASE r # s
    BY <1>d, <2>1, <2>2 DEF DeclInv, ContradictionOnlyAtBirth
  <2>3. CASE r = s /\ call[c].stored = None /\ source[s] # None
    BY <1>d, <2>3
  <2>4. CASE r = s /\ ~(call[c].stored = None /\ source[s] # None)
    <3>1. present = Read(c)
      BY <1>f, <2>4 DEF Read
    <3>2. source'[r] = AfterPatch(Read(c), call[c].patch)
      BY <1>d, <2>4, <3>1
    <3>. QED  BY <1>f, <3>2
  <2>. QED  BY <2>2, <2>3, <2>4
<1>. QED  BY <1>a, <1>1, <1>2 DEF DeclInv

LEMMA DeclInvStep == DeclInv /\ [Next]_vars => DeclInv'
<1>. SUFFICES ASSUME DeclInv, [Next]_vars PROVE DeclInv'
  OBVIOUS
<1>a. TypeOK /\ TypeOK'
  BY ReportTypeStep DEF DeclInv
<1>1. ASSUME NEW c \in Client, NEW k \in Slot, NEW t \in Text, NEW fs \in SUBSET Item,
             RunLook(c, k, t, fs)
      PROVE  DeclInv'
  <2>1. /\ Others(c) /\ UNCHANGED <<source, raced>>
        /\ call'[c] = [step |-> "looked", slot |-> k, text |-> t, resolved |-> fs,
                       before |-> report[k], obsolete |-> {}]
    BY <1>a, <1>1, LookMoves DEF RunLook
  <2>2. ~Declaring(c)'
    BY <2>1 DEF Declaring
  <2>. QED  BY <1>a, <2>1, <2>2, QuietDeclarations
<1>2. ASSUME NEW c \in Client, RunWrite(c) PROVE DeclInv'
  <2>1. Others(c) /\ call'[c] \in RunCall /\ UNCHANGED <<source, raced>>
    BY <1>a, <1>2, WriteMoves DEF RunWrite
  <2>2. ~Declaring(c)'
    BY <2>1 DEF Declaring, RunCall, RunSteps
  <2>. QED  BY <1>a, <2>1, <2>2, QuietDeclarations
<1>3. ASSUME NEW c \in Client, RunConflicts(c) \/ Abort(c) PROVE DeclInv'
  BY <1>a, <1>3, IdleMoves, QuietDeclarations DEF RunConflicts, Abort, Declaring, Idle
<1>4. ASSUME NEW c \in Client, RunPrune(c) PROVE DeclInv'
  <2>1. Others(c) /\ call'[c] \in RunCall /\ UNCHANGED <<source, raced>>
    BY <1>a, <1>4, PruneMoves DEF RunPrune
  <2>2. ~Declaring(c)'
    BY <2>1 DEF Declaring, RunCall, RunSteps
  <2>. QED  BY <1>a, <2>1, <2>2, QuietDeclarations
<1>5. ASSUME NEW c \in Client, RunCommit(c) PROVE DeclInv'
  BY <1>a, <1>5, IdleMoves, QuietDeclarations DEF RunCommit, Declaring, Idle
<1>6. ASSUME NEW k \in Slot, NEW flag \in BOOLEAN, SetReviewed(k, flag) PROVE DeclInv'
  BY <1>a, <1>6 DEF SetReviewed, DeclInv, DeclarationStands, Declaring, ContradictionOnlyAtBirth
<1>7. ASSUME NEW c \in Client, NEW s \in Source, NEW p \in SourcePatch, DeclareLook(c, s, p)
      PROVE  DeclInv'
  BY <1>7, DeclareLookStep
<1>8. ASSUME NEW c \in Client, DeclareWrite(c) PROVE DeclInv'
  BY <1>8, DeclareWriteStep
<1>9. CASE UNCHANGED vars
  BY <1>a, <1>9 DEF vars, DeclInv, DeclarationStands, Declaring, ContradictionOnlyAtBirth
<1>. QED  BY <1>1, <1>2, <1>3, <1>4, <1>5, <1>6, <1>7, <1>8, <1>9, ReportSteps

-------------------------------------------------------------------------------
\* Reports, findings, declarations and open calls keep their types.
THEOREM ReportsTypeCorrect == Spec => []TypeOK
<1>1. Init => TypeOK
  BY ReportInit DEF RunInv
<1>. QED  BY <1>1, ReportTypeStep, PTL DEF Spec

\* get_report shows the findings of the run that committed last and of no other, for
\* any number of overlapping runs (create_report).
THEOREM FindingsOfTheLatestRun == Spec => []FindingsAreTheLatestRuns
<1>1. Init => RunInv
  BY ReportInit
<1>2. RunInv => FindingsAreTheLatestRuns
  BY DEF RunInv
<1>. QED  BY <1>1, <1>2, RunInvStep, PTL DEF Spec

\* A report whose history shows no edit reads as it was created, though the no-op guard
\* compares with a fingerprint that may be stale (create_report, record_edit).
THEOREM UneditedReports == Spec => []UneditedReadsAsCreated
<1>1. Init => RunInv
  BY ReportInit
<1>2. RunInv => UneditedReadsAsCreated
  BY DEF RunInv
<1>. QED  BY <1>1, <1>2, RunInvStep, PTL DEF Spec

\* Only two overlapping first declarations leave a source on-demand and on a cadence
\* (set_report_source).
THEOREM ContradictionsAreBornRaced == Spec => []ContradictionOnlyAtBirth
<1>1. Init => DeclInv
  BY ReportInit
<1>2. DeclInv => ContradictionOnlyAtBirth
  BY DEF DeclInv
<1>. QED  BY <1>1, <1>2, DeclInvStep, PTL DEF Spec

-------------------------------------------------------------------------------
(***************************************************************************)
(* What the freshness query makes of the declarations.                     *)
(***************************************************************************)

LEMMA StoredRows ==
  ASSUME TypeOK, NEW s \in Source
  PROVE  Stored(s) \in Rows
<1>1. source[s] \in Decl \cup {None}
  BY DEF TypeOK
<1>2. Stored(s) \in Decl
  BY <1>1 DEF Stored, Unset, Decl
<1>3. \A d \in Decl : d \in Rows
  <2>. TAKE d \in Decl
  <2>1. d = [cadence |-> d.cadence, on_demand |-> d.on_demand]
        /\ d.cadence \in Cadence \cup {None} /\ d.on_demand \in BOOLEAN
    BY DEF Decl
  <2>. QED  BY <2>1 DEF Rows
<1>. QED  BY <1>2, <1>3

\* Of an on-demand source nothing is expected, whatever it has filed and whatever else
\* was declared of it.
LEMMA OnDemandUnheard ==
  ASSUME NEW row \in Rows
  PROVE  row \in Unheard
<1>. SUFFICES ASSUME row.on_demand,
                     NEW d \in Declarations(row), NEW dates \in Histories, NEW today \in Days
              PROVE  LET h == Health(d, dates, "ok", today)
                     IN  h.cadence = Undeclared /\ h.due_by = Undeclared /\ h.overdue = 0
                         /\ ~Alerts(h) /\ h.asserts = "unknown"
  BY DEF Unheard
<1>1. d.on_demand
  BY DEF Declarations, Declared
<1>2. Judged(d, Inferred(dates)) = Undeclared
  BY <1>1 DEF Judged
<1>. QED  BY <1>1, <1>2 DEF Health, Alerts

\* An on-demand source is never due and never alarms, not even with the row that two
\* racing first declarations leave (set_report_source, list_report_sources).
THEOREM OnDemandNeverAlarms == Spec => []OnDemandIsNeverDue
<1>1. TypeOK => OnDemandIsNeverDue
  BY StoredRows, OnDemandUnheard DEF OnDemandIsNeverDue
<1>. QED  BY <1>1, ReportsTypeCorrect, PTL

-------------------------------------------------------------------------------
(***************************************************************************)
(* The inferred cadence.                                                   *)
(***************************************************************************)

LEMMA MinOfNaturals ==
  ASSUME NEW S \in SUBSET Nat, S # {}
  PROVE  Min(S) \in S /\ \A y \in S : Min(S) <= y
<1>1. PICK x \in S : \A y \in S : ~(<<y, x>> \in OpToRel(<, Nat))
  BY NatLessThanWellFounded, WFMin
<1>2. ASSUME NEW y \in S PROVE x <= y
  <2>1. x \in Nat /\ y \in Nat
    OBVIOUS
  <2>2. ~(y < x)
    BY <1>1, <2>1 DEF OpToRel
  <2>. QED  BY <2>1, <2>2
<1>. QED  BY <1>2 DEF Min

LEMMA MaxOfBounded ==
  ASSUME NEW N \in Nat, NEW S \in SUBSET Nat, \A x \in S : x <= N, S # {}
  PROVE  Max(S) \in S /\ \A y \in S : Max(S) >= y
<1>. DEFINE below == {N - x : x \in S}
<1>a. \A x \in S : x \in Nat /\ x <= N
  OBVIOUS
<1>1. below \in SUBSET Nat /\ below # {}
  <2>1. \A x \in S : N - x \in Nat
    BY <1>a
  <2>. QED  BY <2>1
<1>2. Min(below) \in below /\ \A y \in below : Min(below) <= y
  <2>. HIDE DEF below
  <2>. QED  BY <1>1, MinOfNaturals
<1>3. PICK x \in S : Min(below) = N - x
  BY <1>2
<1>4. ASSUME NEW y \in S PROVE x >= y
  <2>1. N - x <= N - y
    BY <1>2, <1>3
  <2>. QED  BY <1>a, <2>1
<1>. QED  BY <1>4 DEF Max

\* A report with a predecessor comes some days after it.
LEMMA GapIsPositive ==
  ASSUME NEW N \in Nat, NEW dates \in SUBSET Nat, \A x \in dates : 1 <= x /\ x <= N, NEW day \in WithGap(dates)
  PROVE  /\ day \in dates /\ Gap(dates, day) \in 1 .. N
         /\ day - 1 \in dates => Gap(dates, day) = 1
<1>. DEFINE before == {e \in dates : e < day}
<1>a. \A x \in dates : x \in Nat
  OBVIOUS
<1>1. day \in dates /\ day # Min(dates)
  BY DEF WithGap, Recent
<1>2. Min(dates) \in dates /\ Min(dates) <= day
  BY <1>a, <1>1, MinOfNaturals
<1>b. day \in Nat /\ Min(dates) \in Nat /\ N \in Nat /\ 1 <= Min(dates) /\ day <= N
  BY <1>1, <1>2
<1>3. Min(dates) \in before
  <2>1. Min(dates) < day
    BY <1>b, <1>1, <1>2
  <2>. QED  BY <1>2, <2>1
<1>4. before \in SUBSET Nat /\ \A x \in before : x <= N
  BY <1>a
<1>5. Max(before) \in before /\ \A e \in before : Max(before) >= e
  <2>. HIDE DEF before
  <2>. QED  BY <1>3, <1>4, MaxOfBounded
<1>6. Gap(dates, day) = day - Max(before) /\ Max(before) \in dates /\ Max(before) < day
  BY <1>5 DEF Gap
<1>7. day - 1 \in dates => Max(before) >= day - 1
  BY <1>a, <1>1, <1>5
<1>. HIDE DEF before
<1>8. Max(before) \in Nat /\ 1 <= Max(before)
  BY <1>6
<1>9. Gap(dates, day) \in Nat /\ 1 <= Gap(dates, day) /\ Gap(dates, day) <= N
  BY <1>b, <1>6, <1>8
<1>10. ASSUME day - 1 \in dates PROVE Gap(dates, day) = 1
  BY <1>b, <1>6, <1>7, <1>8, <1>10
<1>. QED  BY <1>1, <1>9, <1>10

LEMMA FiniteDates ==
  ASSUME NEW N \in Nat, NEW dates \in SUBSET Nat, \A x \in dates : 1 <= x /\ x <= N
  PROVE  /\ IsFiniteSet(dates) /\ IsFiniteSet(Recent(dates)) /\ IsFiniteSet(WithGap(dates))
         /\ WithGap(dates) \subseteq Recent(dates) /\ Recent(dates) \subseteq dates
         /\ Cardinality(WithGap(dates)) \in Nat
<1>1. IsFiniteSet(dates)
  <2>1. \A x \in dates : x \in 1 .. N
    OBVIOUS
  <2>2. dates \in SUBSET (1 .. N)
    BY <2>1
  <2>3. IsFiniteSet(1 .. N)
    BY FS_Interval
  <2>. QED  BY <2>2, <2>3, FS_Subset
<1>2. WithGap(dates) \subseteq Recent(dates) /\ Recent(dates) \subseteq dates
  BY DEF WithGap, Recent
<1>. QED  BY <1>1, <1>2, FS_Subset, FS_CardinalityType

\* The k-th smallest gap is a gap; and it is one day when k of the gaps are.
LEMMA RankedGap ==
  ASSUME NEW N \in Nat, NEW dates \in SUBSET Nat, \A x \in dates : 1 <= x /\ x <= N, WithGap(dates) # {},
         NEW k \in 1 .. Cardinality(WithGap(dates))
  PROVE  /\ GapOfRank(dates, k) \in 1 .. N
         /\ \A short \in SUBSET WithGap(dates) :
              (\A x \in short : Gap(dates, x) = 1) /\ Cardinality(short) >= k
                => GapOfRank(dates, k) = 1
<1>. DEFINE W == WithGap(dates)
            G(x) == Gap(dates, x)
            UpTo(x) == {y \in W : G(y) <= G(x)}
            ranked == {x \in W : Cardinality(UpTo(x)) >= k}
            gaps == {G(x) : x \in ranked}
            all == {G(x) : x \in W}
<1>a. \A x \in W : G(x) \in 1 .. N
  BY GapIsPositive
<1>b. IsFiniteSet(W) /\ Cardinality(W) \in Nat
  BY FiniteDates
<1>. HIDE DEF G, W
<1>1. PICK top \in W : \A y \in W : G(y) <= G(top)
  <2>1. all \in SUBSET Nat /\ (\A x \in all : x <= N) /\ all # {}
    BY <1>a DEF W
  <2>2. Max(all) \in all /\ \A y \in all : Max(all) >= y
    <3>. HIDE DEF all
    <3>. QED  BY <2>1, MaxOfBounded
  <2>3. PICK x \in W : Max(all) = G(x)
    BY <2>2
  <2>4. ASSUME NEW y \in W PROVE G(y) <= G(x)
    <3>1. G(y) \in all
      OBVIOUS
    <3>2. G(x) >= G(y)
      BY <2>2, <2>3, <3>1
    <3>. QED  BY <1>a, <3>2
  <2>. QED  BY <2>4
<1>2. UpTo(top) = W
  BY <1>1
<1>3. G(top) \in gaps
  BY <1>1, <1>2, <1>b DEF W
<1>4. gaps \in SUBSET Nat /\ \A g \in gaps : g \in 1 .. N
  <2>1. ASSUME NEW g \in gaps PROVE g \in Nat /\ g \in 1 .. N
    <3>1. PICK x \in ranked : g = G(x)
      OBVIOUS
    <3>2. x \in W
      OBVIOUS
    <3>. QED  BY <1>a, <3>1, <3>2
  <2>. HIDE DEF gaps
  <2>. QED  BY <2>1
<1>5. Min(gaps) \in gaps /\ \A g \in gaps : Min(gaps) <= g
  <2>. HIDE DEF gaps
  <2>. QED  BY <1>3, <1>4, MinOfNaturals
<1>6. GapOfRank(dates, k) = Min(gaps)
  BY DEF GapOfRank, G, W
<1>7. ASSUME NEW short \in SUBSET W, \A x \in short : G(x) = 1, Cardinality(short) >= k
      PROVE  Min(gaps) = 1
  <2>1. short # {}
    BY <1>7, FS_EmptySet
  <2>2. PICK x \in short : TRUE
    BY <2>1
  <2>3. x \in W /\ G(x) = 1
    BY <1>7
  <2>4. short \subseteq UpTo(x)
    BY <1>7, <2>3
  <2>5. UpTo(x) \subseteq W
    OBVIOUS
  <2>. HIDE DEF UpTo
  <2>6. IsFiniteSet(UpTo(x)) /\ Cardinality(UpTo(x)) \in Nat
    BY <1>b, <2>5, FS_Subset, FS_CardinalityType
  <2>7. Cardinality(short) <= Cardinality(UpTo(x)) /\ Cardinality(short) \in Nat
    BY <2>4, <2>6, FS_Subset, FS_CardinalityType
  <2>8. x \in ranked
    BY <1>7, <2>3, <2>6, <2>7
  <2>9. 1 \in gaps
    BY <2>3, <2>8
  <2>. HIDE DEF gaps, ranked
  <2>10. Min(gaps) <= 1 /\ Min(gaps) \in Nat /\ Min(gaps) \in 1 .. N
    BY <1>4, <1>5, <2>9
  <2>. QED  BY <2>10
<1>. HIDE DEF gaps
<1>. QED  BY <1>4, <1>5, <1>6, <1>7 DEF W, G

LEMMA MedianTyped ==
  ASSUME NEW N \in Nat, NEW dates \in SUBSET Nat, \A x \in dates : 1 <= x /\ x <= N,
         WithGap(dates) # {}
  PROVE  MedianGap(dates) \in 1 .. N
<1>. DEFINE n == Cardinality(WithGap(dates))
            lower == GapOfRank(dates, (n + 1) \div 2)
            upper == GapOfRank(dates, n \div 2 + 1)
<1>1. n \in Nat /\ n # 0
  BY FiniteDates, FS_EmptySet
<1>2. (n + 1) \div 2 \in 1 .. n /\ n \div 2 + 1 \in 1 .. n
  <2>. HIDE DEF n
  <2>. QED  BY <1>1
<1>3. lower \in 1 .. N /\ upper \in 1 .. N
  BY <1>2, RankedGap
<1>4. MedianGap(dates) = (lower + upper + 1) \div 2
  BY DEF MedianGap
<1>. HIDE DEF lower, upper
<1>. QED  BY <1>3, <1>4

LEMMA InferredTyped ==
  ASSUME NEW N \in Nat, NEW dates \in SUBSET Nat, \A x \in dates : 1 <= x /\ x <= N
  PROVE  Inferred(dates) \in (1 .. N) \cup {Undeclared}
  BY MedianTyped DEF Inferred

\* The recent reports are the last ones.
LEMMA RecentAreLast ==
  ASSUME NEW N \in Nat, NEW dates \in SUBSET Nat, \A x \in dates : 1 <= x /\ x <= N,
         NEW day \in Recent(dates), NEW later \in dates, later >= day
  PROVE  later \in Recent(dates)
<1>. DEFINE From(x) == {e \in dates : e >= x}
<1>1. From(later) \subseteq From(day)
  <2>1. day \in Nat /\ later \in Nat
    BY DEF Recent
  <2>2. ASSUME NEW e \in From(later) PROVE e \in From(day)
    <3>1. e \in dates /\ e \in Nat /\ e >= later
      OBVIOUS
    <3>2. e >= day
      BY <2>1, <3>1
    <3>. QED  BY <3>1, <3>2
  <2>. QED  BY <2>2
<1>2. IsFiniteSet(From(day))
  <2>1. From(day) \in SUBSET dates
    OBVIOUS
  <2>. HIDE DEF From
  <2>. QED  BY <2>1, FiniteDates, FS_Subset
<1>3. Cardinality(From(later)) <= Cardinality(From(day))
      /\ Cardinality(From(later)) \in Nat /\ Cardinality(From(day)) \in Nat
  <2>. HIDE DEF From
  <2>. QED  BY <1>1, <1>2, FS_Subset, FS_CardinalityType
<1>4. Cardinality(From(day)) <= SOURCE_CADENCE_WINDOW
  BY DEF Recent
<1>5. Cardinality(From(later)) <= SOURCE_CADENCE_WINDOW
  BY <1>3, <1>4, FreshnessAssumption
<1>. QED  BY <1>5 DEF Recent

\* Were a missed day to make the expectation two days, the history would have to span
\* four days or more; and over that many days most of the gaps are of one day.
LEMMA MissedDay ==
  ASSUME SOURCE_MIN_SPAN_CADENCES >= 2,
         NEW dates \in Histories, NEW a \in 1 .. LastDay, NEW b \in 1 .. LastDay,
         NEW missed \in a + 1 .. b - 1, dates = (a .. b) \ {missed},
         WithGap(dates) # {}, Earned(dates, MedianGap(dates))
  PROVE  MedianGap(dates) = 1
<1>. DEFINE W == WithGap(dates)
            n == Cardinality(W)
            lo == Min(Recent(dates))
            hi == Max(Recent(dates))
            short == W \ {missed + 1}
<1>a. LastDay \in Nat /\ a \in Nat /\ b \in Nat /\ missed \in Nat /\ 1 <= a /\ b <= LastDay
      /\ a < missed /\ missed < b
  BY MCReportsAssumption
<1>b. dates \in SUBSET Nat /\ \A x \in dates : 1 <= x /\ x <= LastDay /\ a <= x /\ x <= b /\ x # missed
  BY <1>a
<1>c. \A x \in Nat : a <= x /\ x <= b /\ x # missed => x \in dates
  BY <1>a
<1>d. MedianGap(dates) \in 1 .. LastDay /\ LastDay \in Nat
  BY <1>a, <1>b, MedianTyped
<1>e. /\ IsFiniteSet(W) /\ IsFiniteSet(Recent(dates)) /\ n \in Nat
      /\ W \subseteq Recent(dates) /\ Recent(dates) \subseteq dates
  BY <1>a, <1>b, FiniteDates
<1>1. Min(dates) = a
  <2>1. a \in dates
    BY <1>a, <1>c
  <2>2. Min(dates) \in dates /\ Min(dates) <= a
    BY <1>b, <2>1, MinOfNaturals
  <2>3. Min(dates) \in Nat /\ a <= Min(dates)
    BY <1>b, <2>2
  <2>. QED  BY <1>a, <2>2, <2>3
<1>2. \A x \in short : Gap(dates, x) = 1
  <2>. TAKE x \in short
  <2>1. x \in dates /\ x # a /\ x # missed + 1 /\ x \in W
    BY <1>1, <1>e DEF WithGap
  <2>2. x \in Nat /\ a <= x /\ x <= b
    BY <1>b, <2>1
  <2>3. x - 1 \in Nat /\ a <= x - 1 /\ x - 1 <= b /\ x - 1 # missed
    BY <1>a, <2>1, <2>2
  <2>4. x - 1 \in dates
    BY <1>c, <2>3
  <2>. QED  BY <1>a, <1>b, <2>1, <2>4, GapIsPositive
<1>3. Cardinality(short) \in Nat /\ Cardinality(short) >= n - 1
  <2>. HIDE DEF W
  <2>1. IsFiniteSet(short) /\ Cardinality(short) = IF missed + 1 \in W THEN n - 1 ELSE n
    BY <1>e, FS_RemoveElement
  <2>2. Cardinality(short) \in Nat
    BY <2>1, FS_CardinalityType
  <2>. QED  BY <1>e, <2>1, <2>2
<1>4. CASE n >= 3
  <2>. DEFINE k == (n + 1) \div 2
              l == n \div 2 + 1
  <2>1. k \in 1 .. n /\ l \in 1 .. n /\ k <= n - 1 /\ l <= n - 1
    <3>. HIDE DEF n
    <3>. QED  BY <1>e, <1>4
  <2>2. short \in SUBSET W /\ Cardinality(short) >= k /\ Cardinality(short) >= l
    <3>. HIDE DEF n, k, l, W
    <3>. QED  BY <1>e, <1>3, <2>1
  <2>3. GapOfRank(dates, k) = 1 /\ GapOfRank(dates, l) = 1
    <3>. HIDE DEF k, l, short
    <3>. QED  BY <1>a, <1>b, <1>2, <2>1, <2>2, RankedGap
  <2>4. MedianGap(dates) = (1 + 1 + 1) \div 2
    BY <2>3 DEF MedianGap
  <2>. QED  BY <2>4
<1>5. CASE n <= 2
  <2>1. Recent(dates) # {} /\ Recent(dates) \in SUBSET Nat /\ \A x \in Recent(dates) : x <= LastDay
    BY <1>b, <1>e
  <2>2. lo \in Recent(dates) /\ hi \in Recent(dates) /\ hi >= lo
    BY <1>a, <2>1, MinOfNaturals, MaxOfBounded
  <2>3. lo \in dates /\ hi \in dates /\ lo \in Nat /\ hi \in Nat /\ a <= lo /\ hi <= b
    BY <1>b, <1>e, <2>2
  <2>. HIDE DEF lo, hi, W
  <2>4. (lo .. hi) \ {missed} \subseteq Recent(dates)
    <3>. SUFFICES ASSUME NEW x \in lo .. hi, x # missed PROVE x \in Recent(dates)
      OBVIOUS
    <3>1. x \in Nat /\ a <= x /\ x <= b /\ x >= lo
      BY <1>a, <2>3
    <3>2. x \in dates
      BY <1>c, <3>1
    <3>. QED  BY <1>a, <1>b, <2>2, <3>1, <3>2, RecentAreLast
  <2>5. Cardinality(Recent(dates)) \in Nat /\ Cardinality(Recent(dates)) <= 3
    <3>1. Recent(dates) \subseteq W \cup {a}
      BY <1>1 DEF WithGap, W
    <3>2. IsFiniteSet(W \cup {a}) /\ Cardinality(W \cup {a}) <= n + 1
      <4>1. IsFiniteSet(W \cup {a})
            /\ Cardinality(W \cup {a}) = IF a \in W THEN n ELSE n + 1
        BY <1>e, FS_AddElement
      <4>. HIDE DEF n
      <4>. QED  BY <1>e, <4>1
    <3>3. Cardinality(Recent(dates)) <= Cardinality(W \cup {a}) /\ Cardinality(W \cup {a}) \in Nat
          /\ Cardinality(Recent(dates)) \in Nat
      BY <1>e, <3>1, <3>2, FS_Subset, FS_CardinalityType
    <3>. HIDE DEF n
    <3>. QED  BY <1>5, <1>e, <3>2, <3>3
  <2>6. hi - lo <= 3
    <3>1. IsFiniteSet(lo .. hi) /\ Cardinality(lo .. hi) = hi - lo + 1
      BY <2>2, <2>3, FS_Interval
    <3>2. Cardinality((lo .. hi) \ {missed}) >= hi - lo /\ Cardinality((lo .. hi) \ {missed}) \in Nat
      <4>1. IsFiniteSet((lo .. hi) \ {missed})
            /\ Cardinality((lo .. hi) \ {missed}) =
                 IF missed \in lo .. hi THEN Cardinality(lo .. hi) - 1 ELSE Cardinality(lo .. hi)
        BY <3>1, FS_RemoveElement
      <4>2. Cardinality((lo .. hi) \ {missed}) \in Nat
        BY <4>1, FS_CardinalityType
      <4>. QED  BY <2>3, <3>1, <4>1, <4>2
    <3>3. Cardinality((lo .. hi) \ {missed}) <= Cardinality(Recent(dates))
      BY <1>e, <2>4, FS_Subset
    <3>. QED  BY <2>3, <2>5, <3>2, <3>3
  <2>7. hi - lo >= SOURCE_MIN_SPAN_CADENCES * MedianGap(dates)
    BY DEF Earned, Span, lo, hi
  <2>8. SOURCE_MIN_SPAN_CADENCES * MedianGap(dates) >= 2 * MedianGap(dates)
    BY <1>d, FreshnessAssumption
  <2>. QED  BY <1>d, <2>3, <2>6, <2>7, <2>8, FreshnessAssumption
<1>. QED  BY <1>4, <1>5, <1>e

LEMMA MissedDayNeverMatters ==
  ASSUME SOURCE_MIN_SPAN_CADENCES >= 2, NEW dates \in Histories
  PROVE  MissedDayKeepsThePace(dates)
  BY MissedDay DEF MissedDayKeepsThePace, Inferred

-------------------------------------------------------------------------------
(***************************************************************************)
(* The verdicts.                                                           *)
(***************************************************************************)

LEMMA DeclaredFields ==
  ASSUME NEW row \in Rows, NEW d \in Declarations(row)
  PROVE  /\ d.cadence \in Cadence \cup {None} /\ d.grace \in {Undeclared, 0, 1}
         /\ d.on_demand \in BOOLEAN /\ d.retired \in BOOLEAN
<1>1. PICK c \in Cadence \cup {None}, o \in BOOLEAN : row = [cadence |-> c, on_demand |-> o]
  BY DEF Rows
<1>2. PICK g \in {Undeclared, 0, 1}, r \in BOOLEAN :
        d = [cadence |-> row.cadence, on_demand |-> row.on_demand, grace |-> g, retired |-> r]
  BY DEF Declarations, Declared
<1>. QED  BY <1>1, <1>2

LEMMA HistoryDates ==
  ASSUME NEW dates \in Histories
  PROVE  /\ LastDay \in Nat /\ dates \in SUBSET Nat /\ \A x \in dates : 1 <= x /\ x <= LastDay
         /\ dates # {} => Max(dates) \in dates /\ Max(dates) \in Nat
<1>1. LastDay \in Nat
  BY MCReportsAssumption
<1>2. \A x \in dates : x \in Nat /\ 1 <= x /\ x <= LastDay
  BY <1>1 DEF Histories
<1>3. dates \in SUBSET Nat
  BY <1>2
<1>. QED  BY <1>1, <1>2, <1>3, MaxOfBounded

\* A source is expected every so many days or not at all.
LEMMA CadenceTyped ==
  ASSUME NEW row \in Rows, NEW d \in Declarations(row), NEW dates \in SUBSET Nat,
         NEW N \in Nat, \A x \in dates : 1 <= x /\ x <= N
  PROVE  LET cadence == Judged(d, Inferred(dates))
         IN  /\ cadence \in Nat \cup {Undeclared}
             /\ cadence # Undeclared => ~d.on_demand /\ cadence \in Nat /\ Graced(d, cadence) \in Nat
             /\ d.cadence # Undeclared /\ ~d.on_demand => cadence # Undeclared
<1>. DEFINE cadence == Judged(d, Inferred(dates))
<1>1. Inferred(dates) \in Nat \cup {Undeclared}
  BY InferredTyped
<1>2. d.cadence \in Nat \cup {Undeclared} /\ d.grace \in {Undeclared, 0, 1}
  BY DeclaredFields, MCReportsAssumption
<1>3. /\ cadence \in Nat \cup {Undeclared}
      /\ cadence # Undeclared => ~d.on_demand
      /\ d.cadence # Undeclared /\ ~d.on_demand => cadence # Undeclared
  BY <1>1, <1>2 DEF Judged
<1>4. ASSUME cadence \in Nat PROVE Graced(d, cadence) \in Nat
  <2>. HIDE DEF cadence
  <2>. QED  BY <1>2, <1>4 DEF Graced
<1>5. cadence # Undeclared => ~d.on_demand /\ cadence \in Nat /\ Graced(d, cadence) \in Nat
  <2>. HIDE DEF cadence
  <2>. QED  BY <1>3, <1>4
<1>. QED  BY <1>3, <1>5

\* The verdicts on d from a day `due' on, of a source that is rated or not.
Judges(d, dates, rated, due) ==
  \A today \in Nat :
    LET h == Health(d, dates, "ok", today) IN
    /\ h.freshness = IF d.retired THEN "retired"
                     ELSE IF d.on_demand THEN "on-demand"
                     ELSE IF ~rated THEN "unrated"
                     ELSE IF today > due THEN "stale" ELSE "fresh"
    /\ h.asserts = IF h.freshness = "fresh" THEN "ok" ELSE "unknown"
    /\ h.cadence = Judged(d, Inferred(dates))
    /\ h.due_by = IF rated THEN due ELSE Undeclared
    /\ h.overdue = IF rated /\ today > due THEN today - due ELSE 0

LEMMA Verdict ==
  ASSUME NEW row \in Rows, NEW d \in Declarations(row), NEW dates \in SUBSET Nat,
         NEW N \in Nat, \A x \in dates : 1 <= x /\ x <= N
  PROVE  \E rated \in BOOLEAN, due \in Nat :
           /\ rated => dates # {} /\ ~d.on_demand
           /\ rated => \E late \in Nat : due = Max(dates) + late
           /\ d.cadence # Undeclared /\ ~d.on_demand /\ dates # {} => rated
           /\ Judges(d, dates, rated, due)
<1>. DEFINE cadence == Judged(d, Inferred(dates))
            rated == cadence # Undeclared /\ dates # {}
            late == cadence + Graced(d, cadence)
            due == IF rated THEN Max(dates) + late ELSE 0
<1>1. /\ cadence # Undeclared => ~d.on_demand /\ cadence \in Nat /\ Graced(d, cadence) \in Nat
      /\ d.cadence # Undeclared /\ ~d.on_demand => cadence # Undeclared
  BY CadenceTyped
<1>2. rated => Max(dates) \in Nat
  <2>1. dates # {} => Max(dates) \in dates
    BY MaxOfBounded
  <2>. QED  BY <2>1
<1>. DEFINE grace == Graced(d, cadence)
<1>3. rated => late \in Nat /\ due = Max(dates) + late /\ due = Max(dates) + cadence + grace
  <2>. HIDE DEF cadence, grace
  <2>. QED  BY <1>1, <1>2 DEF grace
<1>4. due \in Nat /\ rated \in BOOLEAN
  <2>. HIDE DEF late, cadence
  <2>. QED  BY <1>2, <1>3
<1>5. Judges(d, dates, rated, due)
  <2>1. rated => due = Max(dates) + Judged(d, Inferred(dates)) + Graced(d, Judged(d, Inferred(dates)))
    BY <1>3
  <2>. HIDE DEF due, late
  <2>. QED  BY <2>1 DEF Judges, Health, Late
<1>. HIDE DEF due, late, rated
<1>. QED  BY <1>1, <1>3, <1>4, <1>5 DEF rated

LEMMA SilenceTold ==
  ASSUME NEW row \in Rows, NEW d \in Declarations(row), NEW dates \in Histories, NEW today \in Days
  PROVE  SilenceIsTold(d, dates, today)
<1>1. /\ LastDay \in Nat /\ dates \in SUBSET Nat /\ \A x \in dates : 1 <= x /\ x <= LastDay
  BY HistoryDates
<1>2. today \in Nat /\ today + 1 \in Nat
  BY <1>1 DEF Days
<1>3. PICK rated \in BOOLEAN, due \in Nat :
        /\ rated => dates # {} /\ ~d.on_demand
        /\ Judges(d, dates, rated, due)
  BY <1>1, Verdict
<1>. DEFINE h == Health(d, dates, "ok", today)
            next == Health(d, dates, "ok", today + 1)
<1>4. /\ h.freshness = IF d.retired THEN "retired"
                       ELSE IF d.on_demand THEN "on-demand"
                       ELSE IF ~rated THEN "unrated"
                       ELSE IF today > due THEN "stale" ELSE "fresh"
      /\ h.asserts = IF h.freshness = "fresh" THEN "ok" ELSE "unknown"
      /\ h.cadence = Judged(d, Inferred(dates))
      /\ h.due_by = IF rated THEN due ELSE Undeclared
      /\ h.overdue = IF rated /\ today > due THEN today - due ELSE 0
  BY <1>2, <1>3 DEF Judges
<1>5. /\ next.freshness = IF d.retired THEN "retired"
                          ELSE IF d.on_demand THEN "on-demand"
                          ELSE IF ~rated THEN "unrated"
                          ELSE IF today + 1 > due THEN "stale" ELSE "fresh"
      /\ next.cadence = Judged(d, Inferred(dates))
      /\ next.due_by = IF rated THEN due ELSE Undeclared
      /\ next.overdue = IF rated /\ today + 1 > due THEN today + 1 - due ELSE 0
  BY <1>2, <1>3 DEF Judges
<1>. HIDE DEF h, next
<1>6. next.cadence = h.cadence /\ next.due_by = h.due_by
  BY <1>4, <1>5
<1>7. h.freshness # next.freshness =>
        h.freshness = "fresh" /\ next.freshness = "stale" /\ h.due_by = today
  BY <1>2, <1>4, <1>5
<1>8. Alerts(h) => h.overdue > 0 /\ next.overdue = h.overdue + 1
  BY <1>2, <1>4, <1>5 DEF Alerts
<1>9. h.overdue > 0 => Alerts(h) \/ d.retired
  BY <1>2, <1>3, <1>4 DEF Alerts
<1>10. h.asserts = "ok" => h.freshness = "fresh" /\ today <= h.due_by
  BY <1>2, <1>4
<1>. QED  BY <1>6, <1>7, <1>8, <1>9, <1>10 DEF SilenceIsTold, h, next

LEMMA ReportingHeard ==
  ASSUME NEW row \in Rows, NEW d \in Declarations(row), NEW dates \in Histories, NEW today \in Days
  PROVE  ReportingEndsTheAlarm(d, dates, today)
<1>. DEFINE then == dates \cup {today}
            N == 3 * LastDay + 2
<1>1. /\ LastDay \in Nat /\ dates \in SUBSET Nat /\ \A x \in dates : 1 <= x /\ x <= LastDay
  BY HistoryDates
<1>2. today \in Nat /\ 1 <= today /\ today <= N /\ N \in Nat
  BY <1>1 DEF Days
<1>3. then \in SUBSET Nat /\ (\A x \in then : 1 <= x /\ x <= N) /\ then # {}
  BY <1>1, <1>2
<1>4. Max(then) \in then /\ Max(then) \in Nat /\ Max(then) >= today
  <2>1. \A x \in then : x <= N
    BY <1>3
  <2>. HIDE DEF N
  <2>2. Max(then) \in then /\ \A x \in then : Max(then) >= x
    <3>. HIDE DEF then
    <3>. QED  BY <1>2, <1>3, <2>1, MaxOfBounded
  <2>. QED  BY <1>3, <2>2
<1>. HIDE DEF then, N
<1>5. PICK rated \in BOOLEAN, due \in Nat :
        /\ rated => \E late \in Nat : due = Max(then) + late
        /\ d.cadence # Undeclared /\ ~d.on_demand /\ then # {} => rated
        /\ Judges(d, then, rated, due)
  BY <1>2, <1>3, Verdict
<1>6. Health(d, then, "ok", today).freshness =
        IF d.retired THEN "retired"
        ELSE IF d.on_demand THEN "on-demand"
        ELSE IF ~rated THEN "unrated"
        ELSE IF today > due THEN "stale" ELSE "fresh"
  BY <1>2, <1>5 DEF Judges
<1>7. rated => ~(today > due)
  BY <1>2, <1>4, <1>5
<1>. QED  BY <1>3, <1>5, <1>6, <1>7 DEF ReportingEndsTheAlarm, Alerts, then

\* A source that stops reporting is told stale the day after it was due and until it
\* reports again, whatever it filed before and however its declarations raced; and where
\* a cadence is believed only from a history of twice its length, one missed day in a
\* daily series changes nothing of what is expected (list_report_sources).
THEOREM SilentSourcesTold ==
  ASSUME SOURCE_MIN_SPAN_CADENCES >= 2
  PROVE  Spec => []SilentSourcesAreTold
<1>1. ASSUME NEW row \in Rows PROVE row \in WellJudged
  BY MissedDayNeverMatters, SilenceTold, ReportingHeard DEF WellJudged
<1>2. TypeOK => SilentSourcesAreTold
  BY <1>1, StoredRows DEF SilentSourcesAreTold
<1>. QED  BY <1>2, ReportsTypeCorrect, PTL
===============================================================================
