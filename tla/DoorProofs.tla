------------------------------ MODULE DoorProofs ------------------------------
(***************************************************************************)
(* What holds of Door for any tools, messages, answers, sign-ins and       *)
(* lockout constants: types, what is forwarded and what is listed, the     *)
(* door a token opens, and how many passphrases can be tried.              *)
(***************************************************************************)
EXTENDS Door, FiniteSetTheorems, TLAPS

\* The wait after a failure: none while failures are free, and then some.
LEMMA DelayFacts ==
  ASSUME NEW failures \in Nat
  PROVE  /\ Delay(failures) \in 0..LockoutCap
         /\ failures > FreeFailures => Delay(failures) > 0
<1>. USE DoorAssumption
<1>1. CASE failures <= FreeFailures
  BY <1>1 DEF Delay
<1>2. CASE failures > FreeFailures
  <2>. DEFINE over == failures - FreeFailures - 1
              steps == Min({over, 16})
              wait == LockoutBase * 2 ^ steps
  <2>1. over \in Nat
    BY <1>2
  <2>2. steps \in 0..16
    BY <2>1 DEF Min
  <2>3. wait \in Nat \ {0}
    BY <2>2
  <2>. HIDE DEF wait
  <2>4. Min({LockoutCap, wait}) \in {LockoutCap, wait} /\ Min({LockoutCap, wait}) <= LockoutCap
    BY <2>3 DEF Min
  <2>5. Delay(failures) = Min({LockoutCap, wait})
    BY <1>2 DEF Delay, wait
  <2>. QED  BY <2>3, <2>4, <2>5
<1>. QED  BY <1>1, <1>2

\* What a step does is one of these.
LEMMA DoorSteps ==
  ASSUME [Next]_vars
  PROVE  \/ \E s \in SignIn, r \in Resource, S \in SUBSET {Scope(d) : d \in Doors} : Submit(s, r, S)
         \/ \E s \in SignIn : Admit(s)
         \/ \E s \in SignIn : Fail(s)
         \/ WaitOver
         \/ \E s \in SignIn : IssueCode(s)
         \/ \E s \in SignIn, r \in Resource : Exchange(s, r)
         \/ \E s \in SignIn : CodeSpent(s)
         \/ \E s \in SignIn, r \in Resource : Rotate(s, r)
         \/ \E t \in access : ExpireAccess(t)
         \/ \E s \in SignIn : ExpireRefresh(s)
         \/ Restart
         \/ \E t \in access, d \in OpenDoors, m \in Messages : Post(t, d, m)
         \/ \E r \in Replies : Answer(r)
         \/ UNCHANGED vars
  BY DEF Next

-------------------------------------------------------------------------------
(***************************************************************************)
(* Types.                                                                  *)
(***************************************************************************)

\* A door asked for is one of the doors that are open.
LEMMA DoorAsked ==
  ASSUME NEW r \in Resource, NEW S \in SUBSET {Scope(d) : d \in Doors}, DoorFor(r, S) # None
  PROVE  DoorFor(r, S) \in Doors
<1>1. DoorByScope(S) \in OpenDoors
  BY DoorAssumption DEF DoorByScope
<1>. QED  BY <1>1, DoorAssumption DEF DoorFor, Doors

LEMMA MintTyped ==
  ASSUME TypeOK, NEW s \in SignIn, NEW r \in Resource, Mint(s, r)
  PROVE  /\ minted' \in [SignIn -> 0..MaxMints] /\ minted'[s] = minted[s] + 1
         /\ \A q \in SignIn \ {s} : minted'[q] = minted[q]
         /\ refresh' \in [SignIn -> 0..MaxMints]
         /\ \A q \in SignIn : refresh'[q] = IF q = s THEN minted'[s] ELSE refresh[q]
         /\ \A t \in access' : t[1] \in SignIn /\ t[2] \in 1..minted'[t[1]]
         /\ expired' \subseteq SignIn
         /\ door' = door
<1>. USE DoorAssumption
<1>1. /\ minted' \in [SignIn -> 0..MaxMints] /\ minted'[s] = minted[s] + 1
      /\ \A q \in SignIn \ {s} : minted'[q] = minted[q]
  BY DEF TypeOK, Mint
<1>2. minted[s] \in 0..MaxMints /\ MaxMints \in Nat
  BY DEF TypeOK
<1>3. \A t \in access' : t[1] \in SignIn /\ t[2] \in 1..minted'[t[1]]
  <2>. SUFFICES ASSUME NEW t \in access' PROVE t[1] \in SignIn /\ t[2] \in 1..minted'[t[1]]
    OBVIOUS
  <2>1. CASE t \in access
    <3>1. t[1] \in SignIn /\ t[2] \in 1..minted[t[1]] /\ minted[t[1]] \in 0..MaxMints
      BY <2>1 DEF TypeOK
    <3>2. minted'[t[1]] = minted[t[1]] \/ minted'[t[1]] = minted[t[1]] + 1
      BY <1>1, <3>1
    <3>. QED  BY <1>2, <3>1, <3>2
  <2>2. CASE t = <<s, minted'[s]>>
    BY <1>1, <1>2, <2>2
  <2>. QED  BY <2>1, <2>2 DEF Mint
<1>4. /\ refresh' \in [SignIn -> 0..MaxMints]
      /\ \A q \in SignIn : refresh'[q] = IF q = s THEN minted'[s] ELSE refresh[q]
  BY <1>1 DEF TypeOK, Mint
<1>5. expired' \subseteq SignIn /\ door' = door
  BY DEF TypeOK, Mint, MintedFor
<1>. QED  BY <1>1, <1>3, <1>4, <1>5

LEMMA DoorTypeInit == Init => TypeOK
  BY DoorAssumption DEF Init, TypeOK, Open

LEMMA DoorTypeStep == TypeOK /\ [Next]_vars => TypeOK'
<1>. SUFFICES ASSUME TypeOK, [Next]_vars PROVE TypeOK'
  OBVIOUS
<1>. USE DEF grantVars, signInVars, callVars
<1>1. ASSUME NEW s \in SignIn, NEW r \in Resource, NEW S \in SUBSET {Scope(d) : d \in Doors},
             Submit(s, r, S)
      PROVE  TypeOK'
  BY <1>1, DoorAsked DEF Submit, TypeOK
<1>2. ASSUME NEW s \in SignIn, Admit(s) PROVE TypeOK'
  BY <1>2, DoorAssumption DEF Admit, TypeOK, Open
<1>3. ASSUME NEW s \in SignIn, Fail(s) PROVE TypeOK'
  <2>1. lockout.failures + 1 \in Nat /\ lockout.wait \in 0..LockoutCap
    BY DEF TypeOK
  <2>2. Delay(lockout.failures + 1) \in 0..LockoutCap
    BY <2>1, DelayFacts
  <2>3. lockout' \in [failures : Nat, wait : 0..LockoutCap]
    BY <1>3, <2>1, <2>2 DEF Fail
  <2>4. tried' \in 0..MaxFailures
    BY <1>3, DoorAssumption DEF Fail, TypeOK
  <2>. QED  BY <1>3, <2>3, <2>4 DEF Fail, TypeOK
<1>4. CASE WaitOver
  BY <1>4, DoorAssumption DEF WaitOver, TypeOK
<1>5. ASSUME NEW s \in SignIn, IssueCode(s) PROVE TypeOK'
  BY <1>5 DEF IssueCode, TypeOK
<1>6. ASSUME NEW s \in SignIn, NEW r \in Resource, Exchange(s, r) PROVE TypeOK'
  <2>1. CASE Mint(s, r)
    BY <1>6, <2>1, MintTyped DEF Exchange, TypeOK
  <2>2. CASE UNCHANGED <<minted, refresh, expired, access, door>>
    BY <1>6, <2>2 DEF Exchange, TypeOK
  <2>. QED  BY <1>6, <2>1, <2>2 DEF Exchange
<1>7. ASSUME NEW s \in SignIn, CodeSpent(s) PROVE TypeOK'
  BY <1>7 DEF CodeSpent, TypeOK
<1>8. ASSUME NEW s \in SignIn, NEW r \in Resource, Rotate(s, r) PROVE TypeOK'
  <2>1. CASE Mint(s, r)
    BY <1>8, <2>1, MintTyped DEF Rotate, TypeOK
  <2>2. CASE ~Mint(s, r)
    BY <1>8, <2>2, DoorAssumption DEF Rotate, KeptOnRefusal, TypeOK
  <2>. QED  BY <2>1, <2>2
<1>9. ASSUME NEW t \in access, ExpireAccess(t) PROVE TypeOK'
  BY <1>9 DEF ExpireAccess, TypeOK
<1>10. ASSUME NEW s \in SignIn, ExpireRefresh(s) PROVE TypeOK'
  BY <1>10 DEF ExpireRefresh, TypeOK
<1>11. CASE Restart
  BY <1>11, DoorAssumption DEF Restart, TypeOK, Open
<1>12. ASSUME NEW t \in access, NEW d \in OpenDoors, NEW m \in Messages, Post(t, d, m)
       PROVE  TypeOK'
  <2>1. m.id \in BOOLEAN
    BY DoorAssumption DEF Message
  <2>2. call' = Nothing \/ call' = <<[door |-> d, id |-> m.id]>>
    BY <1>12 DEF Post
  <2>. QED  BY <1>12, <2>1, <2>2 DEF Post, TypeOK
<1>13. ASSUME NEW r \in Replies, Answer(r) PROVE TypeOK'
  BY <1>13 DEF Answer, TypeOK
<1>14. CASE UNCHANGED vars
  BY <1>14 DEF vars, TypeOK
<1>. QED  BY <1>1, <1>2, <1>3, <1>4, <1>5, <1>6, <1>7, <1>8, <1>9, <1>10, <1>11, <1>12,
             <1>13, <1>14, DoorSteps

\* Token and call properties look at these steps: what every other step leaves alone.
LEMMA CallsStay ==
  ASSUME [Next]_vars
  PROVE  \/ sent' = sent /\ heard' = heard
         \/ sent' = Nothing /\ heard' = Nothing
         \/ \E t \in access, d \in OpenDoors, m \in Messages : Post(t, d, m)
         \/ \E r \in Replies : Answer(r)
<1>. USE DEF grantVars, signInVars, callVars, vars
<1>. QED
  BY DoorSteps DEF Submit, Admit, Fail, WaitOver, IssueCode, Exchange, CodeSpent, Rotate,
     ExpireAccess, ExpireRefresh, Restart

-------------------------------------------------------------------------------
(***************************************************************************)
(* What is let through.                                                    *)
(***************************************************************************)

Ruled(d, m) ==
  /\ m.method \in Methods
  /\ "different" \notin {m.method_header, m.name_header}
  /\ m.method = "tools/call" =>
       /\ m.tool \in AllowedTools(d)
       /\ m.tool \in OriginTools => m.args.form = "object" /\ m.args.origin = "gate"
       /\ m.tool \in KlamsWrites => ~m.args.author
       /\ m.tool = "memory_add" => m.args.kind = "knowledge"

\* A message that passes is forwarded within the rules.
LEMMA ForwardedIsRuled ==
  ASSUME NEW d \in OpenDoors, NEW m \in Messages, Passes(d, m)
  PROVE  Ruled(d, Forwarded(d, m))
<1>1. m \in Message
  BY DoorAssumption
<1>2. m.method \in Methods /\ m.method_header # "different"
  BY DEF Passes
<1>3. CASE m.method # "tools/call"
  <2>1. Forwarded(d, m) = [m EXCEPT !.name_header = None]
    BY <1>3 DEF Forwarded
  <2>2. /\ Forwarded(d, m).method = m.method
        /\ Forwarded(d, m).method_header = m.method_header
        /\ Forwarded(d, m).name_header = None
    BY <1>1, <2>1 DEF Message
  <2>. QED  BY <1>2, <1>3, <2>2 DEF Ruled, None
<1>4. CASE m.method = "tools/call"
  <2>1. Allows(d, m.tool) /\ m.name_header # "different" /\ ArgumentsFit(d, m)
    BY <1>4 DEF Passes
  <2>2. Forwarded(d, m) = [m EXCEPT !.args = Rewritten(d, m)]
    BY <1>4 DEF Forwarded
  <2>3. /\ Forwarded(d, m).method = m.method /\ Forwarded(d, m).tool = m.tool
        /\ Forwarded(d, m).method_header = m.method_header
        /\ Forwarded(d, m).name_header = m.name_header
        /\ Forwarded(d, m).args = Rewritten(d, m)
    BY <1>1, <2>2 DEF Message
  <2>4. m.args \in Arguments
    BY <1>1 DEF Message
  <2>5. m.tool \in AllowedTools(d)
    BY <2>1 DEF Allows
  <2>6. m.tool \in OriginTools => d = "korg"
    BY <2>5, DoorAssumption DEF AllowedTools
  <2>7. m.tool \in KlamsWrites => d # "korg"
    BY <2>5, DoorAssumption DEF AllowedTools
  <2>8. m.tool \in OriginTools =>
          Rewritten(d, m).form = "object" /\ Rewritten(d, m).origin = "gate"
    BY <2>4, <2>6 DEF Rewritten, Rewrites, Arguments
  <2>9. m.tool \in KlamsWrites => ~Rewritten(d, m).author
    BY <2>4, <2>7 DEF Rewritten, Rewrites, Arguments
  <2>10. m.tool = "memory_add" => Rewritten(d, m).kind = "knowledge"
    BY <2>1, <2>4, <2>7, DoorAssumption DEF Rewritten, Rewrites, ArgumentsFit, Arguments
  <2>. QED  BY <1>2, <2>1, <2>3, <2>5, <2>8, <2>9, <2>10 DEF Ruled
<1>. QED  BY <1>3, <1>4

LEMMA DenyStep == DenyByDefault /\ [Next]_vars => DenyByDefault'
<1>. SUFFICES ASSUME DenyByDefault, [Next]_vars PROVE DenyByDefault'
  OBVIOUS
<1>1. CASE sent' = sent /\ heard' = heard
  BY <1>1 DEF DenyByDefault, OnlyRuledCallsForwarded, ListIsFiltered
<1>2. CASE sent' = Nothing /\ heard' = Nothing
  BY <1>2 DEF DenyByDefault, OnlyRuledCallsForwarded, ListIsFiltered
<1>3. ASSUME NEW t \in access, NEW d \in OpenDoors, NEW m \in Messages, Post(t, d, m)
      PROVE  DenyByDefault'
  <2>1. /\ heard' = Nothing /\ Passes(d, m)
        /\ sent'[1].door = d /\ sent'[1].message = Forwarded(d, m)
    BY <1>3 DEF Post
  <2>2. Ruled(d, Forwarded(d, m))
    BY <2>1, ForwardedIsRuled
  <2>. QED  BY <2>1, <2>2 DEF Ruled, DenyByDefault, OnlyRuledCallsForwarded, ListIsFiltered
<1>4. ASSUME NEW r \in Replies, Answer(r)
      PROVE  DenyByDefault'
  <2>. DEFINE c == call[1]
              h == Heard(c, r)
  <2>1. sent' = Nothing /\ heard'[1] = h
    BY <1>4 DEF Answer
  <2>2. h.id /\ h.success =>
          h.tools = IF h.failed THEN {} ELSE (h.listed \cap AllowedTools(h.door)) \cup h.batched
    <3>1. Filtered(c.door, r)
            = (ToolsOf(ToSet(r.events)) \cap AllowedTools(c.door)) \cup ToolsOf(Batches(r))
      BY DEF Filtered, Batches, ToolsOf, Allows
    <3>. QED  BY <3>1 DEF Heard, Filters
  <2>. QED  BY <2>1, <2>2 DEF DenyByDefault, OnlyRuledCallsForwarded, ListIsFiltered
<1>. QED  BY <1>1, <1>2, <1>3, <1>4, CallsStay

-------------------------------------------------------------------------------
(***************************************************************************)
(* Which door a token opens.                                               *)
(***************************************************************************)

\* A sign-in is of the door it was asked for, and has got nothing until its code is out.
Unsigned(s) == door[s] = None \/ attempt[s] # "none"

GrantInv ==
  /\ TypeOK
  /\ \A s \in SignIn : door[s] = asked[s]
  /\ \A s \in SignIn : Unsigned(s) => s \notin codes /\ minted[s] = 0
  /\ \A s \in SignIn : attempt[s] # "none" => door[s] # None
  /\ \A s \in SignIn : refresh[s] # 0 => minted[s] # 0
  /\ sent # Nothing => /\ sent[1].grant \in SignIn /\ minted[sent[1].grant] # 0
                       /\ door[sent[1].grant] = sent[1].door

\* Tokens are minted for a sign-in that is signed, and change nobody's door.
LEMMA MintKeeps ==
  ASSUME GrantInv, NEW s \in SignIn, ~Unsigned(s), [Next]_vars,
         UNCHANGED <<asked, attempt, sent>>, codes' \subseteq codes,
         \/ \E r \in Resource : Mint(s, r)
         \/ /\ UNCHANGED <<minted, door>>
            /\ \A q \in SignIn : refresh'[q] # 0 => refresh[q] # 0
  PROVE  GrantInv'
<1>1. TypeOK /\ TypeOK'
  BY DoorTypeStep DEF GrantInv
<1>2. /\ door' = door
      /\ \A q \in SignIn : minted[q] # 0 => minted'[q] # 0
      /\ \A q \in SignIn \ {s} : minted'[q] = minted[q]
      /\ \A q \in SignIn : refresh'[q] # 0 => refresh[q] # 0 \/ minted'[q] # 0
  BY <1>1, MintTyped DEF TypeOK
<1>3. \A q \in SignIn : Unsigned(q)' <=> Unsigned(q)
  BY <1>2 DEF Unsigned
<1>4. \A q \in SignIn : Unsigned(q)' => q \notin codes' /\ minted'[q] = 0
  BY <1>2, <1>3 DEF GrantInv
<1>5. \A q \in SignIn : refresh'[q] # 0 => minted'[q] # 0
  BY <1>2 DEF GrantInv
<1>. QED  BY <1>1, <1>2, <1>4, <1>5 DEF GrantInv

LEMMA GrantStep == GrantInv /\ [Next]_vars => GrantInv'
<1>. SUFFICES ASSUME GrantInv, [Next]_vars PROVE GrantInv'
  OBVIOUS
<1>a. TypeOK /\ TypeOK'
  BY DoorTypeStep DEF GrantInv
<1>. USE DEF grantVars, signInVars, callVars
<1>1. ASSUME NEW s \in SignIn, NEW r \in Resource, NEW S \in SUBSET {Scope(d) : d \in Doors},
             Submit(s, r, S)
      PROVE  GrantInv'
  <2>1. Unsigned(s) /\ s \notin codes /\ minted[s] = 0
    BY <1>1 DEF Submit, Unsigned, GrantInv
  <2>. QED  BY <1>a, <1>1, <2>1 DEF Submit, Unsigned, GrantInv, TypeOK
<1>2. ASSUME NEW s \in SignIn, Admit(s) PROVE GrantInv'
  BY <1>a, <1>2 DEF Admit, Unsigned, GrantInv, TypeOK
<1>3. ASSUME NEW s \in SignIn, Fail(s) PROVE GrantInv'
  <2>1. Unsigned(s) /\ s \notin codes /\ minted[s] = 0
    BY <1>3 DEF Fail, Unsigned, GrantInv
  <2>2. sent # Nothing => sent[1].grant # s
    BY <2>1 DEF GrantInv
  <2>. QED  BY <1>a, <1>3, <2>1, <2>2 DEF Fail, Unsigned, GrantInv, TypeOK
<1>4. CASE WaitOver
  BY <1>a, <1>4 DEF WaitOver, Unsigned, GrantInv
<1>5. ASSUME NEW s \in SignIn, IssueCode(s) PROVE GrantInv'
  BY <1>a, <1>5 DEF IssueCode, Unsigned, GrantInv, TypeOK
<1>6. ASSUME NEW s \in SignIn, NEW r \in Resource, Exchange(s, r) PROVE GrantInv'
  <2>1. ~Unsigned(s)
    BY <1>6 DEF Exchange, GrantInv
  <2>. QED  BY <1>6, <2>1, MintKeeps DEF Exchange
<1>7. ASSUME NEW s \in SignIn, CodeSpent(s) PROVE GrantInv'
  BY <1>a, <1>7 DEF CodeSpent, Unsigned, GrantInv
<1>8. ASSUME NEW s \in SignIn, NEW r \in Resource, Rotate(s, r) PROVE GrantInv'
  <2>1. ~Unsigned(s) /\ UNCHANGED <<codes, asked, attempt, sent>>
    BY <1>8 DEF Rotate, GrantInv
  <2>2. CASE Mint(s, r)
    BY <2>1, <2>2, MintKeeps
  <2>3. CASE ~Mint(s, r)
    <3>1. UNCHANGED <<minted, door>> /\ \A q \in SignIn : refresh'[q] # 0 => refresh[q] # 0
      BY <1>a, <1>8, <2>3 DEF Rotate, KeptOnRefusal, TypeOK
    <3>. QED  BY <2>1, <3>1, MintKeeps
  <2>. QED  BY <2>2, <2>3
<1>9. ASSUME NEW t \in access, ExpireAccess(t) PROVE GrantInv'
  BY <1>a, <1>9 DEF ExpireAccess, Unsigned, GrantInv
<1>10. ASSUME NEW s \in SignIn, ExpireRefresh(s) PROVE GrantInv'
  BY <1>a, <1>10 DEF ExpireRefresh, Unsigned, GrantInv
<1>11. CASE Restart
  BY <1>a, <1>11 DEF Restart, Unsigned, GrantInv
<1>12. ASSUME NEW t \in access, NEW d \in OpenDoors, NEW m \in Messages, Post(t, d, m)
       PROVE  GrantInv'
  <2>1. t[1] \in SignIn /\ minted[t[1]] # 0 /\ door[t[1]] = d
    BY <1>a, <1>12 DEF Post, Opens, TypeOK
  <2>2. sent'[1].grant = t[1] /\ sent'[1].door = d
    BY <1>12 DEF Post
  <2>. QED  BY <1>a, <1>12, <2>1, <2>2 DEF Post, Unsigned, GrantInv
<1>13. ASSUME NEW r \in Replies, Answer(r) PROVE GrantInv'
  BY <1>a, <1>13 DEF Answer, Unsigned, GrantInv
<1>14. CASE UNCHANGED vars
  BY <1>a, <1>14 DEF vars, Unsigned, GrantInv
<1>. QED  BY <1>1, <1>2, <1>3, <1>4, <1>5, <1>6, <1>7, <1>8, <1>9, <1>10, <1>11, <1>12,
             <1>13, <1>14, DoorSteps

LEMMA GrantInvariant == Spec => []GrantInv
<1>1. Init => GrantInv
  BY DoorTypeInit DEF Init, GrantInv, Unsigned
<1>. QED  BY <1>1, GrantStep, PTL DEF Spec

-------------------------------------------------------------------------------
(***************************************************************************)
(* What costs a grant.                                                     *)
(***************************************************************************)

LEMMA MistakeStep ==
  ASSUME TypeOK, [Next]_vars, NEW s \in SignIn, refresh[s] # 0, refresh'[s] = 0
  PROVE  s \in expired
<1>. USE DEF grantVars, signInVars, callVars, vars
<1>1. ASSUME NEW q \in SignIn, NEW r \in Resource, Mint(q, r) PROVE FALSE
  <2>1. minted'[q] = minted[q] + 1 /\ refresh'[s] = IF s = q THEN minted'[q] ELSE refresh[s]
    BY <1>1, MintTyped
  <2>2. minted[q] \in 0..MaxMints /\ MaxMints \in Nat
    BY DoorAssumption DEF TypeOK
  <2>. QED  BY <2>1, <2>2
<1>2. ASSUME NEW q \in SignIn, NEW r \in Resource, Exchange(q, r) PROVE FALSE
  BY <1>1, <1>2 DEF Exchange
<1>3. ASSUME NEW q \in SignIn, NEW r \in Resource, Rotate(q, r) PROVE s \in expired
  <2>1. CASE Mint(q, r)
    BY <1>1, <2>1
  <2>2. CASE ~Mint(q, r)
    BY <1>3, <2>2 DEF Rotate, KeptOnRefusal, TypeOK
  <2>. QED  BY <2>1, <2>2
<1>. QED
  BY <1>2, <1>3, DoorSteps
     DEF Submit, Admit, Fail, WaitOver, IssueCode, CodeSpent, ExpireAccess, ExpireRefresh, Restart,
         Post, Answer

-------------------------------------------------------------------------------
(***************************************************************************)
(* How many passphrases can be tried.                                      *)
(***************************************************************************)

\* The sign-ins that have been let past the lockout and have yet to be judged.
Checked == {s \in SignIn : attempt[s] = "checked"}

\* Once a wait is over the tries are those of the waits so far; while one runs, the
\* sign-ins already past the lockout are tries to come.
TriesInv ==
  /\ TypeOK /\ lockout.failures = tried
  /\ IF lockout.wait = 0
     THEN tried <= FreeFailures + waits * Cardinality(SignIn)
     ELSE tried + Cardinality(Checked) <= FreeFailures + waits * Cardinality(SignIn) + Cardinality(SignIn)

LEMMA CheckedCounts ==
  /\ Cardinality(SignIn) \in Nat
  /\ Cardinality(Checked) \in Nat /\ Cardinality(Checked) <= Cardinality(SignIn)
<1>1. IsFiniteSet(SignIn) /\ Checked \in SUBSET SignIn
  BY DoorAssumption DEF Checked
<1>2. IsFiniteSet(Checked) /\ Cardinality(Checked) <= Cardinality(SignIn)
  BY <1>1, FS_Subset
<1>. QED  BY <1>1, <1>2, FS_CardinalityType

LEMMA CheckedLoses ==
  ASSUME TypeOK, NEW s \in SignIn, attempt[s] = "checked", NEW to, to # "checked",
         attempt' = [attempt EXCEPT ![s] = to]
  PROVE  Cardinality(Checked') = Cardinality(Checked) - 1
<1>1. Checked' = Checked \ {s} /\ s \in Checked
  BY DEF Checked, TypeOK
<1>2. IsFiniteSet(Checked)
  BY DoorAssumption, FS_Subset DEF Checked
<1>3. Cardinality(Checked \ {s}) = IF s \in Checked THEN Cardinality(Checked) - 1 ELSE Cardinality(Checked)
  BY <1>2, FS_RemoveElement
<1>. QED  BY <1>1, <1>3

LEMMA TriesStep == TriesInv /\ [Next]_vars => TriesInv'
<1>. SUFFICES ASSUME TriesInv, [Next]_vars PROVE TriesInv'
  OBVIOUS
<1>a. TypeOK /\ TypeOK'
  BY DoorTypeStep DEF TriesInv
<1>. DEFINE N == Cardinality(SignIn)
            C == Cardinality(Checked)
<1>b. /\ N \in Nat /\ C \in Nat /\ C <= N /\ FreeFailures \in Nat
      /\ tried \in Nat /\ waits \in Nat /\ lockout.wait \in Nat /\ lockout.failures = tried
  BY <1>a, CheckedCounts, DoorAssumption DEF TypeOK, TriesInv
<1>c. waits * N \in Nat /\ (waits + 1) * N = waits * N + N
  <2>. HIDE DEF N
  <2>. QED  BY <1>b
<1>d. IF lockout.wait = 0 THEN tried <= FreeFailures + waits * N
      ELSE tried + C <= FreeFailures + waits * N + N
  BY DEF TriesInv
<1>. HIDE DEF N, C
<1>s. ASSUME lockout' = lockout, tried' = tried, waits' = waits,
             lockout.wait # 0 => C' <= C /\ C' \in Nat
      PROVE  TriesInv'
  <2>1. IF lockout'.wait = 0 THEN tried' <= FreeFailures + waits' * N
        ELSE tried' + C' <= FreeFailures + waits' * N + N
    BY <1>b, <1>c, <1>d, <1>s
  <2>. QED  BY <1>a, <1>b, <1>s, <2>1 DEF TriesInv, N, C
<1>0. ASSUME lockout' = Open, tried' = 0, waits' = 0
      PROVE  TriesInv'
  <2>1. 0 <= FreeFailures + 0 * N
    BY <1>b
  <2>. QED  BY <1>a, <1>0, <2>1 DEF TriesInv, Open, N
<1>. USE DEF grantVars, signInVars, callVars
<1>1. ASSUME NEW s \in SignIn, NEW r \in Resource, NEW S \in SUBSET {Scope(d) : d \in Doors},
             Submit(s, r, S)
      PROVE  TriesInv'
  BY <1>1, <1>s DEF Submit
<1>2. ASSUME NEW s \in SignIn, Admit(s) PROVE TriesInv'
  BY <1>2, <1>0 DEF Admit
<1>3. ASSUME NEW s \in SignIn, Fail(s) PROVE TriesInv'
  <2>. DEFINE delay == Delay(lockout.failures + 1)
  <2>1. /\ tried' = tried + 1 /\ waits' = waits
        /\ lockout' = [failures |-> lockout.failures + 1,
                       wait |-> IF delay = 0 THEN lockout.wait ELSE delay]
    BY <1>3 DEF Fail
  <2>2. C' = C - 1
    BY <1>a, <1>3, CheckedLoses DEF Fail, C
  <2>3. delay \in Nat /\ (tried + 1 > FreeFailures => delay > 0)
    BY <1>b, DelayFacts
  <2>. HIDE DEF delay
  <2>4. lockout'.failures = tried' /\ lockout'.wait = IF delay = 0 THEN lockout.wait ELSE delay
    BY <1>b, <2>1
  <2>5. CASE lockout'.wait = 0
    <3>1. tried + 1 <= FreeFailures
      BY <1>b, <2>3, <2>4, <2>5
    <3>2. tried' <= FreeFailures + waits' * N
      BY <1>b, <1>c, <2>1, <3>1
    <3>. QED  BY <1>a, <2>4, <2>5, <3>2 DEF TriesInv, N
  <2>6. CASE lockout'.wait # 0
    <3>1. tried + C <= FreeFailures + waits * N + N
      BY <1>b, <1>c, <1>d
    <3>2. tried' + C' <= FreeFailures + waits' * N + N
      BY <1>b, <1>c, <2>1, <2>2, <3>1
    <3>. QED  BY <1>a, <2>4, <2>6, <3>2 DEF TriesInv, N, C
  <2>. QED  BY <2>5, <2>6
<1>4. CASE WaitOver
  <2>1. /\ lockout.wait # 0 /\ tried' = tried /\ waits' = waits + 1
        /\ lockout'.wait = 0 /\ lockout'.failures = lockout.failures
    BY <1>a, <1>4 DEF WaitOver, TypeOK
  <2>2. tried' <= FreeFailures + waits' * N
    BY <1>b, <1>c, <1>d, <2>1
  <2>. QED  BY <1>a, <1>b, <2>1, <2>2 DEF TriesInv, N
<1>5. ASSUME NEW s \in SignIn, IssueCode(s) PROVE TriesInv'
  <2>1. Checked' = Checked
    BY <1>a, <1>5 DEF IssueCode, Checked, TypeOK
  <2>. QED  BY <1>b, <1>5, <1>s, <2>1 DEF IssueCode, C
<1>6. CASE Restart
  BY <1>6, <1>0 DEF Restart
<1>7. ASSUME UNCHANGED signInVars PROVE TriesInv'
  <2>1. C' = C
    BY <1>7 DEF C, Checked
  <2>. QED  BY <1>b, <1>7, <1>s, <2>1
<1>. QED
  BY <1>1, <1>2, <1>3, <1>4, <1>5, <1>6, <1>7, DoorSteps
     DEF Exchange, CodeSpent, Rotate, ExpireAccess, ExpireRefresh, Post, Answer, vars

-------------------------------------------------------------------------------
\* Sign-ins, tokens, the lockout and open calls keep their types.
THEOREM DoorTypeCorrect == Spec => []TypeOK
  BY DoorTypeInit, DoorTypeStep, PTL DEF Spec

\* The gate forwards nothing that is not ruled in, and filters every successful answer
\* to a tools/list with an id but for arrays in SSE events; for any lists of tools, any
\* message and any answer (proxy.rs, allowlist.rs).
THEOREM GateDeniesByDefault == Spec => []DenyByDefault
<1>1. Init => DenyByDefault
  BY DEF Init, DenyByDefault, OnlyRuledCallsForwarded, ListIsFiltered
<1>. QED  BY <1>1, DenyStep, PTL DEF Spec

\* A call is let through only at the door whose sign-in page was answered, through
\* every exchange, rotation and restart (oauth.rs, store.rs).
THEOREM TokensOpenTheirDoor == Spec => []TokensKeepTheirDoor
<1>1. GrantInv => TokensKeepTheirDoor
  BY DEF GrantInv, TokensKeepTheirDoor
<1>. QED  BY <1>1, GrantInvariant, PTL

\* A refresh token is lost to its replacement or its age, never to a request that was
\* refused (Store::refresh).
THEOREM MistakesAreFree == Spec => MistakesKeepTheGrant
<1>1. TypeOK /\ [Next]_vars
        => [\A s \in SignIn : refresh[s] # 0 /\ refresh'[s] = 0 => s \in expired]_vars
  BY MistakeStep
<1>. QED  BY <1>1, DoorTypeCorrect, PTL DEF Spec, MistakesKeepTheGrant

\* Overlapping sign-ins get past the lockout at most once each per wait, whatever the
\* constants (check_lockout, sign_in_failed).
THEOREM GuessesAreBounded == Spec => []TriesAreBounded
<1>1. Init => TriesInv
  <2>1. Init => Cardinality(SignIn) \in Nat /\ 0 <= FreeFailures + 0 * Cardinality(SignIn)
    BY CheckedCounts, DoorAssumption
  <2>. QED  BY <2>1, DoorTypeInit DEF Init, TriesInv, Open
<1>2. TriesInv => TriesAreBounded
  <2>. SUFFICES ASSUME TriesInv PROVE TriesAreBounded
    OBVIOUS
  <2>. DEFINE N == Cardinality(SignIn)
              C == Cardinality(Checked)
  <2>1. N \in Nat /\ C \in Nat /\ waits \in Nat /\ tried \in Nat /\ FreeFailures \in Nat
    BY CheckedCounts, DoorAssumption DEF TriesInv, TypeOK
  <2>2. tried <= FreeFailures + waits * N \/ tried + C <= FreeFailures + waits * N + N
    BY DEF TriesInv
  <2>. HIDE DEF N, C
  <2>3. (waits + 1) * N = waits * N + N /\ waits * N \in Nat
    BY <2>1
  <2>4. tried <= FreeFailures + (waits + 1) * N
    BY <2>1, <2>2, <2>3
  <2>. QED  BY <2>4 DEF TriesAreBounded, N
<1>. QED  BY <1>1, <1>2, TriesStep, PTL DEF Spec
===============================================================================
