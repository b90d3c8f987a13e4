---------------------------- MODULE GateStoreProofs ----------------------------
(***************************************************************************)
(* What holds of GateStore for any number of sign-ins, registrations and   *)
(* mintings and any size of the client table: types and the table's bound, *)
(* one token per sign-in, the survival of a held grant and of its client,  *)
(* and that the gate with its file and its table implements Grants.        *)
(***************************************************************************)
EXTENDS GateStore, FiniteSetTheorems, WellFoundedInduction, TLAPS

-------------------------------------------------------------------------------
(***************************************************************************)
(* The client table.                                                       *)
(***************************************************************************)

\* A set of clients has an oldest one: initial segments of Nat are ordered by
\* inclusion as their ends are, and inclusion of finite sets is well-founded.
LEMMA OldestExists ==
  ASSUME NEW ids \in SUBSET Nat, ids # {}
  PROVE  Oldest(ids) \in ids
<1> DEFINE upTo == {0 .. id : id \in ids}
<1>1. upTo \in SUBSET FiniteSubsetsOf(Nat) /\ upTo # {}
  <2>1. \A id \in ids : IsFiniteSet(0 .. id)
    BY FS_Interval
  <2>2. \A id \in ids : 0 .. id \in SUBSET Nat
    OBVIOUS
  <2>. QED  BY <2>1, <2>2, Zenon DEF FiniteSubsetsOf
<1>2. IsWellFoundedOn(StrictSubsetOrdering(Nat), FiniteSubsetsOf(Nat))
  BY FS_StrictSubsetOrderingWellFounded
<1>3. PICK least \in upTo :
        \A other \in upTo : <<other, least>> \notin StrictSubsetOrdering(Nat)
  <2>. HIDE DEF upTo
  <2>. QED  BY <1>1, <1>2, WFMin, Zenon
<1>4. PICK id \in ids : least = 0 .. id
  BY <1>3
<1>5. ASSUME NEW other \in ids, other < id
      PROVE  FALSE
  <2>1. 0 .. other \subseteq 0 .. id
    BY <1>5
  <2>2. id \in 0 .. id /\ id \notin 0 .. other
    BY <1>5
  <2>3. 0 .. other # 0 .. id
    BY <2>2, Zenon
  <2>4. 0 .. other \in SUBSET Nat /\ 0 .. id \in SUBSET Nat
    OBVIOUS
  <2>5. <<0 .. other, 0 .. id>> \in StrictSubsetOrdering(Nat)
    BY <2>1, <2>3, <2>4 DEF StrictSubsetOrdering
  <2>. QED  BY <2>5, <1>3, <1>4
<1>6. \A other \in ids : id <= other
  BY <1>5
<1>. QED  BY <1>6 DEF Oldest

\* After the trim there is room for one, and only an evictable client went.
LEMMA TrimmedFacts ==
  ASSUME TypeOK, Cardinality(mem.clients) >= MaxClients => Evictable # {}
  PROVE  /\ Trimmed(Evictable) \subseteq mem.clients
         /\ mem.clients \ Trimmed(Evictable) \subseteq Evictable
         /\ IsFiniteSet(Trimmed(Evictable))
         /\ Cardinality(Trimmed(Evictable)) < MaxClients
<1>1. mem.clients \in SUBSET Client
  BY DEF TypeOK, Persisted
<1>2. IsFiniteSet(mem.clients)
  <2>1. IsFiniteSet(Client)
    BY GateAssumption, FS_Interval DEF Client
  <2>. QED  BY <1>1, <2>1, FS_Subset
<1>3. Cardinality(mem.clients) \in Nat /\ Cardinality(mem.clients) <= MaxClients
  BY <1>2, FS_CardinalityType DEF TypeOK
<1>4. CASE Cardinality(mem.clients) < MaxClients
  BY <1>4, <1>2 DEF Trimmed
<1>5. CASE ~ (Cardinality(mem.clients) < MaxClients)
  <2>1. Cardinality(mem.clients) >= MaxClients
    BY <1>5, <1>3, GateAssumption
  <2>2. Evictable \in SUBSET Nat /\ Evictable # {}
    BY <2>1, <1>1 DEF Evictable, Client
  <2>3. Oldest(Evictable) \in Evictable
    BY <2>2, OldestExists
  <2>4. Trimmed(Evictable) = mem.clients \ {Oldest(Evictable)}
    BY <1>5 DEF Trimmed
  <2>5. Oldest(Evictable) \in mem.clients
    BY <2>3 DEF Evictable
  <2>6. /\ IsFiniteSet(mem.clients \ {Oldest(Evictable)})
        /\ Cardinality(mem.clients \ {Oldest(Evictable)}) = Cardinality(mem.clients) - 1
    BY <2>5, <1>2, FS_RemoveElement
  <2>. QED  BY <2>3, <2>4, <2>6, <1>3, GateAssumption
<1>. QED  BY <1>4, <1>5

\* What register puts into the table.
LEMMA RegisterNext ==
  ASSUME TypeOK, registered < MaxRegistrations,
         Cardinality(mem.clients) >= MaxClients => Evictable # {}
  PROVE  /\ Trimmed(Evictable) \cup {registered + 1} \in SUBSET Client
         /\ Cardinality(Trimmed(Evictable) \cup {registered + 1}) <= MaxClients
<1>1. registered + 1 \in Client /\ mem.clients \in SUBSET Client
  BY GateAssumption DEF TypeOK, Persisted, Client
<1>2. Cardinality(Trimmed(Evictable)) \in Nat
  BY TrimmedFacts, FS_CardinalityType
<1>3. Cardinality(Trimmed(Evictable) \cup {registered + 1})
        = IF registered + 1 \in Trimmed(Evictable)
          THEN Cardinality(Trimmed(Evictable)) ELSE Cardinality(Trimmed(Evictable)) + 1
  <2>1. IsFiniteSet(Trimmed(Evictable))
    BY TrimmedFacts
  <2>. QED  BY <2>1, FS_AddElement
<1>4. Cardinality(Trimmed(Evictable) \cup {registered + 1}) <= MaxClients
  BY <1>2, <1>3, TrimmedFacts, GateAssumption
<1>. QED  BY <1>1, <1>4, TrimmedFacts

-------------------------------------------------------------------------------
(***************************************************************************)
(* Types.                                                                  *)
(***************************************************************************)
LEMMA GateTypeInit == Init => TypeOK
<1>. SUFFICES ASSUME Init PROVE TypeOK
  OBVIOUS
<1>1. Cardinality(mem.clients) <= MaxClients /\ Cardinality(disk.clients) <= MaxClients
  BY FS_EmptySet, GateAssumption DEF Init, Nothing
<1>. QED  BY <1>1, GateAssumption DEF Init, TypeOK, Nothing, Persisted, NoToken

\* Whether or not the save works, the file holds what it held or what memory holds.
LEMMA SaveFacts ==
  ASSUME TypeOK, NEW next \in Persisted, Cardinality(next.clients) <= MaxClients,
         Saved(next) \/ SaveFails(next)
  PROVE  /\ mem' \in Persisted /\ Cardinality(mem'.clients) <= MaxClients
         /\ disk' \in Persisted /\ Cardinality(disk'.clients) <= MaxClients
  BY DEF TypeOK, Saved, SaveFails

LEMMA MintType ==
  ASSUME TypeOK, NEW c \in Code, NEW n \in 0 .. MaxMints, Mint(c, n)
  PROVE  /\ mem' \in Persisted /\ Cardinality(mem'.clients) <= MaxClients
         /\ disk' \in Persisted /\ Cardinality(disk'.clients) <= MaxClients
         /\ minted' \in [Code -> 0 .. MaxMints]
         /\ held' \in [Code -> 0 .. MaxMints]
         /\ astray' \subseteq Code
<1> DEFINE next == [mem EXCEPT !.refresh = Rotated(c, n)]
<1>1. minted[c] + 1 \in 1 .. MaxMints
  BY GateAssumption DEF Mint, TypeOK
<1>2. mem.refresh \in SUBSET RefreshToken
  BY DEF TypeOK, Persisted
<1>3. Rotated(c, n) \in SUBSET RefreshToken
  BY <1>1, <1>2 DEF Rotated, Purged, RefreshToken
<1>4. next \in Persisted /\ next.clients = mem.clients
  BY <1>3 DEF TypeOK, Persisted
<1>5. Saved(next) \/ SaveFails(next)
  BY DEF Mint
<1>6. Cardinality(next.clients) <= MaxClients
  BY <1>4 DEF TypeOK
<1>7. /\ mem' \in Persisted /\ Cardinality(mem'.clients) <= MaxClients
      /\ disk' \in Persisted /\ Cardinality(disk'.clients) <= MaxClients
  <2>. HIDE DEF next
  <2>. QED  BY <1>4, <1>5, <1>6, SaveFacts
<1>8. minted' \in [Code -> 0 .. MaxMints]
  BY <1>1 DEF Mint, TypeOK
<1>9. held' \in [Code -> 0 .. MaxMints] /\ astray' \subseteq Code
  BY <1>8 DEF Mint, TypeOK
<1>. QED  BY <1>7, <1>8, <1>9

LEMMA GateTypeStep == TypeOK /\ [Next]_vars => TypeOK'
<1>. SUFFICES ASSUME TypeOK, [Next]_vars PROVE TypeOK'
  OBVIOUS
<1>1. CASE Register
  <2> DEFINE next == [clients |-> Trimmed(Evictable) \cup {registered + 1},
                      refresh |-> Purged(mem.refresh)]
  <2>1. next.clients \in SUBSET Client /\ Cardinality(next.clients) <= MaxClients
    BY <1>1, RegisterNext DEF Register
  <2>2. next \in Persisted
    BY <2>1 DEF TypeOK, Persisted, Purged
  <2>3. Saved(next) \/ SaveFails(next)
    BY <1>1 DEF Register
  <2>4. /\ mem' \in Persisted /\ Cardinality(mem'.clients) <= MaxClients
        /\ disk' \in Persisted /\ Cardinality(disk'.clients) <= MaxClients
    <3>. HIDE DEF next
    <3>. QED  BY <2>1, <2>2, <2>3, SaveFacts
  <2>5. registered' \in 0 .. MaxRegistrations /\ known' \subseteq 1 .. registered'
    <3>1. /\ registered' = registered + 1 /\ registered < MaxRegistrations
          /\ known' \subseteq known \cup {registered + 1}
      BY <1>1 DEF Register
    <3>. QED  BY <3>1, GateAssumption DEF TypeOK
  <2>. QED  BY <1>1, <2>4, <2>5 DEF Register, TypeOK
<1>2. CASE RegisterFull
  BY <1>2 DEF RegisterFull, TypeOK, Persisted, Purged
<1>3. ASSUME NEW c \in Code, NEW id \in Client, IssueCode(c, id)
      PROVE  TypeOK'
  BY <1>3 DEF IssueCode, TypeOK
<1>4. ASSUME NEW c \in Code, CodeSpent(c)
      PROVE  TypeOK'
  BY <1>4 DEF CodeSpent, TypeOK
<1>5. ASSUME NEW c \in Code, Exchange(c)
      PROVE  TypeOK'
  <2>1. NoToken \in 0 .. MaxMints /\ Mint(c, NoToken)
    BY <1>5, GateAssumption DEF Exchange, NoToken
  <2>. QED  BY <1>5, <2>1, MintType DEF Exchange, TypeOK
<1>6. ASSUME NEW c \in Code, Refresh(c)
      PROVE  TypeOK'
  <2>1. held[c] \in 0 .. MaxMints /\ Mint(c, held[c])
    BY <1>6 DEF Refresh, TypeOK
  <2>. QED  BY <1>6, <2>1, MintType DEF Refresh, TypeOK
<1>7. ASSUME NEW c \in Code, RefreshExpired(c)
      PROVE  TypeOK'
  <2> DEFINE next == [mem EXCEPT !.refresh = @ \ {<<c, held[c]>>}]
  <2>1. next \in Persisted /\ Cardinality(next.clients) <= MaxClients
    BY DEF TypeOK, Persisted
  <2>2. Saved(next) \/ SaveFails(next)
    BY <1>7 DEF RefreshExpired
  <2>3. /\ mem' \in Persisted /\ Cardinality(mem'.clients) <= MaxClients
        /\ disk' \in Persisted /\ Cardinality(disk'.clients) <= MaxClients
    <3>. HIDE DEF next
    <3>. QED  BY <2>1, <2>2, SaveFacts
  <2>. QED  BY <1>7, <2>3 DEF RefreshExpired, TypeOK
<1>8. ASSUME NEW t \in RefreshToken, Expire(t)
      PROVE  TypeOK'
  BY <1>8 DEF Expire, TypeOK
<1>9. CASE Restart
  BY <1>9 DEF Restart, TypeOK
<1>10. CASE UNCHANGED vars
  BY <1>10 DEF vars, TypeOK
<1>. QED  BY <1>1, <1>2, <1>3, <1>4, <1>5, <1>6, <1>7, <1>8, <1>9, <1>10 DEF Next

\* Memory and file are a table within its bound and a set of tokens, whatever the
\* number of sign-ins, the size of the table and the order of the calls.
THEOREM GateTypeCorrect == Spec => []TypeOK
  BY GateTypeInit, GateTypeStep, PTL DEF Spec

-------------------------------------------------------------------------------
(***************************************************************************)
(* Grants.  The properties are inductive together with what links a        *)
(* sign-in to the number of its tokens and to its client: a code that can  *)
(* be exchanged has no token yet, a held token was minted, and a client    *)
(* whose registration was answered is in the file while it is in memory.   *)
(***************************************************************************)
Linked ==
  /\ \A c \in Code : client[c] # NoClient => client[c] \in known
  /\ mem.clients \cap known \subseteq disk.clients
  /\ \A c \in Code : c \in codes \/ client[c] = NoClient => minted[c] = 0
  /\ \A c \in codes : client[c] # NoClient
  /\ \A c \in Code : held[c] <= minted[c]
  /\ \A t \in mem.refresh \cup disk.refresh : t[2] <= minted[t[1]]

GrantInv == TypeOK /\ Linked /\ OneTokenPerSignIn /\ GrantsSurvive

LEMMA GrantInit == Init => GrantInv
<1>. SUFFICES ASSUME Init PROVE GrantInv
  OBVIOUS
<1>1. TypeOK
  BY GateTypeInit
<1>2. Linked
  BY DEF Init, Linked, Nothing, NoToken
<1>3. OneTokenPerSignIn
  BY DEF Init, OneTokenPerSignIn, Nothing
<1>4. GrantsSurvive
  BY DEF Init, GrantsSurvive, NoToken
<1>. QED  BY <1>1, <1>2, <1>3, <1>4 DEF GrantInv

\* Steps that mint nothing and leave every live token where it is.
LEMMA GrantsKept ==
  ASSUME GrantInv, TypeOK', UNCHANGED <<minted, held, astray>>,
         expired \subseteq expired',
         mem'.refresh \subseteq mem.refresh \cup disk.refresh,
         (mem.refresh \cap disk.refresh) \ expired' \subseteq mem'.refresh \cap disk'.refresh,
         mem'.refresh \subseteq mem.refresh \/ mem'.refresh \subseteq disk.refresh,
         disk'.refresh \subseteq mem.refresh \/ disk'.refresh \subseteq disk.refresh
  PROVE  /\ OneTokenPerSignIn'
         /\ GrantsSurvive'
         /\ \A t \in mem'.refresh \cup disk'.refresh : t[2] <= minted'[t[1]]
<1>1. OneTokenPerSignIn'
  BY DEF GrantInv, OneTokenPerSignIn
<1>2. GrantsSurvive'
  BY DEF GrantInv, GrantsSurvive, TypeOK
<1>3. \A t \in mem'.refresh \cup disk'.refresh : t[2] <= minted'[t[1]]
  BY DEF GrantInv, Linked
<1>. QED  BY <1>1, <1>2, <1>3

\* What a mint leaves of the tokens in memory: the sign-in's new one, and every live
\* one of the others.
LEMMA RotatedFacts ==
  ASSUME GrantInv, NEW c \in Code,
         (held[c] = NoToken /\ minted[c] = 0) \/ <<c, held[c]>> \in mem.refresh
  PROVE  /\ <<c, minted[c] + 1>> \in Rotated(c, held[c])
         /\ \A t \in Rotated(c, held[c]) :
              t # <<c, minted[c] + 1>> => t \in mem.refresh /\ t[1] # c
         /\ \A t \in mem.refresh \ expired : t[1] # c => t \in Rotated(c, held[c])
<1>1. ASSUME NEW t \in mem.refresh, t[1] = c
      PROVE  t = <<c, held[c]>>
  <2>1. t \in RefreshToken
    BY DEF GrantInv, TypeOK, Persisted
  <2>2. CASE minted[c] = 0
    BY <1>1, <2>1, <2>2, GateAssumption DEF GrantInv, Linked, RefreshToken
  <2>3. CASE <<c, held[c]>> \in mem.refresh
    BY <1>1, <2>3 DEF GrantInv, OneTokenPerSignIn
  <2>. QED  BY <2>2, <2>3
<1>2. \A t \in Rotated(c, held[c]) :
        t # <<c, minted[c] + 1>> => t \in mem.refresh /\ t # <<c, held[c]>>
  BY DEF Rotated, Purged
<1>3. \A t \in mem.refresh \ expired : t[1] # c => t \in Rotated(c, held[c])
  BY DEF Rotated, Purged
<1>4. <<c, minted[c] + 1>> \in Rotated(c, held[c])
  BY DEF Rotated
<1>. QED  BY <1>1, <1>2, <1>3, <1>4

LEMMA MintGrants ==
  ASSUME GrantInv, TypeOK', NEW c \in Code, Mint(c, held[c]), UNCHANGED expired,
         (held[c] = NoToken /\ minted[c] = 0) \/ <<c, held[c]>> \in mem.refresh
  PROVE  /\ OneTokenPerSignIn'
         /\ GrantsSurvive'
         /\ \A d \in Code : held'[d] <= minted'[d]
         /\ \A t \in mem'.refresh \cup disk'.refresh : t[2] <= minted'[t[1]]
<1> DEFINE new == <<c, minted[c] + 1>>
           rest == Rotated(c, held[c])
<1>1. /\ new \in rest
      /\ \A t \in rest : t # new => t \in mem.refresh /\ t[1] # c
      /\ \A t \in mem.refresh \ expired : t[1] # c => t \in rest
  BY RotatedFacts
<1>2. /\ mem'.refresh = rest /\ mem'.clients = mem.clients
      /\ \/ disk'.refresh = rest
         \/ disk' = disk /\ held' = held /\ astray' = astray \cup {c}
  BY DEF Mint, Saved, SaveFails, GrantInv, TypeOK, Persisted
<1>3. /\ minted' = [minted EXCEPT ![c] = @ + 1]
      /\ \/ held' = [held EXCEPT ![c] = minted[c] + 1] /\ astray' = astray \ {c}
         \/ held' = held /\ astray' = astray \cup {c}
  BY DEF Mint, GrantInv, TypeOK
<1>4. /\ minted \in [Code -> 0 .. MaxMints] /\ held \in [Code -> 0 .. MaxMints]
      /\ mem.refresh \in SUBSET RefreshToken /\ disk.refresh \in SUBSET RefreshToken
      /\ \A d \in Code : held[d] <= minted[d]
      /\ \A t \in mem.refresh \cup disk.refresh : t[2] <= minted[t[1]]
  BY DEF GrantInv, TypeOK, Linked, Persisted
<1>5. \A d \in Code : d # c => held'[d] = held[d] /\ minted'[d] = minted[d]
  BY <1>3, <1>4
<1>6. minted[c] \in Nat /\ minted'[c] = minted[c] + 1
  BY <1>3, <1>4
<1>7. held'[c] \in {held[c], minted[c] + 1} /\ held[c] <= minted[c] /\ held[c] \in Nat
  BY <1>3, <1>4
<1>8. \A d \in Code : held'[d] <= minted'[d]
  BY <1>4, <1>5, <1>6, <1>7
<1>9. \A t \in rest \cup disk.refresh : t = new \/ t[1] # c \/ t \in disk.refresh
  BY <1>1
<1>10. \A t \in mem'.refresh \cup disk'.refresh : t[2] <= minted'[t[1]]
  <2>1. \A t \in mem.refresh \cup disk.refresh : t[2] <= minted'[t[1]]
    <3>. SUFFICES ASSUME NEW t \in mem.refresh \cup disk.refresh
                  PROVE  t[2] <= minted'[t[1]]
      OBVIOUS
    <3>1. t[1] \in Code /\ t[2] \in Nat /\ t[2] <= minted[t[1]]
      BY <1>4 DEF RefreshToken
    <3>. QED  BY <3>1, <1>5, <1>6
  <2>2. new[2] <= minted'[new[1]]
    BY <1>6
  <2>. QED  BY <2>1, <2>2, <1>1, <1>2
<1>11. OneTokenPerSignIn'
  <2> DEFINE Good(tokens) ==
        \A t \in tokens : /\ held'[t[1]] <= t[2]
                         /\ \A u \in tokens : t[1] = u[1] => t = u
  <2>1. Good(rest)
    <3>1. ASSUME NEW t \in rest PROVE held'[t[1]] <= t[2]
      <4>1. CASE t = new
        BY <4>1, <1>6, <1>7
      <4>2. CASE t # new
        <5>1. t \in mem.refresh /\ t[1] # c /\ t[1] \in Code
          BY <4>2, <1>1, <1>4 DEF RefreshToken
        <5>. QED  BY <5>1, <1>5 DEF GrantInv, OneTokenPerSignIn
      <4>. QED  BY <4>1, <4>2
    <3>2. ASSUME NEW t \in rest, NEW u \in rest, t[1] = u[1] PROVE t = u
      <4>1. CASE t = new \/ u = new
        BY <3>2, <4>1, <1>1
      <4>2. CASE t # new /\ u # new
        BY <3>2, <4>2, <1>1 DEF GrantInv, OneTokenPerSignIn
      <4>. QED  BY <4>1, <4>2
    <3>. QED  BY <3>1, <3>2
  <2>2. held' = held => Good(disk.refresh)
    BY DEF GrantInv, OneTokenPerSignIn
  <2>3. Good(mem'.refresh) /\ Good(disk'.refresh)
    <3>. HIDE DEF Good, rest
    <3>. QED  BY <2>1, <2>2, <1>2
  <2>. QED  BY <2>3 DEF OneTokenPerSignIn
<1>12. GrantsSurvive'
  <2>. SUFFICES ASSUME NEW d \in Code \ astray', held'[d] # NoToken,
                       <<d, held'[d]>> \notin expired
                PROVE  <<d, held'[d]>> \in mem'.refresh \cap disk'.refresh
    BY DEF GrantsSurvive
  <2>1. CASE d = c
    <3>1. held'[c] = minted[c] + 1 /\ disk'.refresh = rest
      BY <2>1, <1>2, <1>3, <1>4
    <3>. QED  BY <2>1, <3>1, <1>1, <1>2
  <2>2. CASE d # c
    <3>1. d \notin astray /\ held'[d] = held[d]
      BY <2>2, <1>3, <1>5
    <3>2. <<d, held[d]>> \in mem.refresh \cap disk.refresh
      BY <3>1 DEF GrantInv, GrantsSurvive
    <3>3. <<d, held[d]>> \in rest
      BY <3>1, <3>2, <2>2, <1>1
    <3>. QED  BY <3>1, <3>2, <3>3, <1>2
  <2>. QED  BY <2>1, <2>2
<1>. QED  BY <1>8, <1>10, <1>11, <1>12

LEMMA GrantStep == GrantInv /\ [Next]_vars => GrantInv'
<1>. SUFFICES ASSUME GrantInv, [Next]_vars PROVE GrantInv'
  OBVIOUS
<1>0. TypeOK'
  BY GateTypeStep DEF GrantInv
<1>1. CASE Register
  <2>1. /\ UNCHANGED <<client, codes, minted, expired, held, astray>>
        /\ known' \in {known, known \cup {registered + 1}}
        /\ disk' = mem' \/ (disk' = disk /\ known' = known)
        /\ mem'.refresh = mem.refresh \ expired
        /\ mem'.clients = Trimmed(Evictable) \cup {registered + 1}
        /\ Trimmed(Evictable) \subseteq mem.clients
    BY <1>1, TrimmedFacts DEF Register, Saved, SaveFails, Purged, GrantInv
  <2>2. registered + 1 \notin known
    BY DEF GrantInv, TypeOK
  <2>3. /\ OneTokenPerSignIn' /\ GrantsSurvive'
        /\ \A t \in mem'.refresh \cup disk'.refresh : t[2] <= minted'[t[1]]
    BY <1>0, <2>1, GrantsKept
  <2>4. mem'.clients \cap known' \subseteq disk'.clients
    BY <2>1, <2>2 DEF GrantInv, Linked
  <2>5. Linked'
    BY <2>1, <2>3, <2>4 DEF GrantInv, Linked
  <2>. QED  BY <1>0, <2>3, <2>5 DEF GrantInv
<1>2. CASE RegisterFull
  <2>1. /\ UNCHANGED <<disk, registered, known, client, codes, minted, expired, held, astray>>
        /\ mem'.refresh = mem.refresh \ expired /\ mem'.clients = mem.clients
    BY <1>2 DEF RegisterFull, Purged, GrantInv, TypeOK, Persisted
  <2>2. /\ OneTokenPerSignIn' /\ GrantsSurvive'
        /\ \A t \in mem'.refresh \cup disk'.refresh : t[2] <= minted'[t[1]]
    BY <1>0, <2>1, GrantsKept
  <2>3. Linked'
    BY <2>1, <2>2 DEF GrantInv, Linked
  <2>. QED  BY <1>0, <2>2, <2>3 DEF GrantInv
<1>3. ASSUME NEW c \in Code, NEW id \in Client, IssueCode(c, id)
      PROVE  GrantInv'
  <2>1. Linked'
    BY <1>3 DEF IssueCode, GrantInv, Linked, TypeOK, Client, NoClient
  <2>. QED  BY <1>0, <1>3, <2>1 DEF IssueCode, GrantInv, OneTokenPerSignIn, GrantsSurvive
<1>4. ASSUME NEW c \in Code, CodeSpent(c)
      PROVE  GrantInv'
  BY <1>0, <1>4 DEF CodeSpent, GrantInv, Linked, OneTokenPerSignIn, GrantsSurvive
<1>5. ASSUME NEW c \in Code, Mint(c, held[c]), codes' \subseteq codes, c \notin codes',
             client[c] # NoClient, UNCHANGED <<registered, known, client, expired>>,
             (held[c] = NoToken /\ minted[c] = 0) \/ <<c, held[c]>> \in mem.refresh
      PROVE  GrantInv'
  <2>1. /\ OneTokenPerSignIn' /\ GrantsSurvive'
        /\ \A d \in Code : held'[d] <= minted'[d]
        /\ \A t \in mem'.refresh \cup disk'.refresh : t[2] <= minted'[t[1]]
    BY <1>0, <1>5, MintGrants
  <2>2. /\ mem'.clients = mem.clients /\ disk'.clients \in {mem.clients, disk.clients}
        /\ minted' = [minted EXCEPT ![c] = @ + 1]
    BY <1>5 DEF Mint, Saved, SaveFails, GrantInv, TypeOK, Persisted
  <2>3. mem'.clients \cap known' \subseteq disk'.clients
    BY <1>5, <2>2 DEF GrantInv, Linked
  <2>4. \A d \in Code : d \in codes' \/ client'[d] = NoClient => minted'[d] = 0
    BY <1>5, <2>2 DEF GrantInv, Linked, TypeOK
  <2>5. Linked'
    BY <1>5, <2>1, <2>3, <2>4 DEF GrantInv, Linked
  <2>. QED  BY <1>0, <2>1, <2>5 DEF GrantInv
<1>6. ASSUME NEW c \in Code, Exchange(c)
      PROVE  GrantInv'
  <2>1. c \in codes /\ codes' = codes \ {c} /\ Mint(c, NoToken)
        /\ UNCHANGED <<registered, known, client, expired>>
    BY <1>6 DEF Exchange
  <2>2. minted[c] = 0
    BY <2>1 DEF GrantInv, Linked
  <2>3. held[c] = NoToken
    BY <2>2 DEF GrantInv, Linked, TypeOK, NoToken
  <2>4. client[c] # NoClient
    BY <2>1 DEF GrantInv, Linked
  <2>. QED  BY <1>5, <2>1, <2>2, <2>3, <2>4
<1>7. ASSUME NEW c \in Code, Refresh(c)
      PROVE  GrantInv'
  <2>1. <<c, held[c]>> \in mem.refresh /\ Mint(c, held[c])
        /\ UNCHANGED <<registered, known, client, codes, expired>>
    BY <1>7 DEF Refresh
  <2>2. held[c] \in 1 .. MaxMints
    BY <2>1 DEF GrantInv, TypeOK, Persisted, RefreshToken
  <2>3. minted[c] # 0
    BY <2>2 DEF GrantInv, Linked, TypeOK
  <2>4. c \notin codes /\ client[c] # NoClient
    BY <2>3 DEF GrantInv, Linked
  <2>. QED  BY <1>5, <2>1, <2>4
<1>8. ASSUME NEW c \in Code, RefreshExpired(c)
      PROVE  GrantInv'
  <2>1. /\ UNCHANGED <<registered, known, client, codes, minted, expired, held, astray>>
        /\ <<c, held[c]>> \in expired
        /\ mem'.refresh = mem.refresh \ {<<c, held[c]>>} /\ mem'.clients = mem.clients
        /\ disk' = mem' \/ disk' = disk
    BY <1>8 DEF RefreshExpired, Saved, SaveFails, GrantInv, TypeOK, Persisted
  <2>2. /\ OneTokenPerSignIn' /\ GrantsSurvive'
        /\ \A t \in mem'.refresh \cup disk'.refresh : t[2] <= minted'[t[1]]
    BY <1>0, <2>1, GrantsKept
  <2>3. Linked'
    BY <2>1, <2>2 DEF GrantInv, Linked
  <2>. QED  BY <1>0, <2>2, <2>3 DEF GrantInv
<1>9. ASSUME NEW t \in RefreshToken, Expire(t)
      PROVE  GrantInv'
  <2>1. OneTokenPerSignIn' /\ GrantsSurvive'
    BY <1>0, <1>9, GrantsKept DEF Expire
  <2>2. Linked'
    BY <1>9 DEF Expire, GrantInv, Linked
  <2>. QED  BY <1>0, <2>1, <2>2 DEF GrantInv
<1>10. CASE Restart
  <2>1. OneTokenPerSignIn' /\ GrantsSurvive'
    BY <1>0, <1>10, GrantsKept DEF Restart
  <2>2. Linked'
    BY <1>10 DEF Restart, GrantInv, Linked
  <2>. QED  BY <1>0, <2>1, <2>2 DEF GrantInv
<1>11. CASE UNCHANGED vars
  BY <1>0, <1>11 DEF vars, GrantInv, Linked, OneTokenPerSignIn, GrantsSurvive
<1>. QED
  BY <1>1, <1>2, <1>3, <1>4, <1>6, <1>7, <1>8, <1>9, <1>10, <1>11 DEF Next

-------------------------------------------------------------------------------
\* "A restart costs the phone nothing" (docs/gate.md): whatever fails to save, is
\* evicted or purged, the token an app was answered with stays good until it expires.
THEOREM GrantsSurviveAlways == Spec => []GrantsSurvive
<1>1. GrantInv => GrantsSurvive
  BY DEF GrantInv
<1>. QED  BY <1>1, GrantInit, GrantStep, PTL DEF Spec

\* A sign-in has one refresh token, and none that its app already traded in.
THEOREM RotationIsFinal == Spec => []OneTokenPerSignIn
<1>1. GrantInv => OneTokenPerSignIn
  BY DEF GrantInv
<1>. QED  BY <1>1, GrantInit, GrantStep, PTL DEF Spec

\* No registration and no restart takes the client of a live grant out of the table.
THEOREM GrantedClientsAreNeverEvicted == Spec => GrantedClientsStay
<1>1. GrantInv /\ [Next]_vars => [HeldClients \cap mem.clients \subseteq mem'.clients]_vars
  <2>. SUFFICES ASSUME GrantInv, Next
                PROVE  HeldClients \cap mem.clients \subseteq mem'.clients
    OBVIOUS
  <2>1. CASE Register
    BY <2>1, TrimmedFacts DEF Register, Saved, SaveFails, Evictable, GrantInv
  <2>2. CASE RegisterFull
    BY <2>2 DEF RegisterFull, GrantInv, TypeOK, Persisted
  <2>3. ASSUME NEW c \in Code, NEW n, Mint(c, n)
        PROVE  mem'.clients = mem.clients
    BY <2>3 DEF Mint, Saved, SaveFails, GrantInv, TypeOK, Persisted
  <2>4. CASE \E c \in Code : Exchange(c)
    BY <2>3, <2>4 DEF Exchange
  <2>5. CASE \E c \in Code : Refresh(c)
    BY <2>3, <2>5 DEF Refresh
  <2>6. CASE \E c \in Code : RefreshExpired(c)
    BY <2>6 DEF RefreshExpired, Saved, SaveFails, GrantInv, TypeOK, Persisted
  <2>7. CASE Restart
    <3>. SUFFICES ASSUME NEW t \in mem.refresh, client[t[1]] \in mem.clients
                  PROVE  client[t[1]] \in mem'.clients
      BY DEF HeldClients, Purged
    <3>1. t[1] \in Code /\ client[t[1]] # NoClient
      BY DEF GrantInv, TypeOK, Persisted, RefreshToken, Client, NoClient
    <3>2. client[t[1]] \in disk.clients
      BY <3>1 DEF GrantInv, Linked
    <3>. QED  BY <2>7, <3>2 DEF Restart
  <2>8. CASE UNCHANGED mem
    BY <2>8
  <2>. QED
    BY <2>1, <2>2, <2>4, <2>5, <2>6, <2>7, <2>8
    DEF Next, IssueCode, CodeSpent, Expire
<1>. QED  BY <1>1, GrantInit, GrantStep, PTL DEF Spec, GrantedClientsStay

-------------------------------------------------------------------------------
(***************************************************************************)
(* The refinement.  A step maps to one of Grants because at most one token *)
(* of a sign-in is in memory, and because an app that is not astray was    *)
(* told the last token its sign-in got.                                    *)
(***************************************************************************)
Heard == \A c \in Code \ astray : held[c] = minted[c]

LEMMA HeardInit == Init => Heard
  BY DEF Init, Heard, NoToken

LEMMA HeardStep == GrantInv /\ Heard /\ [Next]_vars => Heard'
<1>. SUFFICES ASSUME GrantInv, Heard, [Next]_vars PROVE Heard'
  OBVIOUS
<1>1. ASSUME NEW c \in Code, NEW n, Mint(c, n)
      PROVE  Heard'
  BY <1>1 DEF Mint, Heard, GrantInv, TypeOK
<1>2. CASE \E c \in Code : Exchange(c) \/ Refresh(c)
  BY <1>1, <1>2 DEF Exchange, Refresh
<1>3. CASE UNCHANGED <<minted, held, astray>>
  BY <1>3 DEF Heard
<1>. QED
  BY <1>2, <1>3 DEF Next, vars, Register, RegisterFull, IssueCode, CodeSpent, RefreshExpired,
                    Expire, Restart

\* The number of the token in memory, 0 when there is none.
HonouredIsInMemory ==
  /\ Honoured \in [Code -> 0 .. MaxMints]
  /\ \A c \in Code, n \in 1 .. MaxMints : <<c, n>> \in mem.refresh <=> Honoured[c] = n

LEMMA HonouredFacts == GrantInv => HonouredIsInMemory
<1>. SUFFICES ASSUME GrantInv PROVE HonouredIsInMemory
  OBVIOUS
<1>1. ASSUME NEW c \in Code
      PROVE  /\ Honoured[c] \in 0 .. MaxMints
             /\ \A n \in 1 .. MaxMints : <<c, n>> \in mem.refresh <=> Honoured[c] = n
  <2>1. CASE Numbers(c) = {}
    BY <2>1, GateAssumption DEF Honoured, Numbers
  <2>2. CASE Numbers(c) # {}
    <3>1. Honoured[c] \in Numbers(c)
      BY <2>2 DEF Honoured
    <3>2. \A n \in 1 .. MaxMints : <<c, n>> \in mem.refresh => n = Honoured[c]
      BY <3>1 DEF Numbers, GrantInv, OneTokenPerSignIn
    <3>. QED  BY <3>1, <3>2 DEF Numbers
  <2>. QED  BY <2>1, <2>2
<1>2. Honoured = [c \in Code |-> Honoured[c]]
  BY DEF Honoured
<1>. QED  BY <1>1, <1>2 DEF HonouredIsInMemory

\* What a step forgets in memory, the promise allows it to forget.
LEMMA ForgetsOnlyExpired ==
  ASSUME HonouredIsInMemory, HonouredIsInMemory', NEW s \in Code,
         \A n \in 1 .. MaxMints : <<s, n>> \in mem'.refresh => <<s, n>> \in mem.refresh,
         \A n \in 1 .. MaxMints :
           <<s, n>> \in mem.refresh /\ <<s, n>> \notin expired => <<s, n>> \in mem'.refresh
  PROVE  Honoured'[s] = Honoured[s] \/ (Honoured'[s] = 0 /\ <<s, Honoured[s]>> \in expired)
<1>1. Honoured[s] \in 0 .. MaxMints /\ Honoured'[s] \in 0 .. MaxMints
  BY DEF HonouredIsInMemory
<1>2. CASE Honoured'[s] # 0
  <2>1. Honoured'[s] \in 1 .. MaxMints
    BY <1>1, <1>2, GateAssumption
  <2>2. <<s, Honoured'[s]>> \in mem'.refresh
    BY <2>1 DEF HonouredIsInMemory
  <2>3. <<s, Honoured'[s]>> \in mem.refresh
    BY <2>1, <2>2
  <2>. QED  BY <2>1, <2>3 DEF HonouredIsInMemory
<1>3. CASE Honoured'[s] = 0 /\ Honoured[s] # 0
  <2>1. Honoured[s] \in 1 .. MaxMints
    BY <1>1, <1>3, GateAssumption
  <2>2. <<s, Honoured[s]>> \in mem.refresh
    BY <2>1 DEF HonouredIsInMemory
  <2>3. <<s, Honoured[s]>> \notin mem'.refresh
    BY <1>3, <2>1 DEF HonouredIsInMemory
  <2>. QED  BY <1>3, <2>1, <2>2, <2>3
<1>. QED  BY <1>2, <1>3

LEMMA ForgetMaps ==
  ASSUME HonouredIsInMemory, HonouredIsInMemory', UNCHANGED <<minted, held, astray, expired>>,
         mem'.refresh \subseteq mem.refresh, mem.refresh \ expired \subseteq mem'.refresh
  PROVE  Promise!Forget
<1>1. Honoured' \in [Code -> Nat]
  BY GateAssumption DEF HonouredIsInMemory
<1>2. \A s \in Code :
        Honoured'[s] = Honoured[s] \/ (Honoured'[s] = 0 /\ <<s, Honoured[s]>> \in expired)
  BY ForgetsOnlyExpired
<1>. QED  BY <1>1, <1>2 DEF Promise!Forget, Promise!Forgets

LEMMA MintMaps ==
  ASSUME GrantInv, Heard, GrantInv', HonouredIsInMemory, HonouredIsInMemory',
         NEW c \in Code, Mint(c, held[c]), UNCHANGED expired,
         \/ held[c] = NoToken /\ minted[c] = 0
         \/ <<c, held[c]>> \in mem.refresh /\ <<c, held[c]>> \notin expired
  PROVE  Promise!Renew(c)
<1>1. /\ mem'.refresh = Rotated(c, held[c])
      /\ minted' = [minted EXCEPT ![c] = @ + 1]
      /\ minted'[c] = minted[c] + 1 /\ minted'[c] \in 1 .. MaxMints
      /\ \/ held' = [held EXCEPT ![c] = minted'[c]] /\ astray' = astray \ {c}
         \/ UNCHANGED held /\ astray' = astray \cup {c}
  BY GateAssumption DEF Mint, Saved, SaveFails, GrantInv, TypeOK, Persisted
<1>2. minted[c] = 0 \/ (held[c] # 0 /\ Honoured[c] = held[c] /\ <<c, held[c]>> \notin expired)
  <2>1. CASE <<c, held[c]>> \in mem.refresh /\ <<c, held[c]>> \notin expired
    <3>1. held[c] \in 1 .. MaxMints
      BY <2>1 DEF GrantInv, TypeOK, Persisted, RefreshToken
    <3>. QED  BY <2>1, <3>1 DEF HonouredIsInMemory
  <2>. QED  BY <2>1
<1>3. Honoured'[c] = minted'[c]
  <2>1. <<c, minted'[c]>> \in mem'.refresh
    BY <1>1, RotatedFacts
  <2>. QED  BY <1>1, <2>1 DEF HonouredIsInMemory
<1>4. ASSUME NEW s \in Code, s # c
      PROVE  Honoured'[s] = Honoured[s] \/ (Honoured'[s] = 0 /\ <<s, Honoured[s]>> \in expired)
  <2>1. \A n \in 1 .. MaxMints : <<s, n>> \in mem'.refresh => <<s, n>> \in mem.refresh
    BY <1>1, <1>4, RotatedFacts
  <2>2. \A n \in 1 .. MaxMints :
          <<s, n>> \in mem.refresh /\ <<s, n>> \notin expired => <<s, n>> \in mem'.refresh
    <3>. SUFFICES ASSUME NEW n \in 1 .. MaxMints,
                         <<s, n>> \in mem.refresh, <<s, n>> \notin expired
                  PROVE  <<s, n>> \in Rotated(c, held[c])
      BY <1>1
    <3>1. <<s, n>>[1] # c
      BY <1>4
    <3>2. \A t \in mem.refresh \ expired : t[1] # c => t \in Rotated(c, held[c])
      BY RotatedFacts
    <3>. QED  BY <3>1, <3>2
  <2>. QED  BY <2>1, <2>2, ForgetsOnlyExpired
<1>5. Honoured' \in [Code -> Nat] /\ Honoured \in [Code -> 0 .. MaxMints]
  BY GateAssumption DEF HonouredIsInMemory
<1>6. Promise!Forgets([Honoured EXCEPT ![c] = minted'[c]], Honoured')
  BY <1>3, <1>4, <1>5 DEF Promise!Forgets
<1>. QED  BY <1>1, <1>2, <1>3, <1>5, <1>6 DEF Promise!Renew

LEMMA RestartMaps ==
  ASSUME GrantInv, Heard, GrantInv', HonouredIsInMemory', Restart
  PROVE  Promise!Restored
<1>1. mem' = disk /\ UNCHANGED <<minted, held, astray, expired>>
  BY DEF Restart
<1>2. Honoured' \in [Code -> Nat]
  BY GateAssumption DEF HonouredIsInMemory
<1>3. ASSUME NEW s \in Code
      PROVE  Honoured'[s] = 0 \/ Honoured'[s] \in held[s] .. minted[s]
  <2>1. Honoured'[s] \in 0 .. MaxMints
    BY DEF HonouredIsInMemory
  <2>2. CASE Honoured'[s] # 0
    <3>1. <<s, Honoured'[s]>> \in disk.refresh
      BY <1>1, <2>1, <2>2, GateAssumption DEF HonouredIsInMemory
    <3>2. held[s] <= Honoured'[s] /\ Honoured'[s] <= minted[s]
      BY <3>1 DEF GrantInv, OneTokenPerSignIn, Linked
    <3>. QED  BY <3>2, <2>1 DEF GrantInv, TypeOK
  <2>. QED  BY <2>2
<1>4. ASSUME NEW s \in Code, s \notin astray, <<s, held[s]>> \notin expired
      PROVE  Honoured'[s] = held[s]
  <2>1. CASE held[s] = 0
    BY <1>3, <1>4, <2>1 DEF Heard, GrantInv, TypeOK
  <2>2. CASE held[s] # 0
    <3>1. <<s, held[s]>> \in mem'.refresh
      BY <1>1, <1>4, <2>2 DEF GrantInv, GrantsSurvive, NoToken
    <3>2. held[s] \in 1 .. MaxMints
      BY <2>2, GateAssumption DEF GrantInv, TypeOK
    <3>. QED  BY <3>1, <3>2 DEF HonouredIsInMemory
  <2>. QED  BY <2>1, <2>2
<1>. QED  BY <1>1, <1>2, <1>3, <1>4 DEF Promise!Restored

LEMMA StepMaps ==
  ASSUME GrantInv, Heard, GrantInv', HonouredIsInMemory, HonouredIsInMemory', [Next]_vars
  PROVE  [Promise!GrantsNext]_(Promise!grantVars)
<1>1. CASE Register
  <2>1. /\ UNCHANGED <<minted, held, astray, expired>>
        /\ mem'.refresh = mem.refresh \ expired
    BY <1>1 DEF Register, Saved, SaveFails, Purged
  <2>. QED  BY <2>1, ForgetMaps DEF Promise!GrantsNext
<1>2. CASE RegisterFull
  <2>1. /\ UNCHANGED <<minted, held, astray, expired>>
        /\ mem'.refresh = mem.refresh \ expired
    BY <1>2 DEF RegisterFull, Purged, GrantInv, TypeOK, Persisted
  <2>. QED  BY <2>1, ForgetMaps DEF Promise!GrantsNext
<1>3. CASE UNCHANGED <<mem, minted, held, astray, expired>>
  <2>1. UNCHANGED Honoured
    BY <1>3 DEF Honoured, Numbers
  <2>. QED  BY <1>3, <2>1 DEF Promise!grantVars
<1>4. ASSUME NEW c \in Code, Exchange(c)
      PROVE  Promise!Renew(c)
  <2>1. c \in codes /\ Mint(c, NoToken) /\ UNCHANGED expired
    BY <1>4 DEF Exchange
  <2>2. minted[c] = 0 /\ held[c] = NoToken
    BY <2>1 DEF GrantInv, Linked, TypeOK, NoToken
  <2>. QED  BY <2>1, <2>2, MintMaps
<1>5. ASSUME NEW c \in Code, Refresh(c)
      PROVE  Promise!Renew(c)
  <2>1. /\ <<c, held[c]>> \in mem.refresh /\ <<c, held[c]>> \notin expired
        /\ Mint(c, held[c]) /\ UNCHANGED expired
    BY <1>5 DEF Refresh
  <2>. QED  BY <2>1, MintMaps
<1>6. ASSUME NEW c \in Code, RefreshExpired(c)
      PROVE  Promise!Forget
  <2>1. /\ UNCHANGED <<minted, held, astray, expired>>
        /\ mem'.refresh = mem.refresh \ {<<c, held[c]>>} /\ <<c, held[c]>> \in expired
    BY <1>6 DEF RefreshExpired, Saved, SaveFails, GrantInv, TypeOK, Persisted
  <2>. QED  BY <2>1, ForgetMaps
<1>7. ASSUME NEW t \in RefreshToken, Expire(t)
      PROVE  \E s \in Code : \E n \in 1 .. minted[s] : Promise!Expires(s, n)
  <2>1. PICK s \in Code, n \in 1 .. MaxMints : t = <<s, n>>
    BY DEF RefreshToken
  <2>2. n <= minted[s]
    BY <1>7, <2>1 DEF Expire, GrantInv, Linked
  <2>3. n \in 1 .. minted[s]
    BY <2>2 DEF GrantInv, TypeOK
  <2>4. UNCHANGED Honoured
    BY <1>7 DEF Expire, Honoured, Numbers
  <2>. QED  BY <1>7, <2>1, <2>3, <2>4 DEF Expire, Promise!Expires
<1>8. CASE Restart
  BY <1>8, RestartMaps DEF Promise!GrantsNext
<1>9. CASE \E c \in Code : Exchange(c) \/ Refresh(c) \/ RefreshExpired(c)
  BY <1>4, <1>5, <1>6, <1>9 DEF Promise!GrantsNext
<1>10. CASE \E t \in RefreshToken : Expire(t)
  BY <1>7, <1>10 DEF Promise!GrantsNext
<1>. QED
  BY <1>1, <1>2, <1>3, <1>8, <1>9, <1>10 DEF Next, vars, IssueCode, CodeSpent

LEMMA InitMaps == Init => Promise!GrantsInit
<1>. SUFFICES ASSUME Init PROVE Promise!GrantsInit
  OBVIOUS
<1>1. Honoured = [c \in Code |-> 0]
  BY DEF Init, Nothing, Honoured, Numbers
<1>. QED  BY <1>1 DEF Init, NoToken, Promise!GrantsInit

\* The gate, with its file, its failed saves, its client table and its restarts, does
\* nothing to a sign-in that Grants does not allow.
THEOREM GateKeepsThePromise == Spec => KeepsThePromise
<1>1. Spec => [](GrantInv /\ Heard)
  BY GrantInit, GrantStep, HeardInit, HeardStep, PTL DEF Spec
<1>2. Spec => [](GrantInv /\ Heard /\ HonouredIsInMemory)
  BY <1>1, HonouredFacts, PTL
<1>. QED  BY <1>2, InitMaps, StepMaps, PTL DEF Spec, KeepsThePromise, Promise!GrantsSpec
===============================================================================
