----------------------------- MODULE GateStore -----------------------------
(***************************************************************************)
(* The gate's grants: registered clients and refresh tokens in memory, the *)
(* JSON file they are saved to, and the apps that hold the tokens.  Every  *)
(* handler of Store holds one mutex from its first look to its save, so it *)
(* is one step; the save may fail, the answer may get lost, and the gate   *)
(* may restart between any two steps.                                      *)
(*                                                                         *)
(* A sign-in is its authorization code.  Its refresh tokens are the code   *)
(* and a number, counted from 1.  Clients are numbered as they register,   *)
(* which is the order of issued_at: two of one second, which the code      *)
(* tells apart by their random ids, are taken in that order too.           *)
(***************************************************************************)
EXTENDS Naturals, FiniteSets

CONSTANTS Code,
          MaxClients,       \* MAX_CLIENTS
          MaxRegistrations, \* bound: how many clients ever register
          MaxMints          \* bound: how many refresh tokens a sign-in gets

ASSUME GateAssumption ==
  /\ MaxClients \in Nat \ {0}
  /\ MaxRegistrations \in Nat
  /\ MaxMints \in Nat

Client       == 1 .. MaxRegistrations
NoClient     == 0
RefreshToken == Code \X (1 .. MaxMints)
NoToken      == 0

VARIABLES
  mem,        \* Persisted as the running gate has it
  disk,       \* Persisted as state.json has it
  registered, \* how many clients have registered
  known,      \* clients whose registration was answered
  client,     \* the client each code was issued to
  codes,      \* the codes that can still be exchanged
  minted,     \* how many refresh tokens each sign-in got
  expired,    \* refresh tokens past their expires_at
  held,       \* the last token each sign-in's app was answered with
  astray      \* sign-ins whose last call failed to save or lost its answer

vars == <<mem, disk, registered, known, client, codes, minted, expired, held, astray>>

Persisted == [clients : SUBSET Client, refresh : SUBSET RefreshToken]

TypeOK ==
  /\ mem \in Persisted /\ Cardinality(mem.clients) <= MaxClients
  /\ disk \in Persisted /\ Cardinality(disk.clients) <= MaxClients
  /\ registered \in 0 .. MaxRegistrations
  /\ known \subseteq 1 .. registered
  /\ client \in [Code -> Client \cup {NoClient}]
  /\ codes \subseteq Code
  /\ minted \in [Code -> 0 .. MaxMints]
  /\ expired \subseteq RefreshToken
  /\ held \in [Code -> 0 .. MaxMints]
  /\ astray \subseteq Code

Nothing == [clients |-> {}, refresh |-> {}]

Init ==
  /\ mem = Nothing /\ disk = Nothing
  /\ registered = 0 /\ known = {}
  /\ client = [c \in Code |-> NoClient]
  /\ codes = {}
  /\ minted = [c \in Code |-> 0]
  /\ expired = {}
  /\ held = [c \in Code |-> NoToken]
  /\ astray = {}

-------------------------------------------------------------------------------
\* retain(expires_at > now)
Purged(refresh) == refresh \ expired

\* Clients somebody holds a live grant for.
HeldClients == {client[t[1]] : t \in Purged(mem.refresh)}

\* Faulty variants, used by no action: an eviction that ignores the grants; a rotation
\* that leaves the old token to its expiry; a save left to the next call.
EvictableAny == mem.clients

RotatedKeepingOld(c, n) == Purged(mem.refresh) \cup {<<c, minted[c] + 1>>}

RotatedAlone(c, n) == {<<c, minted[c] + 1>>}

SavedLater(next) == mem' = next /\ UNCHANGED disk

Evictable == mem.clients \ HeldClients

Oldest(ids) == CHOOSE id \in ids : \A other \in ids : id <= other

\* The table with room for one more.
Trimmed(evictable) ==
  IF Cardinality(mem.clients) < MaxClients
  THEN mem.clients ELSE mem.clients \ {Oldest(evictable)}

\* The old token dies with the minting of its replacement; 0 for an exchange.
Rotated(c, n) == Purged(mem.refresh \ {<<c, n>>}) \cup {<<c, minted[c] + 1>>}

\* What the handler made of Persisted, written with temp file and rename.
Saved(next) == mem' = next /\ disk' = next

\* The save fails: a 500, and memory is ahead of the file.
SaveFails(next) == mem' = next /\ UNCHANGED disk

-------------------------------------------------------------------------------
\* register, with room in the table or a client to evict.
Register ==
  LET id == registered + 1
      full == Cardinality(mem.clients) >= MaxClients
      next == [clients |-> Trimmed(Evictable) \cup {id}, refresh |-> Purged(mem.refresh)]
  IN
  /\ registered < MaxRegistrations
  /\ full => Evictable # {}
  /\ registered' = id
  /\ \/ Saved(next) /\ known' \in {known, known \cup {id}}              \* or lost
     \/ SaveFails(next) /\ UNCHANGED known
  /\ UNCHANGED <<client, codes, minted, expired, held, astray>>

\* register, refused: the expired grants are gone from memory and nothing is saved.
RegisterFull ==
  /\ Cardinality(mem.clients) >= MaxClients
  /\ Evictable = {}
  /\ mem' = [mem EXCEPT !.refresh = Purged(@)]
  /\ UNCHANGED <<disk, registered, known, client, codes, minted, expired, held, astray>>

\* authorize_submit: the client is looked up and the code issued (an eviction
\* between the two is one right after: a code is not checked against the table).
IssueCode(c, id) ==
  /\ client[c] = NoClient
  /\ id \in known \cap mem.clients
  /\ client' = [client EXCEPT ![c] = id]
  /\ codes' = codes \cup {c}
  /\ UNCHANGED <<mem, disk, registered, known, minted, expired, held, astray>>

\* A code runs out after CODE_TTL, or a request that does not match it spends it.
CodeSpent(c) ==
  /\ c \in codes
  /\ codes' = codes \ {c}
  /\ UNCHANGED <<mem, disk, registered, known, client, minted, expired, held, astray>>

-------------------------------------------------------------------------------
\* mint and save, for an app that presented its code (n = 0) or its n-th token.
Mint(c, n) ==
  LET next == [mem EXCEPT !.refresh = Rotated(c, n)] IN
  /\ minted[c] < MaxMints
  /\ minted' = [minted EXCEPT ![c] = @ + 1]
  /\ \/ Saved(next) /\ held' = [held EXCEPT ![c] = minted'[c]] /\ astray' = astray \ {c}
     \/ Saved(next) /\ UNCHANGED held /\ astray' = astray \cup {c}     \* the answer is lost
     \/ SaveFails(next) /\ UNCHANGED held /\ astray' = astray \cup {c}

\* exchange_code
Exchange(c) ==
  /\ c \in codes
  /\ codes' = codes \ {c}
  /\ Mint(c, NoToken)
  /\ UNCHANGED <<registered, known, client, expired>>

\* refresh with a live token; one that is unknown, or names another door or client,
\* is refused and changes nothing.
Refresh(c) ==
  /\ <<c, held[c]>> \in mem.refresh \ expired
  /\ Mint(c, held[c])
  /\ UNCHANGED <<registered, known, client, codes, expired>>

\* refresh with an expired token: it is removed and the request refused.
RefreshExpired(c) ==
  LET next == [mem EXCEPT !.refresh = @ \ {<<c, held[c]>>}] IN
  /\ <<c, held[c]>> \in mem.refresh \cap expired
  /\ Saved(next) \/ SaveFails(next)
  /\ UNCHANGED <<registered, known, client, codes, minted, expired, held, astray>>

\* expires_at passes.  It is wall-clock time, and the order is left open.
Expire(t) ==
  /\ t \in (mem.refresh \cup disk.refresh) \ expired
  /\ expired' = expired \cup {t}
  /\ UNCHANGED <<mem, disk, registered, known, client, codes, minted, held, astray>>

\* The gate stops, in an orderly way or in the middle of a save, and Store::open
\* reads the file.
Restart ==
  /\ mem' = disk
  /\ codes' = {}
  /\ UNCHANGED <<disk, registered, known, client, minted, expired, held, astray>>

Next ==
  \/ Register
  \/ RegisterFull
  \/ \E c \in Code, id \in Client : IssueCode(c, id)
  \/ \E c \in Code : CodeSpent(c)
  \/ \E c \in Code : Exchange(c)
  \/ \E c \in Code : Refresh(c)
  \/ \E c \in Code : RefreshExpired(c)
  \/ \E t \in RefreshToken : Expire(t)
  \/ Restart

Spec == Init /\ [][Next]_vars

-------------------------------------------------------------------------------
(***************************************************************************)
(* Properties.                                                             *)
(***************************************************************************)

\* "A restart costs the phone nothing": the token an app was last answered with is
\* good in memory and in the file until it expires, whatever other calls fail to
\* save, evict or purge, and however often the gate restarts.
GrantsSurvive ==
  \A c \in Code \ astray :
    held[c] # NoToken /\ <<c, held[c]>> \notin expired
      => <<c, held[c]>> \in mem.refresh \cap disk.refresh

\* A sign-in never has two refresh tokens, in memory or in the file, and once an app
\* was answered with one, no earlier one comes back, not by a restart either.
OneTokenPerSignIn ==
  \A p \in {mem, disk} : \A t \in p.refresh :
    /\ held[t[1]] <= t[2]
    /\ \A u \in p.refresh : t[1] = u[1] => t = u

\* "A client with a live grant is never evicted", by a registration or by a restart.
GrantedClientsStay ==
  [][HeldClients \cap mem.clients \subseteq mem'.clients]_vars

-------------------------------------------------------------------------------
(***************************************************************************)
(* The gate keeps the promise of Grants: the file, the failed saves, the   *)
(* client table and the evictions are not seen from the apps.              *)
(***************************************************************************)

Numbers(c) == {n \in 1 .. MaxMints : <<c, n>> \in mem.refresh}

Honoured == [c \in Code |-> IF Numbers(c) = {} THEN 0 ELSE CHOOSE n \in Numbers(c) : TRUE]

Promise == INSTANCE Grants WITH SignIn <- Code, issued <- minted, honoured <- Honoured,
                                told <- held, stray <- astray, over <- expired

\* Through every exchange, refresh, eviction, failed save and restart the apps see no
\* more than Grants allows.
KeepsThePromise == Promise!GrantsSpec
==============================================================================
