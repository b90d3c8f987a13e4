-------------------------------- MODULE Door --------------------------------
(***************************************************************************)
(* korg-gate as its callers see it: signing in at a door (oauth.rs, with   *)
(* the lockout of store.rs), exchanging and rotating the tokens that open  *)
(* it, and the calls made with them (proxy.rs, allowlist.rs, door.rs).     *)
(*                                                                         *)
(* What the store saves, loses and evicts is GateStore's subject.  Here a  *)
(* save succeeds and a client stays registered; a restart forgets what is  *)
(* in memory only: codes, access tokens, the lockout and open calls.       *)
(***************************************************************************)
EXTENDS Naturals, FiniteSets, FiniteSetsExt, Sequences, SequencesExt

CONSTANTS SignIn,        \* the sign-ins the owner may be asked for
          OpenDoors,     \* the doors whose upstream is configured
          ReadTools, WriteTools, OriginTools, KlamsReads, KlamsWrites,
          OtherTools,    \* tools an upstream has that no list names
          FreeFailures, LockoutBase, LockoutCap,
          Messages,      \* the messages callers send, of type Message
          Replies,       \* what an upstream answers tools/list with, of type Reply
          MaxMints,      \* bound: exchanges and rotations of a sign-in
          MaxFailures    \* bound: wrong passphrases between two successes

Doors   == {"korg", "klams"}
None    == "none"
Unknown == "unknown"      \* a resource that is no door's

Tools == UNION {ReadTools, WriteTools, KlamsReads, KlamsWrites, OtherTools}

Methods == {"initialize", "notifications/initialized", "ping", "server/discover",
            "tools/list", "tools/call"}

\* The arguments of a call: an object has fields, anything else has none.
Arguments == [form : {"absent", "null", "other", "object"}, origin : {None, "caller", "gate"},
              author : BOOLEAN, kind : {None, "knowledge", "fact"}]

\* A header is not sent, or says what the body says, or something else.
Header  == {None, "same", "different"}
Message == [id : BOOLEAN, method : Methods \cup {"resources/read", None},
            tool : Tools \cup {None}, args : Arguments,
            method_header : Header, name_header : Header]

\* An event of an SSE answer; a JSON answer is one event.  A batch is a JSON array of
\* answers, any of which may list tools.
Event == [kind : {"tools", "batch", "error", "resultless", "notification", "priming", "garbage"},
          tools : SUBSET Tools]
Reply == [success : BOOLEAN, form : {"json", "sse", "unreadable"}, events : Seq(Event)]

ASSUME DoorAssumption ==
  /\ "korg" \in OpenDoors /\ OpenDoors \subseteq Doors
  /\ OriginTools \subseteq WriteTools /\ "memory_add" \in KlamsWrites
  /\ (ReadTools \cup WriteTools) \cap (KlamsReads \cup KlamsWrites \cup OtherTools) = {}
  /\ (KlamsReads \cup KlamsWrites) \cap OtherTools = {}
  /\ None \notin Tools
  /\ IsFiniteSet(SignIn)
  /\ {FreeFailures, LockoutBase, LockoutCap, MaxMints, MaxFailures} \subseteq Nat
  /\ LockoutCap > 0 /\ \A n \in 0..16 : LockoutBase * 2 ^ n \in Nat \ {0}
  /\ \A m \in Messages : m \in Message
  /\ \A r \in Replies : r.form = "json" => Len(r.events) = 1

VARIABLES
  attempt,  \* [SignIn -> how far its authorize_submit has got]
  door,     \* [SignIn -> the door its code and tokens are bound to]
  codes,    \* the sign-ins whose code can still be exchanged
  minted,   \* [SignIn -> how many pairs of tokens it has got]
  refresh,  \* [SignIn -> the number of its refresh token, 0 when there is none]
  expired,  \* the sign-ins whose refresh token is past its expires_at
  access,   \* the live access tokens, <<sign-in, number>>
  lockout,  \* [failures, wait]: wait is the seconds until sign-ins are open again
  call,     \* the tools/list an upstream has not answered yet, or nothing
  \* What the properties are about; no action reads these.
  asked,    \* [SignIn -> the door whose sign-in page the owner answered]
  sent,     \* the last message that reached an upstream, and where, or nothing
  heard,    \* what the caller of tools/list was answered with, or nothing
  tried,    \* wrong passphrases since the last success or restart
  waits     \* lockouts that have run out since

vars == <<attempt, door, codes, minted, refresh, expired, access, lockout, call,
          asked, sent, heard, tried, waits>>

grantVars  == <<door, codes, minted, refresh, expired, access, asked>>
signInVars == <<attempt, lockout, tried, waits>>
callVars   == <<call, sent, heard>>

Nothing == <<>>
Open    == [failures |-> 0, wait |-> 0]

TypeOK ==
  /\ attempt \in [SignIn -> {"none", "checked", "admitted"}]
  /\ door \in [SignIn -> Doors \cup {None}]
  /\ codes \subseteq SignIn
  /\ minted \in [SignIn -> 0..MaxMints]
  /\ refresh \in [SignIn -> 0..MaxMints]
  /\ expired \subseteq SignIn
  /\ \A t \in access : t[1] \in SignIn /\ t[2] \in 1..minted[t[1]]
  /\ lockout \in [failures : Nat, wait : 0..LockoutCap]
  /\ call = Nothing \/ call[1] \in [door : OpenDoors, id : BOOLEAN]
  /\ asked \in [SignIn -> Doors \cup {None}]
  /\ tried \in 0..MaxFailures /\ waits \in Nat

Init ==
  /\ attempt = [s \in SignIn |-> "none"]
  /\ door = [s \in SignIn |-> None]
  /\ codes = {}
  /\ minted = [s \in SignIn |-> 0]
  /\ refresh = [s \in SignIn |-> 0]
  /\ expired = {} /\ access = {}
  /\ lockout = Open
  /\ call = Nothing
  /\ asked = [s \in SignIn |-> None]
  /\ sent = Nothing /\ heard = Nothing
  /\ tried = 0 /\ waits = 0

-------------------------------------------------------------------------------
(***************************************************************************)
(* Signing in.                                                             *)
(***************************************************************************)

Scope(d) == IF d = "korg" THEN "korg:read" ELSE "klams:read"

\* door_by_scope: korg, unless another open door's scope is asked for and not korg's.
DoorByScope(scopes) ==
  LET other == {d \in OpenDoors : Scope(d) \in scopes} IN
  IF Scope("korg") \in scopes \/ other = {} THEN "korg" ELSE CHOOSE d \in other : TRUE

\* validate_auth: the door a request is for, or None when it is refused.
DoorFor(resource, scopes) ==
  IF resource = None THEN DoorByScope(scopes)
  ELSE IF resource \in OpenDoors THEN resource ELSE None

\* Faulty variant: only the first failure over the free ones makes anyone wait.
DelayOnce(failures) == IF failures = FreeFailures + 1 THEN LockoutBase ELSE 0

\* sign_in_failed: the wait doubles with each failure over the free ones.
Delay(failures) ==
  IF failures <= FreeFailures THEN 0
  ELSE Min({LockoutCap, LockoutBase * 2 ^ Min({failures - FreeFailures - 1, 16})})

\* authorize_submit up to check_lockout, which decides before the passphrase is
\* looked at.  The page carries the door through the form as its resource.
Submit(s, resource, scopes) ==
  LET d == DoorFor(resource, scopes) IN
  /\ attempt[s] = "none" /\ door[s] = None
  /\ d # None
  /\ lockout.wait = 0
  /\ attempt' = [attempt EXCEPT ![s] = "checked"]
  /\ door' = [door EXCEPT ![s] = d]
  /\ asked' = [asked EXCEPT ![s] = d]
  /\ UNCHANGED <<codes, minted, refresh, expired, access, lockout, tried, waits, callVars>>

\* The right passphrase: sign_in_succeeded.
Admit(s) ==
  /\ attempt[s] = "checked"
  /\ attempt' = [attempt EXCEPT ![s] = "admitted"]
  /\ lockout' = Open
  /\ tried' = 0 /\ waits' = 0
  /\ UNCHANGED <<grantVars, callVars>>

\* A wrong one: sign_in_failed.
Fail(s) ==
  LET failures == lockout.failures + 1
      delay == Delay(failures)
  IN
  /\ attempt[s] = "checked"
  /\ tried < MaxFailures
  /\ lockout' = [failures |-> failures, wait |-> IF delay = 0 THEN lockout.wait ELSE delay]
  /\ tried' = tried + 1
  /\ attempt' = [attempt EXCEPT ![s] = "none"]
  /\ door' = [door EXCEPT ![s] = None]
  /\ asked' = [asked EXCEPT ![s] = None]
  /\ UNCHANGED <<codes, minted, refresh, expired, access, waits, callVars>>

\* `until' passes.
WaitOver ==
  /\ lockout.wait > 0
  /\ lockout' = [lockout EXCEPT !.wait = 0]
  /\ waits' = waits + 1
  /\ UNCHANGED <<attempt, tried, grantVars, callVars>>

IssueCode(s) ==
  /\ attempt[s] = "admitted"
  /\ attempt' = [attempt EXCEPT ![s] = "none"]
  /\ codes' = codes \cup {s}
  /\ UNCHANGED <<door, minted, refresh, expired, access, asked, lockout, tried, waits, callVars>>

-------------------------------------------------------------------------------
(***************************************************************************)
(* /token.  A resource that is no open door's is refused before the grant  *)
(* is looked at, and changes nothing.                                      *)
(***************************************************************************)

Names(resource) == resource = None \/ resource \in OpenDoors

Matches(s, resource) == resource \in {None, door[s]}

\* Faulty variants: the tokens are for the door the request names, korg's when it
\* names none; a refresh token is taken out before the request is checked.
MintedForNamed(s, resource) == IF resource = None THEN "korg" ELSE resource
KeptIfRefused(s, resource) == IF Matches(s, resource) THEN refresh[s] ELSE 0

\* The door the new pair of tokens is bound to.
MintedFor(s, resource) == door[s]

\* What a refusal leaves of the refresh token.
KeptOnRefusal(s, resource) == refresh[s]

Mint(s, resource) ==
  /\ minted[s] < MaxMints
  /\ minted' = [minted EXCEPT ![s] = @ + 1]
  /\ refresh' = [refresh EXCEPT ![s] = minted'[s]]
  /\ access' = access \cup {<<s, minted'[s]>>}
  /\ expired' = expired \ {s}
  /\ door' = [door EXCEPT ![s] = MintedFor(s, resource)]

\* exchange_code: the code is spent whether or not the request fits it.
Exchange(s, resource) ==
  /\ s \in codes /\ Names(resource)
  /\ codes' = codes \ {s}
  /\ IF Matches(s, resource) THEN Mint(s, resource)
     ELSE UNCHANGED <<minted, refresh, expired, access, door>>
  /\ UNCHANGED <<asked, signInVars, callVars>>

\* A code that runs out, or is spent by a request with another client or verifier.
CodeSpent(s) ==
  /\ s \in codes
  /\ codes' = codes \ {s}
  /\ UNCHANGED <<door, minted, refresh, expired, access, asked, signInVars, callVars>>

\* refresh: a request for another door is refused without spending the token; a
\* token that has run out is taken out.
Rotate(s, resource) ==
  /\ refresh[s] # 0 /\ Names(resource)
  /\ IF Matches(s, resource) /\ s \notin expired THEN Mint(s, resource)
     ELSE /\ refresh' = [refresh EXCEPT ![s] =
                 IF Matches(s, resource) THEN 0 ELSE KeptOnRefusal(s, resource)]
          /\ UNCHANGED <<minted, expired, access, door>>
  /\ UNCHANGED <<codes, asked, signInVars, callVars>>

ExpireAccess(t) ==
  /\ t \in access
  /\ access' = access \ {t}
  /\ UNCHANGED <<door, codes, minted, refresh, expired, asked, signInVars, callVars>>

ExpireRefresh(s) ==
  /\ refresh[s] # 0
  /\ expired' = expired \cup {s}
  /\ UNCHANGED <<door, codes, minted, refresh, access, asked, signInVars, callVars>>

Restart ==
  /\ attempt' = [s \in SignIn |-> "none"]
  /\ codes' = {} /\ access' = {}
  /\ lockout' = Open
  /\ call' = Nothing /\ sent' = Nothing /\ heard' = Nothing
  /\ tried' = 0 /\ waits' = 0
  /\ UNCHANGED <<door, minted, refresh, expired, asked>>

-------------------------------------------------------------------------------
(***************************************************************************)
(* Calls.  A token that is not live, or is another door's, is a 401; a     *)
(* message that does not pass is refused.  Neither changes anything here.  *)
(***************************************************************************)

AllowedTools(d) == IF d = "korg" THEN ReadTools \cup WriteTools ELSE KlamsReads \cup KlamsWrites

Allows(d, tool) == tool \in AllowedTools(d)

\* The writes whose arguments the gate looks into.
Rewrites(d) == IF d = "korg" THEN OriginTools ELSE KlamsWrites

\* Anything but an object is refused; nothing and null count as an empty one.
ArgumentsFit(d, m) ==
  m.tool \in Rewrites(d) =>
    /\ m.args.form # "other"
    /\ m.tool = "memory_add" => m.args.kind = "knowledge"

\* Faulty variant: arguments that are not there are not stamped.
RewrittenIfObject(d, m) ==
  IF m.tool \notin Rewrites(d) \/ m.args.form # "object" THEN m.args
  ELSE IF d = "korg" THEN [m.args EXCEPT !.origin = "gate"] ELSE [m.args EXCEPT !.author = FALSE]

\* stamp_origin, strip_klams_author
Rewritten(d, m) ==
  IF m.tool \notin Rewrites(d) THEN m.args
  ELSE IF d = "korg" THEN [m.args EXCEPT !.form = "object", !.origin = "gate"]
                     ELSE [m.args EXCEPT !.form = "object", !.author = FALSE]

Passes(d, m) ==
  /\ m.method \in Methods
  /\ m.method_header # "different"
  /\ m.method = "tools/call" => /\ Allows(d, m.tool)
                                /\ m.name_header # "different"
                                /\ ArgumentsFit(d, m)

\* What is forwarded: the checked message, with routing headers derived from it.
Forwarded(d, m) ==
  IF m.method = "tools/call" THEN [m EXCEPT !.args = Rewritten(d, m)]
                             ELSE [m EXCEPT !.name_header = None]

Opens(t, d) == t \in access /\ door[t[1]] = d

Post(t, d, m) ==
  /\ call = Nothing
  /\ Opens(t, d) /\ Passes(d, m)
  /\ sent' = <<[door |-> d, grant |-> t[1], message |-> Forwarded(d, m)]>>
  /\ call' = IF m.method = "tools/list" THEN <<[door |-> d, id |-> m.id]>> ELSE Nothing
  /\ heard' = Nothing
  /\ UNCHANGED <<grantVars, signInVars>>

-------------------------------------------------------------------------------
(***************************************************************************)
(* The answer to tools/list.  A successful one to a request with an id is  *)
(* filtered, or refused as a whole; any other is streamed back as it came. *)
(***************************************************************************)

\* filter_json and filter_sse: what cannot be read fails closed.
Unfilterable(form, e) ==
  \/ e.kind \in {"resultless", "garbage"}
  \/ form = "json" /\ e.kind \in {"batch", "notification", "priming"}

ToolsOf(events) == UNION {e.tools : e \in events}
Batches(r)      == {e \in ToSet(r.events) : e.kind = "batch"}

\* filtered_tools_list.  An SSE event that holds an array has no `result' to look
\* into, and is written out again as it is.
Filtered(d, r) ==
  {n \in ToolsOf(ToSet(r.events) \ Batches(r)) : Allows(d, n)} \cup ToolsOf(Batches(r))

\* filter_tools, and the status it is looked at with.
Filters(c, r) == c.id /\ r.success

FailsClosed(c, r) ==
  Filters(c, r) /\ (\/ r.form = "unreadable"
                   \/ \E e \in ToSet(r.events) : Unfilterable(r.form, e))

Heard(c, r) ==
  [door |-> c.door, id |-> c.id, success |-> r.success, failed |-> FailsClosed(c, r),
   listed |-> ToolsOf(ToSet(r.events)), batched |-> ToolsOf(Batches(r)),
   tools |-> IF FailsClosed(c, r) THEN {}
             ELSE IF Filters(c, r) THEN Filtered(c.door, r)
             ELSE ToolsOf(ToSet(r.events))]

Answer(r) ==
  /\ call # Nothing
  /\ heard' = <<Heard(call[1], r)>>
  /\ call' = Nothing /\ sent' = Nothing
  /\ UNCHANGED <<grantVars, signInVars>>

-------------------------------------------------------------------------------

Resource == Doors \cup {None, Unknown}

Next ==
  \/ \E s \in SignIn, r \in Resource, S \in SUBSET {Scope(d) : d \in Doors} : Submit(s, r, S)
  \/ \E s \in SignIn : Admit(s)
  \/ \E s \in SignIn : Fail(s)
  \/ WaitOver
  \/ \E s \in SignIn : IssueCode(s)
  \/ \E s \in SignIn, r \in Resource : Exchange(s, r)
  \/ \E s \in SignIn : CodeSpent(s)
  \/ \E s \in SignIn, r \in Resource : Rotate(s, r)
  \/ \E t \in access : ExpireAccess(t)
  \/ \E s \in SignIn : ExpireRefresh(s)
  \/ Restart
  \/ \E t \in access, d \in OpenDoors, m \in Messages : Post(t, d, m)
  \/ \E r \in Replies : Answer(r)

Spec == Init /\ [][Next]_vars

-------------------------------------------------------------------------------
(***************************************************************************)
(* Properties.                                                             *)
(***************************************************************************)

\* What reaches an upstream is a method and a tool ruled in for that door; a korg write
\* that carries an origin carries the gate's; a klams write names no author and adds
\* nothing but knowledge; the routing headers say what the message says.
OnlyRuledCallsForwarded ==
  sent # Nothing =>
    LET m == sent[1].message
        d == sent[1].door
    IN
    /\ m.method \in Methods
    /\ "different" \notin {m.method_header, m.name_header}
    /\ m.method = "tools/call" =>
         /\ m.tool \in AllowedTools(d)
         /\ m.tool \in OriginTools => m.args.form = "object" /\ m.args.origin = "gate"
         /\ m.tool \in KlamsWrites => ~m.args.author
         /\ m.tool = "memory_add" => m.args.kind = "knowledge"

\* What a caller that asks with an id sees of the tools of a successful answer: the list
\* cut down to the door's, no more and no less, or an error.  The one way past the
\* filter is an array in an SSE event.  An answer that is no success, and one to a
\* tools/list without an id, are streamed back as they came: of those nothing is said.
ListIsFiltered ==
  heard # Nothing =>
    LET h == heard[1] IN
    h.id /\ h.success =>
      h.tools = IF h.failed THEN {} ELSE (h.listed \cap AllowedTools(h.door)) \cup h.batched

\* Whatever a caller sends, only what is ruled in goes out, rewritten where the door
\* rewrites; and a list asked for with an id comes back filtered if it is a success.
DenyByDefault == OnlyRuledCallsForwarded /\ ListIsFiltered

\* A token opens only the door the owner was asked about, through every exchange
\* and rotation, whatever resource those requests name and with restarts between.
TokensKeepTheirDoor == sent # Nothing => asked[sent[1].grant] = sent[1].door

\* A refused request costs no grant: a refresh token goes only by being replaced,
\* or by having run out.
MistakesKeepTheGrant ==
  [][\A s \in SignIn : refresh[s] # 0 /\ refresh'[s] = 0 => s \in expired]_vars

\* However sign-ins overlap (the lockout is looked at, and the failure counted, in
\* different critical sections), the passphrases tried between two successes are
\* the free ones and one for each open sign-in per wait.
TriesAreBounded == tried <= FreeFailures + (waits + 1) * Cardinality(SignIn)
===============================================================================
