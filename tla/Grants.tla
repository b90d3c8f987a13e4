------------------------------- MODULE Grants -------------------------------
(***************************************************************************)
(* What the gate promises of a sign-in, whatever it keeps in memory or on  *)
(* disk, whichever save fails and however often it restarts: it honours    *)
(* one refresh token per sign-in at a time, never one its app has traded   *)
(* in, and the one its app was last told until that one expires.           *)
(*                                                                         *)
(* A sign-in's refresh tokens are numbered in the order they are issued.   *)
(***************************************************************************)
EXTENDS Naturals

CONSTANT SignIn

VARIABLES
  issued,     \* how many tokens each sign-in got
  honoured,   \* the token the gate would honour, 0 for none
  told,       \* the token the app was last told, 0 for none
  stray,      \* sign-ins whose last renewal failed, or was not heard of
  over        \* expired tokens: sign-in and number

grantVars == <<issued, honoured, told, stray, over>>

GrantsInit ==
  /\ issued   = [s \in SignIn |-> 0]
  /\ honoured = [s \in SignIn |-> 0]
  /\ told     = [s \in SignIn |-> 0]
  /\ stray = {} /\ over = {}

\* A token is forgotten for no other reason than that it has expired.
Forgets(before, after) ==
  \A s \in SignIn : after[s] = before[s] \/ (after[s] = 0 /\ <<s, before[s]>> \in over)

\* An app renews with the code of the sign-in, once, and from then on with the token
\* it was told, which from now on is worth nothing.
Renew(s) ==
  /\ issued[s] = 0 \/ (told[s] # 0 /\ honoured[s] = told[s] /\ <<s, told[s]>> \notin over)
  /\ issued' = [issued EXCEPT ![s] = @ + 1]
  /\ honoured'[s] = issued'[s]
  /\ honoured' \in [SignIn -> Nat]
  /\ Forgets([honoured EXCEPT ![s] = issued'[s]], honoured')
  /\ \/ told' = [told EXCEPT ![s] = issued'[s]] /\ stray' = stray \ {s}
     \/ UNCHANGED told /\ stray' = stray \cup {s}
  /\ UNCHANGED over

Forget ==
  /\ honoured' \in [SignIn -> Nat]
  /\ Forgets(honoured, honoured')
  /\ UNCHANGED <<issued, told, stray, over>>

Expires(s, n) ==
  /\ over' = over \cup {<<s, n>>}
  /\ UNCHANGED <<issued, honoured, told, stray>>

\* The gate starts again: of a sign-in that is not astray it honours what the app was
\* told, unless that has expired, and of any other nothing older than that.
Restored ==
  /\ honoured' \in [SignIn -> Nat]
  /\ \A s \in SignIn :
       \/ honoured'[s] = told[s]
       \/ /\ s \in stray \/ <<s, told[s]>> \in over
          /\ honoured'[s] = 0 \/ honoured'[s] \in told[s] .. issued[s]
  /\ UNCHANGED <<issued, told, stray, over>>

GrantsNext ==
  \/ \E s \in SignIn : Renew(s)
  \/ Forget
  \/ \E s \in SignIn : \E n \in 1 .. issued[s] : Expires(s, n)
  \/ Restored

GrantsSpec == GrantsInit /\ [][GrantsNext]_grantVars
=============================================================================
