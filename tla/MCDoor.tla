------------------------------- MODULE MCDoor -------------------------------
(***************************************************************************)
(* An instance of Door for TLC: one or two tools of each of the gate's     *)
(* lists, and messages and answers that differ wherever the gate looks.    *)
(***************************************************************************)
EXTENDS Door, TLC

NoArgs  == [form |-> "absent", origin |-> None, author |-> FALSE, kind |-> None]
Objects == [form : {"object"}, origin : {None, "caller"}, author : BOOLEAN,
            kind : {None, "knowledge", "fact"}]
SomeArguments == Objects \cup {[NoArgs EXCEPT !.form = f] : f \in {"absent", "null", "other"}}

ACall(tool, args, mh, nh) ==
  [id |-> TRUE, method |-> "tools/call", tool |-> tool, args |-> args,
   method_header |-> mh, name_header |-> nh]

SomeMessages ==
  {ACall(tool, args, None, None) : tool \in Tools \cup {None}, args \in SomeArguments}
  \cup {ACall(tool, NoArgs, mh, nh) : tool \in ReadTools \cup KlamsReads, mh \in Header, nh \in Header}
  \cup {[id |-> id, method |-> method, tool |-> None, args |-> NoArgs,
          method_header |-> mh, name_header |-> nh] :
            id \in BOOLEAN, method \in {"tools/list", "ping", "resources/read", None},
            mh \in Header, nh \in {None, "different"}}

Quiet(kind) == [kind |-> kind, tools |-> {}]
AList(tools) == [kind |-> "tools", tools |-> tools]
SomeLists   == {AList({}), AList(Tools), AList(ReadTools \cup OtherTools)}
ABatch(tools) == [kind |-> "batch", tools |-> tools]
SomeEvents  == SomeLists \cup {ABatch(ReadTools \cup OtherTools)}
               \cup {Quiet(k) : k \in {"error", "resultless", "notification", "priming", "garbage"}}

SomeReplies ==
  {[success |-> TRUE, form |-> "json", events |-> <<e>>] : e \in SomeEvents}
  \cup {[success |-> TRUE, form |-> "sse", events |-> <<e, f>>] : e \in SomeEvents, f \in SomeEvents}
  \cup {[success |-> b, form |-> "unreadable", events |-> <<AList(Tools)>>] : b \in BOOLEAN}
  \cup {[success |-> FALSE, form |-> "json", events |-> <<e>>] : e \in SomeEvents}
  \cup {[success |-> FALSE, form |-> "sse", events |-> <<AList(Tools), e>>] : e \in SomeEvents}

SignInSymmetry == Permutations(SignIn)
===============================================================================
