----------------------------- MODULE MCAttachments -----------------------------
(***************************************************************************)
(* The life of images together with what is in them: Attachments says      *)
(* which parts of an image are on disk, Images which files those are.      *)
(***************************************************************************)
EXTENDS Attachments, Images

\* The files on disk of an image that was uploaded as u, of which `parts' are left.
Files(u, parts) ==
  {f \in Written(Prepare(u)) :
     (IF f.name = "original" THEN "original" ELSE "variants") \in parts}

Accepted == {u \in UploadedFile : ~Refused(u)}

\* How far the writes of an image have got, in their order.
Stages == {{}, {"dir"}, {"dir", "original"}, Part}

\* The stages at which every upload there is serves; a constant, so that TLC looks at
\* each upload once.
Serving == {parts \in Stages :
              \A u \in Accepted : /\ ServesEverySize(u, Files(u, parts))
                                 /\ AccountsForTheDisk(u, Files(u, parts))}

\* Whatever was uploaded, and whatever is swept, discarded or failing meanwhile,
\* an image that was answered and still has its row lists and serves both sizes
\* (attachment_variants, serve), each from a file that is there.
EverySizeIsServed ==
  \A a \in row : upload[a] = "answered" => store[a] \in Serving
================================================================================
