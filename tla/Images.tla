-------------------------------- MODULE Images --------------------------------
(***************************************************************************)
(* What an upload is turned into and what a request for it is answered     *)
(* with: korg-img's prepare on the write side, attachment_variants and the *)
(* serve route on the read side.  The two sides share no flag: a variant   *)
(* that was not worth storing is recognised by the original's dimensions   *)
(* alone.                                                                  *)
(*                                                                         *)
(* Pixels are dimensions and an alpha channel, bytes are their number, and *)
(* how many an encoder makes of an image is part of the upload.            *)
(***************************************************************************)
EXTENDS Naturals, TLC

CONSTANTS MAX_UPLOAD_BYTES, THUMB_LONG_EDGE, AGENT_LONG_EDGE,
          MaxSide  \* bound: the largest width and height uploaded

ASSUME ImagesAssumption ==
  /\ MAX_UPLOAD_BYTES \in Nat \ {0} /\ MaxSide \in Nat \ {0}
  /\ THUMB_LONG_EDGE \in 1 .. AGENT_LONG_EDGE /\ AGENT_LONG_EDGE \in Nat

VARIANTS == {"thumb", "agent"}
LongEdge == [thumb |-> THUMB_LONG_EDGE, agent |-> AGENT_LONG_EDGE]

\* Two of the five accepted formats do for all, and one that is not accepted.
ACCEPTED == {"png", "gif"}
Mime(format) == CASE format = "png" -> "image/png"
                  [] format = "gif" -> "image/gif"
                  [] OTHER -> "image/tiff"

\* The types korg stores; nothing else has a path.
ExtForMime == ("image/png" :> "png") @@ ("image/jpeg" :> "jpg") @@ ("image/gif" :> "gif")

UploadedFile ==
  [format : {"png", "gif", "tiff"}, decodes : BOOLEAN, alpha : BOOLEAN,
   width : 1 .. MaxSide, height : 1 .. MaxSide, bytes : 0 .. MAX_UPLOAD_BYTES + 1,
   encoded : [VARIANTS -> 1 .. MAX_UPLOAD_BYTES + 1]]

-------------------------------------------------------------------------------
LongSide(i) == IF i.width < i.height THEN i.height ELSE i.width

\* Faulty variant, used by nothing: the reader is one pixel short of the writer.
FitsStrictly(v, i) == LongSide(i) + 1 <= LongEdge[v]

FitsOriginal(v, i) == LongSide(i) <= LongEdge[v]

\* image's resize: into the box, the ratio kept, each side rounded and at least 1.
Scaled(side, long, edge) ==
  LET rounded == (2 * side * edge + long) \div (2 * long)
  IN  IF rounded = 0 THEN 1 ELSE rounded

EncodeVariant(u, v) ==
  LET long == LongSide(u)
      Side(s) == IF long > LongEdge[v] THEN Scaled(s, long, LongEdge[v]) ELSE s
  IN  [variant |-> v, mime |-> IF u.alpha THEN "image/png" ELSE "image/jpeg",
       width |-> Side(u.width), height |-> Side(u.height), bytes |-> u.encoded[v]]

\* The original stands in for an agent variant that came out no smaller.
SupplantedByTheOriginal(e, u) ==
  e.variant = "agent" /\ FitsOriginal("agent", u) /\ e.bytes >= u.bytes

\* Empty, over the cap, of another format, not decodable.
Refused(u) ==
  \/ u.bytes = 0
  \/ u.bytes > MAX_UPLOAD_BYTES
  \/ u.format \notin ACCEPTED
  \/ ~u.decodes

\* What prepare measures, from_prepared copies and create_attachment records.
Prepare(u) ==
  LET encoded == {EncodeVariant(u, v) : v \in VARIANTS} IN
  [mime |-> Mime(u.format), width |-> u.width, height |-> u.height, bytes |-> u.bytes,
   variants |-> {e \in encoded : ~SupplantedByTheOriginal(e, u)}]

-------------------------------------------------------------------------------
Blob(name, mime) == <<name, ExtForMime[mime]>>

\* What Store::write puts on disk: the files, each with its size.
Original(r) == [name |-> "original", blob |-> Blob("original", r.mime), bytes |-> r.bytes]
Written(r) ==
  {Original(r)} \cup
  {[name |-> e.variant, blob |-> Blob(e.variant, e.mime), bytes |-> e.bytes] : e \in r.variants}

\* attachment_variants: the stored sizes, and the original for one that is not
\* stored and that the original fits.
AttachmentVariants(r) ==
  {[variant |-> e.variant, mime |-> e.mime, width |-> e.width, height |-> e.height,
    bytes |-> e.bytes, is_original |-> FALSE] : e \in r.variants}
  \cup
  {[variant |-> v, mime |-> r.mime, width |-> r.width, height |-> r.height,
    bytes |-> r.bytes, is_original |-> TRUE] :
      v \in {w \in VARIANTS \ {e.variant : e \in r.variants} : FitsOriginal(w, r)}}

\* The serve route: the listed entry says which blob to read.
ServedBlob(l, r) ==
  IF l.is_original THEN Blob("original", r.mime) ELSE Blob(l.variant, l.mime)

-------------------------------------------------------------------------------
\* Each size of a recorded upload is listed once and is served from a file that is
\* there, as that file's type, inside its ceiling and no larger than the
\* original's pixels; it keeps the transparency, and the agent's is never a
\* costlier copy of an original that would have done.
ServesEverySize(u, files) ==
  LET r == Prepare(u)
      listed == AttachmentVariants(r)
  IN \A v \in VARIANTS :
       \E l \in listed :
         /\ \A other \in listed : other.variant = v => other = l
         /\ l.variant = v
         /\ \E f \in files : f.blob = ServedBlob(l, r) /\ f.bytes = l.bytes
         /\ FitsOriginal(v, l) /\ l.width <= u.width /\ l.height <= u.height
         /\ u.alpha => l.mime # "image/jpeg"
         /\ v = "agent" /\ FitsOriginal(v, u) => l.bytes <= u.bytes

\* The listing accounts for the disk: the original and the sizes not flagged
\* is_original are the files, each once.
AccountsForTheDisk(u, files) ==
  LET r == Prepare(u) IN
  files = {Original(r)} \cup
    {[name |-> l.variant, blob |-> ServedBlob(l, r), bytes |-> l.bytes] :
       l \in {x \in AttachmentVariants(r) : ~x.is_original}}
===============================================================================
