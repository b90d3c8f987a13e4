--------------------------- MODULE AttachmentsProofs ---------------------------
(***************************************************************************)
(* What holds of Attachments for any sets of images, owners and sweepers   *)
(* and any number of mishaps: types, the bytes of an answered image, what  *)
(* can strand bytes, and, for images of any size and any caps, that both   *)
(* variants of an answered image are served.                               *)
(***************************************************************************)
EXTENDS MCAttachments, TLAPS

\* A mishap is counted within its bound and never at zero.
LEMMA MishapCounts ==
  ASSUME mishaps \in 0 .. MaxMishaps, Mishap
  PROVE  mishaps' \in 0 .. MaxMishaps /\ mishaps' # 0
  BY AttachmentsAssumption DEF Mishap

\* Removing the bytes of an image touches no other image's, and keeps the count.
LEMMA RemoveBytesFacts ==
  ASSUME TypeOK, NEW a \in Image, RemoveBytes(a)
  PROVE  /\ store' \in [Image -> SUBSET Part]
         /\ mishaps' \in 0 .. MaxMishaps
         /\ mishaps' = 0 => mishaps = 0 /\ store'[a] = {}
         /\ \A b \in Image : b # a => store'[b] = store[b]
<1>1. CASE store' = [store EXCEPT ![a] = {}] /\ NoMishap
  BY <1>1 DEF NoMishap, TypeOK
<1>2. CASE UNCHANGED store /\ Mishap
  BY <1>2, MishapCounts DEF TypeOK
<1>. QED  BY <1>1, <1>2 DEF RemoveBytes

\* The rows that go take their edges along, and no transaction held them.
LEMMA DeleteRowsFacts ==
  ASSUME TypeOK, NEW images \in SUBSET Image, DeleteRows(images)
  PROVE  /\ row' \subseteq Image
         /\ row' = row \ images
         /\ owners' \subseteq Owner \X row'
         /\ linking \subseteq Owner \X row'
  BY DEF DeleteRows, Held, EdgesTo, TypeOK

LEMMA SweepFields ==
  ASSUME TypeOK, NEW k \in Sweeper, sweep[k].at \in {"found", "removing"}
  PROVE  /\ sweep[k].ids \in SUBSET Image
         /\ sweep[k] \in [at : {"found", "removing"}, ids : SUBSET Image]
  BY DEF TypeOK, Sweep, Resting

-------------------------------------------------------------------------------
LEMMA AttachmentsTypeInit == Init => TypeOK
  BY AttachmentsAssumption DEF Init, TypeOK, Sweep

LEMMA AttachmentsTypeStep == TypeOK /\ [Next]_vars => TypeOK'
<1>. SUFFICES ASSUME TypeOK, [Next]_vars PROVE TypeOK'
  OBVIOUS
<1>1. ASSUME NEW a \in Image, NEW of \in {{}} \cup {{o} : o \in Owner}, UploadRecord(a, of)
      PROVE  TypeOK'
  BY <1>1 DEF UploadRecord, TypeOK, Uploading
<1>2. ASSUME NEW a \in Image, UploadWriteSome(a)
      PROVE  TypeOK'
  BY <1>2 DEF UploadWriteSome, UploadWrite, TypeOK, Uploading, Part
<1>3. ASSUME NEW a \in Image, UploadWriteFails(a)
      PROVE  TypeOK'
  BY <1>3, MishapCounts DEF UploadWriteFails, TypeOK, Uploading
<1>4. ASSUME NEW a \in Image, UploadUndoBytes(a)
      PROVE  TypeOK'
  BY <1>4, RemoveBytesFacts DEF UploadUndoBytes, TypeOK, Uploading
<1>5. ASSUME NEW a \in Image, UploadUndoRow(a)
      PROVE  TypeOK'
  <2>1. CASE DeleteRows({a}) /\ NoMishap
    BY <1>5, <2>1, DeleteRowsFacts DEF UploadUndoRow, NoMishap, TypeOK, Uploading
  <2>2. CASE UNCHANGED <<row, owners>> /\ Mishap
    BY <1>5, <2>2, MishapCounts DEF UploadUndoRow, TypeOK, Uploading
  <2>. QED  BY <1>5, <2>1, <2>2 DEF UploadUndoRow
<1>6. ASSUME NEW a \in Image, DiscardRow(a)
      PROVE  TypeOK'
  BY <1>6, DeleteRowsFacts DEF DiscardRow, TypeOK
<1>7. ASSUME NEW a \in Image, DiscardBytes(a)
      PROVE  TypeOK'
  BY <1>7, RemoveBytesFacts DEF DiscardBytes, TypeOK
<1>8. ASSUME NEW o \in Owner, NEW a \in Image,
             LinkInsert(o, a) \/ LinkCommit(o, a) \/ Unlink(o, a)
      PROVE  TypeOK'
  BY <1>8 DEF LinkInsert, LinkCommit, Unlink, Visible, TypeOK
<1>9. ASSUME NEW a \in Image, Expire(a)
      PROVE  TypeOK'
  BY <1>9 DEF Expire, TypeOK
<1>10. ASSUME NEW k \in Sweeper, SweepFind(k)
       PROVE  TypeOK'
  BY <1>10 DEF SweepFind, Candidates, TypeOK, Sweep
<1>11. ASSUME NEW k \in Sweeper, SweepDelete(k)
       PROVE  TypeOK'
  <2>. DEFINE ids == sweep[k].ids \cap row
  <2>1. ids \in SUBSET Image
    BY <1>11, SweepFields DEF SweepDelete
  <2>2. sweep' \in [Sweeper -> Sweep]
    BY <1>11, <2>1 DEF SweepDelete, TypeOK, Sweep
  <2>. QED  BY <1>11, <2>1, <2>2, DeleteRowsFacts DEF SweepDelete, TypeOK
<1>12. ASSUME NEW k \in Sweeper, NEW a \in Image, SweepBytes(k, a)
       PROVE  TypeOK'
  <2>1. sweep' \in [Sweeper -> Sweep]
    BY <1>12, SweepFields DEF SweepBytes, TypeOK, Sweep
  <2>. QED  BY <1>12, <2>1, RemoveBytesFacts DEF SweepBytes, TypeOK
<1>13. ASSUME NEW k \in Sweeper, SweepEnd(k)
       PROVE  TypeOK'
  BY <1>13 DEF SweepEnd, TypeOK, Sweep
<1>14. ASSUME Crash
       PROVE  TypeOK'
  BY <1>14, MishapCounts DEF Crash, TypeOK, Uploading, Sweep
<1>15. CASE UNCHANGED vars
  BY <1>15 DEF vars, TypeOK
<1>. QED
  BY <1>1, <1>2, <1>3, <1>4, <1>5, <1>6, <1>7, <1>8, <1>9, <1>10, <1>11, <1>12,
     <1>13, <1>14, <1>15 DEF Next

\* Rows, files and everything in flight keep their types, and no edge outlives the
\* row of its image.
THEOREM AttachmentsTypeCorrect == Spec => []TypeOK
  BY AttachmentsTypeInit, AttachmentsTypeStep, PTL DEF Spec
-------------------------------------------------------------------------------
(***************************************************************************)
(* The bytes of an image that still has its row.                           *)
(***************************************************************************)

Removing(k) == sweep[k].at = "removing"

\* An upload in progress has written what it is past, unless its row is gone.
WritesLast ==
  \A a \in row : /\ upload[a] = "dir" => "dir" \in store[a]
                 /\ upload[a] = "original" => {"dir", "original"} \subseteq store[a]

\* Whoever is about to remove an image's bytes has removed its row.
RowsFirst ==
  /\ discarding \cap row = {}
  /\ \A k \in Sweeper : Removing(k) => sweep[k].ids \cap row = {}

\* An id that has not been handed out is nowhere.
IdsAreFresh ==
  \A a \in Image : upload[a] = "none"
    => /\ a \notin row /\ a \notin discarding
       /\ \A k \in Sweeper : Removing(k) => a \notin sweep[k].ids

BytesInv == AnsweredImagesHaveBytes /\ WritesLast /\ RowsFirst /\ IdsAreFresh

LEMMA BytesInit == Init => BytesInv
  BY DEF Init, BytesInv, AnsweredImagesHaveBytes, WritesLast, RowsFirst, IdsAreFresh,
         Removing, Resting

LEMMA BytesStep == TypeOK /\ BytesInv /\ [Next]_vars => BytesInv'
<1>. SUFFICES ASSUME TypeOK, BytesInv, [Next]_vars PROVE BytesInv'
  OBVIOUS
<1>. USE DEF BytesInv, AnsweredImagesHaveBytes, WritesLast, RowsFirst, IdsAreFresh, Removing
<1>a. /\ row \subseteq Image
      /\ store \in [Image -> SUBSET Part]
      /\ upload \in [Image -> Uploading \cup {"none", "answered", "ended"}]
      /\ sweep \in [Sweeper -> Sweep]
  BY DEF TypeOK
<1>1. ASSUME NEW a \in Image, NEW of \in {{}} \cup {{o} : o \in Owner}, UploadRecord(a, of)
      PROVE  BytesInv'
  BY <1>1, <1>a DEF UploadRecord
<1>2. ASSUME NEW a \in Image, UploadWriteSome(a)
      PROVE  BytesInv'
  <2>1. CASE UploadWrite(a, "recorded", "dir", "dir")
    BY <1>a, <2>1 DEF UploadWrite
  <2>2. CASE UploadWrite(a, "dir", "original", "original")
    BY <1>a, <2>2 DEF UploadWrite
  <2>3. CASE UploadWrite(a, "original", "variants", "answered")
    BY <1>a, <2>3 DEF UploadWrite, Part
  <2>. QED  BY <1>2, <2>1, <2>2, <2>3 DEF UploadWriteSome
<1>3. ASSUME NEW a \in Image, UploadWriteFails(a)
      PROVE  BytesInv'
  BY <1>3, <1>a DEF UploadWriteFails
<1>4. ASSUME NEW a \in Image, UploadUndoBytes(a)
      PROVE  BytesInv'
  BY <1>4, <1>a, RemoveBytesFacts DEF UploadUndoBytes
<1>5. ASSUME NEW a \in Image, UploadUndoRow(a)
      PROVE  BytesInv'
  <2>1. row' \subseteq row
    BY <1>5 DEF UploadUndoRow, DeleteRows
  <2>. QED  BY <1>5, <1>a, <2>1 DEF UploadUndoRow
<1>6. ASSUME NEW a \in Image, DiscardRow(a)
      PROVE  BytesInv'
  <2>1. row' = row \ {a} /\ discarding' = discarding \cup {a} /\ a \in row
    BY <1>6 DEF DiscardRow, DeleteRows, Visible
  <2>. QED  BY <1>6, <1>a, <2>1 DEF DiscardRow
<1>7. ASSUME NEW a \in Image, DiscardBytes(a)
      PROVE  BytesInv'
  BY <1>7, <1>a, RemoveBytesFacts DEF DiscardBytes
<1>8. ASSUME NEW o \in Owner, NEW a \in Image,
             LinkInsert(o, a) \/ LinkCommit(o, a) \/ Unlink(o, a)
      PROVE  BytesInv'
  BY <1>8 DEF LinkInsert, LinkCommit, Unlink
<1>9. ASSUME NEW a \in Image, Expire(a)
      PROVE  BytesInv'
  BY <1>9 DEF Expire
<1>10. ASSUME NEW k \in Sweeper, SweepFind(k)
       PROVE  BytesInv'
  BY <1>10, <1>a DEF SweepFind
<1>11. ASSUME NEW k \in Sweeper, SweepDelete(k)
       PROVE  BytesInv'
  <2>1. /\ row' = row \ sweep[k].ids
        /\ sweep' = [sweep EXCEPT ![k] = [at |-> "removing", ids |-> sweep[k].ids \cap row]]
        /\ UNCHANGED <<store, upload, discarding>>
    BY <1>11 DEF SweepDelete, DeleteRows
  <2>. QED  BY <1>a, <2>1
<1>12. ASSUME NEW k \in Sweeper, NEW a \in Image, SweepBytes(k, a)
       PROVE  BytesInv'
  <2>1. /\ a \notin row
        /\ UNCHANGED <<row, upload, discarding>>
        /\ \A b \in Image : b # a => store'[b] = store[b]
    BY <1>12, RemoveBytesFacts DEF SweepBytes
  <2>2. \A j \in Sweeper :
          sweep'[j].at = sweep[j].at /\ (Removing(j) => sweep'[j].ids \subseteq sweep[j].ids)
    BY <1>12, <1>a, SweepFields DEF SweepBytes
  <2>. QED  BY <1>a, <2>1, <2>2
<1>13. ASSUME NEW k \in Sweeper, SweepEnd(k)
       PROVE  BytesInv'
  BY <1>13, <1>a DEF SweepEnd, Resting
<1>14. ASSUME Crash
       PROVE  BytesInv'
  BY <1>14, <1>a DEF Crash, Resting
<1>15. CASE UNCHANGED vars
  BY <1>15 DEF vars
<1>. QED
  BY <1>1, <1>2, <1>3, <1>4, <1>5, <1>6, <1>7, <1>8, <1>9, <1>10, <1>11, <1>12,
     <1>13, <1>14, <1>15 DEF Next

\* Once its upload is answered an image keeps all its bytes for as long as it has a
\* row, whatever crashes, fails or is deleted around it.
THEOREM AnsweredKeepTheirBytes == Spec => []AnsweredImagesHaveBytes
<1>1. BytesInv => AnsweredImagesHaveBytes
  BY DEF BytesInv
<1>. QED
  BY <1>1, AttachmentsTypeCorrect, BytesInit, BytesStep, PTL DEF Spec

-------------------------------------------------------------------------------
(***************************************************************************)
(* What can strand bytes.                                                  *)
(***************************************************************************)

\* Only a discard takes the row from under a running upload, for none is old enough
\* to be swept.
UploadsHoldRows ==
  \A a \in Image :
    /\ upload[a] \in Uploading => a \in row \/ a \in early
    /\ upload[a] \in Uploading \cup {"none"} => a \notin old

\* Without a mishap an upload fails only because of such a discard.
FailsOnlyByMishap ==
  \A a \in Image : upload[a] \in {"failing", "unwound"} /\ mishaps = 0 => a \in early

\* A sweep has found images that are old.
FoundAreOld == \A k \in Sweeper : sweep[k].at = "found" => sweep[k].ids \subseteq old

StrandInv ==
  StrandedOnlyByMishap /\ UploadsHoldRows /\ FailsOnlyByMishap /\ FoundAreOld

LEMMA StrandInit == Init => StrandInv
  BY DEF Init, StrandInv, StrandedOnlyByMishap, UploadsHoldRows, FailsOnlyByMishap,
         FoundAreOld, Resting, Uploading

LEMMA StrandStep == TypeOK /\ BytesInv /\ StrandInv /\ [Next]_vars => StrandInv'
<1>. SUFFICES ASSUME TypeOK, BytesInv, StrandInv, [Next]_vars PROVE StrandInv'
  OBVIOUS
<1>. USE DEF StrandInv, StrandedOnlyByMishap, UploadsHoldRows, FailsOnlyByMishap, FoundAreOld
<1>a. /\ row \subseteq Image
      /\ store \in [Image -> SUBSET Part]
      /\ upload \in [Image -> Uploading \cup {"none", "answered", "ended"}]
      /\ sweep \in [Sweeper -> Sweep]
      /\ mishaps \in 0 .. MaxMishaps
  BY DEF TypeOK
<1>1. ASSUME NEW a \in Image, NEW of \in {{}} \cup {{o} : o \in Owner}, UploadRecord(a, of)
      PROVE  StrandInv'
  BY <1>1, <1>a DEF UploadRecord, Uploading
<1>2. ASSUME NEW a \in Image, UploadWriteSome(a)
      PROVE  StrandInv'
  BY <1>2, <1>a DEF UploadWriteSome, UploadWrite, Uploading, BytesInv, WritesLast
<1>3. ASSUME NEW a \in Image, UploadWriteFails(a)
      PROVE  StrandInv'
  BY <1>3, <1>a, MishapCounts DEF UploadWriteFails, Uploading
<1>4. ASSUME NEW a \in Image, UploadUndoBytes(a)
      PROVE  StrandInv'
  BY <1>4, <1>a, RemoveBytesFacts DEF UploadUndoBytes, Uploading
<1>5. ASSUME NEW a \in Image, UploadUndoRow(a)
      PROVE  StrandInv'
  <2>1. CASE DeleteRows({a}) /\ NoMishap
    BY <1>5, <1>a, <2>1 DEF UploadUndoRow, DeleteRows, NoMishap, Uploading
  <2>2. CASE UNCHANGED <<row, owners>> /\ Mishap
    BY <1>5, <1>a, <2>2, MishapCounts DEF UploadUndoRow, Uploading
  <2>. QED  BY <1>5, <2>1, <2>2 DEF UploadUndoRow
<1>6. ASSUME NEW a \in Image, DiscardRow(a)
      PROVE  StrandInv'
  BY <1>6, <1>a DEF DiscardRow, DeleteRows
<1>7. ASSUME NEW a \in Image, DiscardBytes(a)
      PROVE  StrandInv'
  BY <1>7, <1>a, RemoveBytesFacts DEF DiscardBytes
<1>8. ASSUME NEW o \in Owner, NEW a \in Image,
             LinkInsert(o, a) \/ LinkCommit(o, a) \/ Unlink(o, a)
      PROVE  StrandInv'
  BY <1>8 DEF LinkInsert, LinkCommit, Unlink
<1>9. ASSUME NEW a \in Image, Expire(a)
      PROVE  StrandInv'
  BY <1>9, <1>a DEF Expire, BytesInv, IdsAreFresh
<1>10. ASSUME NEW k \in Sweeper, SweepFind(k)
       PROVE  StrandInv'
  BY <1>10, <1>a DEF SweepFind, Candidates, Resting
<1>11. ASSUME NEW k \in Sweeper, SweepDelete(k)
       PROVE  StrandInv'
  <2>1. /\ row' = row \ sweep[k].ids
        /\ sweep' = [sweep EXCEPT ![k] = [at |-> "removing", ids |-> sweep[k].ids \cap row]]
        /\ sweep[k].at = "found"
        /\ UNCHANGED <<old, store, upload, discarding, mishaps, early>>
    BY <1>11 DEF SweepDelete, DeleteRows
  <2>2. \A b \in Image : b \in row /\ b \notin row' => b \in sweep'[k].ids /\ sweep'[k].at = "removing"
    BY <1>a, <2>1
  <2>. QED  BY <1>a, <2>1, <2>2
<1>12. ASSUME NEW k \in Sweeper, NEW a \in Image, SweepBytes(k, a)
       PROVE  StrandInv'
  <2>1. /\ UNCHANGED <<row, old, upload, discarding, early>>
        /\ mishaps' = 0 => mishaps = 0 /\ store'[a] = {}
        /\ \A b \in Image : b # a => store'[b] = store[b]
    BY <1>12, RemoveBytesFacts DEF SweepBytes
  <2>2. \A j \in Sweeper :
          /\ sweep'[j].at = sweep[j].at
          /\ j # k => sweep'[j] = sweep[j]
    BY <1>12, <1>a, SweepFields DEF SweepBytes
  <2>3. sweep[k].at = "removing" /\ sweep'[k].ids = sweep[k].ids \ {a}
    BY <1>12, <1>a, SweepFields DEF SweepBytes
  <2>. QED  BY <1>a, <2>1, <2>2, <2>3
<1>13. ASSUME NEW k \in Sweeper, SweepEnd(k)
       PROVE  StrandInv'
  BY <1>13, <1>a DEF SweepEnd, Resting
<1>14. ASSUME Crash
       PROVE  StrandInv'
  BY <1>14, <1>a, MishapCounts DEF Crash, Resting, Uploading
<1>15. CASE UNCHANGED vars
  BY <1>15 DEF vars
<1>. QED
  BY <1>1, <1>2, <1>3, <1>4, <1>5, <1>6, <1>7, <1>8, <1>9, <1>10, <1>11, <1>12,
     <1>13, <1>14, <1>15 DEF Next

\* Where nothing fails, and nobody discards an image whose upload is still running,
\* bytes without a row are always about to be removed.
THEOREM StrandingNeedsAMishap == Spec => []StrandedOnlyByMishap
<1>1. StrandInv => StrandedOnlyByMishap
  BY DEF StrandInv
<1>2. TypeOK /\ BytesInv /\ StrandInv /\ [Next]_vars => StrandInv'
  BY StrandStep
<1>. QED
  BY <1>1, <1>2, AttachmentsTypeCorrect, BytesInit, BytesStep, StrandInit, PTL DEF Spec

-------------------------------------------------------------------------------
(***************************************************************************)
(* What is in an image, and what is listed and served of it.               *)
(***************************************************************************)

\* A quotient is at most what its dividend stays under.
LEMMA QuotientBound ==
  ASSUME NEW x \in Nat, NEW d \in Nat \ {0}, NEW k \in Nat, x < d * (k + 1)
  PROVE  x \div d \in 0 .. k
<1>. DEFINE q == x \div d
<1>1. q \in Nat /\ d * q <= x
  OBVIOUS
<1>2. ASSUME q >= k + 1
      PROVE  d * (k + 1) <= d * q
  BY <1>1, <1>2
<1>. QED  BY <1>1, <1>2

\* Resizing stays inside the box, never enlarges, and leaves a pixel.
LEMMA ScaledFits ==
  ASSUME NEW long \in Nat, NEW side \in 1 .. long, NEW edge \in Nat, 1 <= edge, edge < long
  PROVE  Scaled(side, long, edge) \in 1 .. edge /\ Scaled(side, long, edge) <= side
<1>. DEFINE x == 2 * side * edge + long
            d == 2 * long
<1>1. x \in Nat /\ d \in Nat \ {0} /\ side \in Nat /\ 1 <= side /\ side <= long
  OBVIOUS
<1>2. side * edge <= long * edge /\ side * edge <= side * long
  BY <1>1
<1>3. x < d * (edge + 1) /\ x < d * (side + 1)
  BY <1>1, <1>2
<1>4. x \div d \in 0 .. edge /\ x \div d \in 0 .. side
  <2>. HIDE DEF x, d
  <2>. QED  BY <1>1, <1>3, QuotientBound
<1>5. Scaled(side, long, edge) = IF x \div d = 0 THEN 1 ELSE x \div d
  BY DEF Scaled
<1>. HIDE DEF x, d
<1>. QED  BY <1>1, <1>4, <1>5

LEMMA VariantFields ==
  ASSUME NEW u \in UploadedFile, NEW v \in VARIANTS
  PROVE  /\ u.width \in Nat \ {0} /\ u.height \in Nat \ {0}
         /\ LongSide(u) \in Nat /\ u.width <= LongSide(u) /\ u.height <= LongSide(u)
         /\ LongEdge[v] \in Nat \ {0}
  BY ImagesAssumption DEF UploadedFile, VARIANTS, LongEdge, LongSide

\* What is encoded for a variant is inside its box and no larger than the upload.
LEMMA EncodedFits ==
  ASSUME NEW u \in UploadedFile, NEW v \in VARIANTS
  PROVE  LET e == EncodeVariant(u, v)
         IN  /\ e.variant = v /\ e.bytes = u.encoded[v]
             /\ u.alpha => e.mime # "image/jpeg"
             /\ FitsOriginal(v, e) /\ e.width <= u.width /\ e.height <= u.height
<1>. DEFINE e == EncodeVariant(u, v)
            long == LongSide(u)
            edge == LongEdge[v]
<1>a. /\ u.width \in Nat \ {0} /\ u.height \in Nat \ {0}
      /\ long \in Nat /\ u.width <= long /\ u.height <= long /\ edge \in Nat \ {0}
  BY VariantFields
<1>1. /\ e.variant = v /\ e.bytes = u.encoded[v]
      /\ e.mime = IF u.alpha THEN "image/png" ELSE "image/jpeg"
      /\ e.width = IF long > edge THEN Scaled(u.width, long, edge) ELSE u.width
      /\ e.height = IF long > edge THEN Scaled(u.height, long, edge) ELSE u.height
  BY DEF EncodeVariant
<1>. HIDE DEF e, long, edge
<1>2. /\ e.width \in Nat /\ e.height \in Nat /\ e.width <= edge /\ e.height <= edge
      /\ e.width <= u.width /\ e.height <= u.height
  <2>1. CASE long > edge
    <3>1. u.width \in 1 .. long /\ u.height \in 1 .. long /\ 1 <= edge /\ edge < long
      BY <1>a, <2>1
    <3>2. /\ Scaled(u.width, long, edge) \in 1 .. edge /\ Scaled(u.width, long, edge) <= u.width
          /\ Scaled(u.height, long, edge) \in 1 .. edge /\ Scaled(u.height, long, edge) <= u.height
      BY <1>a, <3>1, ScaledFits
    <3>. QED  BY <1>a, <1>1, <2>1, <3>2
  <2>2. CASE ~(long > edge)
    BY <1>a, <1>1, <2>2
  <2>. QED  BY <2>1, <2>2
<1>3. LongSide(e) <= edge
  BY <1>2 DEF LongSide
<1>4. FitsOriginal(v, e)
  BY <1>3 DEF FitsOriginal, edge
<1>. QED  BY <1>1, <1>2, <1>4 DEF e

\* The files of an image that has all its parts are those that were written.
LEMMA AllFiles ==
  ASSUME NEW u
  PROVE  Files(u, Part) = Written(Prepare(u))
  BY DEF Files, Part

\* Of an accepted upload whose files are all there, every size is listed once, fits,
\* and is served; and the listing accounts for the disk.
LEMMA WholeImageServes ==
  ASSUME NEW u \in Accepted
  PROVE  ServesEverySize(u, Files(u, Part)) /\ AccountsForTheDisk(u, Files(u, Part))
<1>. DEFINE r == Prepare(u)
            listed == AttachmentVariants(r)
            files == Written(r)
            Kept(v) == ~SupplantedByTheOriginal(EncodeVariant(u, v), u)
            Entry(v) == IF Kept(v)
                        THEN [variant |-> v, mime |-> EncodeVariant(u, v).mime,
                              width |-> EncodeVariant(u, v).width,
                              height |-> EncodeVariant(u, v).height,
                              bytes |-> EncodeVariant(u, v).bytes, is_original |-> FALSE]
                        ELSE [variant |-> v, mime |-> r.mime, width |-> r.width,
                              height |-> r.height, bytes |-> r.bytes, is_original |-> TRUE]
<1>a. u \in UploadedFile /\ ~Refused(u)
  BY DEF Accepted
<1>1. /\ r.mime = Mime(u.format) /\ r.width = u.width /\ r.height = u.height /\ r.bytes = u.bytes
      /\ r.variants = {EncodeVariant(u, v) : v \in {w \in VARIANTS : Kept(w)}}
  BY DEF Prepare
<1>2. \A v \in VARIANTS : EncodeVariant(u, v).variant = v
  BY DEF EncodeVariant
<1>3. \A v \in VARIANTS : FitsOriginal(v, r) <=> FitsOriginal(v, u)
  BY <1>1 DEF FitsOriginal, LongSide
<1>4. \A v \in VARIANTS : ~Kept(v) => v = "agent" /\ FitsOriginal(v, r)
  BY <1>2, <1>3 DEF SupplantedByTheOriginal
<1>5. {e.variant : e \in r.variants} = {w \in VARIANTS : Kept(w)}
  BY <1>1, <1>2
<1>. DEFINE stored == {[variant |-> e.variant, mime |-> e.mime, width |-> e.width, height |-> e.height,
                        bytes |-> e.bytes, is_original |-> FALSE] : e \in r.variants}
            fitting == {w \in VARIANTS \ {e.variant : e \in r.variants} : FitsOriginal(w, r)}
            unstored == {[variant |-> v, mime |-> r.mime, width |-> r.width, height |-> r.height,
                          bytes |-> r.bytes, is_original |-> TRUE] : v \in fitting}
<1>6. listed = stored \cup unstored
  BY DEF AttachmentVariants
<1>7. stored = {Entry(v) : v \in {w \in VARIANTS : Kept(w)}}
  <2>. HIDE DEF r, Kept
  <2>. QED  BY <1>1, <1>2
<1>8. fitting = {w \in VARIANTS : ~Kept(w)}
  <2>. HIDE DEF r, Kept
  <2>. QED  BY <1>4, <1>5
<1>9. unstored = {Entry(v) : v \in {w \in VARIANTS : ~Kept(w)}}
  <2>. HIDE DEF r, Kept, fitting
  <2>. QED  BY <1>8
<1>10. listed = {Entry(v) : v \in VARIANTS}
  <2>. HIDE DEF r, Kept, Entry, stored, unstored, listed
  <2>. QED  BY <1>6, <1>7, <1>9
<1>11. files = {Original(r)} \cup
               {[name |-> e.variant, blob |-> Blob(e.variant, e.mime), bytes |-> e.bytes] : e \in r.variants}
  BY DEF Written
<1>12. \A v \in VARIANTS : Entry(v).variant = v /\ (Entry(v).is_original <=> ~Kept(v))
  <2>. HIDE DEF r, Kept
  <2>. QED  OBVIOUS
<1>13. ASSUME NEW v \in VARIANTS
       PROVE  /\ \E f \in files : f.blob = ServedBlob(Entry(v), r) /\ f.bytes = Entry(v).bytes
              /\ FitsOriginal(v, Entry(v)) /\ Entry(v).width <= u.width /\ Entry(v).height <= u.height
              /\ u.alpha => Entry(v).mime # "image/jpeg"
              /\ v = "agent" /\ FitsOriginal(v, u) => Entry(v).bytes <= u.bytes
  <2>1. CASE Kept(v)
    <3>. DEFINE e == EncodeVariant(u, v)
    <3>1. e \in r.variants
      BY <1>1, <2>1
    <3>2. [name |-> e.variant, blob |-> Blob(e.variant, e.mime), bytes |-> e.bytes] \in files
      BY <1>11, <3>1
    <3>3. /\ Entry(v).variant = v /\ Entry(v).mime = e.mime /\ Entry(v).bytes = e.bytes
          /\ Entry(v).width = e.width /\ Entry(v).height = e.height /\ ~Entry(v).is_original
      BY <2>1
    <3>4. /\ e.variant = v /\ e.bytes = u.encoded[v]
          /\ u.alpha => e.mime # "image/jpeg"
          /\ FitsOriginal(v, e) /\ e.width <= u.width /\ e.height <= u.height
      BY <1>a, EncodedFits
    <3>5. v = "agent" /\ FitsOriginal(v, u) => ~(e.bytes >= u.bytes)
      BY <2>1, <3>4 DEF SupplantedByTheOriginal
    <3>6. u.bytes \in Nat /\ u.encoded[v] \in Nat
      BY <1>a, ImagesAssumption DEF UploadedFile
    <3>. HIDE DEF r, files, Entry, e, Kept
    <3>7. FitsOriginal(v, Entry(v))
      BY <3>3, <3>4 DEF FitsOriginal, LongSide
    <3>8. ServedBlob(Entry(v), r) = Blob(v, e.mime)
      BY <3>3 DEF ServedBlob
    <3>9. \E f \in files : f.blob = ServedBlob(Entry(v), r) /\ f.bytes = Entry(v).bytes
      BY <3>2, <3>3, <3>4, <3>8
    <3>. QED  BY <3>3, <3>4, <3>5, <3>6, <3>7, <3>9
  <2>2. CASE ~Kept(v)
    <3>1. /\ Entry(v).variant = v /\ Entry(v).mime = r.mime /\ Entry(v).bytes = r.bytes
          /\ Entry(v).width = r.width /\ Entry(v).height = r.height /\ Entry(v).is_original
      BY <2>2
    <3>2. Original(r) \in files
      BY <1>11
    <3>3. r.mime # "image/jpeg"
      BY <1>1 DEF Mime
    <3>4. v = "agent" /\ FitsOriginal(v, r)
      BY <1>4, <2>2
    <3>5. u.bytes \in Nat /\ u.width \in Nat /\ u.height \in Nat
      BY <1>a, ImagesAssumption DEF UploadedFile
    <3>. HIDE DEF r, files, Entry, Kept
    <3>6. FitsOriginal(v, Entry(v))
      BY <3>1, <3>4 DEF FitsOriginal, LongSide
    <3>7. \E f \in files : f.blob = ServedBlob(Entry(v), r) /\ f.bytes = Entry(v).bytes
      BY <3>1, <3>2 DEF ServedBlob, Original
    <3>. QED  BY <1>1, <3>1, <3>3, <3>5, <3>6, <3>7
  <2>. QED  BY <2>1, <2>2
<1>14. ServesEverySize(u, files)
  <2>. HIDE DEF r, files, Entry, listed, Kept
  <2>1. ASSUME NEW v \in VARIANTS
        PROVE  \E l \in listed :
                 /\ \A other \in listed : other.variant = v => other = l
                 /\ l.variant = v
                 /\ \E f \in files : f.blob = ServedBlob(l, r) /\ f.bytes = l.bytes
                 /\ FitsOriginal(v, l) /\ l.width <= u.width /\ l.height <= u.height
                 /\ u.alpha => l.mime # "image/jpeg"
                 /\ v = "agent" /\ FitsOriginal(v, u) => l.bytes <= u.bytes
    <3>1. Entry(v) \in listed /\ \A other \in listed : other.variant = v => other = Entry(v)
      BY <1>10, <1>12
    <3>. QED  BY <1>12, <1>13, <3>1
  <2>. QED  BY <2>1 DEF ServesEverySize, listed, r
<1>15. AccountsForTheDisk(u, files)
  <2>. DEFINE FileOf(l) == [name |-> l.variant, blob |-> ServedBlob(l, r), bytes |-> l.bytes]
              Stored(e) == [name |-> e.variant, blob |-> Blob(e.variant, e.mime), bytes |-> e.bytes]
  <2>1. {x \in listed : ~x.is_original} = {Entry(v) : v \in {w \in VARIANTS : Kept(w)}}
    <3>. HIDE DEF r, Entry, listed, Kept
    <3>. QED  BY <1>10, <1>12
  <2>2. \A v \in {w \in VARIANTS : Kept(w)} : FileOf(Entry(v)) = Stored(EncodeVariant(u, v))
    <3>. HIDE DEF r, Kept
    <3>. QED  BY <1>2 DEF ServedBlob
  <2>3. {FileOf(l) : l \in {x \in listed : ~x.is_original}} = {Stored(e) : e \in r.variants}
    <3>. HIDE DEF r, Entry, listed, Kept, FileOf, Stored
    <3>. QED  BY <1>1, <2>1, <2>2
  <2>4. files = {Original(r)} \cup {FileOf(l) : l \in {x \in listed : ~x.is_original}}
    BY <1>11, <2>3
  <2>. HIDE DEF files
  <2>. QED  BY <2>4 DEF AccountsForTheDisk
<1>. QED  BY <1>14, <1>15, AllFiles

\* Whatever was uploaded, and for any caps and edges, an answered image that still has
\* its row lists and serves both sizes, each from a file that is there (prepare,
\* attachment_variants, serve).
THEOREM AnsweredServeEverySize == Spec => []EverySizeIsServed
<1>1. Part \in Serving
  BY WholeImageServes DEF Serving, Stages
<1>2. AnsweredImagesHaveBytes => EverySizeIsServed
  BY <1>1 DEF AnsweredImagesHaveBytes, EverySizeIsServed
<1>. QED  BY <1>2, AnsweredKeepTheirBytes, PTL
================================================================================
