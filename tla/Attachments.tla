---------------------------- MODULE Attachments ----------------------------
(***************************************************************************)
(* Images: the row and its has_attachment edges in PostgreSQL, the bytes   *)
(* in a directory of their own on disk, and nothing that commits both.     *)
(* Uploads, discards, links and two sweepers run beside each other, and    *)
(* the process may die between any two of their steps.                     *)
(*                                                                         *)
(* An image is its node id: BIGSERIAL hands out each one once, to one      *)
(* upload.  READ COMMITTED: a statement decides on what is committed when  *)
(* it starts, and a DELETE waits for a transaction that holds its row.     *)
(***************************************************************************)
EXTENDS Naturals

CONSTANTS Image, Owner,
          Sweeper,    \* the callers of sweep
          Hourly,     \* the one spawn_sweeper runs
          MaxMishaps  \* bound: crashes, failed calls and lost requests

ASSUME AttachmentsAssumption ==
  /\ Hourly \in Sweeper
  /\ MaxMishaps \in Nat

VARIABLES
  row,        \* the attachment rows
  old,        \* images created more than ATTACHMENT_PENDING_TTL_HOURS ago
  owners,     \* has_attachment edges <<owner, image>>
  linking,    \* edges inserted by a transaction that has not committed
  store,      \* what of each image is on disk
  upload,     \* how far each image's upload has got
  discarding, \* images whose row is deleted and whose bytes are next
  sweep,      \* what each sweeper is in the middle of
  mishaps,    \* how many mishaps have happened
  early       \* images discarded while their upload was running (auxiliary)

vars == <<row, old, owners, linking, store, upload, discarding, sweep, mishaps, early>>

\* An image's directory, the byte-exact original, and the generated variants.
Part == {"dir", "original", "variants"}

Uploading == {"recorded", "dir", "original", "failing", "unwound"}
Resting   == [at |-> "rest"]
Sweep     == {Resting} \cup [at : {"found", "removing"}, ids : SUBSET Image]

TypeOK ==
  /\ row \subseteq Image
  /\ old \subseteq Image
  /\ owners \subseteq Owner \X row
  /\ linking \subseteq Owner \X row
  /\ store \in [Image -> SUBSET Part]
  /\ upload \in [Image -> Uploading \cup {"none", "answered", "ended"}]
  /\ discarding \subseteq Image
  /\ sweep \in [Sweeper -> Sweep]
  /\ mishaps \in 0 .. MaxMishaps
  /\ early \subseteq Image

Init ==
  /\ row = {} /\ old = {} /\ owners = {} /\ linking = {}
  /\ store = [a \in Image |-> {}]
  /\ upload = [a \in Image |-> "none"]
  /\ discarding = {}
  /\ sweep = [k \in Sweeper |-> Resting]
  /\ mishaps = 0
  /\ early = {}

-------------------------------------------------------------------------------
OwnersOf(a) == {o \in Owner : <<o, a>> \in owners}

EdgesTo(images) == Owner \X images

\* A row an open relate holds with FOR KEY SHARE: a DELETE of it waits.
Held(images) == linking \cap EdgesTo(images) # {}

\* What a client can name: it was told the id, or reads it off an owner.
Visible(a) == a \in row /\ (upload[a] = "answered" \/ OwnersOf(a) # {})

Mishap   == mishaps < MaxMishaps /\ mishaps' = mishaps + 1
NoMishap == UNCHANGED mishaps

\* The bytes of a are removed, or the removal fails and is only logged.
RemoveBytes(a) ==
  \/ store' = [store EXCEPT ![a] = {}] /\ NoMishap
  \/ UNCHANGED store /\ Mishap

\* Faulty variants, used by no action: a sweep of finished uploads only, a
\* sweep that takes the bytes before the rows, a discard that forgets the bytes.
CandidatesAnswered == {a \in row \cap old : OwnersOf(a) = {} /\ upload[a] = "answered"}

SweepFindBytesFirst(k) ==
  LET ids == {a \in row \cap old : OwnersOf(a) = {}} IN
  /\ sweep[k] = Resting
  /\ ids # {}
  /\ sweep' = [sweep EXCEPT ![k] = [at |-> "found", ids |-> ids]]
  /\ store' = [a \in Image |-> IF a \in ids THEN {} ELSE store[a]]
  /\ UNCHANGED <<row, old, owners, linking, upload, discarding, mishaps, early>>

DiscardRowOnly(a) ==
  /\ Visible(a)
  /\ ~Held({a})
  /\ row' = row \ {a}
  /\ owners' = owners \ EdgesTo({a})
  /\ UNCHANGED <<old, linking, store, upload, discarding, sweep, mishaps, early>>

\* Rows go with their edges (ON DELETE CASCADE), once nobody holds one.
DeleteRows(images) ==
  /\ ~Held(images)
  /\ row' = row \ images
  /\ owners' = owners \ EdgesTo(images)

\* The sweeper's predicate: old enough and edge-less.
Candidates == {a \in row \cap old : OwnersOf(a) = {}}

-------------------------------------------------------------------------------
\* upload, from its beginning to the commit of create_attachment.
UploadRecord(a, of) ==
  /\ upload[a] = "none"
  /\ upload' = [upload EXCEPT ![a] = "recorded"]
  /\ row' = row \cup {a}
  /\ owners' = owners \cup (of \X {a})
  /\ UNCHANGED <<old, linking, store, discarding, sweep, mishaps, early>>

\* Store::write_inner, file by file.  A discard that removed the directory in
\* between fails the next write.
UploadWrite(a, from, part, to) ==
  /\ upload[a] = from
  /\ IF part = "dir" \/ "dir" \in store[a]
     THEN /\ store' = [store EXCEPT ![a] = @ \cup {part}]
          /\ upload' = [upload EXCEPT ![a] = to]
     ELSE /\ upload' = [upload EXCEPT ![a] = "failing"]
          /\ UNCHANGED store
  /\ UNCHANGED <<row, old, owners, linking, discarding, sweep, mishaps, early>>

UploadWriteSome(a) ==
  \/ UploadWrite(a, "recorded", "dir", "dir")
  \/ UploadWrite(a, "dir", "original", "original")
  \/ UploadWrite(a, "original", "variants", "answered")

\* A write fails: disk full, volume gone.
UploadWriteFails(a) ==
  /\ upload[a] \in {"recorded", "dir", "original"}
  /\ Mishap
  /\ upload' = [upload EXCEPT ![a] = "failing"]
  /\ UNCHANGED <<row, old, owners, linking, store, discarding, sweep, early>>

\* Store::write removes what it had written, best effort.
UploadUndoBytes(a) ==
  /\ upload[a] = "failing"
  /\ RemoveBytes(a)
  /\ upload' = [upload EXCEPT ![a] = "unwound"]
  /\ UNCHANGED <<row, old, owners, linking, discarding, sweep, early>>

\* The compensating delete_attachment; it may fail, or the request may be gone.
UploadUndoRow(a) ==
  /\ upload[a] = "unwound"
  /\ \/ DeleteRows({a}) /\ NoMishap
     \/ UNCHANGED <<row, owners>> /\ Mishap
  /\ upload' = [upload EXCEPT ![a] = "ended"]
  /\ UNCHANGED <<old, linking, store, discarding, sweep, early>>

-------------------------------------------------------------------------------
\* delete_image: the row, and the bytes after its commit.
DiscardRow(a) ==
  /\ Visible(a)
  /\ DeleteRows({a})
  /\ discarding' = discarding \cup {a}
  /\ early' = IF upload[a] \in Uploading THEN early \cup {a} ELSE early
  /\ UNCHANGED <<old, linking, store, upload, sweep, mishaps>>

DiscardBytes(a) ==
  /\ a \in discarding
  /\ RemoveBytes(a)
  /\ discarding' = discarding \ {a}
  /\ UNCHANGED <<row, old, owners, linking, upload, sweep, early>>

-------------------------------------------------------------------------------
\* link_image, or relate with has_attachment: the insert, holding the image's row...
LinkInsert(o, a) ==
  /\ Visible(a)
  /\ <<o, a>> \notin owners \cup linking
  /\ linking' = linking \cup {<<o, a>>}
  /\ UNCHANGED <<row, old, owners, store, upload, discarding, sweep, mishaps, early>>

\* ... and the commit.
LinkCommit(o, a) ==
  /\ <<o, a>> \in linking
  /\ linking' = linking \ {<<o, a>>}
  /\ owners' = owners \cup {<<o, a>>}
  /\ UNCHANGED <<row, old, store, upload, discarding, sweep, mishaps, early>>

\* unrelate
Unlink(o, a) ==
  /\ <<o, a>> \in owners
  /\ owners' = owners \ {<<o, a>>}
  /\ UNCHANGED <<row, old, linking, store, upload, discarding, sweep, mishaps, early>>

-------------------------------------------------------------------------------
\* Twenty-four hours go by; no upload takes that long.
Expire(a) ==
  /\ a \in row \ old
  /\ upload[a] \notin Uploading
  /\ old' = old \cup {a}
  /\ UNCHANGED <<row, owners, linking, store, upload, discarding, sweep, mishaps, early>>

\* sweep_pending_attachments: the DELETE starts and finds its rows ...
SweepFind(k) ==
  /\ sweep[k] = Resting
  /\ Candidates # {}
  /\ sweep' = [sweep EXCEPT ![k] = [at |-> "found", ids |-> Candidates]]
  /\ UNCHANGED <<row, old, owners, linking, store, upload, discarding, mishaps, early>>

\* ... waits for whoever holds one, and takes those nobody else deleted.  A lock is
\* no new version of the row, so the edges are not looked at again.
SweepDelete(k) ==
  LET ids == sweep[k].ids \cap row IN
  /\ sweep[k].at = "found"
  /\ DeleteRows(ids)
  /\ sweep' = [sweep EXCEPT ![k] = [at |-> "removing", ids |-> ids]]
  /\ UNCHANGED <<old, linking, store, upload, discarding, mishaps, early>>

\* sweep's loop over the returned ids, one directory after the other.
SweepBytes(k, a) ==
  /\ sweep[k].at = "removing" /\ a \in sweep[k].ids
  /\ RemoveBytes(a)
  /\ sweep' = [sweep EXCEPT ![k].ids = @ \ {a}]
  /\ UNCHANGED <<row, old, owners, linking, upload, discarding, early>>

SweepEnd(k) ==
  /\ sweep[k].at = "removing" /\ sweep[k].ids = {}
  /\ sweep' = [sweep EXCEPT ![k] = Resting]
  /\ UNCHANGED <<row, old, owners, linking, store, upload, discarding, mishaps, early>>

-------------------------------------------------------------------------------
\* The process dies: rows, edges and files stay, everything in flight is gone.
Crash ==
  /\ Mishap
  /\ upload' = [a \in Image |-> IF upload[a] \in Uploading THEN "ended" ELSE upload[a]]
  /\ linking' = {}
  /\ discarding' = {}
  /\ sweep' = [k \in Sweeper |-> Resting]
  /\ UNCHANGED <<row, old, owners, store, early>>

Next ==
  \/ \E a \in Image, of \in {{}} \cup {{o} : o \in Owner} : UploadRecord(a, of)
  \/ \E a \in Image : UploadWriteSome(a)
  \/ \E a \in Image : UploadWriteFails(a)
  \/ \E a \in Image : UploadUndoBytes(a)
  \/ \E a \in Image : UploadUndoRow(a)
  \/ \E a \in Image : DiscardRow(a)
  \/ \E a \in Image : DiscardBytes(a)
  \/ \E o \in Owner, a \in Image : LinkInsert(o, a)
  \/ \E o \in Owner, a \in Image : LinkCommit(o, a)
  \/ \E o \in Owner, a \in Image : Unlink(o, a)
  \/ \E a \in Image : Expire(a)
  \/ \E k \in Sweeper : SweepFind(k)
  \/ \E k \in Sweeper : SweepDelete(k)
  \/ \E k \in Sweeper, a \in Image : SweepBytes(k, a)
  \/ \E k \in Sweeper : SweepEnd(k)
  \/ Crash

Spec == Init /\ [][Next]_vars

\* Time passes, a statement that was sent is answered, and the hourly loop goes on
\* for as long as the process lives and again after a restart.  The DELETE is woken
\* whenever the rows it waits for are released (strong fairness).
SweeperFairness ==
  /\ \A a \in Image : WF_vars(Expire(a))
  /\ \A a \in Image : WF_vars(UploadWriteSome(a) \/ UploadUndoBytes(a) \/ UploadUndoRow(a))
  /\ \A o \in Owner, a \in Image : WF_vars(LinkCommit(o, a))
  /\ WF_vars(SweepFind(Hourly))
  /\ SF_vars(SweepDelete(Hourly))
  /\ \A a \in Image : WF_vars(SweepBytes(Hourly, a))
  /\ WF_vars(SweepEnd(Hourly))

FairSpec == Spec /\ SweeperFairness

-------------------------------------------------------------------------------
(***************************************************************************)
(* Properties that hold.                                                   *)
(***************************************************************************)

\* An image whose upload was answered has all its bytes for as long as it has its
\* row, whatever is swept, discarded, failing or crashing beside it: deletions take
\* the row first, and no two images share a directory.
AnsweredImagesHaveBytes ==
  \A a \in row : upload[a] = "answered" => store[a] = Part

\* Bytes without a row are about to be removed, unless something failed or the
\* image was discarded while its bytes were still being written.
StrandedOnlyByMishap ==
  \A a \in Image \ (row \cup early) :
    store[a] # {} /\ mishaps = 0
      => a \in discarding \/ \E k \in Sweeper : sweep[k].at = "removing" /\ a \in sweep[k].ids

\* An image nobody owns is taken sooner or later, or somebody comes to own it,
\* also when its upload failed halfway or died with the process; provided that
\* relates pause now and then, for the DELETE waits out every one that overlaps
\* another on one of its rows.
OrphansCollected ==
  []<>(linking = {}) => \A a \in Image : a \in row ~> a \notin row \/ OwnersOf(a) # {}
==============================================================================
