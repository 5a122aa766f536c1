------------------------------- MODULE Uploads -------------------------------
(***************************************************************************)
(* DualeAISDK.upload_attachments, LibrariesClient.upload and               *)
(* upload_attachments_to_library (src/src/dualeai/attachments.py): one     *)
(* batch of attachments, its workers, the parts of each attachment and the *)
(* digest that is computed next to them, over the sessions of Connection,  *)
(* which cleanup() may close, among other calls that use them.             *)
(***************************************************************************)
EXTENDS Connection, Sequences

CONSTANTS
  Sizes,      \* the number of parts of each attachment, in the order of the batch
  Limit,      \* _MAX_CONCURRENT_UPLOADS
  MaxPuts     \* attempts to put a part

ASSUME SizesAssumption == Sizes \in Seq(Nat) /\ Sizes # << >>
ASSUME LimitAssumption == Limit \in Nat \ {0}
ASSUME MaxPutsAssumption == MaxPuts \in Nat \ {0}

Attachments == DOMAIN Sizes
Parts == UNION {{a} \X (1 .. Sizes[a]) : a \in Attachments}

VARIABLES
  taken,      \* attachments taken from the shared iterator
  file,       \* how far the upload of each attachment is
  digest,     \* its _compute_content_sha256
  part,       \* its _upload_part, per part
  puts,       \* attempts made, per part
  error,      \* what ends the batch: "none", "upload", "transport" or "cancelled"
  torn,       \* the batch cancels its workers
  receipts,   \* receipt_slots that are filled
  reported,   \* receipts the caller was given
  documents,  \* history: how often the platform created each document
  unsure      \* history: creations without a reply, or cancelled before it

uploadVars == <<taken, file, digest, part, puts, error, torn, receipts, reported,
                documents, unsure>>
vars == <<connectionVars, uploadVars>>

Init ==
  /\ ConnectionInit
  /\ taken = 0
  /\ file = [a \in Attachments |-> "waiting"]
  /\ digest = [a \in Attachments |-> "none"]
  /\ part = [p \in Parts |-> "none"]
  /\ puts = [p \in Parts |-> 0]
  /\ error = "none" /\ torn = FALSE
  /\ receipts = {} /\ reported = {}
  /\ documents = [a \in Attachments |-> 0]
  /\ unsure = {}

Own(a) == {p \in Parts : p[1] = a}
TransportUp == IsUp(TransportOf(held[Batch]))

\* A worker is gone once its attachment failed or it was cancelled.
Working == {a \in Attachments : file[a] \in {"opening", "moving", "draining", "creating", "created"}}
FileIs(a, state) == file' = [file EXCEPT ![a] = state]

-----------------------------------------------------------------------------
(* Starting the batch *)

\* _validate_prepared_attachments refuses before a connection is asked for.
Invalid ==
  /\ pc[Batch] \in {"idle", "resolved"} /\ Batch \in actors
  /\ Ends(Batch, "invalid")
  /\ Rest /\ UNCHANGED <<transportVars, clientVars, uploadVars>>

\* No single agent is there to name the Library by.
NoAgent ==
  /\ pc[Batch] = "idle" /\ Batch \in actors
  /\ Ends(Batch, "no agent")
  /\ Rest /\ UNCHANGED <<transportVars, clientVars, uploadVars>>

\* The attachments new are taken, and others are as left says; a first request
\* on a transport that is not connected fails at once.
Takes(new, left) ==
  /\ taken' = taken + Cardinality(new)
  /\ file' = [a \in Attachments |->
       CASE a \in new /\ TransportUp -> "opening"
         [] a \in new /\ ~TransportUp -> "failed"
         [] OTHER -> left[a]]
  /\ error' = IF new # {} /\ ~TransportUp /\ error = "none" THEN "transport" ELSE error

BatchStarts ==
  /\ pc[Batch] = "uploading" /\ taken = 0 /\ ~torn
  /\ Takes({a \in Attachments : a <= Limit}, file)
  /\ UNCHANGED <<connectionVars, digest, part, puts, torn, receipts, reported, documents,
                 unsure>>

-----------------------------------------------------------------------------
(* One attachment: upload_attachment_to_library *)

\* The first error to reach the batch is the one that ends it.
Fails(a, kind) ==
  /\ FileIs(a, "failed")
  /\ error' = IF error = "none" THEN kind ELSE error

UploadOpened(a) ==
  /\ file[a] = "opening"
  /\ FileIs(a, "moving")
  /\ digest' = [digest EXCEPT ![a] = "reading"]
  /\ part' = [p \in Parts |-> IF p \in Own(a) THEN "queued" ELSE part[p]]
  /\ UNCHANGED <<connectionVars, taken, puts, error, torn, receipts, reported, documents,
                 unsure>>

UploadRefused(a) ==
  /\ file[a] = "opening"
  /\ Fails(a, "transport")
  /\ UNCHANGED <<connectionVars, taken, digest, part, puts, torn, receipts, reported,
                 documents, unsure>>

Digest(a) ==
  /\ digest[a] = "reading"
  /\ \E how \in {"read", "failed"} : digest' = [digest EXCEPT ![a] = how]
  /\ UNCHANGED <<connectionVars, taken, file, part, puts, error, torn, receipts, reported,
                 documents, unsure>>

\* Parts that hold a place of the semaphore.
Putting == {p \in Parts : part[p] \in {"putting", "stopping"}}

PlaceFree(p) == Cardinality(Putting) < Limit

\* An attempt has the whole time from a free place to its reply.
PutStarts(p) ==
  /\ part[p] = "queued" /\ PlaceFree(p)
  /\ part' = [part EXCEPT ![p] = "putting"]
  /\ puts' = [puts EXCEPT ![p] = @ + 1]
  /\ UNCHANGED <<connectionVars, taken, file, digest, error, torn, receipts, reported,
                 documents, unsure>>

\* 200 with an ETag; another status, no ETag, or the last of the attempts; an
\* error that is tried again.
PutEnds(p) ==
  /\ part[p] = "putting"
  /\ \/ /\ \E how \in {"put", "failed"} : part' = [part EXCEPT ![p] = how]
        /\ puts' = [puts EXCEPT ![p] = 0]
     \/ /\ puts[p] < MaxPuts
        /\ part' = [part EXCEPT ![p] = "queued"]
        /\ UNCHANGED puts
  /\ UNCHANGED <<connectionVars, taken, file, digest, error, torn, receipts, reported,
                 documents, unsure>>

\* What cancellation makes of a part: a request has to be closed, the rest is gone.
Cancelled(state) ==
  CASE state = "putting" -> "stopping"
    [] state = "queued" -> "failed"
    [] OTHER -> state

StopsFile(a) ==
  /\ digest' = [digest EXCEPT ![a] = IF @ = "reading" THEN "stopping" ELSE @]
  /\ part' = [p \in Parts |-> IF p \in Own(a) THEN Cancelled(part[p]) ELSE part[p]]

\* A part or the digest failed: the rest of the attachment is cancelled.
Broken(a) == digest[a] = "failed" \/ \E p \in Own(a) : part[p] = "failed"

FileFails(a) ==
  /\ file[a] = "moving" /\ Broken(a)
  /\ FileIs(a, "draining")
  /\ StopsFile(a)
  /\ UNCHANGED <<connectionVars, taken, puts, error, torn, receipts, reported, documents,
                 unsure>>

PartStopped(p) ==
  /\ part[p] = "stopping"
  /\ part' = [part EXCEPT ![p] = "failed"]
  /\ UNCHANGED <<connectionVars, taken, file, digest, puts, error, torn, receipts, reported,
                 documents, unsure>>

DigestStopped(a) ==
  /\ digest[a] = "stopping"
  /\ digest' = [digest EXCEPT ![a] = "failed"]
  /\ UNCHANGED <<connectionVars, taken, file, part, puts, error, torn, receipts, reported,
                 documents, unsure>>

\* Mutant: an attachment fails without waiting for what it cancelled.
NotAwaited(a) == TRUE
Drained(a) == digest[a] # "stopping" /\ \A p \in Own(a) : part[p] # "stopping"

FileFailed(a) ==
  /\ file[a] = "draining" /\ Drained(a)
  /\ Fails(a, "upload")
  /\ UNCHANGED <<connectionVars, taken, digest, part, puts, torn, receipts, reported,
                 documents, unsure>>

Whole(a) == digest[a] = "read" /\ \A p \in Own(a) : part[p] = "put"

CreateStarts(a) ==
  /\ file[a] = "moving" /\ Whole(a)
  /\ IF TransportUp
     THEN FileIs(a, "creating") /\ UNCHANGED error
     ELSE Fails(a, "transport")
  /\ UNCHANGED <<connectionVars, taken, digest, part, puts, torn, receipts, reported,
                 documents, unsure>>

PlatformCreates(a) ==
  /\ file[a] = "creating"
  /\ FileIs(a, "created")
  /\ documents' = [documents EXCEPT ![a] = @ + 1]
  /\ UNCHANGED <<connectionVars, taken, digest, part, puts, error, torn, receipts, reported,
                 unsure>>

CreateRefused(a) ==
  /\ file[a] = "creating"
  /\ Fails(a, "transport")
  /\ UNCHANGED <<connectionVars, taken, digest, part, puts, torn, receipts, reported,
                 documents, unsure>>

\* The reply is lost or not understood.
CreateLost(a) ==
  /\ file[a] \in {"creating", "created"}
  /\ Fails(a, "transport")
  /\ unsure' = unsure \cup {a}
  /\ UNCHANGED <<connectionVars, taken, digest, part, puts, torn, receipts, reported,
                 documents>>

\* Mutant: each worker iterates over the batch on its own.
OwnNext(a) == {a + 1} \cap Attachments
NextOf(a) == {taken + 1} \cap Attachments

\* The worker fills the slot and takes the next attachment.
Receipt(a) ==
  /\ file[a] = "created"
  /\ receipts' = receipts \cup {a}
  /\ Takes(NextOf(a), [file EXCEPT ![a] = "done"])
  /\ UNCHANGED <<connectionVars, digest, part, puts, torn, reported, documents, unsure>>

-----------------------------------------------------------------------------
(* The end of the batch: _gather_related over the workers *)

\* Every worker is cancelled: one in a request is gone, one that moves parts has
\* them to drain.
TearsDown(kind) ==
  /\ torn' = TRUE
  /\ error' = kind
  /\ file' = [a \in Attachments |->
       CASE file[a] \in {"opening", "creating", "created"} -> "failed"
         [] file[a] = "moving" -> "draining"
         [] OTHER -> file[a]]
  /\ digest' = [a \in Attachments |-> IF digest[a] = "reading" THEN "stopping" ELSE digest[a]]
  /\ part' = [p \in Parts |-> Cancelled(part[p])]
  /\ unsure' = unsure \cup {a \in Attachments : file[a] \in {"creating", "created"}}
  /\ UNCHANGED <<connectionVars, taken, puts, receipts, reported, documents>>

WorkerFailed == error # "none" /\ ~torn /\ TearsDown(error)

CallerCancelled == pc[Batch] = "uploading" /\ error # "cancelled" /\ TearsDown("cancelled")

\* Mutant: the error is raised as it is, without the receipts.
NoneCompleted == {}
Completed == receipts

\* Only the LibraryUploadError carries receipts.
BatchEnds ==
  /\ pc[Batch] = "uploading" /\ Working = {}
  /\ \/ /\ receipts = Attachments /\ ~torn /\ error = "none"
        /\ Ends(Batch, "answered")
        /\ reported' = Attachments
     \/ /\ torn /\ error = "upload"
        /\ Ends(Batch, "upload")
        /\ reported' = Completed
     \/ /\ torn /\ error = "transport"
        /\ \E how \in Errors : Ends(Batch, how)
        /\ UNCHANGED reported
     \/ /\ torn /\ error = "cancelled"
        /\ Ends(Batch, "cancelled")
        /\ UNCHANGED reported
  /\ Rest
  /\ UNCHANGED <<transportVars, clientVars, taken, file, digest, part, puts, error, torn,
                 receipts, documents, unsure>>

-----------------------------------------------------------------------------
Connecting ==
  /\ Close \/ Ingested \/ \E c \in Callers : Call(c)
  /\ UNCHANGED uploadVars

FileStep(a) ==
  \/ UploadOpened(a) \/ UploadRefused(a) \/ Digest(a) \/ FileFails(a) \/ DigestStopped(a)
  \/ FileFailed(a) \/ CreateStarts(a) \/ PlatformCreates(a) \/ CreateRefused(a)
  \/ CreateLost(a) \/ Receipt(a)

PartStep(p) == PutStarts(p) \/ PutEnds(p) \/ PartStopped(p)

Uploading ==
  \/ BatchStarts \/ WorkerFailed \/ BatchEnds
  \/ \E a \in Attachments : FileStep(a)
  \/ \E p \in Parts : PartStep(p)

Next == Invalid \/ NoAgent \/ CallerCancelled \/ Connecting \/ Uploading

Spec == Init /\ [][Next]_vars

\* The steps the event loop takes for a call once it was made.
CallSteps(c) ==
  /\ Locks(c) \/ Connected(c) \/ EntryFails(c) \/ Answered(c) \/ Refused(c) \/ PollsAgain(c)
     \/ (c = Batch /\ resolved /\ Ensure(c))
  /\ UNCHANGED uploadVars

FairSpec ==
  /\ Spec
  /\ WF_vars(Uploading)
  /\ \A c \in Callers : WF_vars(CallSteps(c))
  /\ \A c \in Polls : WF_vars(Interrupted(c) /\ UNCHANGED uploadVars)
  /\ WF_vars((LibraryCloses \/ SessionCloses) /\ UNCHANGED uploadVars)

-----------------------------------------------------------------------------
(* Properties *)

TypeOK ==
  /\ ConnectionTypeOK
  /\ taken \in 0 .. Len(Sizes)
  /\ file \in [Attachments -> {"waiting", "opening", "moving", "draining", "creating",
                               "created", "done", "failed"}]
  /\ digest \in [Attachments -> {"none", "reading", "stopping", "read", "failed"}]
  /\ part \in [Parts -> {"none", "queued", "putting", "stopping", "put", "failed"}]
  /\ error \in {"none", "upload", "transport", "cancelled"} /\ torn \in BOOLEAN
  /\ receipts \subseteq Attachments /\ reported \subseteq Attachments

\* A batch that succeeds reports every document, and one that fails with
\* LibraryUploadError exactly those whose receipt arrived (attachments.py:444): a
\* document the platform has and the error does not name had its creation cut
\* off, by the teardown or by the loss of the reply.
ReportsDocuments ==
  /\ \A a \in reported : documents[a] = 1
  /\ pc[Batch] = "answered" => reported = Attachments
  /\ pc[Batch] = "upload" => {a \in Attachments : documents[a] > 0} \ reported \subseteq unsure

\* The workers share one iterator, so no document is created twice, and none
\* before all of its parts and its digest are there (attachments.py:355, 390).
WholeAndOnce ==
  \A a \in Attachments :
    /\ documents[a] <= 1
    /\ documents[a] = 1 => digest[a] = "read" /\ \A p \in Own(a) : part[p] = "put"

\* However the batch ends, also by a cancellation in the middle of a teardown, no
\* worker, part or digest runs on (attachments.py:96, 357), while it ran no
\* more than the limit of them did, and each part was put a bounded number of times.
QuietWhenOver ==
  /\ Cardinality(Putting) <= Limit /\ Cardinality(Working) <= Limit
  /\ \A p \in Parts : puts[p] <= MaxPuts
  /\ pc[Batch] \in Over =>
       /\ Working = {}
       /\ \A p \in Parts : part[p] \notin {"queued", "putting", "stopping"}
       /\ \A a \in Attachments : digest[a] \notin {"reading", "stopping"}

\* Every call ends, the lock is free again, and so does cleanup once it started:
\* a lost connection, a failed entry and a stuck poll leave nobody waiting.
CallsEnd ==
  <>[](/\ \A c \in Callers : pc[c] \in Over \cup {"idle"}
       /\ lock = NoCaller
       /\ stage \in {"none", "closed"})
=============================================================================
