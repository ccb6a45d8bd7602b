------------------------- MODULE DocumentLifecycle -------------------------
(***************************************************************************)
(* One document from upload to deletion: its row in PostgreSQL, the object *)
(* in MinIO, and the chunks that ingestion workflows leave in Milvus,      *)
(* Elasticsearch and PostgreSQL, while users retry and delete it.          *)
(*                                                                         *)
(* No transaction spans two stores, so every call to a store is an action. *)
(* The chunk ids of a workflow are drawn once, by its chunk activity, and  *)
(* Temporal records them: all it ever writes is one batch, named after the *)
(* workflow.  chunk_count and error_message are left out.                  *)
(***************************************************************************)
EXTENDS Naturals, FiniteSets

CONSTANTS
    Runs,          \* ingestion workflows
    First,         \* the workflow of the upload; the others are retries
    Retries,       \* requests to retry the document
    Deletes,       \* requests to delete it
    MaxAttempts,   \* maximum_attempts of the activities' RetryPolicy
    MaxLost,       \* bound: attempts lost to a timeout or a dead worker, and
                   \* lost answers of Temporal
    MaxBusy,       \* bound: retry and delete requests at work at once
    None           \* no workflow

ASSUME DocumentAssumption ==
    /\ First \in Runs /\ None \notin Runs
    /\ MaxAttempts \in Nat \ {0} /\ MaxLost \in Nat /\ MaxBusy \in Nat
    /\ IsFiniteSet(Retries) /\ IsFiniteSet(Deletes)

VARIABLES
    status,      \* documents.status
    deletedAt,   \* documents.deleted_at is set
    object,      \* the file is in MinIO
    vectors,     \* the batches with vectors in Milvus
    index,       \* the batches indexed in Elasticsearch
    chunks,      \* the batch in document_chunks, or None
    upload,      \* the upload request that starts the first workflow
    run,         \* run[n]: the activity workflow n is in, and failed attempts
    retry,       \* retry[j]: how far a retry request is
    delete,      \* delete[k]: how far a delete request is
    lost,        \* attempts and answers lost so far
    stranded,    \* history: the last who was to move the document out of pending
                 \* was refused, lost, or could not write that it had failed
    overlap      \* history: a retry won while a workflow was still open, or
                 \* before somebody whose start had raised reported it

rows == <<status, deletedAt>>
stores == <<object, vectors, index, chunks>>
history == <<stranded, overlap>>
vars == <<status, deletedAt, object, vectors, index, chunks, upload, run,
          retry, delete, lost, history>>

\* parse_activity, chunk_activity, then the steps of embed_and_index_activity;
\* a step of an activity that has raised and is about to report it.
RunStep == {"parse", "chunk", "embed", "index", "save", "finish"}
Raised == {"parse_raised", "parse_empty", "chunk_raised", "embed_raised"}
Open == RunStep \cup Raised
RetryPc == {"idle", "checked", "vectors", "index", "chunks", "start", "raised"}
Cleaning == RetryPc \ {"idle", "checked"}
DeletePc == {"idle", "checked", "object", "vectors", "index", "chunks", "mark",
             "cache", "done", "raised"}

TypeOK ==
    /\ status \in {"pending", "indexed", "failed", "deleting", "deleted"}
    /\ deletedAt \in BOOLEAN /\ object \in BOOLEAN
    /\ stranded \in BOOLEAN /\ overlap \in BOOLEAN
    /\ vectors \subseteq Runs /\ index \subseteq Runs /\ chunks \in Runs \cup {None}
    /\ upload \in {"starting", "raised", "done"}
    /\ run \in [Runs -> [pc : Open \cup {"none", "over"}, tries : 0..MaxAttempts]]
    /\ retry \in [Retries -> RetryPc]
    /\ delete \in [Deletes -> DeletePc]
    /\ lost \in 0..MaxLost

\* The object is stored and create_document has committed.
Init ==
    /\ status = "pending" /\ deletedAt = FALSE /\ object = TRUE
    /\ vectors = {} /\ index = {} /\ chunks = None
    /\ upload = "starting"
    /\ run = [n \in Runs |-> [pc |-> "none", tries |-> 0]]
    /\ retry = [j \in Retries |-> "idle"]
    /\ delete = [k \in Deletes |-> "idle"]
    /\ lost = 0 /\ stranded = FALSE /\ overlap = FALSE

------------------------------------------------------------------------------
(* ingest: the workflow of the upload *)

Start(n) == run' = [run EXCEPT ![n] = [pc |-> "parse", tries |-> 0]]

\* Temporal has accepted a workflow, and the answer to start_workflow is lost.
AnswerLost == lost < MaxLost /\ lost' = lost + 1

\* Nobody is going to write the status: no workflow is open, and no request is
\* about to start one or to report that it could not.
Unattended ==
    /\ upload = "done" /\ \A j \in Retries : retry[j] \notin Cleaning
    /\ \A n \in Runs : run[n].pc \notin Open

\* Somebody goes without having written the status.
Leave == stranded' = (stranded \/ (status = "pending" /\ Unattended'))

\* authorize_user is awaited before the try, when the row has been created: if
\* the grant is gone by now, or the database raises, nothing reports it.
IngestRefused ==
    /\ upload = "starting"
    /\ upload' = "done"
    /\ UNCHANGED <<rows, stores, run, retry, delete, lost, overlap>> /\ Leave

StartIngest ==
    /\ upload = "starting"
    /\ \/ Start(First) /\ upload' = "done" /\ UNCHANGED lost
       \/ Start(First) /\ upload' = "raised" /\ AnswerLost
       \/ upload' = "raised" /\ UNCHANGED <<run, lost>>
    /\ UNCHANGED <<rows, stores, retry, delete, history>>

IngestFails ==
    /\ upload = "raised"
    /\ status' = "failed" /\ upload' = "done"
    /\ UNCHANGED <<deletedAt, stores, run, retry, delete, lost, history>>

\* The request is cancelled (CancelledError is no Exception), the process dies,
\* or the UPDATE to failed raises in its turn.
LoseUpload ==
    /\ upload \in {"starting", "raised"}
    /\ upload' = "done"
    /\ UNCHANGED <<rows, stores, run, retry, delete, lost, overlap>> /\ Leave

------------------------------------------------------------------------------
(* The ingestion workflow *)

\* The next step; a new activity counts its attempts anew.
Advance(n, pc) ==
    run' = [run EXCEPT ![n].pc = pc,
                       ![n].tries = IF pc \in {"chunk", "embed"} THEN 0 ELSE @]

RunUnchanged == UNCHANGED <<rows, upload, retry, delete, lost, history>>

\* Without the object the download raises.
ParseDocument(n) ==
    /\ run[n].pc = "parse"
    /\ \/ object /\ (Advance(n, "chunk") \/ Advance(n, "parse_empty"))
       \/ Advance(n, "parse_raised")
    /\ UNCHANGED stores /\ RunUnchanged

ChunkDocument(n) ==
    /\ run[n].pc = "chunk"
    /\ Advance(n, "embed") \/ Advance(n, "chunk_raised")
    /\ UNCHANGED stores /\ RunUnchanged

\* MilvusIndexStage upserts by chunk_id; a call that raises may have written.
EmbedChunks(n) ==
    /\ run[n].pc = "embed"
    /\ \/ vectors' = vectors \cup {n} /\ Advance(n, "index")
       \/ vectors' \in {vectors, vectors \cup {n}} /\ Advance(n, "embed_raised")
    /\ UNCHANGED <<object, index, chunks>> /\ RunUnchanged

IndexChunks(n) ==
    /\ run[n].pc = "index"
    /\ \/ index' = index \cup {n} /\ Advance(n, "save")
       \/ index' \in {index, index \cup {n}} /\ Advance(n, "embed_raised")
    /\ UNCHANGED <<object, vectors, chunks>> /\ RunUnchanged

\* UNIQUE (document_id, chunk_index): the chunks of another workflow make the
\* INSERT raise, one's own are updated.
SaveChunks(n) ==
    /\ run[n].pc = "save"
    /\ \/ chunks \in {None, n} /\ chunks' = n /\ Advance(n, "finish")
       \/ Advance(n, "embed_raised") /\ UNCHANGED chunks
    /\ UNCHANGED <<object, vectors, index>> /\ RunUnchanged

\* update_document_status looks at no status, here and below.
MarkIndexed(n) ==
    /\ run[n].pc = "finish"
    /\ \/ status' = "indexed" /\ Advance(n, "over")
       \/ Advance(n, "embed_raised") /\ UNCHANGED status
    /\ UNCHANGED <<deletedAt, stores, upload, retry, delete, lost, history>>

\* Where the RetryPolicy takes a workflow after a failed attempt.
FirstStep(pc) ==
    CASE pc \in {"parse", "parse_raised"} -> "parse"
      [] pc \in {"chunk", "chunk_raised"} -> "chunk"
      [] OTHER -> "embed"

\* A mistake that TypeOK excludes: a policy without maximum_attempts.
LastAttempt_Never(n) == run[n].pc = "parse_empty"
\* An empty document is a ValueError, which is not retried.
LastAttempt(n) == run[n].tries + 1 = MaxAttempts \/ run[n].pc = "parse_empty"

EndAttempt(n) ==
    run' = [run EXCEPT ![n] =
        IF LastAttempt(n)
        THEN [pc |-> "over", tries |-> 0]
        ELSE [pc |-> FirstStep(run[n].pc), tries |-> run[n].tries + 1]]

MarkFailed(n) ==
    /\ run[n].pc \in Raised
    /\ status' = "failed" /\ EndAttempt(n)
    /\ UNCHANGED <<deletedAt, stores, upload, retry, delete, lost, history>>

\* The worker dies, an activity times out, or the report itself raises.
LoseAttempt(n) ==
    /\ run[n].pc \in Open /\ lost < MaxLost
    /\ lost' = lost + 1 /\ EndAttempt(n)
    /\ UNCHANGED <<rows, stores, upload, retry, delete, overlap>> /\ Leave

------------------------------------------------------------------------------
(* retry_ingestion *)

RetryAt(j, pc) == retry' = [retry EXCEPT ![j] = pc]
RetryUnchanged == UNCHANGED <<deletedAt, object, upload, delete, lost, stranded>>

Busy ==
    Cardinality({j \in Retries : retry[j] # "idle"})
    + Cardinality({k \in Deletes : delete[k] \notin {"idle", "done", "raised"}})

BeginRetry(j) ==
    /\ retry[j] = "idle" /\ Busy < MaxBusy
    /\ status = "failed" /\ ~deletedAt
    /\ RetryAt(j, "checked")
    /\ UNCHANGED <<status, vectors, index, chunks, run, overlap>> /\ RetryUnchanged

\* A mistake that OneRetryWins excludes: trusting the status read before.
CanReset_Any == status # "deleted"
\* reset_failed_document: failed -> pending in one statement.
CanReset == status = "failed"

Unsettled ==
    \/ \E n \in Runs : run[n].pc \in Open
    \/ upload = "raised" \/ \E j \in Retries : retry[j] = "raised"

ResetFailed(j) ==
    /\ retry[j] = "checked"
    /\ IF CanReset
       THEN /\ status' = "pending" /\ RetryAt(j, "vectors")
            /\ overlap' = (overlap \/ Unsettled)
       ELSE RetryAt(j, "idle") /\ UNCHANGED <<status, overlap>>
    /\ UNCHANGED <<vectors, index, chunks, run>> /\ RetryUnchanged

CleanVectors(j) ==
    /\ retry[j] = "vectors"
    /\ vectors' = {} /\ RetryAt(j, "index")
    /\ UNCHANGED <<status, index, chunks, run, overlap>> /\ RetryUnchanged

\* A mistake that IndexedIsSearchable excludes: the index is not cleaned.
CleanedIndex_Kept == index
CleanedIndex == {}

CleanIndex(j) ==
    /\ retry[j] = "index"
    /\ index' = CleanedIndex /\ RetryAt(j, "chunks")
    /\ UNCHANGED <<status, vectors, chunks, run, overlap>> /\ RetryUnchanged

CleanChunks(j) ==
    /\ retry[j] = "chunks"
    /\ chunks' = None /\ RetryAt(j, "start")
    /\ UNCHANGED <<status, vectors, index, run, overlap>> /\ RetryUnchanged

StartRetry(j, n) ==
    /\ retry[j] = "start" /\ n # First /\ run[n].pc = "none"
    /\ Start(n)
    /\ \/ RetryAt(j, "idle") /\ UNCHANGED lost
       \/ RetryAt(j, "raised") /\ AnswerLost
    /\ UNCHANGED <<status, vectors, index, chunks, overlap>>
    /\ UNCHANGED <<deletedAt, object, upload, delete, stranded>>

\* A store or Temporal raises, Temporal perhaps after it has accepted the
\* workflow (StartRetry) ...
RetryRaises(j) ==
    /\ retry[j] \in {"vectors", "index", "chunks", "start"}
    /\ RetryAt(j, "raised")
    /\ UNCHANGED <<status, vectors, index, chunks, run, overlap>> /\ RetryUnchanged

\* A mistake that PendingSettles excludes: the exception leaves no trace.
StatusAfterRaise_Kept == status
StatusAfterRaise == "failed"

\* ... and the document is failed again.
RetryFails(j) ==
    /\ retry[j] = "raised"
    /\ status' = StatusAfterRaise /\ RetryAt(j, "idle")
    /\ UNCHANGED <<vectors, index, chunks, run, overlap>> /\ RetryUnchanged

\* The request is cancelled, the process dies, or the UPDATE to failed raises.
LoseRetry(j) ==
    /\ retry[j] \in Cleaning
    /\ RetryAt(j, "idle")
    /\ UNCHANGED <<rows, stores, upload, run, delete, lost, overlap>> /\ Leave

------------------------------------------------------------------------------
(* delete *)

DeleteAt(k, pc) == delete' = [delete EXCEPT ![k] = pc]
DeleteUnchanged == UNCHANGED <<upload, run, retry, lost, history>>

BeginDelete(k) ==
    /\ delete[k] = "idle" /\ Busy < MaxBusy
    /\ status \notin {"deleting", "deleted"} /\ ~deletedAt
    /\ DeleteAt(k, "checked")
    /\ UNCHANGED <<rows, stores>> /\ DeleteUnchanged

\* Whatever the status has become since it was read.
MarkDeleting(k) ==
    /\ delete[k] = "checked"
    /\ status' = "deleting" /\ DeleteAt(k, "object")
    /\ UNCHANGED <<deletedAt, stores>> /\ DeleteUnchanged

RemoveObject(k) ==
    /\ delete[k] = "object"
    /\ object' = FALSE /\ DeleteAt(k, "vectors")
    /\ UNCHANGED <<rows, vectors, index, chunks>> /\ DeleteUnchanged

RemoveVectors(k) ==
    /\ delete[k] = "vectors"
    /\ vectors' = {} /\ DeleteAt(k, "index")
    /\ UNCHANGED <<rows, object, index, chunks>> /\ DeleteUnchanged

RemoveIndex(k) ==
    /\ delete[k] = "index"
    /\ index' = {} /\ DeleteAt(k, "chunks")
    /\ UNCHANGED <<rows, object, vectors, chunks>> /\ DeleteUnchanged

RemoveChunks(k) ==
    /\ delete[k] = "chunks"
    /\ chunks' = None /\ DeleteAt(k, "mark")
    /\ UNCHANGED <<rows, object, vectors, index>> /\ DeleteUnchanged

MarkDeleted(k) ==
    /\ delete[k] = "mark"
    /\ status' = "deleted" /\ deletedAt' = TRUE /\ DeleteAt(k, "cache")
    /\ UNCHANGED stores /\ DeleteUnchanged

\* The semantic cache of the space is dropped: module SemanticCache.
FinishDelete(k) ==
    /\ delete[k] = "cache" /\ DeleteAt(k, "done")
    /\ UNCHANGED <<rows, stores>> /\ DeleteUnchanged

\* A store raises: nothing is undone, and the document stays deleting.
DeleteRaises(k) ==
    /\ delete[k] \in {"object", "vectors", "index", "chunks", "mark", "cache"}
    /\ DeleteAt(k, "raised")
    /\ UNCHANGED <<rows, stores>> /\ DeleteUnchanged

------------------------------------------------------------------------------
(* What get_chunks_by_ids returns for any ids that a search may hand it *)

\* A mistake that DeletedNeverCited excludes: going by the status alone.
Citable_ByStatus == status \notin {"deleting", "deleted"}
Citable == status \notin {"deleting", "deleted"} /\ ~deletedAt

Hydrated == IF Citable THEN {n \in vectors \cup index : chunks = n} ELSE {}

------------------------------------------------------------------------------
UploadStep == StartIngest \/ IngestRefused \/ IngestFails

WorkflowStep(n) ==
    \/ ParseDocument(n) \/ ChunkDocument(n) \/ EmbedChunks(n) \/ IndexChunks(n)
    \/ SaveChunks(n) \/ MarkIndexed(n) \/ MarkFailed(n)

RetryStep(j) ==
    \/ ResetFailed(j) \/ CleanVectors(j) \/ CleanIndex(j) \/ CleanChunks(j)
    \/ RetryRaises(j) \/ RetryFails(j) \/ \E n \in Runs : StartRetry(j, n)

DeleteStep(k) ==
    \/ MarkDeleting(k) \/ RemoveObject(k) \/ RemoveVectors(k) \/ RemoveIndex(k)
    \/ RemoveChunks(k) \/ MarkDeleted(k) \/ FinishDelete(k) \/ DeleteRaises(k)

Next ==
    \/ UploadStep \/ LoseUpload
    \/ \E n \in Runs : WorkflowStep(n) \/ LoseAttempt(n)
    \/ \E j \in Retries : BeginRetry(j) \/ RetryStep(j) \/ LoseRetry(j)
    \/ \E k \in Deletes : BeginDelete(k) \/ DeleteStep(k)

Spec == Init /\ [][Next]_vars

\* Temporal runs every workflow it has accepted to its end; the event loop
\* runs every handler it has begun, unless it is lost.
Fairness ==
    /\ WF_vars(UploadStep)
    /\ \A n \in Runs : WF_vars(WorkflowStep(n))
    /\ \A j \in Retries : WF_vars(RetryStep(j))
FairSpec == Spec /\ Fairness

------------------------------------------------------------------------------
(* Properties *)

\* Nothing of a document is cited once a delete request has marked it deleted,
\* not even when a workflow that was still open stores new chunks afterwards
\* and calls the document indexed.
DeletedNeverCited ==
    \A k \in Deletes : delete[k] \in {"cache", "done"} => Hydrated = {}

\* A deleted row leaves no file in MinIO, whichever of two concurrent deletes
\* got how far.
DeletedFileGone == deletedAt => ~object

\* No delete request has begun to take the document apart.
Undisturbed == \A k \in Deletes : delete[k] \in {"idle", "checked"}

\* An indexed document is found by vector, by keyword and by hydration, and
\* what is found is of one workflow: nothing of a failed one is left.  This
\* needs the retries to come after the workflows they replace.
IndexedIsSearchable ==
    status = "indexed" /\ Undisturbed /\ ~overlap =>
        chunks # None /\ vectors = {chunks} /\ index = {chunks}

\* Of several retry requests for one failure one alone cleans the stores and
\* starts a workflow.
OneRetryWins ==
    ~overlap => \A i, j \in Retries :
        retry[i] \in Cleaning /\ retry[j] \in Cleaning => i = j

\* A document does not stay pending for ever: Temporal's failures, the stores'
\* and a workflow's own are reported.  The exceptions are that the last who was
\* to write the status was refused before the try, was lost, or could not write
\* it: nothing finds such a document later.
PendingSettles == status = "pending" ~> (status # "pending" \/ stranded)

\* What the delete endpoint says: vectors, index entries and chunks of a deleted
\* document are gone, at the latest when everybody has finished.
DeletedIsGone ==
    /\ deletedAt
    /\ \A n \in Runs : run[n].pc \notin Open
    /\ \A k \in Deletes : delete[k] \in {"idle", "done"}
    => vectors = {} /\ index = {} /\ chunks = None

\* What retry_ingestion says: it clears what the failed workflow has left.
RetryClearsResidue ==
    /\ status = "indexed" /\ Undisturbed
    /\ \A n \in Runs : run[n].pc \notin Open
    /\ \A j \in Retries : retry[j] = "idle"
    => chunks # None /\ vectors = {chunks} /\ index = {chunks}
=============================================================================
