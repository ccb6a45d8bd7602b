------------------------------ MODULE ChatTurn ------------------------------
(***************************************************************************)
(* The attachment-type chat turns of one session: creating a turn,         *)
(* uploading, ignoring and adding attachments, claiming and streaming the  *)
(* answer, cancelling, and archiving or deleting the session meanwhile.    *)
(*                                                                         *)
(* Every repository call is one PostgreSQL transaction, hence one action;  *)
(* a handler that makes several is a process that stops between them.      *)
(* claim_ready_answer is one transaction of two statements, and under READ *)
(* COMMITTED each statement has a snapshot of its own, so it is two        *)
(* actions with the message row locked in between.  Documents are moved by *)
(* the ingestion workflow and by the document API, modelled in detail by   *)
(* DocumentLifecycle and here by the writes they make to documents.status. *)
(***************************************************************************)
EXTENDS Naturals, FiniteSets

CONSTANTS
    Turns,           \* client_request_ids: a turn is created once per id
    Slots,           \* client_ids of the attachments of a turn
    Docs,            \* document ids (fresh uuids) that uploads draw from
    Streams,         \* POST /chat/turns/{id}/answer requests
    Requests,        \* other requests: upload, ignore, add, archive
    MaxAttachments,  \* MAX_ATTACHMENTS
    None             \* no document, turn or slot

ASSUME ChatTurnAssumption ==
    /\ MaxAttachments \in Nat
    /\ None \notin Docs \cup Streams \cup Turns \cup Slots
    /\ IsFiniteSet(Slots)

VARIABLES
    session,   \* the sessions row: open, archived or deleted
    turn,      \* turn[t]: messages.processing_status, absent, or gone
    att,       \* att[t][s]: the message_attachments row
    doc,       \* doc[d]: documents.status, or absent
    started,   \* documents an ingestion workflow may still write to
    answers,   \* answers[t]: assistant messages stored for turn t
    stream,    \* stream[a]: an answer request and what it has read
    req,       \* req[r]: another request and what it has read
    stranded,  \* history: pending documents whose ingest ended with no workflow
               \* started and without writing failed
    abandoned  \* history: turns in answering whose stream ended without storing
               \* the answer or failing the turn

history == <<stranded, abandoned>>
vars == <<session, turn, att, doc, started, answers, stream, req, stranded, abandoned>>

------------------------------------------------------------------------------
(* Types and null records *)

Retryable == {"waiting_files", "answer_failed"}
TurnStatus == Retryable \cup {"answering", "completed", "cancelled"}
DocStatus == {"absent", "pending", "indexed", "failed", "deleting", "deleted"}

NoFile == [upload |-> "none", doc |-> None, ignored |-> FALSE]
NewFile == [NoFile EXCEPT !.upload = "pending"]
File == [upload : {"none", "pending", "uploaded", "failed"},
         doc : Docs \cup {None}, ignored : BOOLEAN]

\* The steps of stream_answer during which the stream holds the claim.
LivePc == {"claimed", "streaming", "persisted", "failing"}
StreamPc == {"idle", "prepared", "updating"} \cup LivePc
RequestPc == {"idle", "ignore", "add", "upload", "created", "linked", "raised", "archive"}
StreamState == [pc : StreamPc, turn : Turns \cup {None}, scope : SUBSET Docs]
RequestState == [pc : RequestPc, turn : Turns \cup {None}, slot : Slots \cup {None},
                 doc : Docs \cup {None}, flag : BOOLEAN]

TypeOK ==
    /\ session \in {"open", "archived", "deleted"}
    /\ turn \in [Turns -> TurnStatus \cup {"absent", "gone"}]
    /\ att \in [Turns -> [Slots -> File]]
    /\ doc \in [Docs -> DocStatus]
    /\ started \in SUBSET Docs
    /\ answers \in [Turns -> Nat]
    /\ stream \in [Streams -> StreamState]
    /\ req \in [Requests -> RequestState]
    /\ stranded \in SUBSET Docs /\ abandoned \in SUBSET Turns

NoStream == [pc |-> "idle", turn |-> None, scope |-> {}]
NoRequest == [pc |-> "idle", turn |-> None, slot |-> None, doc |-> None, flag |-> FALSE]

Init ==
    /\ session = "open"
    /\ turn = [t \in Turns |-> "absent"]
    /\ att = [t \in Turns |-> [s \in Slots |-> NoFile]]
    /\ doc = [d \in Docs |-> "absent"]
    /\ started = {}
    /\ answers = [t \in Turns |-> 0]
    /\ stream = [a \in Streams |-> NoStream]
    /\ req = [r \in Requests |-> NoRequest]
    /\ stranded = {} /\ abandoned = {}

------------------------------------------------------------------------------
(* What a read of the turn returns *)

Declared(t) == {s \in Slots : att[t][s].upload # "none"}
Active(t) == {s \in Declared(t) : ~att[t][s].ignored}

FileStatus(t, s) ==
    LET f == att[t][s] IN
    CASE f.ignored -> "ignored"
      [] ~f.ignored /\ f.upload = "failed" -> "failed"
      [] ~f.ignored /\ f.upload = "pending" -> "pending_upload"
      [] ~f.ignored /\ f.upload = "uploaded" ->
            IF doc[f.doc] \in {"indexed", "failed"} THEN doc[f.doc] ELSE "ingesting"

Readiness(t) ==
    CASE Active(t) = {} -> "empty"
      [] \E s \in Active(t) : FileStatus(t, s) = "failed" -> "blocked"
      [] Active(t) # {} /\ \A s \in Active(t) : FileStatus(t, s) = "indexed" -> "ready"
      [] OTHER -> "ingesting"

\* The attachments the scope query of a claim selects.
InScope(t) == {s \in Active(t) : att[t][s].upload = "uploaded" /\ doc[att[t][s].doc] = "indexed"}

\* claim_ready_answer updates the row but has not committed: others wait.
RowLocked(t) == \E a \in Streams : stream[a].pc = "updating" /\ stream[a].turn = t

SetStream(a, pc) == stream' = [stream EXCEPT ![a].pc = pc]
DropStream(a) == stream' = [stream EXCEPT ![a] = NoStream]
DropRequest(r) == req' = [req EXCEPT ![r] = NoRequest]

------------------------------------------------------------------------------
(* The session: archive, restore, delete *)

\* SessionService.archive reads has_active_turn in one transaction ...
BeginArchive(r) ==
    /\ req[r].pc = "idle" /\ session # "deleted"
    /\ \A t \in Turns : turn[t] \notin {"waiting_files", "answering"}
    /\ req' = [req EXCEPT ![r].pc = "archive"]
    /\ UNCHANGED <<session, turn, att, doc, started, answers, stream, history>>

\* ... and archives in another.
Archive(r) ==
    /\ req[r].pc = "archive"
    /\ session' = IF session = "open" THEN "archived" ELSE session
    /\ DropRequest(r)
    /\ UNCHANGED <<turn, att, doc, started, answers, stream, history>>

Restore ==
    /\ session = "archived"
    /\ session' = "open"
    /\ UNCHANGED <<turn, att, doc, started, answers, stream, req, history>>

\* Messages and attachments go with the session; documents stay.  The cascade
\* waits for a claim that holds a message row.
DeleteSession ==
    /\ session # "deleted"
    /\ \A t \in Turns : ~RowLocked(t)
    /\ session' = "deleted"
    /\ turn' = [t \in Turns |-> "gone"]
    /\ att' = [t \in Turns |-> [s \in Slots |-> NoFile]]
    /\ answers' = [t \in Turns |-> 0]
    /\ abandoned' = {}
    /\ UNCHANGED <<doc, started, stream, req, stranded>>

------------------------------------------------------------------------------
(* Creating and cancelling a turn, changing its attachments *)

\* A mistake that TypeOK excludes: the INSERT leaves processing_status NULL.
CreateTurn_NoStatus(t, S) ==
    /\ session # "deleted" /\ turn[t] = "absent"
    /\ turn' = [turn EXCEPT ![t] = "null"]
    /\ UNCHANGED <<session, att, doc, started, answers, stream, req, history>>

\* The session row is locked, and a known client_request_id returns its turn
\* unchanged (a stuttering step).  Nothing looks at archived_at.
CreateTurn(t, S) ==
    /\ session # "deleted" /\ turn[t] = "absent"
    /\ S # {} /\ Cardinality(S) <= MaxAttachments
    /\ turn' = [turn EXCEPT ![t] = "waiting_files"]
    /\ att' = [att EXCEPT ![t] = [s \in Slots |-> IF s \in S THEN NewFile ELSE NoFile]]
    /\ UNCHANGED <<session, doc, started, answers, stream, req, history>>

\* A mistake that TurnsImplement excludes: cancelling whatever the status is.
CanCancel_Always(t) == turn[t] \in TurnStatus
CanCancel(t) == turn[t] \in Retryable

CancelTurn(t) ==
    /\ CanCancel(t) /\ ~RowLocked(t)
    /\ turn' = [turn EXCEPT ![t] = "cancelled"]
    /\ UNCHANGED <<session, att, doc, started, answers, stream, req, history>>

\* set_ignored checks the status of the turn it has read ...
BeginSetIgnored(r, t, s, flag) ==
    /\ req[r].pc = "idle"
    /\ turn[t] \in Retryable /\ s \in Declared(t)
    /\ req' = [req EXCEPT ![r].pc = "ignore", ![r].turn = t,
                          ![r].slot = s, ![r].flag = flag]
    /\ UNCHANGED <<session, turn, att, doc, started, answers, stream, history>>

\* ... and updates the attachment whatever the status has become.
SetIgnored(r) ==
    LET t == req[r].turn  s == req[r].slot IN
    /\ req[r].pc = "ignore"
    /\ att' = IF s \in Declared(t)
              THEN [att EXCEPT ![t][s].ignored = req[r].flag] ELSE att
    /\ DropRequest(r)
    /\ UNCHANGED <<session, turn, doc, started, answers, stream, history>>

\* add_attachment of the service: every check is on the turn it has read.
BeginAdd(r, t, s) ==
    /\ req[r].pc = "idle"
    /\ turn[t] = "waiting_files"
    /\ Readiness(t) \in {"blocked", "empty"}
    /\ Cardinality(Declared(t)) < MaxAttachments
    /\ req' = [req EXCEPT ![r].pc = "add", ![r].turn = t, ![r].slot = s]
    /\ UNCHANGED <<session, turn, att, doc, started, answers, stream, history>>

\* A mistake that AttachmentLimit excludes: trusting the service's count.
HasRoom_NoCount(t) == turn[t] = "waiting_files"
\* What add_attachment of the repository checks again behind FOR UPDATE.
HasRoom(t) == turn[t] = "waiting_files" /\ Cardinality(Declared(t)) < MaxAttachments

AddAttachment(r) ==
    LET t == req[r].turn  s == req[r].slot IN
    /\ req[r].pc = "add" /\ ~RowLocked(t)
    /\ att' = IF HasRoom(t) /\ s \notin Declared(t)
              THEN [att EXCEPT ![t][s] = NewFile] ELSE att
    /\ DropRequest(r)
    /\ UNCHANGED <<session, turn, doc, started, answers, stream, history>>

------------------------------------------------------------------------------
(* Uploading an attachment *)

\* A file already linked returns its document at once (a stuttering step).
BeginUpload(r, t, s, d) ==
    /\ req[r].pc = "idle"
    /\ turn[t] = "waiting_files" /\ s \in Declared(t) /\ att[t][s].doc = None
    /\ doc[d] = "absent" /\ \A q \in Requests : req[q].doc # d
    /\ req' = [req EXCEPT ![r].pc = "upload", ![r].turn = t,
                          ![r].slot = s, ![r].doc = d]
    /\ UNCHANGED <<session, turn, att, doc, started, answers, stream, history>>

\* The object is in MinIO and the documents row is inserted, not yet linked.
CreateDocument(r) ==
    /\ req[r].pc = "upload"
    /\ doc' = [doc EXCEPT ![req[r].doc] = "pending"]
    /\ req' = [req EXCEPT ![r].pc = "created"]
    /\ UNCHANGED <<session, turn, att, started, answers, stream, history>>

\* Uploading, inserting or linking raised: mark_upload_failed, which does
\* nothing to an attachment that another request has linked meanwhile, and may
\* raise itself.
UploadFails(r) ==
    LET t == req[r].turn  s == req[r].slot IN
    /\ req[r].pc \in {"upload", "created"}
    /\ \/ /\ att[t][s].doc = None /\ att[t][s].upload \in {"pending", "failed"}
          /\ att' = [att EXCEPT ![t][s].upload = "failed"]
       \/ UNCHANGED att
    /\ DropRequest(r)
    /\ UNCHANGED <<session, turn, doc, started, answers, stream, history>>

\* A mistake that LinkedForGood excludes: the last upload wins.
CanLink_Always(t, s, d) == s \in Declared(t)
CanLink(t, s, d) == s \in Declared(t) /\ att[t][s].doc \in {None, d}

\* A request that lost the race returns the other one's document, or 409.
AfterLink(linked) == IF linked THEN "linked" ELSE "idle"

LinkDocument(r) ==
    LET t == req[r].turn  s == req[r].slot  d == req[r].doc
        linked == CanLink(t, s, d) IN
    /\ req[r].pc = "created"
    /\ att' = IF linked THEN [att EXCEPT ![t][s].doc = d, ![t][s].upload = "uploaded"]
              ELSE att
    /\ IF AfterLink(linked) = "linked"
       THEN req' = [req EXCEPT ![r].pc = "linked"]
       ELSE DropRequest(r)
    /\ UNCHANGED <<session, turn, doc, started, answers, stream, history>>

\* The request is over and the document it linked is left as it is.
Strand(r) ==
    LET d == req[r].doc IN
    stranded' = IF doc[d] = "pending" /\ d \notin started THEN stranded \cup {d} ELSE stranded

\* document_service.ingest asks authorize_user once more, outside its try: the
\* role, the grant or the space may have changed since, or the call raises.
IngestRefused(r) ==
    /\ req[r].pc = "linked"
    /\ Strand(r) /\ DropRequest(r)
    /\ UNCHANGED <<session, turn, att, doc, started, answers, stream, abandoned>>

\* start_workflow, which may raise after Temporal has accepted the workflow.
IngestDocument(r) ==
    LET d == req[r].doc IN
    /\ req[r].pc = "linked"
    /\ \/ started' = started \cup {d} /\ DropRequest(r)
       \/ started' \in {started, started \cup {d}} /\ req' = [req EXCEPT ![r].pc = "raised"]
    /\ UNCHANGED <<session, turn, att, doc, answers, stream, history>>

\* A mistake that UploadsSettle and StuckHasCause exclude: a failed start leaves no trace.
StartFails_Silently(d) == doc
StartFails(d) == [doc EXCEPT ![d] = "failed"]

\* The handler of that exception calls the document failed ...
IngestFails(r) ==
    /\ req[r].pc = "raised"
    /\ doc' = StartFails(req[r].doc) /\ DropRequest(r)
    /\ UNCHANGED <<session, turn, att, started, answers, stream, history>>

\* ... or raises itself.
IngestFailRaises(r) ==
    /\ req[r].pc = "raised"
    /\ Strand(r) /\ DropRequest(r)
    /\ UNCHANGED <<session, turn, att, doc, started, answers, stream, abandoned>>

\* The process dies, or the request is cancelled, between two calls of an
\* upload.  Nothing resumes it: once the document is linked a repeated PUT
\* returns at once and a retry wants a failed document.
LoseUpload(r) ==
    /\ req[r].pc \in {"upload", "created", "linked", "raised"}
    /\ IF req[r].pc \in {"linked", "raised"} THEN Strand(r) ELSE UNCHANGED stranded
    /\ DropRequest(r)
    /\ UNCHANGED <<session, turn, att, doc, started, answers, stream, abandoned>>

------------------------------------------------------------------------------
(* Documents, as the ingestion workflow and the document API move them *)

\* An activity fails; Temporal tries again, or the workflow is over.
WorkflowFails(d) ==
    /\ d \in started
    /\ doc' = [doc EXCEPT ![d] = "failed"]
    /\ started' \in {started, started \ {d}}
    /\ UNCHANGED <<session, turn, att, answers, stream, req, history>>

WorkflowIndexes(d) ==
    /\ d \in started
    /\ doc' = [doc EXCEPT ![d] = "indexed"]
    /\ started' = started \ {d}
    /\ UNCHANGED <<session, turn, att, answers, stream, req, history>>

\* retry_ingestion, atomic failed -> pending, then a new workflow; that it
\* cannot be started is WorkflowFails with the workflow over.
\* deleted_at is left out: a document that a late workflow has called failed can
\* be retried here although it was deleted, which only adds behaviours.
RetryDocument(d) ==
    /\ doc[d] = "failed"
    /\ doc' = [doc EXCEPT ![d] = "pending"]
    /\ started' = started \cup {d}
    /\ UNCHANGED <<session, turn, att, answers, stream, req, history>>

\* retry_attachment: the same, for an attachment that reads as failed.
RetryAttachment(t, s) ==
    /\ s \in Active(t) /\ att[t][s].doc # None /\ FileStatus(t, s) = "failed"
    /\ RetryDocument(att[t][s].doc)

\* Also by a second delete that has read the document before the first one.
DeleteDocument(d) ==
    /\ doc[d] \notin {"absent", "deleting"}
    /\ doc' = [doc EXCEPT ![d] = "deleting"] /\ stranded' = stranded \ {d}
    /\ UNCHANGED <<session, turn, att, started, answers, stream, req, abandoned>>

FinishDelete(d) ==
    /\ doc[d] = "deleting"
    /\ doc' = [doc EXCEPT ![d] = "deleted"]
    /\ UNCHANGED <<session, turn, att, started, answers, stream, req, history>>

------------------------------------------------------------------------------
(* Answering *)

\* prepare_answer reads the turn and refuses what cannot be answered ...
PrepareAnswer(a, t) ==
    /\ stream[a].pc = "idle"
    /\ turn[t] \in Retryable /\ Readiness(t) = "ready"
    /\ stream' = [stream EXCEPT ![a].pc = "prepared", ![a].turn = t]
    /\ UNCHANGED <<session, turn, att, doc, started, answers, req, history>>

\* A mistake that SingleAnswerer excludes: claiming on the strength of what
\* prepare_answer has read.
CanClaim_NoStatus(t) == turn[t] \in TurnStatus /\ InScope(t) # {} /\ InScope(t) = Active(t)
\* ... then the UPDATE of claim_ready_answer decides for itself.
CanClaim(t) == turn[t] \in Retryable /\ InScope(t) # {} /\ InScope(t) = Active(t)

ClaimUpdate(a) ==
    LET t == stream[a].turn IN
    /\ stream[a].pc = "prepared" /\ ~RowLocked(t)
    /\ IF CanClaim(t) THEN SetStream(a, "updating") ELSE DropStream(a)
    /\ UNCHANGED <<session, turn, att, doc, started, answers, req, history>>

\* A mistake that ScopeTrusted excludes: no check that a scope was found.
ScopeFound_Any(scope) == TRUE
ScopeFound(scope) == scope # {}

\* The second statement reads the document scope under a new snapshot; the
\* transaction commits, or an empty scope raises and rolls it back.
ClaimScope(a) ==
    LET t == stream[a].turn
        scope == {att[t][s].doc : s \in InScope(t)} IN
    /\ stream[a].pc = "updating"
    /\ IF ScopeFound(scope)
       THEN /\ turn' = [turn EXCEPT ![t] = "answering"]
            /\ stream' = [stream EXCEPT ![a].pc = "claimed", ![a].scope = scope]
       ELSE DropStream(a) /\ UNCHANGED turn
    /\ UNCHANGED <<session, att, doc, started, answers, req, history>>

\* The server takes the first item of the response body.
StartStream(a) ==
    /\ stream[a].pc = "claimed"
    /\ SetStream(a, "streaming")
    /\ UNCHANGED <<session, turn, att, doc, started, answers, req, history>>

\* A mistake that OneAnswerPerTurn excludes: a turn completed on its own.
StoredAnswers_None(t) == answers
StoredAnswers(t) == [answers EXCEPT ![t] = @ + 1]

\* Tokens are out: message, citations, count and completion are one
\* transaction, which raises when the session or the claim is gone.
PersistAnswer(a) ==
    LET t == stream[a].turn IN
    /\ stream[a].pc = "streaming"
    /\ IF session # "deleted" /\ turn[t] = "answering"
       THEN /\ answers' = StoredAnswers(t)
            /\ turn' = [turn EXCEPT ![t] = "completed"]
            /\ SetStream(a, "persisted")
       ELSE SetStream(a, "failing") /\ UNCHANGED <<turn, answers>>
    /\ UNCHANGED <<session, att, doc, started, req, history>>

\* A mistake that ClaimsEnd excludes: cancellation is not an Exception.
AfterRaise_Uncaught == "idle"
AfterRaise == "failing"

\* Retrieval, the model or the store raised, or the connection was cut.
StreamRaises(a) ==
    /\ stream[a].pc \in {"streaming", "persisted"}
    /\ IF AfterRaise = "failing" THEN SetStream(a, "failing") ELSE DropStream(a)
    /\ UNCHANGED <<session, turn, att, doc, started, answers, req, history>>

CanFail(t) == turn[t] = "answering"

FailAnswer(a) ==
    LET t == stream[a].turn IN
    /\ stream[a].pc = "failing"
    /\ turn' = IF CanFail(t) THEN [turn EXCEPT ![t] = "answer_failed"] ELSE turn
    /\ DropStream(a)
    /\ UNCHANGED <<session, att, doc, started, answers, req, history>>

\* The claim is let go as it is.
AbandonTurn(a) ==
    LET t == stream[a].turn IN
    abandoned' = IF turn[t] = "answering" THEN abandoned \cup {t} ELSE abandoned

\* The handler awaits fail_answer unshielded: a second cancellation or an error
\* of the database ends it, and nobody calls fail_answer again.
FailAnswerRaises(a) ==
    /\ stream[a].pc = "failing"
    /\ AbandonTurn(a) /\ DropStream(a)
    /\ UNCHANGED <<session, turn, att, doc, started, answers, req, stranded>>

FinishStream(a) ==
    /\ stream[a].pc = "persisted"
    /\ DropStream(a)
    /\ UNCHANGED <<session, turn, att, doc, started, answers, req, history>>

\* The process dies, or the client leaves before the body is first read, so
\* that no handler of stream_answer runs.  An open transaction rolls back.
LoseStream(a) ==
    /\ stream[a].pc \in {"updating", "claimed", "streaming", "failing"}
    /\ IF stream[a].pc = "updating" THEN UNCHANGED abandoned ELSE AbandonTurn(a)
    /\ DropStream(a)
    /\ UNCHANGED <<session, turn, att, doc, started, answers, req, stranded>>

------------------------------------------------------------------------------
StreamStep(a) ==
    \/ ClaimUpdate(a) \/ ClaimScope(a) \/ StartStream(a) \/ PersistAnswer(a)
    \/ StreamRaises(a) \/ FailAnswer(a) \/ FailAnswerRaises(a) \/ FinishStream(a)

RequestStep(r) ==
    \/ Archive(r) \/ SetIgnored(r) \/ AddAttachment(r) \/ CreateDocument(r)
    \/ UploadFails(r) \/ LinkDocument(r) \/ IngestRefused(r) \/ IngestDocument(r)
    \/ IngestFails(r) \/ IngestFailRaises(r)

Next ==
    \/ Restore \/ DeleteSession
    \/ \E t \in Turns : CancelTurn(t) \/ \E S \in SUBSET Slots : CreateTurn(t, S)
    \/ \E r \in Requests :
        \/ BeginArchive(r) \/ RequestStep(r) \/ LoseUpload(r)
        \/ \E t \in Turns, s \in Slots :
            \/ BeginAdd(r, t, s)
            \/ \E flag \in BOOLEAN : BeginSetIgnored(r, t, s, flag)
            \/ \E d \in Docs : BeginUpload(r, t, s, d)
    \/ \E d \in Docs :
        \/ WorkflowFails(d) \/ WorkflowIndexes(d) \/ RetryDocument(d)
        \/ DeleteDocument(d) \/ FinishDelete(d)
    \/ \E t \in Turns, s \in Slots : RetryAttachment(t, s)
    \/ \E a \in Streams :
        \/ StreamStep(a) \/ LoseStream(a)
        \/ \E t \in Turns : PrepareAnswer(a, t)

Spec == Init /\ [][Next]_vars

\* The event loop runs every handler it has started; a stream in the hands of
\* the model ends by storing its answer or by raising (timeouts, cancellation);
\* Temporal runs the activities of a started workflow until they end.
Fairness ==
    /\ \A a \in Streams : WF_vars(StreamStep(a))
    /\ \A r \in Requests : WF_vars(RequestStep(r))
    /\ \A d \in Docs : WF_vars(WorkflowFails(d) \/ WorkflowIndexes(d))
FairSpec == Spec /\ Fairness

------------------------------------------------------------------------------
(* Properties *)

\* However many answer requests race for a turn, one stream at most holds its
\* claim, and until that stream stores or fails it the turn says answering.
SingleAnswerer ==
    \A a, b \in Streams :
        /\ stream[a].pc \in LivePc /\ stream[b].pc \in LivePc
           /\ stream[a].turn = stream[b].turn => a = b
        /\ stream[a].pc \in {"claimed", "streaming"} =>
           turn[stream[a].turn] \in {"answering", "gone"}

\* A turn has an assistant message exactly when it is completed, and never two.
OneAnswerPerTurn ==
    \A t \in Turns : answers[t] = IF turn[t] = "completed" THEN 1 ELSE 0

\* An answer is generated from documents that were linked to attachments of
\* its own turn, and never from an empty scope, which retrieval would read as
\* the whole space.
ScopeTrusted ==
    \A a \in Streams : stream[a].pc \in LivePc =>
        /\ stream[a].scope # {}
        /\ turn[stream[a].turn] # "gone" =>
           \A d \in stream[a].scope : \E s \in Slots : att[stream[a].turn][s].doc = d

\* Concurrent additions never take a turn past MAX_ATTACHMENTS.
AttachmentLimit == \A t \in Turns : Cardinality(Declared(t)) <= MaxAttachments

LinkedPending(d) == doc[d] = "pending" /\ \E t \in Turns, s \in Slots : att[t][s].doc = d

\* A document that an attachment waits for is in somebody's hands: a workflow
\* runs, or the request that linked it is about to start one or to report that
\* it could not.  Only a request that was refused, lost or could not even report
\* leaves it pending for good, which no retry accepts.
StuckHasCause ==
    \A d \in Docs :
        LinkedPending(d) =>
            \/ d \in started
            \/ \E r \in Requests : req[r].pc \in {"linked", "raised"} /\ req[r].doc = d
            \/ d \in stranded

\* Once an attachment has a document it keeps that document, and no other
\* attachment gets it, while the session exists.
LinkedForGood ==
    [][session' # "deleted" =>
        /\ \A t \in Turns, s \in Slots :
              att[t][s].doc # None => att'[t][s].doc = att[t][s].doc
        /\ \A t, u \in Turns, s, v \in Slots :
              att'[t][s].doc = att'[u][v].doc /\ att'[t][s].doc # None
                  => t = u /\ s = v]_vars

\* A completed answer is not failed by a late disconnect and a cancelled turn
\* is not answered after all: neither status is ever left.
TerminalIsFinal ==
    [][\A t \in Turns : turn[t] \in {"completed", "cancelled"} =>
            turn'[t] \in {turn[t], "gone"}]_vars

\* The turns implement TurnLifecycle; the owner of a turn is the live stream
\* whose claim it carries.
Owner(t) ==
    LET live == {a \in Streams : stream[a].pc \in LivePc /\ stream[a].turn = t} IN
    IF turn[t] = "answering" /\ live # {} THEN CHOOSE a \in live : TRUE ELSE None

Lifecycle == INSTANCE TurnLifecycle
    WITH Workers <- Streams, status <- turn,
         owner <- [t \in Turns |-> Owner(t)], answers <- answers

TurnsImplement == Lifecycle!Spec

\* A turn does not stay in answering.
ClaimsResolve == \A t \in Turns : turn[t] = "answering" ~> turn[t] # "answering"

\* What is left of that: the stream that claimed a turn stores the answer or
\* fails the turn, unless it was lost or fail_answer itself did not get through.
ClaimsEnd ==
    \A t \in Turns : turn[t] = "answering" ~> turn[t] # "answering" \/ t \in abandoned

\* An attachment does not stay ingesting for ever: a linked document leaves
\* pending, be it by failing, which the user can retry, unless the request that
\* was to start its workflow gave it up.
UploadsSettle == \A d \in Docs : LinkedPending(d) ~> ~LinkedPending(d) \/ d \in stranded
=============================================================================
