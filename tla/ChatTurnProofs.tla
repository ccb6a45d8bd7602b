--------------------------- MODULE ChatTurnProofs ---------------------------
(***************************************************************************)
(* Theorems about ChatTurn, for every set of turns, attachments, documents *)
(* and requests.  TypeInv types the state; ClaimInv adds that the status   *)
(* of a turn and the step of the stream that works on it move together,    *)
(* and the safety of the claim follows from it, as does that every step of *)
(* the handlers is a step of the abstract turn, or leaves it alone.        *)
(* FileInv follows a document from the request that draws its id to the    *)
(* attachment that keeps it: which document belongs to which attachment,   *)
(* in whose hands it is until then, and what an answer may be made from.   *)
(***************************************************************************)
EXTENDS ChatTurn, FiniteSetTheorems, TLAPS

------------------------------------------------------------------------------
(* Typing *)

RowsTyped ==
    /\ session \in {"open", "archived", "deleted"}
    /\ turn \in [Turns -> TurnStatus \cup {"absent", "gone"}]
    /\ doc \in [Docs -> DocStatus]
    /\ started \in SUBSET Docs
    /\ answers \in [Turns -> Nat]
    /\ stranded \in SUBSET Docs /\ abandoned \in SUBSET Turns

\* A file that is uploaded has a document.
FilesTyped ==
    /\ att \in [Turns -> [Slots -> File]]
    /\ \A t \in Turns, s \in Slots : att[t][s].upload = "uploaded" => att[t][s].doc \in Docs

\* A stream that is at work has a turn.
StreamsTyped ==
    /\ stream \in [Streams -> StreamState]
    /\ \A a \in Streams : stream[a].pc # "idle" => stream[a].turn \in Turns

\* A request that is at work has an attachment, one that uploads a document.
RequestTyped(q) ==
    /\ q.pc \in {"ignore", "add", "upload", "created", "linked", "raised"} => q.turn \in Turns /\ q.slot \in Slots
    /\ q.pc \in {"upload", "created", "linked", "raised"} => q.doc \in Docs
RequestsTyped ==
    /\ req \in [Requests -> RequestState]
    /\ \A r \in Requests : RequestTyped(req[r])

\* TypeOK with what it needs to be inductive.
TypeInv == RowsTyped /\ FilesTyped /\ StreamsTyped /\ RequestsTyped

\* The inductive typing implies the type invariant of the specification.
LEMMA TypeInvImplies == TypeInv => TypeOK
  BY DEF TypeInv, TypeOK, RowsTyped, FilesTyped, StreamsTyped, RequestsTyped

\* An empty session is typed.
LEMMA TypeInit == Init => TypeInv
<1> SUFFICES ASSUME Init PROVE TypeInv
  OBVIOUS
<1>1. RowsTyped
  BY DEF Init, RowsTyped, DocStatus, TurnStatus, Retryable
<1>2. FilesTyped
  BY DEF Init, FilesTyped, NoFile, File
<1>3. StreamsTyped
  BY DEF Init, StreamsTyped, NoStream, StreamState, StreamPc
<1>4. RequestsTyped
  BY DEF Init, RequestsTyped, RequestTyped, NoRequest, RequestState, RequestPc
<1> QED
  BY <1>1, <1>2, <1>3, <1>4 DEF TypeInv

\* A stream may become any typed one that has a turn when it is at work.
LEMMA StreamChanged ==
  ASSUME StreamsTyped, NEW a \in Streams, NEW w \in StreamState,
         w.pc # "idle" => w.turn \in Turns, stream' = [stream EXCEPT ![a] = w]
  PROVE  StreamsTyped'
  BY DEF StreamsTyped

\* A stream at work that goes to another step keeps its turn.
LEMMA StreamMoved ==
  ASSUME StreamsTyped, NEW a \in Streams, NEW p \in StreamPc, stream[a].pc # "idle", SetStream(a, p)
  PROVE  StreamsTyped'
<1> DEFINE w == [stream[a] EXCEPT !.pc = p]
<1>1. w \in StreamState
  BY DEF StreamsTyped, StreamState
<1>2. w.turn \in Turns
  BY DEF StreamsTyped, StreamState
<1>3. stream' = [stream EXCEPT ![a] = w]
  BY DEF SetStream
<1> QED
  BY <1>1, <1>2, <1>3, StreamChanged

\* A stream that ends is typed.
LEMMA StreamDropped ==
  ASSUME StreamsTyped, NEW a \in Streams, DropStream(a)
  PROVE  StreamsTyped'
  BY StreamChanged DEF DropStream, NoStream, StreamState, StreamPc

\* A request may become any typed one.
LEMMA RequestChanged ==
  ASSUME RequestsTyped, NEW r \in Requests, NEW q \in RequestState, RequestTyped(q),
         req' = [req EXCEPT ![r] = q]
  PROVE  RequestsTyped'
  BY DEF RequestsTyped

\* A request that ends is typed.
LEMMA RequestDropped ==
  ASSUME RequestsTyped, NEW r \in Requests, DropRequest(r)
  PROVE  RequestsTyped'
<1>1. NoRequest \in RequestState /\ RequestTyped(NoRequest)
  BY DEF NoRequest, RequestState, RequestPc, RequestTyped
<1> QED
  BY <1>1, RequestChanged DEF DropRequest

\* An attachment may become any typed one that has a document when uploaded.
LEMMA FileChanged ==
  ASSUME FilesTyped, NEW t \in Turns, NEW s \in Slots, NEW f \in File,
         f.upload = "uploaded" => f.doc \in Docs, att' = [att EXCEPT ![t][s] = f]
  PROVE  FilesTyped'
<1>1. att' \in [Turns -> [Slots -> File]]
  BY DEF FilesTyped
<1>2. ASSUME NEW u \in Turns, NEW v \in Slots PROVE att'[u][v] = IF u = t /\ v = s THEN f ELSE att[u][v]
  BY DEF FilesTyped
<1> QED
  BY <1>1, <1>2 DEF FilesTyped

\* Every step of every handler keeps the typing.
LEMMA TypeStep == TypeInv /\ [Next]_vars => TypeInv'
<1> SUFFICES ASSUME TypeInv, [Next]_vars PROVE TypeInv'
  OBVIOUS
<1> USE DEF TypeInv, history
<1>1. ASSUME Restore PROVE TypeInv'
  <2>1. RowsTyped'
    BY <1>1 DEF Restore, RowsTyped, TurnStatus, Retryable, DocStatus
  <2>2. FilesTyped'
    BY <1>1 DEF Restore, FilesTyped
  <2>3. StreamsTyped'
    BY <1>1 DEF Restore, StreamsTyped
  <2>4. RequestsTyped'
    BY <1>1 DEF Restore, RequestsTyped, RequestTyped
  <2> QED
    BY <2>1, <2>2, <2>3, <2>4
<1>2. ASSUME DeleteSession PROVE TypeInv'
  <2>1. RowsTyped'
    BY <1>2 DEF DeleteSession, RowsTyped
  <2>2. FilesTyped'
    BY <1>2 DEF DeleteSession, FilesTyped, NoFile, File
  <2>3. StreamsTyped'
    BY <1>2 DEF DeleteSession, StreamsTyped
  <2>4. RequestsTyped'
    BY <1>2 DEF DeleteSession, RequestsTyped, RequestTyped
  <2> QED
    BY <2>1, <2>2, <2>3, <2>4
<1>3. ASSUME NEW t \in Turns, CancelTurn(t) PROVE TypeInv'
  <2>1. RowsTyped'
    BY <1>3 DEF CancelTurn, RowsTyped, TurnStatus, Retryable, DocStatus, CanCancel
  <2>2. FilesTyped'
    BY <1>3 DEF CancelTurn, FilesTyped
  <2>3. StreamsTyped'
    BY <1>3 DEF CancelTurn, StreamsTyped
  <2>4. RequestsTyped'
    BY <1>3 DEF CancelTurn, RequestsTyped, RequestTyped
  <2> QED
    BY <2>1, <2>2, <2>3, <2>4
<1>4. ASSUME NEW t \in Turns, NEW S \in SUBSET Slots, CreateTurn(t, S) PROVE TypeInv'
  <2>1. RowsTyped'
    BY <1>4 DEF CreateTurn, RowsTyped, TurnStatus, Retryable, DocStatus
  <2>2. FilesTyped'
    BY <1>4 DEF CreateTurn, FilesTyped, NewFile, NoFile, File
  <2>3. StreamsTyped'
    BY <1>4 DEF CreateTurn, StreamsTyped
  <2>4. RequestsTyped'
    BY <1>4 DEF CreateTurn, RequestsTyped, RequestTyped
  <2> QED
    BY <2>1, <2>2, <2>3, <2>4
<1>5. ASSUME NEW r \in Requests, BeginArchive(r) PROVE TypeInv'
  <2>1. RowsTyped'
    BY <1>5 DEF BeginArchive, RowsTyped, TurnStatus, Retryable, DocStatus
  <2>2. FilesTyped'
    BY <1>5 DEF BeginArchive, FilesTyped
  <2>3. StreamsTyped'
    BY <1>5 DEF BeginArchive, StreamsTyped
  <2>4. RequestsTyped'
    <3> DEFINE q == [req[r] EXCEPT !.pc = "archive"]
    <3>1. q \in RequestState /\ RequestTyped(q)
      BY <1>5 DEF BeginArchive, RequestsTyped, RequestTyped, RequestState, RequestPc
    <3>2. req' = [req EXCEPT ![r] = q]
      BY <1>5 DEF BeginArchive
    <3> QED
      BY <3>1, <3>2, RequestChanged
  <2> QED
    BY <2>1, <2>2, <2>3, <2>4
<1>6. ASSUME NEW r \in Requests, Archive(r) PROVE TypeInv'
  <2>1. RowsTyped'
    BY <1>6 DEF Archive, RowsTyped, TurnStatus, Retryable, DocStatus
  <2>2. FilesTyped'
    BY <1>6 DEF Archive, FilesTyped
  <2>3. StreamsTyped'
    BY <1>6 DEF Archive, StreamsTyped
  <2>4. RequestsTyped'
    BY <1>6, RequestDropped DEF Archive
  <2> QED
    BY <2>1, <2>2, <2>3, <2>4
<1>7. ASSUME NEW r \in Requests, SetIgnored(r) PROVE TypeInv'
  <2>1. RowsTyped'
    BY <1>7 DEF SetIgnored, RowsTyped, TurnStatus, Retryable, DocStatus
  <2>2. FilesTyped'
    <3> DEFINE t == req[r].turn
           s == req[r].slot
           f == [att[t][s] EXCEPT !.ignored = req[r].flag]
    <3>1. CASE att' = att
      BY <3>1 DEF FilesTyped
    <3>2. CASE att' # att
      <4>1. t \in Turns /\ s \in Slots
        BY <1>7 DEF SetIgnored, RequestsTyped, RequestTyped
      <4>2. f \in File /\ (f.upload = "uploaded" => f.doc \in Docs)
        BY <1>7, <4>1 DEF SetIgnored, FilesTyped, RequestsTyped, RequestTyped, RequestState, File, Declared
      <4>3. att' = [att EXCEPT ![t][s] = f]
        BY <1>7, <3>2 DEF SetIgnored
      <4> QED
        BY <4>1, <4>2, <4>3, FileChanged
    <3> QED
      BY <3>1, <3>2
  <2>3. StreamsTyped'
    BY <1>7 DEF SetIgnored, StreamsTyped
  <2>4. RequestsTyped'
    BY <1>7, RequestDropped DEF SetIgnored
  <2> QED
    BY <2>1, <2>2, <2>3, <2>4
<1>8. ASSUME NEW r \in Requests, AddAttachment(r) PROVE TypeInv'
  <2>1. RowsTyped'
    BY <1>8 DEF AddAttachment, RowsTyped, TurnStatus, Retryable, DocStatus
  <2>2. FilesTyped'
    <3> DEFINE t == req[r].turn
           s == req[r].slot
           f == NewFile
    <3>1. CASE att' = att
      BY <3>1 DEF FilesTyped
    <3>2. CASE att' # att
      <4>1. t \in Turns /\ s \in Slots
        BY <1>8 DEF AddAttachment, RequestsTyped, RequestTyped
      <4>2. f \in File /\ (f.upload = "uploaded" => f.doc \in Docs)
        BY <1>8, <4>1 DEF AddAttachment, FilesTyped, RequestsTyped, RequestTyped, RequestState, File, NewFile, NoFile
      <4>3. att' = [att EXCEPT ![t][s] = f]
        BY <1>8, <3>2 DEF AddAttachment
      <4> QED
        BY <4>1, <4>2, <4>3, FileChanged
    <3> QED
      BY <3>1, <3>2
  <2>3. StreamsTyped'
    BY <1>8 DEF AddAttachment, StreamsTyped
  <2>4. RequestsTyped'
    BY <1>8, RequestDropped DEF AddAttachment
  <2> QED
    BY <2>1, <2>2, <2>3, <2>4
<1>9. ASSUME NEW r \in Requests, CreateDocument(r) PROVE TypeInv'
  <2>1. RowsTyped'
    BY <1>9 DEF CreateDocument, RowsTyped, TurnStatus, Retryable, DocStatus
  <2>2. FilesTyped'
    BY <1>9 DEF CreateDocument, FilesTyped
  <2>3. StreamsTyped'
    BY <1>9 DEF CreateDocument, StreamsTyped
  <2>4. RequestsTyped'
    <3> DEFINE q == [req[r] EXCEPT !.pc = "created"]
    <3>1. q \in RequestState /\ RequestTyped(q)
      BY <1>9 DEF CreateDocument, RequestsTyped, RequestTyped, RequestState, RequestPc
    <3>2. req' = [req EXCEPT ![r] = q]
      BY <1>9 DEF CreateDocument
    <3> QED
      BY <3>1, <3>2, RequestChanged
  <2> QED
    BY <2>1, <2>2, <2>3, <2>4
<1>10. ASSUME NEW r \in Requests, UploadFails(r) PROVE TypeInv'
  <2>1. RowsTyped'
    BY <1>10 DEF UploadFails, RowsTyped, TurnStatus, Retryable, DocStatus
  <2>2. FilesTyped'
    <3> DEFINE t == req[r].turn
           s == req[r].slot
           f == [att[t][s] EXCEPT !.upload = "failed"]
    <3>1. CASE att' = att
      BY <3>1 DEF FilesTyped
    <3>2. CASE att' # att
      <4>1. t \in Turns /\ s \in Slots
        BY <1>10 DEF UploadFails, RequestsTyped, RequestTyped
      <4>2. f \in File /\ (f.upload = "uploaded" => f.doc \in Docs)
        <5>1. att[t][s] \in File
          BY <4>1 DEF FilesTyped
        <5> QED
          BY <5>1 DEF File
      <4>3. att' = [att EXCEPT ![t][s] = f]
        BY <1>10, <3>2 DEF UploadFails
      <4> QED
        BY <4>1, <4>2, <4>3, FileChanged
    <3> QED
      BY <3>1, <3>2
  <2>3. StreamsTyped'
    BY <1>10 DEF UploadFails, StreamsTyped
  <2>4. RequestsTyped'
    BY <1>10, RequestDropped DEF UploadFails
  <2> QED
    BY <2>1, <2>2, <2>3, <2>4
<1>11. ASSUME NEW r \in Requests, LinkDocument(r) PROVE TypeInv'
  <2>1. RowsTyped'
    BY <1>11 DEF LinkDocument, RowsTyped, TurnStatus, Retryable, DocStatus
  <2>2. FilesTyped'
    <3> DEFINE t == req[r].turn
           s == req[r].slot
           f == [att[t][s] EXCEPT !.doc = req[r].doc, !.upload = "uploaded"]
    <3>1. CASE att' = att
      BY <3>1 DEF FilesTyped
    <3>2. CASE att' # att
      <4>1. t \in Turns /\ s \in Slots
        BY <1>11 DEF LinkDocument, RequestsTyped, RequestTyped
      <4>2. f \in File /\ (f.upload = "uploaded" => f.doc \in Docs)
        <5>1. req[r].doc \in Docs
          BY <1>11 DEF LinkDocument, RequestsTyped, RequestTyped
        <5>2. att[t][s] \in File
          BY <4>1 DEF FilesTyped
        <5> QED
          BY <5>1, <5>2 DEF File
      <4>3. att' = [att EXCEPT ![t][s] = f]
        BY <1>11, <3>2 DEF LinkDocument
      <4> QED
        BY <4>1, <4>2, <4>3, FileChanged
    <3> QED
      BY <3>1, <3>2
  <2>3. StreamsTyped'
    BY <1>11 DEF LinkDocument, StreamsTyped
  <2>4. RequestsTyped'
    <3> DEFINE q == [req[r] EXCEPT !.pc = "linked"]
    <3>1. CASE DropRequest(r)
      BY <3>1, RequestDropped
    <3>2. CASE req' = [req EXCEPT ![r] = q]
      <4>1. q \in RequestState /\ RequestTyped(q)
        BY <1>11 DEF LinkDocument, RequestsTyped, RequestTyped, RequestState, RequestPc
      <4> QED
        BY <3>2, <4>1, RequestChanged
    <3> QED
      BY <1>11, <3>1, <3>2 DEF LinkDocument
  <2> QED
    BY <2>1, <2>2, <2>3, <2>4
<1>12. ASSUME NEW r \in Requests, IngestDocument(r) PROVE TypeInv'
  <2>0. req[r].doc \in Docs
    BY <1>12 DEF IngestDocument, RequestsTyped, RequestTyped
  <2>1. RowsTyped'
    BY <1>12, <2>0 DEF IngestDocument, RowsTyped
  <2>2. FilesTyped'
    BY <1>12 DEF IngestDocument, FilesTyped
  <2>3. StreamsTyped'
    BY <1>12 DEF IngestDocument, StreamsTyped
  <2>4. RequestsTyped'
    <3> DEFINE q == [req[r] EXCEPT !.pc = "raised"]
    <3>1. CASE DropRequest(r)
      BY <3>1, RequestDropped
    <3>2. CASE req' = [req EXCEPT ![r] = q]
      <4>1. q \in RequestState /\ RequestTyped(q)
        BY <1>12 DEF IngestDocument, RequestsTyped, RequestTyped, RequestState, RequestPc
      <4> QED
        BY <3>2, <4>1, RequestChanged
    <3> QED
      BY <1>12, <3>1, <3>2 DEF IngestDocument
  <2> QED
    BY <2>1, <2>2, <2>3, <2>4
<1>13. ASSUME NEW r \in Requests, LoseUpload(r) \/ IngestRefused(r) \/ IngestFails(r) \/ IngestFailRaises(r)
       PROVE  TypeInv'
  <2> USE DEF LoseUpload, IngestRefused, IngestFails, IngestFailRaises
  <2>0. req[r].pc \in {"linked", "raised"} => req[r].doc \in Docs
    BY DEF RequestsTyped, RequestTyped
  <2>1. RowsTyped'
    <3>1. CASE IngestFails(r)
      BY <2>0, <3>1 DEF RowsTyped, StartFails, DocStatus
    <3>2. CASE ~IngestFails(r)
      BY <1>13, <2>0, <3>2 DEF RowsTyped, Strand
    <3> QED
      BY <3>1, <3>2
  <2>2. FilesTyped'
    BY <1>13 DEF FilesTyped
  <2>3. StreamsTyped'
    BY <1>13 DEF StreamsTyped
  <2>4. RequestsTyped'
    BY <1>13, RequestDropped
  <2> QED
    BY <2>1, <2>2, <2>3, <2>4
<1>14. ASSUME NEW r \in Requests, NEW t \in Turns, NEW s \in Slots, BeginAdd(r, t, s) PROVE TypeInv'
  <2>1. RowsTyped'
    BY <1>14 DEF BeginAdd, RowsTyped, TurnStatus, Retryable, DocStatus
  <2>2. FilesTyped'
    BY <1>14 DEF BeginAdd, FilesTyped
  <2>3. StreamsTyped'
    BY <1>14 DEF BeginAdd, StreamsTyped
  <2>4. RequestsTyped'
    <3> DEFINE q == [req[r] EXCEPT !.pc = "add", !.turn = t, !.slot = s]
    <3>1. q \in RequestState /\ RequestTyped(q)
      BY <1>14 DEF BeginAdd, RequestsTyped, RequestTyped, RequestState, RequestPc
    <3>2. req' = [req EXCEPT ![r] = q]
      BY <1>14 DEF BeginAdd
    <3> QED
      BY <3>1, <3>2, RequestChanged
  <2> QED
    BY <2>1, <2>2, <2>3, <2>4
<1>15. ASSUME NEW r \in Requests, NEW t \in Turns, NEW s \in Slots, NEW flag \in BOOLEAN, BeginSetIgnored(r, t, s, flag) PROVE TypeInv'
  <2>1. RowsTyped'
    BY <1>15 DEF BeginSetIgnored, RowsTyped, TurnStatus, Retryable, DocStatus
  <2>2. FilesTyped'
    BY <1>15 DEF BeginSetIgnored, FilesTyped
  <2>3. StreamsTyped'
    BY <1>15 DEF BeginSetIgnored, StreamsTyped
  <2>4. RequestsTyped'
    <3> DEFINE q == [req[r] EXCEPT !.pc = "ignore", !.turn = t,
                       !.slot = s, !.flag = flag]
    <3>1. q \in RequestState /\ RequestTyped(q)
      BY <1>15 DEF BeginSetIgnored, RequestsTyped, RequestTyped, RequestState, RequestPc
    <3>2. req' = [req EXCEPT ![r] = q]
      BY <1>15 DEF BeginSetIgnored
    <3> QED
      BY <3>1, <3>2, RequestChanged
  <2> QED
    BY <2>1, <2>2, <2>3, <2>4
<1>16. ASSUME NEW r \in Requests, NEW t \in Turns, NEW s \in Slots, NEW d \in Docs, BeginUpload(r, t, s, d) PROVE TypeInv'
  <2>1. RowsTyped'
    BY <1>16 DEF BeginUpload, RowsTyped, TurnStatus, Retryable, DocStatus
  <2>2. FilesTyped'
    BY <1>16 DEF BeginUpload, FilesTyped
  <2>3. StreamsTyped'
    BY <1>16 DEF BeginUpload, StreamsTyped
  <2>4. RequestsTyped'
    <3> DEFINE q == [req[r] EXCEPT !.pc = "upload", !.turn = t,
                       !.slot = s, !.doc = d]
    <3>1. q \in RequestState /\ RequestTyped(q)
      BY <1>16 DEF BeginUpload, RequestsTyped, RequestTyped, RequestState, RequestPc
    <3>2. req' = [req EXCEPT ![r] = q]
      BY <1>16 DEF BeginUpload
    <3> QED
      BY <3>1, <3>2, RequestChanged
  <2> QED
    BY <2>1, <2>2, <2>3, <2>4
<1>17. ASSUME NEW d \in Docs, WorkflowFails(d) PROVE TypeInv'
  <2>1. RowsTyped'
    BY <1>17 DEF WorkflowFails, RowsTyped, TurnStatus, Retryable, DocStatus
  <2>2. FilesTyped'
    BY <1>17 DEF WorkflowFails, FilesTyped
  <2>3. StreamsTyped'
    BY <1>17 DEF WorkflowFails, StreamsTyped
  <2>4. RequestsTyped'
    BY <1>17 DEF WorkflowFails, RequestsTyped, RequestTyped
  <2> QED
    BY <2>1, <2>2, <2>3, <2>4
<1>18. ASSUME NEW d \in Docs, WorkflowIndexes(d) PROVE TypeInv'
  <2>1. RowsTyped'
    BY <1>18 DEF WorkflowIndexes, RowsTyped, TurnStatus, Retryable, DocStatus
  <2>2. FilesTyped'
    BY <1>18 DEF WorkflowIndexes, FilesTyped
  <2>3. StreamsTyped'
    BY <1>18 DEF WorkflowIndexes, StreamsTyped
  <2>4. RequestsTyped'
    BY <1>18 DEF WorkflowIndexes, RequestsTyped, RequestTyped
  <2> QED
    BY <2>1, <2>2, <2>3, <2>4
<1>19. ASSUME NEW d \in Docs, RetryDocument(d) PROVE TypeInv'
  <2>1. RowsTyped'
    BY <1>19 DEF RetryDocument, RowsTyped, TurnStatus, Retryable, DocStatus
  <2>2. FilesTyped'
    BY <1>19 DEF RetryDocument, FilesTyped
  <2>3. StreamsTyped'
    BY <1>19 DEF RetryDocument, StreamsTyped
  <2>4. RequestsTyped'
    BY <1>19 DEF RetryDocument, RequestsTyped, RequestTyped
  <2> QED
    BY <2>1, <2>2, <2>3, <2>4
<1>20. ASSUME NEW d \in Docs, DeleteDocument(d) PROVE TypeInv'
  <2>1. RowsTyped'
    BY <1>20 DEF DeleteDocument, RowsTyped, TurnStatus, Retryable, DocStatus
  <2>2. FilesTyped'
    BY <1>20 DEF DeleteDocument, FilesTyped
  <2>3. StreamsTyped'
    BY <1>20 DEF DeleteDocument, StreamsTyped
  <2>4. RequestsTyped'
    BY <1>20 DEF DeleteDocument, RequestsTyped, RequestTyped
  <2> QED
    BY <2>1, <2>2, <2>3, <2>4
<1>21. ASSUME NEW d \in Docs, FinishDelete(d) PROVE TypeInv'
  <2>1. RowsTyped'
    BY <1>21 DEF FinishDelete, RowsTyped, TurnStatus, Retryable, DocStatus
  <2>2. FilesTyped'
    BY <1>21 DEF FinishDelete, FilesTyped
  <2>3. StreamsTyped'
    BY <1>21 DEF FinishDelete, StreamsTyped
  <2>4. RequestsTyped'
    BY <1>21 DEF FinishDelete, RequestsTyped, RequestTyped
  <2> QED
    BY <2>1, <2>2, <2>3, <2>4
<1>22. ASSUME NEW t \in Turns, NEW s \in Slots, RetryAttachment(t, s) PROVE TypeInv'
  <2>1. RowsTyped'
    BY <1>22 DEF RetryAttachment, RowsTyped, TurnStatus, Retryable, DocStatus, RetryDocument, FilesTyped, File
  <2>2. FilesTyped'
    BY <1>22 DEF RetryAttachment, RetryDocument, FilesTyped
  <2>3. StreamsTyped'
    BY <1>22 DEF RetryAttachment, RetryDocument, StreamsTyped
  <2>4. RequestsTyped'
    BY <1>22 DEF RetryAttachment, RetryDocument, RequestsTyped, RequestTyped
  <2> QED
    BY <2>1, <2>2, <2>3, <2>4
<1>23. ASSUME NEW a \in Streams, ClaimUpdate(a) PROVE TypeInv'
  <2>1. RowsTyped'
    BY <1>23 DEF ClaimUpdate, RowsTyped, TurnStatus, Retryable, DocStatus
  <2>2. FilesTyped'
    BY <1>23 DEF ClaimUpdate, FilesTyped
  <2>3. StreamsTyped'
    BY <1>23, StreamMoved, StreamDropped DEF ClaimUpdate, StreamPc, LivePc
  <2>4. RequestsTyped'
    BY <1>23 DEF ClaimUpdate, RequestsTyped, RequestTyped
  <2> QED
    BY <2>1, <2>2, <2>3, <2>4
<1>24. ASSUME NEW a \in Streams, ClaimScope(a) PROVE TypeInv'
  <2>1. RowsTyped'
    BY <1>24 DEF ClaimScope, RowsTyped, TurnStatus, Retryable, DocStatus
  <2>2. FilesTyped'
    BY <1>24 DEF ClaimScope, FilesTyped
  <2>3. StreamsTyped'
    <3> DEFINE w == [stream[a] EXCEPT !.pc = "claimed",
                  !.scope = {att[stream[a].turn][s].doc : s \in InScope(stream[a].turn)}]
    <3>1. CASE DropStream(a)
      BY <3>1, StreamDropped
    <3>2. CASE stream' = [stream EXCEPT ![a] = w]
      <4>1. stream[a].turn \in Turns
        BY <1>24 DEF ClaimScope, StreamsTyped
      <4>2. w.scope \in SUBSET Docs
        BY <4>1 DEF FilesTyped, InScope, Active, Declared
      <4>3. w \in StreamState /\ w.turn \in Turns
        BY <4>1, <4>2 DEF StreamsTyped, StreamState, StreamPc, LivePc
      <4> QED
        BY <3>2, <4>3, StreamChanged
    <3> QED
      BY <1>24, <3>1, <3>2 DEF ClaimScope
  <2>4. RequestsTyped'
    BY <1>24 DEF ClaimScope, RequestsTyped, RequestTyped
  <2> QED
    BY <2>1, <2>2, <2>3, <2>4
<1>25. ASSUME NEW a \in Streams, StartStream(a) PROVE TypeInv'
  <2>1. RowsTyped'
    BY <1>25 DEF StartStream, RowsTyped, TurnStatus, Retryable, DocStatus
  <2>2. FilesTyped'
    BY <1>25 DEF StartStream, FilesTyped
  <2>3. StreamsTyped'
    BY <1>25, StreamMoved DEF StartStream, StreamPc, LivePc
  <2>4. RequestsTyped'
    BY <1>25 DEF StartStream, RequestsTyped, RequestTyped
  <2> QED
    BY <2>1, <2>2, <2>3, <2>4
<1>26. ASSUME NEW a \in Streams, PersistAnswer(a) PROVE TypeInv'
  <2>1. RowsTyped'
    BY <1>26 DEF PersistAnswer, RowsTyped, TurnStatus, Retryable, DocStatus, StoredAnswers
  <2>2. FilesTyped'
    BY <1>26 DEF PersistAnswer, FilesTyped
  <2>3. StreamsTyped'
    BY <1>26, StreamMoved, StreamDropped DEF PersistAnswer, StreamPc, LivePc
  <2>4. RequestsTyped'
    BY <1>26 DEF PersistAnswer, RequestsTyped, RequestTyped
  <2> QED
    BY <2>1, <2>2, <2>3, <2>4
<1>27. ASSUME NEW a \in Streams, StreamRaises(a) PROVE TypeInv'
  <2>1. RowsTyped'
    BY <1>27 DEF StreamRaises, RowsTyped, TurnStatus, Retryable, DocStatus
  <2>2. FilesTyped'
    BY <1>27 DEF StreamRaises, FilesTyped
  <2>3. StreamsTyped'
    <3>1. SetStream(a, "failing")
      BY <1>27 DEF StreamRaises, AfterRaise
    <3>2. "failing" \in StreamPc /\ stream[a].pc # "idle"
      BY <1>27 DEF StreamRaises, StreamPc, LivePc
    <3> QED
      BY <3>1, <3>2, StreamMoved
  <2>4. RequestsTyped'
    BY <1>27 DEF StreamRaises, RequestsTyped, RequestTyped
  <2> QED
    BY <2>1, <2>2, <2>3, <2>4
<1>28. ASSUME NEW a \in Streams, FailAnswer(a) PROVE TypeInv'
  <2>1. RowsTyped'
    BY <1>28 DEF FailAnswer, RowsTyped, TurnStatus, Retryable, DocStatus
  <2>2. FilesTyped'
    BY <1>28 DEF FailAnswer, FilesTyped
  <2>3. StreamsTyped'
    BY <1>28, StreamDropped DEF FailAnswer
  <2>4. RequestsTyped'
    BY <1>28 DEF FailAnswer, RequestsTyped, RequestTyped
  <2> QED
    BY <2>1, <2>2, <2>3, <2>4
<1>33. ASSUME NEW a \in Streams, FailAnswerRaises(a) PROVE TypeInv'
  <2>1. RowsTyped'
    BY <1>33 DEF FailAnswerRaises, AbandonTurn, RowsTyped, StreamsTyped
  <2>2. FilesTyped'
    BY <1>33 DEF FailAnswerRaises, FilesTyped
  <2>3. StreamsTyped'
    BY <1>33, StreamDropped DEF FailAnswerRaises
  <2>4. RequestsTyped'
    BY <1>33 DEF FailAnswerRaises, RequestsTyped, RequestTyped
  <2> QED
    BY <2>1, <2>2, <2>3, <2>4
<1>29. ASSUME NEW a \in Streams, FinishStream(a) PROVE TypeInv'
  <2>1. RowsTyped'
    BY <1>29 DEF FinishStream, RowsTyped, TurnStatus, Retryable, DocStatus
  <2>2. FilesTyped'
    BY <1>29 DEF FinishStream, FilesTyped
  <2>3. StreamsTyped'
    BY <1>29, StreamDropped DEF FinishStream
  <2>4. RequestsTyped'
    BY <1>29 DEF FinishStream, RequestsTyped, RequestTyped
  <2> QED
    BY <2>1, <2>2, <2>3, <2>4
<1>30. ASSUME NEW a \in Streams, LoseStream(a) PROVE TypeInv'
  <2>1. RowsTyped'
    BY <1>30 DEF LoseStream, AbandonTurn, RowsTyped, StreamsTyped
  <2>2. FilesTyped'
    BY <1>30 DEF LoseStream, FilesTyped
  <2>3. StreamsTyped'
    BY <1>30, StreamDropped DEF LoseStream
  <2>4. RequestsTyped'
    BY <1>30 DEF LoseStream, RequestsTyped, RequestTyped
  <2> QED
    BY <2>1, <2>2, <2>3, <2>4
<1>31. ASSUME NEW a \in Streams, NEW t \in Turns, PrepareAnswer(a, t) PROVE TypeInv'
  <2>1. RowsTyped'
    BY <1>31 DEF PrepareAnswer, RowsTyped, TurnStatus, Retryable, DocStatus
  <2>2. FilesTyped'
    BY <1>31 DEF PrepareAnswer, FilesTyped
  <2>3. StreamsTyped'
    <3> DEFINE w == [stream[a] EXCEPT !.pc = "prepared", !.turn = t]
    <3>1. w \in StreamState /\ w.turn \in Turns
      BY <1>31 DEF PrepareAnswer, StreamsTyped, StreamState, StreamPc
    <3>2. stream' = [stream EXCEPT ![a] = w]
      BY <1>31 DEF PrepareAnswer
    <3> QED
      BY <3>1, <3>2, StreamChanged
  <2>4. RequestsTyped'
    BY <1>31 DEF PrepareAnswer, RequestsTyped, RequestTyped
  <2> QED
    BY <2>1, <2>2, <2>3, <2>4
<1>32. CASE UNCHANGED vars
  BY <1>32 DEF vars, RowsTyped, FilesTyped, StreamsTyped, RequestsTyped, RequestTyped
<1> QED
  BY <1>1, <1>2, <1>3, <1>4, <1>5, <1>6, <1>7, <1>8, <1>9, <1>10, <1>11, <1>12, <1>13, <1>14, <1>15, <1>16, <1>17, <1>18, <1>19, <1>20, <1>21, <1>22, <1>23, <1>24, <1>25, <1>26, <1>27, <1>28, <1>29, <1>30, <1>31, <1>32, <1>33 DEF Next, StreamStep, RequestStep

\* The rows and the processes keep their types, whatever the constants are.
THEOREM Typing == Spec => []TypeOK
<1>1. Spec => []TypeInv
  BY TypeInit, TypeStep, PTL DEF Spec
<1> QED
  BY <1>1, TypeInvImplies, PTL

------------------------------------------------------------------------------
(* The claim *)

\* A stream that holds the row lock of a claim, or the claim itself.
Holding(a) == stream[a].pc \in LivePc \cup {"updating"}

\* What the status of its turn may be at each step of a stream.
StatusAtStep(a) ==
    LET status == turn[stream[a].turn]  pc == stream[a].pc IN
    /\ pc = "updating" => status \in Retryable
    /\ pc \in {"claimed", "streaming"} => status \in {"answering", "gone"}
    /\ pc = "persisted" => status \in {"completed", "gone"}
    /\ pc = "failing" => status \in {"answering", "completed", "gone"}

OneHolder == \A a, b \in Streams :
    Holding(a) /\ Holding(b) /\ stream[a].turn = stream[b].turn => a = b

\* Exclusion alone is not inductive: that a second claim finds the turn no
\* longer retryable rests on the status that goes with each step.
ClaimInv == OneHolder /\ (\A a \in Streams : StatusAtStep(a)) /\ OneAnswerPerTurn

\* Nobody holds a claim at first, and no turn is answered.
LEMMA ClaimInit == Init => ClaimInv
  BY DEF Init, ClaimInv, OneHolder, Holding, LivePc, StatusAtStep, NoStream, OneAnswerPerTurn

\* A stream that lets go of its turn disturbs no other stream.
LEMMA LetGo ==
  ASSUME TypeInv, ClaimInv, NEW a \in Streams, DropStream(a), UNCHANGED <<turn, answers>>
  PROVE  ClaimInv'
<1>1. \A b \in Streams : stream'[b] = IF b = a THEN NoStream ELSE stream[b]
  BY DEF DropStream, TypeInv, StreamsTyped
<1>2. OneHolder'
  BY <1>1 DEF ClaimInv, OneHolder, Holding, LivePc, NoStream
<1>3. ASSUME NEW b \in Streams PROVE StatusAtStep(b)'
  BY <1>1 DEF ClaimInv, StatusAtStep, NoStream
<1> QED
  BY <1>2, <1>3 DEF ClaimInv, OneAnswerPerTurn

\* Nor does one that moves on while it holds its turn, or does not yet.
LEMMA MoveOn ==
  ASSUME TypeInv, ClaimInv, NEW a \in Streams, NEW p \in StreamPc, SetStream(a, p),
         Holding(a) \/ ~Holding(a)', StatusAtStep(a)',
         UNCHANGED <<turn, answers>>
  PROVE  ClaimInv'
<1>1. \A b \in Streams : stream'[b] = IF b = a THEN [stream[a] EXCEPT !.pc = p] ELSE stream[b]
  BY DEF SetStream, TypeInv, StreamsTyped
<1>2. \A b \in Streams : stream'[b].turn = stream[b].turn /\ (b # a => stream'[b].pc = stream[b].pc)
  BY <1>1 DEF TypeInv, StreamsTyped, StreamState
<1>3. OneHolder'
  BY <1>2 DEF ClaimInv, OneHolder, Holding
<1>4. ASSUME NEW b \in Streams PROVE StatusAtStep(b)'
  BY <1>2 DEF ClaimInv, StatusAtStep
<1> QED
  BY <1>3, <1>4 DEF ClaimInv, OneAnswerPerTurn

\* A turn that changes while no stream holds it.
LEMMA FreeTurnChanged ==
  ASSUME TypeInv, ClaimInv, NEW t \in Turns, \A a \in Streams : Holding(a) => stream[a].turn # t,
         turn[t] # "completed", NEW v, v # "completed", turn' = [turn EXCEPT ![t] = v],
         UNCHANGED <<stream, answers>>
  PROVE  ClaimInv'
<1>1. \A u \in Turns : turn'[u] = IF u = t THEN v ELSE turn[u]
  BY DEF TypeInv, RowsTyped
<1>2. ASSUME NEW a \in Streams PROVE StatusAtStep(a)'
  <2>1. CASE Holding(a)
    <3>1. stream[a].turn \in Turns /\ stream[a].turn # t
      BY <2>1 DEF Holding, LivePc, TypeInv, StreamsTyped
    <3> QED
      BY <3>1, <1>1 DEF ClaimInv, StatusAtStep
  <2>2. CASE ~Holding(a)
    BY <2>2 DEF StatusAtStep, Holding, LivePc
  <2> QED
    BY <2>1, <2>2
<1>3. OneAnswerPerTurn'
  BY <1>1 DEF ClaimInv, OneAnswerPerTurn
<1>4. OneHolder'
  BY DEF ClaimInv, OneHolder, Holding
<1> QED
  BY <1>2, <1>3, <1>4 DEF ClaimInv

\* The stream that holds a turn changes it, and itself.
LEMMA HeldTurnChanged ==
  ASSUME TypeInv, ClaimInv, NEW a \in Streams, Holding(a), NEW w \in StreamState,
         w.turn = stream[a].turn \/ w.pc = "idle",
         stream' = [stream EXCEPT ![a] = w], NEW v,
         turn' = [turn EXCEPT ![stream[a].turn] = v], StatusAtStep(a)', OneAnswerPerTurn'
  PROVE  ClaimInv'
<1>1. \A u \in Turns : turn'[u] = IF u = stream[a].turn THEN v ELSE turn[u]
  BY DEF TypeInv, RowsTyped
<1>2. \A b \in Streams : stream'[b] = IF b = a THEN w ELSE stream[b]
  BY DEF TypeInv, StreamsTyped
<1>3. OneHolder'
  BY <1>2 DEF ClaimInv, OneHolder, Holding, LivePc
<1>4. ASSUME NEW b \in Streams, b # a PROVE StatusAtStep(b)'
  <2>1. stream'[b] = stream[b]
    BY <1>2, <1>4
  <2>2. CASE Holding(b)
    <3>1. stream[b].turn \in Turns /\ stream[b].turn # stream[a].turn
      BY <2>2, <1>4 DEF ClaimInv, OneHolder, Holding, LivePc, TypeInv, StreamsTyped
    <3> QED
      BY <3>1, <2>1, <1>1 DEF ClaimInv, StatusAtStep
  <2>3. CASE ~Holding(b)
    BY <2>1, <2>3 DEF StatusAtStep, Holding, LivePc
  <2> QED
    BY <2>2, <2>3
<1> QED
  BY <1>3, <1>4 DEF ClaimInv

\* Every step keeps one holder per turn, in step with the status of the turn.
LEMMA ClaimStep == TypeInv /\ ClaimInv /\ [Next]_vars => ClaimInv'
<1> SUFFICES ASSUME TypeInv, ClaimInv, [Next]_vars PROVE ClaimInv'
  OBVIOUS
<1> DEFINE Idle == UNCHANGED <<turn, stream, answers>>
<1>0. ASSUME Idle PROVE ClaimInv'
  BY <1>0 DEF ClaimInv, OneHolder, Holding, StatusAtStep, OneAnswerPerTurn
<1>1. ASSUME Restore PROVE ClaimInv'
  BY <1>0, <1>1 DEF Restore
<1>2. ASSUME DeleteSession PROVE ClaimInv'
  <2>1. ASSUME NEW a \in Streams PROVE StatusAtStep(a)'
    <3>1. stream[a].pc = "updating" => stream[a].turn \in Turns /\ RowLocked(stream[a].turn)
      BY DEF TypeInv, StreamsTyped, RowLocked
    <3>2. stream[a].pc # "updating" /\ stream' = stream
      BY <1>2, <3>1 DEF DeleteSession
    <3>3. stream[a].pc # "idle" => turn'[stream[a].turn] = "gone"
      BY <1>2 DEF DeleteSession, TypeInv, StreamsTyped
    <3> QED
      BY <3>2, <3>3 DEF StatusAtStep
  <2>2. OneAnswerPerTurn' /\ OneHolder'
    BY <1>2 DEF DeleteSession, OneAnswerPerTurn, ClaimInv, OneHolder, Holding
  <2> QED
    BY <2>1, <2>2 DEF ClaimInv
<1>3. ASSUME NEW t \in Turns, CancelTurn(t) PROVE ClaimInv'
  <2>1. ASSUME NEW a \in Streams, Holding(a) PROVE stream[a].turn # t
    BY <1>3, <2>1 DEF CancelTurn, CanCancel, Retryable, RowLocked, Holding, LivePc, ClaimInv, StatusAtStep
  <2> QED
    BY <1>3, <2>1, FreeTurnChanged DEF CancelTurn, CanCancel, Retryable
<1>4. ASSUME NEW t \in Turns, NEW S \in SUBSET Slots, CreateTurn(t, S) PROVE ClaimInv'
  <2>1. ASSUME NEW a \in Streams, Holding(a) PROVE stream[a].turn # t
    BY <1>4, <2>1 DEF CreateTurn, Retryable, Holding, LivePc, ClaimInv, StatusAtStep
  <2> QED
    BY <1>4, <2>1, FreeTurnChanged DEF CreateTurn
<1>5. ASSUME NEW r \in Requests, BeginArchive(r) PROVE ClaimInv'
  BY <1>0, <1>5 DEF BeginArchive
<1>6. ASSUME NEW r \in Requests, Archive(r) PROVE ClaimInv'
  BY <1>0, <1>6 DEF Archive
<1>7. ASSUME NEW r \in Requests, SetIgnored(r) PROVE ClaimInv'
  BY <1>0, <1>7 DEF SetIgnored
<1>8. ASSUME NEW r \in Requests, AddAttachment(r) PROVE ClaimInv'
  BY <1>0, <1>8 DEF AddAttachment
<1>9. ASSUME NEW r \in Requests, CreateDocument(r) PROVE ClaimInv'
  BY <1>0, <1>9 DEF CreateDocument
<1>10. ASSUME NEW r \in Requests, UploadFails(r) PROVE ClaimInv'
  BY <1>0, <1>10 DEF UploadFails
<1>11. ASSUME NEW r \in Requests, LinkDocument(r) PROVE ClaimInv'
  BY <1>0, <1>11 DEF LinkDocument
<1>12. ASSUME NEW r \in Requests, IngestDocument(r) PROVE ClaimInv'
  BY <1>0, <1>12 DEF IngestDocument
<1>13. ASSUME NEW r \in Requests, LoseUpload(r) \/ IngestRefused(r) \/ IngestFails(r) \/ IngestFailRaises(r)
       PROVE  ClaimInv'
  BY <1>0, <1>13 DEF LoseUpload, IngestRefused, IngestFails, IngestFailRaises
<1>14. ASSUME NEW r \in Requests, NEW t \in Turns, NEW s \in Slots, BeginAdd(r, t, s) PROVE ClaimInv'
  BY <1>0, <1>14 DEF BeginAdd
<1>15. ASSUME NEW r \in Requests, NEW t \in Turns, NEW s \in Slots, NEW flag \in BOOLEAN, BeginSetIgnored(r, t, s, flag) PROVE ClaimInv'
  BY <1>0, <1>15 DEF BeginSetIgnored
<1>16. ASSUME NEW r \in Requests, NEW t \in Turns, NEW s \in Slots, NEW d \in Docs, BeginUpload(r, t, s, d) PROVE ClaimInv'
  BY <1>0, <1>16 DEF BeginUpload
<1>17. ASSUME NEW d \in Docs, WorkflowFails(d) PROVE ClaimInv'
  BY <1>0, <1>17 DEF WorkflowFails
<1>18. ASSUME NEW d \in Docs, WorkflowIndexes(d) PROVE ClaimInv'
  BY <1>0, <1>18 DEF WorkflowIndexes
<1>19. ASSUME NEW d \in Docs, RetryDocument(d) PROVE ClaimInv'
  BY <1>0, <1>19 DEF RetryDocument
<1>20. ASSUME NEW d \in Docs, DeleteDocument(d) PROVE ClaimInv'
  BY <1>0, <1>20 DEF DeleteDocument
<1>21. ASSUME NEW d \in Docs, FinishDelete(d) PROVE ClaimInv'
  BY <1>0, <1>21 DEF FinishDelete
<1>22. ASSUME NEW t \in Turns, NEW s \in Slots, RetryAttachment(t, s) PROVE ClaimInv'
  BY <1>0, <1>22 DEF RetryAttachment, RetryDocument
<1>23. ASSUME NEW a \in Streams, ClaimUpdate(a) PROVE ClaimInv'
  <2>1. CASE DropStream(a)
    BY <1>23, <2>1, LetGo DEF ClaimUpdate
  <2>2. CASE SetStream(a, "updating") /\ CanClaim(stream[a].turn)
    <3> DEFINE t == stream[a].turn
    <3>1. \A b \in Streams : /\ stream'[b].turn = stream[b].turn
                             /\ stream'[b].pc = IF b = a THEN "updating" ELSE stream[b].pc
      BY <2>2 DEF SetStream, TypeInv, StreamsTyped, StreamState
    <3>2. ASSUME NEW b \in Streams, Holding(b) PROVE stream[b].turn # t
      BY <1>23, <2>2, <3>2 DEF ClaimUpdate, CanClaim, Retryable, RowLocked, Holding, LivePc, ClaimInv, StatusAtStep
    <3>3. OneHolder'
      BY <3>1, <3>2 DEF ClaimInv, OneHolder, Holding, LivePc
    <3>4. ASSUME NEW b \in Streams PROVE StatusAtStep(b)'
      BY <1>23, <2>2, <3>1 DEF ClaimUpdate, CanClaim, ClaimInv, StatusAtStep
    <3> QED
      BY <1>23, <3>3, <3>4 DEF ClaimUpdate, ClaimInv, OneAnswerPerTurn
  <2> QED
    BY <1>23, <2>1, <2>2 DEF ClaimUpdate
<1>24. ASSUME NEW a \in Streams, ClaimScope(a) PROVE ClaimInv'
  <2>1. CASE DropStream(a) /\ UNCHANGED turn
    BY <1>24, <2>1, LetGo DEF ClaimScope
  <2>2. CASE turn' = [turn EXCEPT ![stream[a].turn] = "answering"]
    <3> DEFINE t == stream[a].turn
               w == [stream[a] EXCEPT !.pc = "claimed", !.scope = {att[t][s].doc : s \in InScope(t)}]
    <3>1. t \in Turns /\ turn[t] \in Retryable /\ Holding(a)
      BY <1>24 DEF ClaimScope, TypeInv, StreamsTyped, ClaimInv, StatusAtStep, Holding
    <3>2. stream' = [stream EXCEPT ![a] = w]
      <4>1. turn' # turn
        BY <2>2, <3>1 DEF TypeInv, RowsTyped, Retryable
      <4> QED
        BY <1>24, <4>1 DEF ClaimScope
    <3>3. w \in StreamState /\ w.turn = t /\ w.pc = "claimed"
      <4>1. {att[t][s].doc : s \in InScope(t)} \in SUBSET Docs
        BY <3>1 DEF TypeInv, FilesTyped, InScope, Active, Declared
      <4> QED
        BY <4>1 DEF TypeInv, StreamsTyped, StreamState, StreamPc, LivePc
    <3>4. stream'[a] = w /\ turn'[t] = "answering"
      BY <2>2, <3>1, <3>2 DEF TypeInv, StreamsTyped, RowsTyped
    <3>5. StatusAtStep(a)'
      BY <3>3, <3>4 DEF StatusAtStep
    <3>6. OneAnswerPerTurn'
      BY <1>24, <2>2, <3>1 DEF ClaimScope, OneAnswerPerTurn, ClaimInv, TypeInv, RowsTyped, Retryable
    <3> HIDE DEF w
    <3> QED
      BY <2>2, <3>1, <3>2, <3>3, <3>5, <3>6, HeldTurnChanged
  <2> QED
    BY <1>24, <2>1, <2>2 DEF ClaimScope
<1>25. ASSUME NEW a \in Streams, StartStream(a) PROVE ClaimInv'
  <2>1. SetStream(a, "streaming") /\ UNCHANGED <<turn, answers>>
    BY <1>25 DEF StartStream
  <2>2. stream'[a].turn = stream[a].turn /\ stream'[a].pc = "streaming"
    BY <2>1 DEF SetStream, TypeInv, StreamsTyped, StreamState
  <2>3. Holding(a) /\ StatusAtStep(a)'
    BY <1>25, <2>1, <2>2 DEF StartStream, Holding, LivePc, ClaimInv, StatusAtStep
  <2> QED
    BY <2>1, <2>3, MoveOn DEF StreamPc, LivePc
<1>26. ASSUME NEW a \in Streams, PersistAnswer(a) PROVE ClaimInv'
  <2> DEFINE t == stream[a].turn
             w == [stream[a] EXCEPT !.pc = "persisted"]
  <2>1. t \in Turns /\ Holding(a)
    BY <1>26 DEF PersistAnswer, TypeInv, StreamsTyped, Holding, LivePc
  <2>2. CASE session # "deleted" /\ turn[t] = "answering"
    <3>1. stream' = [stream EXCEPT ![a] = w] /\ turn' = [turn EXCEPT ![t] = "completed"]
          /\ answers' = [answers EXCEPT ![t] = @ + 1]
      BY <1>26, <2>2 DEF PersistAnswer, SetStream, StoredAnswers
    <3>2. w \in StreamState /\ w.turn = t /\ w.pc = "persisted"
      BY DEF TypeInv, StreamsTyped, StreamState, StreamPc, LivePc
    <3>3. stream'[a] = w /\ turn'[t] = "completed"
      BY <3>1, <2>1 DEF TypeInv, StreamsTyped, RowsTyped
    <3>4. StatusAtStep(a)'
      BY <3>2, <3>3 DEF StatusAtStep
    <3>5. OneAnswerPerTurn'
      BY <3>1, <2>1, <2>2 DEF OneAnswerPerTurn, ClaimInv, TypeInv, RowsTyped
    <3> HIDE DEF w
    <3> QED
      BY <2>1, <3>1, <3>2, <3>4, <3>5, HeldTurnChanged
  <2>3. CASE ~(session # "deleted" /\ turn[t] = "answering")
    <3>1. SetStream(a, "failing") /\ UNCHANGED <<turn, answers>>
      BY <1>26, <2>3 DEF PersistAnswer
    <3>2. stream'[a].turn = t /\ stream'[a].pc = "failing"
      BY <3>1 DEF SetStream, TypeInv, StreamsTyped, StreamState
    <3>3. StatusAtStep(a)'
      BY <1>26, <3>1, <3>2 DEF PersistAnswer, ClaimInv, StatusAtStep
    <3> QED
      BY <2>1, <3>1, <3>3, MoveOn DEF StreamPc, LivePc
  <2> QED
    BY <2>2, <2>3
<1>27. ASSUME NEW a \in Streams, StreamRaises(a) PROVE ClaimInv'
  <2>1. SetStream(a, "failing") /\ UNCHANGED <<turn, answers>>
    BY <1>27 DEF StreamRaises, AfterRaise
  <2>2. stream'[a].turn = stream[a].turn /\ stream'[a].pc = "failing"
    BY <2>1 DEF SetStream, TypeInv, StreamsTyped, StreamState
  <2>3. Holding(a) /\ StatusAtStep(a)'
    BY <1>27, <2>1, <2>2 DEF StreamRaises, Holding, LivePc, ClaimInv, StatusAtStep
  <2> QED
    BY <2>1, <2>3, MoveOn DEF StreamPc, LivePc
<1>28. ASSUME NEW a \in Streams, FailAnswer(a) PROVE ClaimInv'
  <2> DEFINE t == stream[a].turn
  <2>1. CASE CanFail(t)
    <3>1. t \in Turns /\ Holding(a) /\ turn[t] = "answering"
      BY <1>28, <2>1 DEF FailAnswer, CanFail, TypeInv, StreamsTyped, Holding, LivePc
    <3>2. stream' = [stream EXCEPT ![a] = NoStream] /\ turn' = [turn EXCEPT ![t] = "answer_failed"]
          /\ answers' = answers
      BY <1>28, <2>1 DEF FailAnswer, DropStream
    <3>3. NoStream \in StreamState /\ NoStream.pc = "idle"
      BY DEF NoStream, StreamState, StreamPc
    <3>4. stream'[a] = NoStream
      BY <3>2 DEF TypeInv, StreamsTyped
    <3>5. StatusAtStep(a)'
      BY <3>3, <3>4 DEF StatusAtStep
    <3>6. OneAnswerPerTurn'
      BY <3>1, <3>2 DEF OneAnswerPerTurn, ClaimInv, TypeInv, RowsTyped
    <3> QED
      BY <3>1, <3>2, <3>3, <3>5, <3>6, HeldTurnChanged
  <2>2. CASE ~CanFail(t)
    BY <1>28, <2>2, LetGo DEF FailAnswer
  <2> QED
    BY <2>1, <2>2
<1>29. ASSUME NEW a \in Streams, FinishStream(a) PROVE ClaimInv'
  BY <1>29, LetGo DEF FinishStream
<1>30. ASSUME NEW a \in Streams, LoseStream(a) \/ FailAnswerRaises(a) PROVE ClaimInv'
  BY <1>30, LetGo DEF LoseStream, FailAnswerRaises
<1>31. ASSUME NEW a \in Streams, NEW t \in Turns, PrepareAnswer(a, t) PROVE ClaimInv'
  <2>1. \A b \in Streams : b # a => stream'[b] = stream[b]
    BY <1>31 DEF PrepareAnswer, TypeInv, StreamsTyped
  <2>2. stream'[a].pc = "prepared"
    BY <1>31 DEF PrepareAnswer, TypeInv, StreamsTyped, StreamState
  <2>3. OneHolder'
    BY <2>1, <2>2 DEF ClaimInv, OneHolder, Holding, LivePc
  <2>4. ASSUME NEW b \in Streams PROVE StatusAtStep(b)'
    BY <1>31, <2>1, <2>2 DEF PrepareAnswer, ClaimInv, StatusAtStep
  <2> QED
    BY <1>31, <2>3, <2>4 DEF PrepareAnswer, ClaimInv, OneAnswerPerTurn
<1>32. CASE UNCHANGED vars
  BY <1>0, <1>32 DEF vars
<1> QED
  BY <1>1, <1>2, <1>3, <1>4, <1>5, <1>6, <1>7, <1>8, <1>9, <1>10, <1>11, <1>12, <1>13, <1>14, <1>15, <1>16, <1>17, <1>18, <1>19, <1>20, <1>21, <1>22, <1>23, <1>24, <1>25, <1>26, <1>27, <1>28, <1>29, <1>30, <1>31, <1>32 DEF Next, StreamStep, RequestStep

\* Typing and claims hold in every reachable state.
LEMMA Invariance == Spec => [](TypeInv /\ ClaimInv)
<1>1. Init => TypeInv /\ ClaimInv
  BY TypeInit, ClaimInit
<1>2. (TypeInv /\ ClaimInv) /\ [Next]_vars => (TypeInv /\ ClaimInv)'
  BY TypeStep, ClaimStep
<1> QED
  BY <1>1, <1>2, PTL DEF Spec

\* However many requests race for a turn, one stream at most holds its claim,
\* and until that stream is through the turn says answering.
THEOREM ClaimIsExclusive == Spec => []SingleAnswerer
<1>1. TypeInv /\ ClaimInv => SingleAnswerer
  BY DEF ClaimInv, OneHolder, Holding, StatusAtStep, SingleAnswerer
<1> QED
  BY <1>1, Invariance, PTL

\* A turn has an assistant message exactly when it is completed, and never two.
THEOREM AnsweredOnce == Spec => []OneAnswerPerTurn
<1>1. TypeInv /\ ClaimInv => OneAnswerPerTurn
  BY DEF ClaimInv
<1> QED
  BY <1>1, Invariance, PTL

\* A completed turn is not failed by a late disconnect, a cancelled one is not
\* answered after all.
THEOREM TerminalForGood == Spec => TerminalIsFinal
<1> DEFINE Stays == \A t \in Turns : turn[t] \in {"completed", "cancelled"} => turn'[t] \in {turn[t], "gone"}
<1>1. TypeInv /\ ClaimInv /\ [Next]_vars => [Stays]_vars
  <2> SUFFICES ASSUME TypeInv, ClaimInv, Next PROVE Stays
    BY DEF vars
  <2> SUFFICES ASSUME NEW t \in Turns, turn[t] \in {"completed", "cancelled"}
               PROVE  turn'[t] \in {turn[t], "gone"}
    OBVIOUS
  <2> USE DEF TypeInv, RowsTyped
  <2>1. ASSUME Restore PROVE turn'[t] \in {turn[t], "gone"}
    BY <2>1 DEF Restore
  <2>2. ASSUME DeleteSession PROVE turn'[t] \in {turn[t], "gone"}
    BY <2>2 DEF DeleteSession
  <2>3. ASSUME NEW u \in Turns, CancelTurn(u) PROVE turn'[t] \in {turn[t], "gone"}
    BY <2>3 DEF CancelTurn, CanCancel, Retryable
  <2>4. ASSUME NEW u \in Turns, NEW S \in SUBSET Slots, CreateTurn(u, S) PROVE turn'[t] \in {turn[t], "gone"}
    BY <2>4 DEF CreateTurn
  <2>5. ASSUME NEW r \in Requests, BeginArchive(r) PROVE turn'[t] \in {turn[t], "gone"}
    BY <2>5 DEF BeginArchive
  <2>6. ASSUME NEW r \in Requests, Archive(r) PROVE turn'[t] \in {turn[t], "gone"}
    BY <2>6 DEF Archive
  <2>7. ASSUME NEW r \in Requests, SetIgnored(r) PROVE turn'[t] \in {turn[t], "gone"}
    BY <2>7 DEF SetIgnored
  <2>8. ASSUME NEW r \in Requests, AddAttachment(r) PROVE turn'[t] \in {turn[t], "gone"}
    BY <2>8 DEF AddAttachment
  <2>9. ASSUME NEW r \in Requests, CreateDocument(r) PROVE turn'[t] \in {turn[t], "gone"}
    BY <2>9 DEF CreateDocument
  <2>10. ASSUME NEW r \in Requests, UploadFails(r) PROVE turn'[t] \in {turn[t], "gone"}
    BY <2>10 DEF UploadFails
  <2>11. ASSUME NEW r \in Requests, LinkDocument(r) PROVE turn'[t] \in {turn[t], "gone"}
    BY <2>11 DEF LinkDocument
  <2>12. ASSUME NEW r \in Requests, IngestDocument(r) PROVE turn'[t] \in {turn[t], "gone"}
    BY <2>12 DEF IngestDocument
  <2>13. ASSUME NEW r \in Requests, LoseUpload(r) \/ IngestRefused(r) \/ IngestFails(r) \/ IngestFailRaises(r)
         PROVE  turn'[t] \in {turn[t], "gone"}
    BY <2>13 DEF LoseUpload, IngestRefused, IngestFails, IngestFailRaises
  <2>14. ASSUME NEW r \in Requests, NEW u \in Turns, NEW s \in Slots, BeginAdd(r, u, s) PROVE turn'[t] \in {turn[t], "gone"}
    BY <2>14 DEF BeginAdd
  <2>15. ASSUME NEW r \in Requests, NEW u \in Turns, NEW s \in Slots, NEW flag \in BOOLEAN, BeginSetIgnored(r, u, s, flag) PROVE turn'[t] \in {turn[t], "gone"}
    BY <2>15 DEF BeginSetIgnored
  <2>16. ASSUME NEW r \in Requests, NEW u \in Turns, NEW s \in Slots, NEW d \in Docs, BeginUpload(r, u, s, d) PROVE turn'[t] \in {turn[t], "gone"}
    BY <2>16 DEF BeginUpload
  <2>17. ASSUME NEW d \in Docs, WorkflowFails(d) PROVE turn'[t] \in {turn[t], "gone"}
    BY <2>17 DEF WorkflowFails
  <2>18. ASSUME NEW d \in Docs, WorkflowIndexes(d) PROVE turn'[t] \in {turn[t], "gone"}
    BY <2>18 DEF WorkflowIndexes
  <2>19. ASSUME NEW d \in Docs, RetryDocument(d) PROVE turn'[t] \in {turn[t], "gone"}
    BY <2>19 DEF RetryDocument
  <2>20. ASSUME NEW d \in Docs, DeleteDocument(d) PROVE turn'[t] \in {turn[t], "gone"}
    BY <2>20 DEF DeleteDocument
  <2>21. ASSUME NEW d \in Docs, FinishDelete(d) PROVE turn'[t] \in {turn[t], "gone"}
    BY <2>21 DEF FinishDelete
  <2>22. ASSUME NEW u \in Turns, NEW s \in Slots, RetryAttachment(u, s) PROVE turn'[t] \in {turn[t], "gone"}
    BY <2>22 DEF RetryAttachment, RetryDocument
  <2>23. ASSUME NEW a \in Streams, ClaimUpdate(a) PROVE turn'[t] \in {turn[t], "gone"}
    BY <2>23 DEF ClaimUpdate
  <2>24. ASSUME NEW a \in Streams, ClaimScope(a) PROVE turn'[t] \in {turn[t], "gone"}
    BY <2>24 DEF ClaimScope, ClaimInv, StatusAtStep, Retryable, StreamsTyped
  <2>25. ASSUME NEW a \in Streams, StartStream(a) PROVE turn'[t] \in {turn[t], "gone"}
    BY <2>25 DEF StartStream
  <2>26. ASSUME NEW a \in Streams, PersistAnswer(a) PROVE turn'[t] \in {turn[t], "gone"}
    BY <2>26 DEF PersistAnswer, StreamsTyped
  <2>27. ASSUME NEW a \in Streams, StreamRaises(a) PROVE turn'[t] \in {turn[t], "gone"}
    BY <2>27 DEF StreamRaises
  <2>28. ASSUME NEW a \in Streams, FailAnswer(a) PROVE turn'[t] \in {turn[t], "gone"}
    BY <2>28 DEF FailAnswer, CanFail
  <2>29. ASSUME NEW a \in Streams, FinishStream(a) PROVE turn'[t] \in {turn[t], "gone"}
    BY <2>29 DEF FinishStream
  <2>30. ASSUME NEW a \in Streams, LoseStream(a) \/ FailAnswerRaises(a) PROVE turn'[t] \in {turn[t], "gone"}
    BY <2>30 DEF LoseStream, FailAnswerRaises
  <2>31. ASSUME NEW a \in Streams, NEW u \in Turns, PrepareAnswer(a, u) PROVE turn'[t] \in {turn[t], "gone"}
    BY <2>31 DEF PrepareAnswer
  <2> QED
    BY <2>1, <2>2, <2>3, <2>4, <2>5, <2>6, <2>7, <2>8, <2>9, <2>10, <2>11, <2>12, <2>13, <2>14, <2>15, <2>16, <2>17, <2>18, <2>19, <2>20, <2>21, <2>22, <2>23, <2>24, <2>25, <2>26, <2>27, <2>28, <2>29, <2>30, <2>31 DEF Next, StreamStep, RequestStep
<1> QED
  BY <1>1, Invariance, PTL DEF Spec, TerminalIsFinal

------------------------------------------------------------------------------
(* ChatTurn implements TurnLifecycle *)

Owns(a, t) == turn[t] = "answering" /\ stream[a].pc \in LivePc /\ stream[a].turn = t

\* The owner that the refinement mapping picks is the one live stream.
LEMMA OwnerIsHolder ==
  ASSUME ClaimInv, NEW t \in Turns, NEW a \in Streams, Owns(a, t)
  PROVE  Owner(t) = a
<1> DEFINE live == {b \in Streams : stream[b].pc \in LivePc /\ stream[b].turn = t}
<1>1. live = {a}
  BY DEF Owns, ClaimInv, OneHolder, Holding
<1>2. (CHOOSE b \in live : TRUE) = a
  BY <1>1
<1> QED
  BY <1>1, <1>2 DEF Owner, Owns

\* A turn that no live stream holds has no owner in the mapping.
LEMMA NoOwner ==
  ASSUME NEW t \in Turns, \A a \in Streams : ~Owns(a, t)
  PROVE  Owner(t) = None
<1>1. CASE turn[t] # "answering"
  BY <1>1 DEF Owner
<1>2. CASE turn[t] = "answering"
  <2>1. {b \in Streams : stream[b].pc \in LivePc /\ stream[b].turn = t} = {}
    BY <1>2 DEF Owns
  <2> QED
    BY <2>1 DEF Owner
<1> QED
  BY <1>1, <1>2

\* The same facts of the next state.
LEMMA OwnerIsHolderNext ==
  ASSUME ClaimInv', NEW t \in Turns, NEW a \in Streams, Owns(a, t)'
  PROVE  Owner(t)' = a
<1> DEFINE live == {b \in Streams : stream'[b].pc \in LivePc /\ stream'[b].turn = t}
<1>1. live = {a}
  BY DEF Owns, ClaimInv, OneHolder, Holding
<1>2. (CHOOSE b \in live : TRUE) = a
  BY <1>1
<1> QED
  BY <1>1, <1>2 DEF Owner, Owns

\* NoOwner of the next state.
LEMMA NoOwnerNext ==
  ASSUME NEW t \in Turns, \A a \in Streams : ~Owns(a, t)'
  PROVE  Owner(t)' = None
<1>1. CASE turn'[t] # "answering"
  BY <1>1 DEF Owner
<1>2. CASE turn'[t] = "answering"
  <2>1. {b \in Streams : stream'[b].pc \in LivePc /\ stream'[b].turn = t} = {}
    BY <1>2 DEF Owns
  <2> QED
    BY <2>1 DEF Owner
<1> QED
  BY <1>1, <1>2

\* A turn whose status and holder stay has the owner it had.
LEMMA OwnerKept ==
  ASSUME ClaimInv, ClaimInv', NEW t \in Turns,
         \A a \in Streams : Owns(a, t)' <=> Owns(a, t)
  PROVE  Owner(t)' = Owner(t)
<1>1. CASE \E a \in Streams : Owns(a, t)
  BY <1>1, OwnerIsHolder, OwnerIsHolderNext
<1>2. CASE \A a \in Streams : ~Owns(a, t)
  BY <1>2, NoOwner, NoOwnerNext
<1> QED
  BY <1>1, <1>2

owner == [t \in Turns |-> Owner(t)]
Stutter == UNCHANGED <<turn, owner, answers>>

\* No step that keeps the statuses and who owns what is seen at all.
LEMMA Unseen ==
  ASSUME ClaimInv, ClaimInv', UNCHANGED <<turn, answers>>,
         \A t \in Turns, a \in Streams : Owns(a, t)' <=> Owns(a, t)
  PROVE  Stutter
<1>1. \A t \in Turns : Owner(t)' = Owner(t)
  BY OwnerKept
<1> QED
  BY <1>1 DEF Stutter, owner

\* When one turn changes hands the map changes at that turn alone.
LEMMA OwnerMoved ==
  ASSUME ClaimInv, ClaimInv', NEW t \in Turns, NEW w, Owner(t)' = w,
         \A u \in Turns, a \in Streams : u # t => (Owns(a, u)' <=> Owns(a, u))
  PROVE  owner' = [owner EXCEPT ![t] = w]
<1>1. \A u \in Turns : u # t => Owner(u)' = Owner(u)
  BY OwnerKept
<1> QED
  BY <1>1 DEF owner

\* The initial states of the protocol map to that of the lifecycle.
LEMMA InitMaps == Init => Lifecycle!Init
<1> SUFFICES ASSUME Init PROVE Lifecycle!Init
  OBVIOUS
<1>1. \A t \in Turns : Owner(t) = None
  BY NoOwner DEF Init, Owns
<1> QED
  BY <1>1 DEF Init, Lifecycle!Init

\* Every step of the protocol is a step of the lifecycle or leaves it alone.
LEMMA StepMaps ==
  ASSUME TypeInv, ClaimInv, TypeInv', ClaimInv', [Next]_vars
  PROVE  Lifecycle!Next \/ Stutter
<1> DEFINE Maps == Lifecycle!Next \/ Stutter
<1> USE DEF TypeInv, RowsTyped
<1>0. ASSUME UNCHANGED <<turn, stream, answers>> PROVE Maps
  <2>1. \A t \in Turns, a \in Streams : Owns(a, t)' <=> Owns(a, t)
    BY <1>0 DEF Owns
  <2> QED
    BY <1>0, <2>1, Unseen
\* A stream that moves on with its claim, or without one, is not seen.
<1>a. ASSUME UNCHANGED <<turn, answers>>, NEW a \in Streams, NEW p \in StreamPc, SetStream(a, p),
             stream[a].pc \in LivePc <=> p \in LivePc
      PROVE  Maps
  <2>1. \A b \in Streams : stream'[b].turn = stream[b].turn
                         /\ (stream'[b].pc = IF b = a THEN p ELSE stream[b].pc)
    BY <1>a DEF SetStream, StreamsTyped, StreamState
  <2>2. \A t \in Turns, b \in Streams : Owns(b, t)' <=> Owns(b, t)
    BY <1>a, <2>1 DEF Owns
  <2> QED
    BY <1>a, <2>2, Unseen
\* A stream that lets go leaves an answering turn without an owner.
<1>b. ASSUME UNCHANGED <<turn, answers>>, NEW a \in Streams, DropStream(a) PROVE Maps
  <2>1. \A b \in Streams : stream'[b] = IF b = a THEN NoStream ELSE stream[b]
    BY <1>b DEF DropStream, StreamsTyped
  <2>2. \A u \in Turns, b \in Streams : Owns(b, u)' <=> Owns(b, u) /\ b # a
    BY <1>b, <2>1 DEF Owns, NoStream, LivePc
  <2>3. CASE \E u \in Turns : Owns(a, u)
    <3>1. PICK t \in Turns : Owns(a, t)
      BY <2>3
    <3>2. \A b \in Streams : ~Owns(b, t)'
      BY <2>2, <3>1 DEF Owns, ClaimInv, OneHolder, Holding
    <3>3. Owner(t)' = None /\ Owner(t) = a
      BY <3>1, <3>2, NoOwnerNext, OwnerIsHolder
    <3>4. \A u \in Turns, b \in Streams : u # t => (Owns(b, u)' <=> Owns(b, u))
      BY <2>2, <3>1 DEF Owns
    <3>5. owner' = [owner EXCEPT ![t] = None]
      BY <3>3, <3>4, OwnerMoved
    <3>6. Lifecycle!Abandon(t)
      BY <1>b, <3>1, <3>3, <3>5, ChatTurnAssumption DEF Lifecycle!Abandon, Owns, owner
    <3> QED
      BY <3>1, <3>6 DEF Lifecycle!Next
  <2>4. CASE \A u \in Turns : ~Owns(a, u)
    BY <1>b, <2>2, <2>4, Unseen
  <2> QED
    BY <2>3, <2>4
<1>1. ASSUME Restore PROVE Maps
  BY <1>0, <1>1 DEF Restore
<1>2. ASSUME DeleteSession PROVE Maps
  <2>1. \A t \in Turns : turn'[t] = "gone"
    BY <1>2 DEF DeleteSession
  <2>2. \A t \in Turns : Owner(t)' = None
    BY <2>1, NoOwnerNext DEF Owns
  <2>3. Lifecycle!Discard
    BY <1>2, <2>2 DEF DeleteSession, Lifecycle!Discard
  <2> QED
    BY <2>3 DEF Lifecycle!Next
<1>3. ASSUME NEW t \in Turns, CancelTurn(t) PROVE Maps
  <2>1. \A u \in Turns, a \in Streams : Owns(a, u)' <=> Owns(a, u)
    BY <1>3 DEF CancelTurn, CanCancel, Retryable, Owns
  <2>2. \A u \in Turns : Owner(u)' = Owner(u)
    BY <2>1, OwnerKept
  <2>3. Lifecycle!Cancel(t)
    BY <1>3, <2>2 DEF CancelTurn, CanCancel, Retryable, Lifecycle!Cancel
  <2> QED
    BY <2>3 DEF Lifecycle!Next
<1>4. ASSUME NEW t \in Turns, NEW S \in SUBSET Slots, CreateTurn(t, S) PROVE Maps
  <2>1. \A u \in Turns, a \in Streams : Owns(a, u)' <=> Owns(a, u)
    BY <1>4 DEF CreateTurn, Owns
  <2>2. \A u \in Turns : Owner(u)' = Owner(u)
    BY <2>1, OwnerKept
  <2>3. Lifecycle!Submit(t)
    BY <1>4, <2>2 DEF CreateTurn, Lifecycle!Submit
  <2> QED
    BY <2>3 DEF Lifecycle!Next
<1>5. ASSUME NEW r \in Requests, BeginArchive(r) PROVE Maps
  BY <1>0, <1>5 DEF BeginArchive
<1>6. ASSUME NEW r \in Requests, Archive(r) PROVE Maps
  BY <1>0, <1>6 DEF Archive
<1>7. ASSUME NEW r \in Requests, SetIgnored(r) PROVE Maps
  BY <1>0, <1>7 DEF SetIgnored
<1>8. ASSUME NEW r \in Requests, AddAttachment(r) PROVE Maps
  BY <1>0, <1>8 DEF AddAttachment
<1>9. ASSUME NEW r \in Requests, CreateDocument(r) PROVE Maps
  BY <1>0, <1>9 DEF CreateDocument
<1>10. ASSUME NEW r \in Requests, UploadFails(r) PROVE Maps
  BY <1>0, <1>10 DEF UploadFails
<1>11. ASSUME NEW r \in Requests, LinkDocument(r) PROVE Maps
  BY <1>0, <1>11 DEF LinkDocument
<1>12. ASSUME NEW r \in Requests, IngestDocument(r) PROVE Maps
  BY <1>0, <1>12 DEF IngestDocument
<1>13. ASSUME NEW r \in Requests, LoseUpload(r) \/ IngestRefused(r) \/ IngestFails(r) \/ IngestFailRaises(r)
       PROVE  Maps
  BY <1>0, <1>13 DEF LoseUpload, IngestRefused, IngestFails, IngestFailRaises
<1>14. ASSUME NEW r \in Requests, NEW t \in Turns, NEW s \in Slots, BeginAdd(r, t, s) PROVE Maps
  BY <1>0, <1>14 DEF BeginAdd
<1>15. ASSUME NEW r \in Requests, NEW t \in Turns, NEW s \in Slots, NEW flag \in BOOLEAN, BeginSetIgnored(r, t, s, flag) PROVE Maps
  BY <1>0, <1>15 DEF BeginSetIgnored
<1>16. ASSUME NEW r \in Requests, NEW t \in Turns, NEW s \in Slots, NEW d \in Docs, BeginUpload(r, t, s, d) PROVE Maps
  BY <1>0, <1>16 DEF BeginUpload
<1>17. ASSUME NEW d \in Docs, WorkflowFails(d) PROVE Maps
  BY <1>0, <1>17 DEF WorkflowFails
<1>18. ASSUME NEW d \in Docs, WorkflowIndexes(d) PROVE Maps
  BY <1>0, <1>18 DEF WorkflowIndexes
<1>19. ASSUME NEW d \in Docs, RetryDocument(d) PROVE Maps
  BY <1>0, <1>19 DEF RetryDocument
<1>20. ASSUME NEW d \in Docs, DeleteDocument(d) PROVE Maps
  BY <1>0, <1>20 DEF DeleteDocument
<1>21. ASSUME NEW d \in Docs, FinishDelete(d) PROVE Maps
  BY <1>0, <1>21 DEF FinishDelete
<1>22. ASSUME NEW t \in Turns, NEW s \in Slots, RetryAttachment(t, s) PROVE Maps
  BY <1>0, <1>22 DEF RetryAttachment, RetryDocument
<1>23. ASSUME NEW a \in Streams, ClaimUpdate(a) PROVE Maps
  BY <1>a, <1>b, <1>23 DEF ClaimUpdate, StreamPc, LivePc
<1>24. ASSUME NEW a \in Streams, ClaimScope(a) PROVE Maps
  <2>0. PICK t \in Turns : t = stream[a].turn
    BY <1>24 DEF ClaimScope, StreamsTyped
  <2> DEFINE T == stream[a].turn
             w == [stream[a] EXCEPT !.pc = "claimed", !.scope = {att[T][s].doc : s \in InScope(T)}]
  <2>1. CASE DropStream(a) /\ UNCHANGED turn
    BY <1>b, <1>24, <2>1 DEF ClaimScope
  <2>2. CASE turn' = [turn EXCEPT ![T] = "answering"] /\ stream' = [stream EXCEPT ![a] = w]
    <3>0. w.turn = t /\ w.pc = "claimed"
      BY <2>0 DEF StreamsTyped, StreamState
    <3> HIDE DEF w
    <3>1. turn[t] \in Retryable
      BY <1>24, <2>0 DEF ClaimScope, ClaimInv, StatusAtStep
    <3>2. stream'[a].turn = t /\ stream'[a].pc = "claimed" /\ \A b \in Streams : b # a => stream'[b] = stream[b]
      BY <3>0, <2>2 DEF StreamsTyped
    <3>3. turn'[t] = "answering" /\ \A u \in Turns : u # t => turn'[u] = turn[u]
      BY <2>0, <2>2, <3>1
    <3>4. Owner(t)' = a
      BY <3>2, <3>3, OwnerIsHolderNext DEF Owns, LivePc
    <3>5. ASSUME NEW u \in Turns, NEW b \in Streams, u # t PROVE Owns(b, u)' <=> Owns(b, u)
      <4>1. CASE b = a
        BY <2>0, <3>2, <3>5, <4>1 DEF Owns
      <4>2. CASE b # a
        BY <3>2, <3>3, <3>5, <4>2 DEF Owns
      <4> QED
        BY <4>1, <4>2
    <3>6. owner' = [owner EXCEPT ![t] = a]
      BY <3>4, <3>5, OwnerMoved
    <3>7. Lifecycle!Claim(t, a)
      BY <1>24, <2>0, <2>2, <3>1, <3>6 DEF ClaimScope, Lifecycle!Claim, Retryable, owner
    <3> QED
      BY <3>7 DEF Lifecycle!Next
  <2> QED
    BY <1>24, <2>1, <2>2, ZenonT(40) DEF ClaimScope
<1>25. ASSUME NEW a \in Streams, StartStream(a) PROVE Maps
  BY <1>a, <1>25 DEF StartStream, StreamPc, LivePc
<1>26. ASSUME NEW a \in Streams, PersistAnswer(a) PROVE Maps
  <2>0. PICK t \in Turns : t = stream[a].turn
    BY <1>26 DEF PersistAnswer, StreamsTyped
  <2>1. CASE session # "deleted" /\ turn[t] = "answering"
    <3>1. t \in Turns /\ turn[t] = "answering" /\ Owns(a, t)
      BY <1>26, <2>0, <2>1 DEF PersistAnswer, StoredAnswers, Owns, LivePc
    <3>2. turn'[t] = "completed" /\ \A u \in Turns : u # t => turn'[u] = turn[u]
      BY <1>26, <2>0, <2>1, <3>1 DEF PersistAnswer, StoredAnswers
    <3>3. \A b \in Streams : b # a => stream'[b] = stream[b]
      BY <1>26, <2>0, <2>1 DEF PersistAnswer, SetStream, DropStream, StreamsTyped
    <3>4. stream'[a].pc = "idle" \/ stream'[a].turn = t
      BY <1>26, <2>0, <2>1 DEF PersistAnswer, SetStream, DropStream, NoStream, StreamsTyped, StreamState
    <3>5. \A u \in Turns, b \in Streams : u # t => (Owns(b, u)' <=> Owns(b, u))
      BY <3>1, <3>2, <3>3, <3>4 DEF Owns, LivePc
    <3>6. Owner(t)' = None /\ Owner(t) = a
      BY <3>1, <3>2, NoOwnerNext, OwnerIsHolder DEF Owns
    <3>7. owner' = [owner EXCEPT ![t] = None]
      BY <3>1, <3>5, <3>6, OwnerMoved
    <3>8. Lifecycle!Complete(t, a)
      BY <1>26, <2>0, <2>1, <3>1, <3>6, <3>7 DEF PersistAnswer, StoredAnswers, Lifecycle!Complete, owner
    <3> QED
      BY <3>1, <3>8 DEF Lifecycle!Next
  <2>2. CASE ~(session # "deleted" /\ turn[t] = "answering")
    BY <1>a, <1>26, <2>0, <2>2 DEF PersistAnswer, StreamPc, LivePc
  <2> QED
    BY <2>1, <2>2
<1>27. ASSUME NEW a \in Streams, StreamRaises(a) PROVE Maps
  <2>1. SetStream(a, "failing")
    BY <1>27 DEF StreamRaises, AfterRaise
  <2> QED
    BY <1>a, <1>27, <2>1 DEF StreamRaises, StreamPc, LivePc
<1>28. ASSUME NEW a \in Streams, FailAnswer(a) PROVE Maps
  <2>0. PICK t \in Turns : t = stream[a].turn
    BY <1>28 DEF FailAnswer, StreamsTyped
  <2>1. CASE CanFail(t)
    <3>1. t \in Turns /\ turn[t] = "answering" /\ Owns(a, t)
      BY <1>28, <2>0, <2>1 DEF FailAnswer, CanFail, Owns, LivePc
    <3>2. turn'[t] = "answer_failed" /\ \A u \in Turns : u # t => turn'[u] = turn[u]
      BY <1>28, <2>0, <2>1, <3>1 DEF FailAnswer, CanFail
    <3>3. \A b \in Streams : b # a => stream'[b] = stream[b]
      BY <1>28, <2>0, <2>1 DEF FailAnswer, SetStream, DropStream, StreamsTyped
    <3>4. stream'[a].pc = "idle" \/ stream'[a].turn = t
      BY <1>28, <2>0, <2>1 DEF FailAnswer, SetStream, DropStream, NoStream, StreamsTyped, StreamState
    <3>5. \A u \in Turns, b \in Streams : u # t => (Owns(b, u)' <=> Owns(b, u))
      BY <3>1, <3>2, <3>3, <3>4 DEF Owns, LivePc
    <3>6. Owner(t)' = None /\ Owner(t) = a
      BY <3>1, <3>2, NoOwnerNext, OwnerIsHolder DEF Owns
    <3>7. owner' = [owner EXCEPT ![t] = None]
      BY <3>1, <3>5, <3>6, OwnerMoved
    <3>8. Lifecycle!Fail(t, a)
      BY <1>28, <2>0, <2>1, <3>1, <3>6, <3>7 DEF FailAnswer, CanFail, Lifecycle!Fail, owner
    <3> QED
      BY <3>1, <3>8 DEF Lifecycle!Next
  <2>2. CASE ~CanFail(t)
    BY <1>b, <1>28, <2>0, <2>2 DEF FailAnswer
  <2> QED
    BY <2>1, <2>2
<1>29. ASSUME NEW a \in Streams, FinishStream(a) PROVE Maps
  BY <1>b, <1>29 DEF FinishStream
<1>30. ASSUME NEW a \in Streams, LoseStream(a) \/ FailAnswerRaises(a) PROVE Maps
  BY <1>b, <1>30 DEF LoseStream, FailAnswerRaises
<1>31. ASSUME NEW a \in Streams, NEW t \in Turns, PrepareAnswer(a, t) PROVE Maps
  <2>1. \A b \in Streams : b # a => stream'[b] = stream[b]
    BY <1>31 DEF PrepareAnswer, StreamsTyped
  <2>2. stream'[a].pc = "prepared" /\ stream[a].pc = "idle"
    BY <1>31 DEF PrepareAnswer, StreamsTyped, StreamState
  <2>3. \A u \in Turns, b \in Streams : Owns(b, u)' <=> Owns(b, u)
    BY <1>31, <2>1, <2>2 DEF PrepareAnswer, Owns, LivePc
  <2> QED
    BY <1>31, <2>3, Unseen DEF PrepareAnswer
<1>32. CASE UNCHANGED vars
  BY <1>0, <1>32 DEF vars
<1> QED
  BY <1>1, <1>2, <1>3, <1>4, <1>5, <1>6, <1>7, <1>8, <1>9, <1>10, <1>11, <1>12, <1>13, <1>14, <1>15, <1>16, <1>17, <1>18, <1>19, <1>20, <1>21, <1>22, <1>23, <1>24, <1>25, <1>26, <1>27, <1>28, <1>29, <1>30, <1>31, <1>32 DEF Next, StreamStep, RequestStep

\* The handlers, the uploads and the streams of a session implement the
\* abstract turn: answered at most once, by the one stream that claimed it.
THEOREM Refinement == Spec => TurnsImplement
<1>1. (TypeInv /\ ClaimInv) /\ (TypeInv /\ ClaimInv)' /\ [Next]_vars => [Lifecycle!Next]_(Lifecycle!vars)
  BY StepMaps DEF Stutter, Lifecycle!vars, owner
<1> QED
  BY <1>1, InitMaps, Invariance, PTL DEF Spec, TurnsImplement, Lifecycle!Spec

------------------------------------------------------------------------------
(* Attachments *)

Linked(t, s) == att[t][s].doc # None

\* No two attachments have one document.
LinkOnce == \A t, u \in Turns, s, v \in Slots :
    Linked(t, s) /\ att[t][s].doc = att[u][v].doc => t = u /\ s = v

\* No two requests have one document in hand.
HandsDiffer == \A r, q \in Requests :
    req[r].doc # None /\ req[r].doc = req[q].doc => r = q

\* A linked file is uploaded, and its document exists.
LinkedExist == \A t \in Turns, s \in Slots :
    Linked(t, s) => att[t][s].upload = "uploaded" /\ doc[att[t][s].doc] # "absent"

\* A request creates its document itself, and links it last of all.
InHand(r) ==
    /\ req[r].pc = "upload" => doc[req[r].doc] = "absent"
    /\ req[r].pc \in {"created", "linked", "raised"} => doc[req[r].doc] # "absent"
    /\ req[r].pc \in {"upload", "created"} =>
         \A t \in Turns, s \in Slots : att[t][s].doc # req[r].doc

\* Workflows run for documents that exist.
StartedExist == \A d \in started : doc[d] # "absent"

\* A turn that is not created yet has no attachment.
AbsentBare == \A t \in Turns, s \in Slots : turn[t] = "absent" => att[t][s] = NoFile

FileInv ==
    /\ LinkOnce /\ HandsDiffer /\ LinkedExist
    /\ (\A r \in Requests : InHand(r)) /\ StartedExist /\ AbsentBare

\* At first there is neither an attachment nor a document.
LEMMA FileInit == Init => FileInv
  BY DEF Init, FileInv, LinkOnce, HandsDiffer, LinkedExist, InHand, StartedExist, AbsentBare,
         Linked, NoFile, NoRequest

\* The steps that touch no attachment, document or request
LEMMA FileFrame ==
  ASSUME FileInv, UNCHANGED <<att, doc, started, req>>,
         \A t \in Turns : turn'[t] = "absent" => turn[t] = "absent"
  PROVE  FileInv'
  BY DEF FileInv, LinkOnce, HandsDiffer, LinkedExist, InHand, StartedExist, AbsentBare, Linked

\* A request that ends or begins without a document in hand
LEMMA FileRequest ==
  ASSUME TypeInv, FileInv, NEW r \in Requests, NEW q, req' = [req EXCEPT ![r] = q],
         q.doc \in {None, req[r].doc}, q.pc \notin {"upload", "created", "linked", "raised"},
         UNCHANGED <<turn, att, doc, started>>
  PROVE  FileInv'
<1>1. \A p \in Requests : req'[p] = IF p = r THEN q ELSE req[p]
  BY DEF TypeInv, RequestsTyped
<1>2. HandsDiffer'
  BY <1>1 DEF FileInv, HandsDiffer
<1>3. \A p \in Requests : InHand(p)'
  BY <1>1 DEF FileInv, InHand
<1> QED
  BY <1>2, <1>3 DEF FileInv, LinkOnce, LinkedExist, StartedExist, AbsentBare, Linked

\* A document that exists goes from one status to another.
LEMMA FileDocument ==
  ASSUME TypeInv, FileInv, NEW d \in Docs, doc[d] # "absent",
         NEW v, v # "absent", doc' = [doc EXCEPT ![d] = v], started' \subseteq started \cup {d},
         UNCHANGED <<turn, att, req>>
  PROVE  FileInv'
<1>1. \A e \in Docs : doc'[e] = IF e = d THEN v ELSE doc[e]
  BY DEF TypeInv, RowsTyped
<1>2. \A e \in Docs : (doc'[e] = "absent") <=> (doc[e] = "absent")
  BY <1>1
<1>3. LinkedExist'
  <2> SUFFICES ASSUME NEW t \in Turns, NEW s \in Slots, Linked(t, s)
      PROVE att[t][s].upload = "uploaded" /\ doc'[att[t][s].doc] # "absent"
    BY DEF LinkedExist, Linked
  <2>1. att[t][s].doc \in Docs
    BY DEF TypeInv, FilesTyped, File, Linked
  <2> QED
    BY <2>1, <1>2 DEF FileInv, LinkedExist
<1>4. ASSUME NEW r \in Requests PROVE InHand(r)'
  <2>1. req[r].pc \in {"upload", "created", "linked", "raised"} => req[r].doc \in Docs
    BY DEF TypeInv, RequestsTyped, RequestTyped
  <2> QED
    BY <2>1, <1>2 DEF FileInv, InHand
<1>5. StartedExist'
  BY <1>2 DEF FileInv, StartedExist, TypeInv, RowsTyped
<1> QED
  BY <1>3, <1>4, <1>5 DEF FileInv, LinkOnce, HandsDiffer, AbsentBare, Linked

\* An attachment that has no document yet, or keeps the one it has, and a
\* request that ends without one in hand.
LEMMA FileAttachment ==
  ASSUME TypeInv, FileInv, NEW r \in Requests, DropRequest(r), UNCHANGED <<turn, doc, started>>,
         NEW t \in Turns, NEW s \in Slots, NEW f \in File, att' = [att EXCEPT ![t][s] = f],
         f.doc = att[t][s].doc, Linked(t, s) => f.upload = "uploaded", turn[t] # "absent"
  PROVE  FileInv'
<1>1. \A u \in Turns, v \in Slots : att'[u][v] = IF u = t /\ v = s THEN f ELSE att[u][v]
  BY DEF TypeInv, FilesTyped
<1>2. \A u \in Turns, v \in Slots : att'[u][v].doc = att[u][v].doc
  BY <1>1
<1>3. \A p \in Requests : req'[p] = IF p = r THEN NoRequest ELSE req[p]
  BY DEF DropRequest, TypeInv, RequestsTyped
<1>4. LinkOnce'
  BY <1>2 DEF FileInv, LinkOnce, Linked
<1>5. HandsDiffer'
  BY <1>3 DEF FileInv, HandsDiffer, NoRequest
<1>6. LinkedExist'
  BY <1>1, <1>2 DEF FileInv, LinkedExist, Linked
<1>7. ASSUME NEW p \in Requests PROVE InHand(p)'
  BY <1>2, <1>3 DEF FileInv, InHand, NoRequest
<1>8. AbsentBare'
  BY <1>1 DEF FileInv, AbsentBare
<1> QED
  BY <1>4, <1>5, <1>6, <1>7, <1>8 DEF FileInv, StartedExist

\* Deleting the session takes all attachments, creating a turn adds new ones.
LEMMA FileTurns ==
  ASSUME TypeInv, FileInv, DeleteSession \/ \E t \in Turns, S \in SUBSET Slots : CreateTurn(t, S)
  PROVE  FileInv'
<1>1. CASE DeleteSession
  BY <1>1, ChatTurnAssumption DEF DeleteSession, FileInv, LinkOnce, HandsDiffer, LinkedExist, InHand, StartedExist,
              AbsentBare, Linked, NoFile, TypeInv, RequestsTyped, RequestTyped
<1>2. ASSUME NEW t \in Turns, NEW S \in SUBSET Slots, CreateTurn(t, S) PROVE FileInv'
  <2>1. ASSUME NEW u \in Turns, NEW v \in Slots
        PROVE  /\ u # t => att'[u][v] = att[u][v]
               /\ u = t => att'[u][v].doc = None
    BY <1>2 DEF CreateTurn, NewFile, NoFile, TypeInv, FilesTyped
  <2>2. LinkOnce'
    BY <2>1 DEF FileInv, LinkOnce, Linked
  <2>3. LinkedExist'
    BY <1>2, <2>1 DEF CreateTurn, FileInv, LinkedExist, Linked
  <2>4. ASSUME NEW r \in Requests PROVE InHand(r)'
    <3>1. req[r].pc \in {"upload", "created"} => req[r].doc # None
      BY ChatTurnAssumption DEF TypeInv, RequestsTyped, RequestTyped
    <3> QED
      BY <1>2, <2>1, <3>1 DEF CreateTurn, FileInv, InHand
  <2>5. AbsentBare'
    BY <1>2, <2>1 DEF CreateTurn, FileInv, AbsentBare, TypeInv, RowsTyped
  <2> QED
    BY <1>2, <2>2, <2>3, <2>4, <2>5 DEF CreateTurn, FileInv, HandsDiffer, StartedExist
<1> QED
  BY <1>1, <1>2

\* An upload draws a document that nobody has, and creates it.
LEMMA FileUpload ==
  ASSUME TypeInv, FileInv, NEW r \in Requests,
         CreateDocument(r) \/ \E t \in Turns, s \in Slots, d \in Docs : BeginUpload(r, t, s, d)
  PROVE  FileInv'
<1>1. CASE CreateDocument(r)
  <2> DEFINE d == req[r].doc
  <2>1. d \in Docs /\ doc[d] = "absent" /\ req[r].pc = "upload"
    BY <1>1 DEF CreateDocument, TypeInv, RequestsTyped, RequestTyped, FileInv, InHand
  <2>2. \A e \in Docs : doc'[e] = IF e = d THEN "pending" ELSE doc[e]
    BY <1>1 DEF CreateDocument, TypeInv, RowsTyped
  <2>3. \A q \in Requests : req'[q].doc = req[q].doc /\ req'[q].pc = IF q = r THEN "created" ELSE req[q].pc
    BY <1>1 DEF CreateDocument, TypeInv, RequestsTyped, RequestState
  <2>4. LinkedExist'
    <3> SUFFICES ASSUME NEW t \in Turns, NEW s \in Slots, Linked(t, s)
        PROVE att[t][s].upload = "uploaded" /\ doc'[att[t][s].doc] # "absent"
      BY <1>1 DEF CreateDocument, LinkedExist, Linked
    <3>1. att[t][s].doc \in Docs
      BY DEF TypeInv, FilesTyped, File, Linked
    <3> QED
      BY <3>1, <2>2 DEF FileInv, LinkedExist
  <2>5. ASSUME NEW q \in Requests PROVE InHand(q)'
    <3>1. req[q].pc \in {"upload", "created", "linked", "raised"} => req[q].doc \in Docs
      BY DEF TypeInv, RequestsTyped, RequestTyped
    <3>2. q # r /\ req[q].pc \in {"upload", "created", "linked", "raised"} => req[q].doc # d
      BY <3>1, <2>1, ChatTurnAssumption DEF FileInv, HandsDiffer
    <3>3. UNCHANGED att
      BY <1>1 DEF CreateDocument
    <3> HIDE DEF d
    <3>4. CASE q = r
      BY <3>4, <2>1, <2>2, <2>3, <3>3 DEF FileInv, InHand, d
    <3>5. CASE q # r
      BY <3>5, <3>1, <3>2, <2>2, <2>3, <3>3 DEF FileInv, InHand
    <3> QED
      BY <3>4, <3>5
  <2>6. StartedExist'
    BY <1>1, <2>2 DEF CreateDocument, FileInv, StartedExist, TypeInv, RowsTyped
  <2>7. HandsDiffer'
    BY <2>3 DEF FileInv, HandsDiffer
  <2> QED
    BY <1>1, <2>4, <2>5, <2>6, <2>7 DEF CreateDocument, FileInv, LinkOnce, AbsentBare, Linked
<1>2. ASSUME NEW t \in Turns, NEW s \in Slots, NEW d \in Docs, BeginUpload(r, t, s, d) PROVE FileInv'
  <2> DEFINE w == [req[r] EXCEPT !.pc = "upload", !.turn = t, !.slot = s, !.doc = d]
  <2>1. /\ doc[d] = "absent" /\ \A q \in Requests : req[q].doc # d
        /\ UNCHANGED <<turn, att, doc, started>>
    BY <1>2 DEF BeginUpload
  <2>2. w.doc = d /\ w.pc = "upload"
    BY DEF TypeInv, RequestsTyped, RequestState
  <2>3. req' = [req EXCEPT ![r] = w]
    BY <1>2 DEF BeginUpload
  <2> HIDE DEF w
  <2>4. \A q \in Requests : req'[q] = IF q = r THEN w ELSE req[q]
    BY <2>3 DEF TypeInv, RequestsTyped
  <2>5. HandsDiffer'
    BY <2>1, <2>2, <2>4 DEF FileInv, HandsDiffer
  <2>6. \A u \in Turns, v \in Slots : att[u][v].doc # d
    BY <2>1, ChatTurnAssumption DEF FileInv, LinkedExist, Linked
  <2>7. ASSUME NEW q \in Requests PROVE InHand(q)'
    BY <2>1, <2>2, <2>4, <2>6 DEF FileInv, InHand
  <2> QED
    BY <2>1, <2>5, <2>7 DEF FileInv, LinkOnce, LinkedExist, StartedExist, AbsentBare, Linked
<1> QED
  BY <1>1, <1>2

\* A document is linked by the request that created it.
LEMMA FileLink ==
  ASSUME TypeInv, FileInv, NEW r \in Requests, LinkDocument(r)
  PROVE  FileInv'
<1> DEFINE t == req[r].turn
           s == req[r].slot
           d == req[r].doc
<1>1. /\ req[r].pc = "created" /\ t \in Turns /\ s \in Slots /\ d \in Docs /\ doc[d] # "absent"
      /\ \A u \in Turns, v \in Slots : att[u][v].doc # d
      /\ UNCHANGED <<turn, doc, started>>
  BY DEF LinkDocument, TypeInv, RequestsTyped, RequestTyped, FileInv, InHand
<1>2. CASE ~CanLink(t, s, d)
  <2>1. UNCHANGED att /\ DropRequest(r)
    BY <1>2 DEF LinkDocument, AfterLink
  <2> QED
    BY <1>1, <2>1, FileRequest DEF DropRequest, NoRequest
<1>3. CASE CanLink(t, s, d)
  <2>1. /\ att' = [att EXCEPT ![t][s].doc = d, ![t][s].upload = "uploaded"]
        /\ req' = [req EXCEPT ![r].pc = "linked"]
    BY <1>3 DEF LinkDocument, AfterLink
  <2> DEFINE f == [att[t][s] EXCEPT !.doc = d, !.upload = "uploaded"]
  <2>2. \A u \in Turns, v \in Slots :
           /\ ~(u = t /\ v = s) => att'[u][v] = att[u][v]
           /\ u = t /\ v = s => att'[u][v].doc = d /\ att'[u][v].upload = "uploaded"
    <3>1. att' = [att EXCEPT ![t][s] = f]
      BY <2>1
    <3>2. f.doc = d /\ f.upload = "uploaded"
      BY <1>1 DEF TypeInv, FilesTyped, File
    <3> HIDE DEF f, t, s, d
    <3> QED
      BY <1>1, <3>1, <3>2 DEF TypeInv, FilesTyped
  <2>3. \A q \in Requests : req'[q].doc = req[q].doc /\ req'[q].pc = IF q = r THEN "linked" ELSE req[q].pc
    BY <2>1 DEF TypeInv, RequestsTyped, RequestState
  <2>4. turn[t] # "absent"
    BY <1>1, <1>3 DEF CanLink, Declared, FileInv, AbsentBare, NoFile
  <2> HIDE DEF t, s, d
  <2>5. LinkOnce'
    BY <1>1, <2>2 DEF FileInv, LinkOnce, Linked
  <2>6. LinkedExist'
    BY <1>1, <2>2 DEF FileInv, LinkedExist, Linked
  <2>7. ASSUME NEW q \in Requests PROVE InHand(q)'
    <3>1. q # r => req[q].doc # d
      BY <1>1, ChatTurnAssumption DEF FileInv, HandsDiffer, d
    <3> QED
      BY <1>1, <2>2, <2>3, <3>1 DEF FileInv, InHand, d
  <2>8. AbsentBare'
    BY <1>1, <2>2, <2>4 DEF FileInv, AbsentBare
  <2>9. HandsDiffer'
    BY <2>3 DEF FileInv, HandsDiffer
  <2> QED
    BY <1>1, <2>5, <2>6, <2>7, <2>8, <2>9 DEF FileInv, StartedExist
<1> QED
  BY <1>2, <1>3

\* The other changes of an attachment concern its flag, or a file without document.
LEMMA FileEdit ==
  ASSUME TypeInv, FileInv, NEW r \in Requests, SetIgnored(r) \/ AddAttachment(r) \/ UploadFails(r)
  PROVE  FileInv'
<1> DEFINE t == req[r].turn
           s == req[r].slot
<1>1. t \in Turns /\ s \in Slots /\ DropRequest(r) /\ UNCHANGED <<turn, doc, started>>
  BY DEF SetIgnored, AddAttachment, UploadFails, TypeInv, RequestsTyped, RequestTyped
<1>2. CASE UNCHANGED att
  BY <1>1, <1>2, FileRequest DEF DropRequest, NoRequest
<1>3. CASE SetIgnored(r) /\ s \in Declared(t)
  <2> DEFINE f == [att[t][s] EXCEPT !.ignored = req[r].flag]
  <2>1. att' = [att EXCEPT ![t][s] = f]
    BY <1>3 DEF SetIgnored
  <2>2. /\ f \in File /\ f.doc = att[t][s].doc /\ f.upload = att[t][s].upload
    <3>1. att[t][s] \in File /\ req[r].flag \in BOOLEAN
      BY <1>1 DEF TypeInv, FilesTyped, RequestsTyped, RequestState
    <3> QED
      BY <3>1 DEF File
  <2>3. turn[t] # "absent"
    BY <1>1, <1>3 DEF Declared, FileInv, AbsentBare, NoFile
  <2>4. Linked(t, s) => f.upload = "uploaded"
    BY <1>1, <2>2 DEF FileInv, LinkedExist
  <2> HIDE DEF f
  <2> QED
    BY <1>1, <2>1, <2>2, <2>3, <2>4, FileAttachment
<1>4. CASE AddAttachment(r) /\ HasRoom(t) /\ s \notin Declared(t)
  <2>1. att' = [att EXCEPT ![t][s] = NewFile] /\ NewFile \in File /\ NewFile.doc = None
    BY <1>4 DEF AddAttachment, NewFile, NoFile, File
  <2>2. att[t][s].doc = None
    BY <1>1, <1>4 DEF Declared, FileInv, LinkedExist, Linked
  <2>3. turn[t] # "absent"
    BY <1>4 DEF HasRoom
  <2> QED
    BY <1>1, <2>1, <2>2, <2>3, FileAttachment DEF Linked
<1>5. CASE /\ UploadFails(r) /\ att' = [att EXCEPT ![t][s].upload = "failed"]
           /\ att[t][s].doc = None /\ att[t][s].upload \in {"pending", "failed"}
  <2> DEFINE f == [att[t][s] EXCEPT !.upload = "failed"]
  <2>0. att' = [att EXCEPT ![t][s].upload = "failed"] /\ att[t][s] \in File
    BY <1>1, <1>5 DEF TypeInv, FilesTyped
  <2>1. att' = [att EXCEPT ![t][s] = f] /\ f \in File /\ f.doc = att[t][s].doc
    BY <2>0 DEF File
  <2>2. turn[t] # "absent"
    BY <1>1, <1>5 DEF FileInv, AbsentBare, NoFile
  <2> QED
    BY <1>1, <1>5, <2>1, <2>2, FileAttachment DEF Linked
<1> QED
  BY <1>2, <1>3, <1>4, <1>5 DEF SetIgnored, AddAttachment, UploadFails

\* Ingesting a linked document starts its workflow or fails it.
LEMMA FileIngest ==
  ASSUME TypeInv, FileInv, NEW r \in Requests, IngestDocument(r) \/ IngestFails(r)
  PROVE  FileInv'
<1> DEFINE d == req[r].doc
<1>1. d \in Docs /\ doc[d] # "absent" /\ UNCHANGED <<turn, att>>
  BY DEF IngestDocument, IngestFails, TypeInv, RequestsTyped, RequestTyped, FileInv, InHand
<1>2. /\ \A e \in Docs : (doc'[e] = "absent") <=> (doc[e] = "absent")
      /\ started' \subseteq started \cup {d}
  BY <1>1 DEF IngestDocument, IngestFails, StartFails, TypeInv, RowsTyped
<1>3. /\ \A q \in Requests : q # r => req'[q] = req[q]
      /\ \/ req'[r].pc = "idle" /\ req'[r].doc = None
         \/ req'[r].pc = "raised" /\ req'[r].doc = d
  <2>1. CASE DropRequest(r)
    BY <2>1 DEF DropRequest, NoRequest, TypeInv, RequestsTyped
  <2>2. CASE req' = [req EXCEPT ![r].pc = "raised"]
    BY <2>2 DEF TypeInv, RequestsTyped, RequestState
  <2> QED
    BY <2>1, <2>2 DEF IngestDocument, IngestFails
<1>4. LinkedExist'
  <2> SUFFICES ASSUME NEW t \in Turns, NEW s \in Slots, Linked(t, s)
      PROVE att[t][s].upload = "uploaded" /\ doc'[att[t][s].doc] # "absent"
    BY <1>1 DEF LinkedExist, Linked
  <2>1. att[t][s].doc \in Docs
    BY DEF TypeInv, FilesTyped, File, Linked
  <2> QED
    BY <2>1, <1>2 DEF FileInv, LinkedExist
<1>5. ASSUME NEW q \in Requests PROVE InHand(q)'
  <2>1. req[q].pc \in {"upload", "created", "linked", "raised"} => req[q].doc \in Docs
    BY DEF TypeInv, RequestsTyped, RequestTyped
  <2> QED
    BY <1>1, <2>1, <1>2, <1>3 DEF FileInv, InHand
<1>6. StartedExist'
  BY <1>1, <1>2 DEF FileInv, StartedExist, TypeInv, RowsTyped
<1>7. HandsDiffer'
  BY <1>3 DEF FileInv, HandsDiffer
<1> QED
  BY <1>1, <1>4, <1>5, <1>6, <1>7 DEF FileInv, LinkOnce, AbsentBare, Linked

\* Every step keeps every document in one place.
LEMMA FileStep == TypeInv /\ FileInv /\ [Next]_vars => FileInv'
<1> SUFFICES ASSUME TypeInv, FileInv, [Next]_vars PROVE FileInv'
  OBVIOUS
<1>1. CASE Restore \/ (\E t \in Turns : CancelTurn(t)) \/ UNCHANGED vars
  BY <1>1, FileFrame DEF Restore, CancelTurn, vars, TypeInv, RowsTyped
<1>2. CASE DeleteSession \/ \E t \in Turns, S \in SUBSET Slots : CreateTurn(t, S)
  BY <1>2, FileTurns
<1>3. ASSUME NEW a \in Streams, StreamStep(a) \/ LoseStream(a) \/ \E t \in Turns : PrepareAnswer(a, t)
      PROVE FileInv'
  <2>1. UNCHANGED <<att, doc, started, req>>
    BY <1>3 DEF StreamStep, LoseStream, PrepareAnswer, ClaimUpdate, ClaimScope, StartStream,
                PersistAnswer, StreamRaises, FailAnswer, FailAnswerRaises, FinishStream
  <2>2. ASSUME NEW t \in Turns PROVE turn'[t] = "absent" => turn[t] = "absent"
    BY <1>3 DEF StreamStep, LoseStream, PrepareAnswer, ClaimUpdate, ClaimScope, StartStream,
                PersistAnswer, StreamRaises, FailAnswer, FailAnswerRaises, FinishStream, TypeInv, RowsTyped
  <2> QED
    BY <2>1, <2>2, FileFrame
<1>4. ASSUME NEW r \in Requests, Archive(r) \/ LoseUpload(r) \/ IngestRefused(r) \/ IngestFailRaises(r) PROVE FileInv'
  BY <1>4, FileRequest DEF Archive, LoseUpload, IngestRefused, IngestFailRaises, DropRequest, NoRequest
<1>5. ASSUME NEW r \in Requests, BeginArchive(r) PROVE FileInv'
  <2> DEFINE q == [req[r] EXCEPT !.pc = "archive"]
  <2>1. q.doc = req[r].doc /\ q.pc = "archive"
    BY DEF TypeInv, RequestsTyped, RequestState
  <2>2. req' = [req EXCEPT ![r] = q] /\ UNCHANGED <<turn, att, doc, started>>
    BY <1>5 DEF BeginArchive
  <2> QED
    BY <2>1, <2>2, FileRequest
<1>6. ASSUME NEW r \in Requests, NEW t \in Turns, NEW s \in Slots, BeginAdd(r, t, s) PROVE FileInv'
  <2> DEFINE q == [req[r] EXCEPT !.pc = "add", !.turn = t, !.slot = s]
  <2>1. q.doc = req[r].doc /\ q.pc = "add"
    BY DEF TypeInv, RequestsTyped, RequestState
  <2>2. req' = [req EXCEPT ![r] = q] /\ UNCHANGED <<turn, att, doc, started>>
    BY <1>6 DEF BeginAdd
  <2> QED
    BY <2>1, <2>2, FileRequest
<1>7. ASSUME NEW r \in Requests, NEW t \in Turns, NEW s \in Slots, NEW flag \in BOOLEAN,
             BeginSetIgnored(r, t, s, flag)
      PROVE FileInv'
  <2> DEFINE q == [req[r] EXCEPT !.pc = "ignore", !.turn = t, !.slot = s, !.flag = flag]
  <2>1. q.doc = req[r].doc /\ q.pc = "ignore"
    BY DEF TypeInv, RequestsTyped, RequestState
  <2>2. req' = [req EXCEPT ![r] = q] /\ UNCHANGED <<turn, att, doc, started>>
    BY <1>7 DEF BeginSetIgnored
  <2> QED
    BY <2>1, <2>2, FileRequest
<1>8. ASSUME NEW r \in Requests,
             CreateDocument(r) \/ \E t \in Turns, s \in Slots, d \in Docs : BeginUpload(r, t, s, d)
      PROVE FileInv'
  BY <1>8, FileUpload
<1>9. ASSUME NEW r \in Requests, SetIgnored(r) \/ AddAttachment(r) \/ UploadFails(r) PROVE FileInv'
  BY <1>9, FileEdit
<1>10. ASSUME NEW r \in Requests, LinkDocument(r) \/ IngestDocument(r) \/ IngestFails(r) PROVE FileInv'
  BY <1>10, FileLink, FileIngest
<1>11. ASSUME NEW d \in Docs,
              WorkflowFails(d) \/ WorkflowIndexes(d) \/ RetryDocument(d) \/ DeleteDocument(d) \/ FinishDelete(d)
       PROVE FileInv'
  <2>1. doc[d] # "absent" /\ UNCHANGED <<turn, att, req>> /\ started' \subseteq started \cup {d}
    BY <1>11 DEF WorkflowFails, WorkflowIndexes, RetryDocument, DeleteDocument, FinishDelete,
                 FileInv, StartedExist
  <2>2. \E v \in DocStatus \ {"absent"} : doc' = [doc EXCEPT ![d] = v]
    BY <1>11 DEF WorkflowFails, WorkflowIndexes, RetryDocument, DeleteDocument, FinishDelete, DocStatus
  <2> QED
    BY <2>1, <2>2, FileDocument
<1>12. ASSUME NEW t \in Turns, NEW s \in Slots, RetryAttachment(t, s) PROVE FileInv'
  <2>1. att[t][s].doc \in Docs /\ RetryDocument(att[t][s].doc)
    BY <1>12 DEF RetryAttachment, TypeInv, FilesTyped, File
  <2> QED
    BY <2>1, <1>11
<1> QED
  BY <1>1, <1>2, <1>3, <1>4, <1>5, <1>6, <1>7, <1>8, <1>9, <1>10, <1>11, <1>12 DEF Next, RequestStep

------------------------------------------------------------------------------
(* What an attachment has, it keeps *)

DocsKept == \A t \in Turns, s \in Slots : Linked(t, s) => att'[t][s].doc = att[t][s].doc

\* What writes to the attachments
LEMMA AttachmentWriters ==
  ASSUME [Next]_vars
  PROVE  \/ UNCHANGED att \/ DeleteSession
         \/ \E t \in Turns, S \in SUBSET Slots : CreateTurn(t, S)
         \/ \E r \in Requests : SetIgnored(r) \/ AddAttachment(r) \/ UploadFails(r) \/ LinkDocument(r)
<1>1. ASSUME NEW r \in Requests,
             \/ BeginArchive(r) \/ Archive(r) \/ CreateDocument(r) \/ IngestDocument(r)
             \/ LoseUpload(r) \/ IngestRefused(r) \/ IngestFails(r) \/ IngestFailRaises(r)
             \/ \E t \in Turns, s \in Slots :
                  \/ BeginAdd(r, t, s)
                  \/ \E flag \in BOOLEAN : BeginSetIgnored(r, t, s, flag)
                  \/ \E d \in Docs : BeginUpload(r, t, s, d)
      PROVE UNCHANGED att
  BY <1>1, ZenonT(40) DEF BeginArchive, Archive, CreateDocument, IngestDocument, LoseUpload, IngestRefused, IngestFails, IngestFailRaises, BeginAdd,
              BeginSetIgnored, BeginUpload
<1>2. ASSUME \/ \E d \in Docs :
                  \/ WorkflowFails(d) \/ WorkflowIndexes(d) \/ RetryDocument(d)
                  \/ DeleteDocument(d) \/ FinishDelete(d)
             \/ \E t \in Turns, s \in Slots : RetryAttachment(t, s)
      PROVE UNCHANGED att
  BY <1>2 DEF WorkflowFails, WorkflowIndexes, RetryDocument, DeleteDocument, FinishDelete, RetryAttachment
<1>3. ASSUME NEW a \in Streams, StreamStep(a) \/ LoseStream(a) \/ \E t \in Turns : PrepareAnswer(a, t)
      PROVE UNCHANGED att
  BY <1>3 DEF StreamStep, LoseStream, PrepareAnswer, ClaimUpdate, ClaimScope, StartStream,
              PersistAnswer, StreamRaises, FailAnswer, FailAnswerRaises, FinishStream
<1>4. CASE Restore \/ (\E t \in Turns : CancelTurn(t)) \/ UNCHANGED vars
  BY <1>4 DEF Restore, CancelTurn, vars
<1> QED
  BY <1>1, <1>2, <1>3, <1>4 DEF Next, RequestStep

\* Only the deletion of the session takes a document from an attachment.
LEMMA StepKeepsDocs ==
  ASSUME TypeInv, FileInv, [Next]_vars
  PROVE  DeleteSession \/ DocsKept
<1>1. CASE UNCHANGED att
  BY <1>1 DEF DocsKept
<1>2. ASSUME NEW t \in Turns, NEW S \in SUBSET Slots, CreateTurn(t, S) PROVE DocsKept
  <2>1. ASSUME NEW u \in Turns, NEW v \in Slots, Linked(u, v) PROVE u # t
    BY <1>2, <2>1 DEF CreateTurn, FileInv, AbsentBare, Linked, NoFile
  <2>2. ASSUME NEW u \in Turns, u # t PROVE att'[u] = att[u]
    BY <1>2, <2>2 DEF CreateTurn, TypeInv, FilesTyped
  <2> QED
    BY <2>1, <2>2 DEF DocsKept
<1>3. ASSUME NEW r \in Requests, SetIgnored(r) \/ AddAttachment(r) \/ UploadFails(r) \/ LinkDocument(r)
      PROVE DocsKept
  <2> DEFINE t == req[r].turn
             s == req[r].slot
             d == req[r].doc
             flagged == [att[t][s] EXCEPT !.ignored = req[r].flag]
             failed == [att[t][s] EXCEPT !.upload = "failed"]
             linked == [att[t][s] EXCEPT !.doc = d, !.upload = "uploaded"]
  <2>1. t \in Turns /\ s \in Slots
    BY <1>3 DEF SetIgnored, AddAttachment, UploadFails, LinkDocument, TypeInv, RequestsTyped, RequestTyped
  <2>2. att[t][s] \in File
    BY <2>1 DEF TypeInv, FilesTyped
  <2>3. CASE att' = [att EXCEPT ![t][s] = flagged] \/ att' = [att EXCEPT ![t][s] = failed]
    <3>1. flagged.doc = att[t][s].doc /\ failed.doc = att[t][s].doc
      BY <2>2 DEF File
    <3> HIDE DEF t, s, flagged, failed
    <3> QED
      BY <2>1, <2>3, <3>1 DEF DocsKept, TypeInv, FilesTyped
  <2>4. CASE AddAttachment(r) /\ s \notin Declared(t)
    <3>1. ~Linked(t, s)
      BY <2>1, <2>4 DEF FileInv, LinkedExist, Declared
    <3>2. UNCHANGED att \/ att' = [att EXCEPT ![t][s] = NewFile]
      BY <2>4 DEF AddAttachment
    <3> HIDE DEF t, s
    <3> QED
      BY <2>1, <3>1, <3>2 DEF DocsKept, TypeInv, FilesTyped
  <2>5. CASE CanLink(t, s, d) /\ att' = [att EXCEPT ![t][s] = linked]
    <3>1. linked.doc = d
      BY <2>2 DEF File
    <3>2. Linked(t, s) => att[t][s].doc = d
      BY <2>5 DEF CanLink, Linked
    <3> HIDE DEF t, s, d, linked
    <3> QED
      BY <2>1, <2>5, <3>1, <3>2 DEF DocsKept, TypeInv, FilesTyped
  <2>6. CASE UNCHANGED att
    BY <2>6 DEF DocsKept
  <2>7. CASE SetIgnored(r)
    <3>1. UNCHANGED att \/ att' = [att EXCEPT ![t][s] = flagged]
      BY <2>7 DEF SetIgnored
    <3> QED
      BY <3>1, <2>3, <2>6
  <2>8. CASE AddAttachment(r)
    <3>1. UNCHANGED att \/ s \notin Declared(t)
      BY <2>8 DEF AddAttachment
    <3> QED
      BY <3>1, <2>8, <2>4, <2>6
  <2>9. CASE UploadFails(r)
    <3>1. UNCHANGED att \/ att' = [att EXCEPT ![t][s] = failed]
      BY <2>9 DEF UploadFails
    <3> QED
      BY <3>1, <2>3, <2>6
  <2>10. CASE LinkDocument(r)
    <3>1. UNCHANGED att \/ (CanLink(t, s, d) /\ att' = [att EXCEPT ![t][s] = linked])
      BY <2>10 DEF LinkDocument
    <3> QED
      BY <3>1, <2>5, <2>6
  <2> QED
    BY <1>3, <2>7, <2>8, <2>9, <2>10
<1> QED
  BY <1>1, <1>2, <1>3, AttachmentWriters

\* An attachment keeps its document, and no other one gets it, while the
\* session exists, however many uploads race.
THEOREM FilesKeepDocuments == Spec => LinkedForGood
<1> DEFINE Kept ==
      session' # "deleted" =>
        /\ \A t \in Turns, s \in Slots :
              att[t][s].doc # None => att'[t][s].doc = att[t][s].doc
        /\ \A t, u \in Turns, s, v \in Slots :
              att'[t][s].doc = att'[u][v].doc /\ att'[t][s].doc # None
                  => t = u /\ s = v
<1>1. TypeInv /\ FileInv /\ FileInv' /\ [Next]_vars => Kept
  <2> SUFFICES ASSUME TypeInv, FileInv, FileInv', [Next]_vars, session' # "deleted" PROVE Kept
    OBVIOUS
  <2>1. DocsKept
    BY StepKeepsDocs DEF DeleteSession
  <2> QED
    BY <2>1 DEF DocsKept, FileInv, LinkOnce, Linked
<1>2. TypeInv /\ FileInv /\ FileInv' /\ [Next]_vars => [Kept]_vars
  BY <1>1
<1> HIDE DEF Kept
<1>3. Spec => [][Kept]_vars
  BY <1>2, TypeInit, FileInit, TypeStep, FileStep, PTL DEF Spec
<1> QED
  BY <1>3 DEF LinkedForGood, Kept

------------------------------------------------------------------------------
(* What an answer may be made from *)

\* A document in the scope of a stream is linked to its turn.
Trusted(a) ==
    stream[a].pc \in LivePc =>
        /\ stream[a].scope # {}
        /\ turn[stream[a].turn] # "gone" =>
             \A d \in stream[a].scope : \E s \in Slots : att[stream[a].turn][s].doc = d

\* A turn that is gone stays gone: a claim cannot be committed on it.
LEMMA GoneStays ==
  ASSUME TypeInv, ClaimInv, [Next]_vars, NEW t \in Turns, turn[t] = "gone"
  PROVE  turn'[t] = "gone"
<1>1. ASSUME NEW a \in Streams, ClaimScope(a) PROVE turn'[t] = "gone"
  <2>1. turn[stream[a].turn] # "gone"
    BY <1>1 DEF ClaimScope, ClaimInv, StatusAtStep, Retryable
  <2> QED
    BY <1>1, <2>1 DEF ClaimScope, TypeInv, RowsTyped
<1>2. ASSUME NEW a \in Streams, PersistAnswer(a) \/ FailAnswer(a) PROVE turn'[t] = "gone"
  BY <1>2 DEF PersistAnswer, FailAnswer, CanFail, TypeInv, RowsTyped
<1>3. ASSUME NEW u \in Turns, CancelTurn(u) \/ \E S \in SUBSET Slots : CreateTurn(u, S)
      PROVE turn'[t] = "gone"
  BY <1>3 DEF CancelTurn, CanCancel, CreateTurn, Retryable, TypeInv, RowsTyped
<1>4. CASE DeleteSession
  BY <1>4 DEF DeleteSession
<1>5. CASE UNCHANGED turn
  BY <1>5
<1>6. ASSUME NEW r \in Requests,
             \/ BeginArchive(r) \/ RequestStep(r) \/ LoseUpload(r)
             \/ \E u \in Turns, s \in Slots :
                  \/ BeginAdd(r, u, s)
                  \/ \E flag \in BOOLEAN : BeginSetIgnored(r, u, s, flag)
                  \/ \E d \in Docs : BeginUpload(r, u, s, d)
      PROVE UNCHANGED turn
  BY <1>6, ZenonT(40) DEF BeginArchive, Archive, CreateDocument, IngestDocument, LoseUpload, IngestRefused, IngestFails, IngestFailRaises, BeginAdd, RequestStep,
              BeginSetIgnored, BeginUpload, SetIgnored, AddAttachment, UploadFails, LinkDocument
<1>7. ASSUME \/ \E d \in Docs :
                  \/ WorkflowFails(d) \/ WorkflowIndexes(d) \/ RetryDocument(d)
                  \/ DeleteDocument(d) \/ FinishDelete(d)
             \/ \E u \in Turns, s \in Slots : RetryAttachment(u, s)
      PROVE UNCHANGED turn
  BY <1>7 DEF WorkflowFails, WorkflowIndexes, RetryDocument, DeleteDocument, FinishDelete, RetryAttachment
<1>8. ASSUME NEW a \in Streams,
             \/ ClaimUpdate(a) \/ StartStream(a) \/ StreamRaises(a) \/ FinishStream(a) \/ LoseStream(a)
             \/ FailAnswerRaises(a)
             \/ \E u \in Turns : PrepareAnswer(a, u)
      PROVE UNCHANGED turn
  BY <1>8 DEF ClaimUpdate, StartStream, StreamRaises, FinishStream, LoseStream, FailAnswerRaises, PrepareAnswer
<1>9. CASE Restore \/ UNCHANGED vars
  BY <1>5, <1>9 DEF Restore, vars
<1> QED
  BY <1>1, <1>2, <1>3, <1>4, <1>5, <1>6, <1>7, <1>8, <1>9 DEF Next, StreamStep

\* The claim reads a scope of linked documents, or does not take place.
LEMMA ClaimIsTrusted ==
  ASSUME TypeInv, NEW a \in Streams, ClaimScope(a)
  PROVE  Trusted(a)'
<1> DEFINE t == stream[a].turn
           scope == {att[t][s].doc : s \in InScope(t)}
<1>1. CASE scope # {}
  <2> DEFINE w == [stream[a] EXCEPT !.pc = "claimed", !.scope = scope]
  <2>1. stream' = [stream EXCEPT ![a] = w] /\ UNCHANGED att
    BY <1>1 DEF ClaimScope, ScopeFound
  <2>2. w.turn = t /\ w.scope = scope
    BY DEF TypeInv, StreamsTyped, StreamState
  <2>3. stream'[a] = w
    BY <2>1 DEF TypeInv, StreamsTyped
  <2>4. \A d \in scope : \E s \in Slots : att[t][s].doc = d
    BY DEF InScope, Active, Declared
  <2> HIDE DEF w, scope
  <2>5. stream'[a].turn = t /\ stream'[a].scope = scope
    BY <2>2, <2>3
  <2> HIDE DEF t
  <2> QED
    BY <1>1, <2>1, <2>4, <2>5 DEF Trusted
<1>2. CASE scope = {}
  <2>1. stream'[a] = NoStream
    BY <1>2 DEF ClaimScope, ScopeFound, DropStream, TypeInv, StreamsTyped
  <2> QED
    BY <2>1 DEF Trusted, NoStream, LivePc
<1> QED
  BY <1>1, <1>2

\* A stream that works on keeps its turn and its scope.
LEMMA ScopeKept ==
  ASSUME TypeInv, [Next]_vars, NEW a \in Streams, ~ClaimScope(a), stream'[a].pc \in LivePc
  PROVE  /\ stream[a].pc \in LivePc
         /\ stream'[a].turn = stream[a].turn /\ stream'[a].scope = stream[a].scope
<1>1. CASE UNCHANGED stream
  BY <1>1
<1>2. ASSUME NEW b \in Streams, DropStream(b)
      PROVE  b # a /\ stream'[a] = stream[a]
  BY <1>2 DEF DropStream, NoStream, LivePc, TypeInv, StreamsTyped
<1>3. ASSUME NEW b \in Streams, NEW p \in StreamPc, SetStream(b, p),
             p \in LivePc => stream[b].pc \in LivePc
      PROVE  /\ stream[a].pc \in LivePc
             /\ stream'[a].turn = stream[a].turn /\ stream'[a].scope = stream[a].scope
  <2> DEFINE w == [stream[b] EXCEPT !.pc = p]
  <2>1. w.pc = p /\ w.turn = stream[b].turn /\ w.scope = stream[b].scope
    BY DEF TypeInv, StreamsTyped, StreamState
  <2>2. stream'[a] = IF a = b THEN w ELSE stream[a]
    BY <1>3 DEF SetStream, TypeInv, StreamsTyped
  <2> HIDE DEF w
  <2> QED
    BY <1>3, <2>1, <2>2
<1>4. ASSUME NEW b \in Streams, NEW t \in Turns, PrepareAnswer(b, t)
      PROVE  b # a /\ stream'[a] = stream[a]
  <2> DEFINE w == [stream[b] EXCEPT !.pc = "prepared", !.turn = t]
  <2>1. w.pc = "prepared"
    BY DEF TypeInv, StreamsTyped, StreamState
  <2>2. stream'[a] = IF a = b THEN w ELSE stream[a]
    BY <1>4 DEF PrepareAnswer, TypeInv, StreamsTyped
  <2> QED
    BY <2>1, <2>2 DEF LivePc
<1>5. ASSUME NEW b \in Streams, ClaimScope(b)
      PROVE  b # a /\ stream'[a] = stream[a]
  <2> DEFINE scope == {att[stream[b].turn][s].doc : s \in InScope(stream[b].turn)}
             w == [stream[b] EXCEPT !.pc = "claimed", !.scope = scope]
  <2>1. stream' = [stream EXCEPT ![b] = w] \/ DropStream(b)
    BY <1>5 DEF ClaimScope
  <2> HIDE DEF w
  <2> QED
    BY <1>5, <2>1, <1>2 DEF TypeInv, StreamsTyped
<1>6. ASSUME NEW b \in Streams, StreamStep(b) \/ LoseStream(b), ~ClaimScope(b)
      PROVE  \/ DropStream(b)
             \/ \E p \in StreamPc : SetStream(b, p) /\ (p \in LivePc => stream[b].pc \in LivePc)
  BY <1>6 DEF StreamStep, LoseStream, ClaimUpdate, StartStream, PersistAnswer, StreamRaises, AfterRaise,
              FailAnswer, FailAnswerRaises, FinishStream, LivePc, StreamPc
<1>7. \/ UNCHANGED stream
      \/ \E b \in Streams : StreamStep(b) \/ LoseStream(b) \/ \E t \in Turns : PrepareAnswer(b, t)
  <2>1. ASSUME NEW r \in Requests,
               \/ BeginArchive(r) \/ RequestStep(r) \/ LoseUpload(r)
               \/ \E u \in Turns, s \in Slots :
                    \/ BeginAdd(r, u, s)
                    \/ \E flag \in BOOLEAN : BeginSetIgnored(r, u, s, flag)
                    \/ \E d \in Docs : BeginUpload(r, u, s, d)
        PROVE UNCHANGED stream
    BY <2>1, ZenonT(40) DEF BeginArchive, Archive, CreateDocument, IngestDocument, LoseUpload, IngestRefused, IngestFails, IngestFailRaises, BeginAdd, RequestStep,
                BeginSetIgnored, BeginUpload, SetIgnored, AddAttachment, UploadFails, LinkDocument
  <2>2. ASSUME \/ \E d \in Docs :
                    \/ WorkflowFails(d) \/ WorkflowIndexes(d) \/ RetryDocument(d)
                    \/ DeleteDocument(d) \/ FinishDelete(d)
               \/ \E u \in Turns, s \in Slots : RetryAttachment(u, s)
        PROVE UNCHANGED stream
    BY <2>2 DEF WorkflowFails, WorkflowIndexes, RetryDocument, DeleteDocument, FinishDelete, RetryAttachment
  <2>3. ASSUME NEW t \in Turns, CancelTurn(t) \/ \E S \in SUBSET Slots : CreateTurn(t, S)
        PROVE UNCHANGED stream
    BY <2>3 DEF CancelTurn, CreateTurn
  <2>4. CASE DeleteSession \/ Restore \/ UNCHANGED vars
    BY <2>4 DEF DeleteSession, Restore, vars
  <2> QED
    BY <2>1, <2>2, <2>3, <2>4 DEF Next
<1>8. ASSUME NEW b \in Streams, StreamStep(b) \/ LoseStream(b)
      PROVE  /\ stream[a].pc \in LivePc
             /\ stream'[a].turn = stream[a].turn /\ stream'[a].scope = stream[a].scope
  <2>1. CASE ClaimScope(b)
    BY <2>1, <1>5
  <2>2. CASE DropStream(b)
    BY <2>2, <1>2
  <2>3. CASE \E p \in StreamPc : SetStream(b, p) /\ (p \in LivePc => stream[b].pc \in LivePc)
    BY <2>3, <1>3
  <2> QED
    BY <1>8, <1>6, <2>1, <2>2, <2>3
<1>9. ASSUME NEW b \in Streams, NEW t \in Turns, PrepareAnswer(b, t)
      PROVE  /\ stream[a].pc \in LivePc
             /\ stream'[a].turn = stream[a].turn /\ stream'[a].scope = stream[a].scope
  BY <1>9, <1>4
<1> QED
  BY <1>1, <1>7, <1>8, <1>9

\* An answer is never generated from an empty scope, nor from a document that
\* does not belong to its turn.
THEOREM ScopeIsOwn == Spec => []ScopeTrusted
<1>1. Init => ScopeTrusted
  BY DEF Init, ScopeTrusted, NoStream, LivePc
<1>2. TypeInv /\ ClaimInv /\ FileInv /\ ScopeTrusted /\ [Next]_vars => ScopeTrusted'
  <2> SUFFICES ASSUME TypeInv, ClaimInv, FileInv, ScopeTrusted, [Next]_vars, NEW a \in Streams
      PROVE Trusted(a)'
    BY DEF ScopeTrusted, Trusted
  <2>1. CASE ClaimScope(a)
    BY <2>1, ClaimIsTrusted
  <2>2. CASE ~ClaimScope(a) /\ stream'[a].pc \in LivePc
    <3> DEFINE t == stream[a].turn
    <3>1. /\ stream[a].pc \in LivePc /\ t \in Turns /\ stream[a].scope \subseteq Docs
          /\ stream'[a].turn = t /\ stream'[a].scope = stream[a].scope
      BY <2>2, ScopeKept DEF TypeInv, StreamsTyped, StreamState, LivePc
    <3>2. stream[a].scope # {}
      BY <3>1 DEF ScopeTrusted
    <3>3. ASSUME turn'[t] # "gone", NEW d \in stream[a].scope PROVE \E s \in Slots : att'[t][s].doc = d
      <4>1. PICK s \in Slots : att[t][s].doc = d
        BY <3>1, <3>3, GoneStays DEF ScopeTrusted
      <4>2. Linked(t, s)
        BY <3>1, <4>1, ChatTurnAssumption DEF Linked
      <4>3. ~DeleteSession
        BY <3>1, <3>3 DEF DeleteSession
      <4> QED
        BY <3>1, <4>1, <4>2, <4>3, StepKeepsDocs DEF DocsKept
    <3> HIDE DEF t
    <3> QED
      BY <3>1, <3>2, <3>3 DEF Trusted
  <2>3. CASE stream'[a].pc \notin LivePc
    BY <2>3 DEF Trusted
  <2> QED
    BY <2>1, <2>2, <2>3
<1> QED
  BY <1>1, <1>2, TypeInit, ClaimInit, FileInit, TypeStep, ClaimStep, FileStep, PTL DEF Spec

------------------------------------------------------------------------------
(* Why a linked document is pending *)

Cause(d) ==
    \/ d \in started
    \/ \E r \in Requests : req[r].pc \in {"linked", "raised"} /\ req[r].doc = d
    \/ d \in stranded

HandsKept == \A r \in Requests :
    req[r].pc \in {"linked", "raised"} => req'[r].pc \in {"linked", "raised"} /\ req'[r].doc = req[r].doc

\* A cause stays unless the workflow ends or the request lets go.
LEMMA CauseKept ==
  ASSUME TypeInv, StuckHasCause, NEW d \in Docs, LinkedPending(d),
         d \in started => d \in started', HandsKept, d \in stranded => d \in stranded'
  PROVE  Cause(d)'
  BY DEF StuckHasCause, Cause, HandsKept

\* A request that is not about to ingest comes and goes.
LEMMA OtherHandsKept ==
  ASSUME TypeInv, NEW r \in Requests, req[r].pc \notin {"linked", "raised"}, NEW q, req' = [req EXCEPT ![r] = q]
  PROVE  HandsKept
  BY DEF HandsKept, TypeInv, RequestsTyped

\* The requests that begin, and those that change something else
LEMMA RequestKeepsCause ==
  ASSUME TypeInv, FileInv, StuckHasCause, NEW r \in Requests,
         \/ BeginArchive(r) \/ Archive(r) \/ SetIgnored(r) \/ AddAttachment(r)
         \/ CreateDocument(r) \/ UploadFails(r)
         \/ \E t \in Turns, s \in Slots :
              \/ BeginAdd(r, t, s)
              \/ \E flag \in BOOLEAN : BeginSetIgnored(r, t, s, flag)
              \/ \E e \in Docs : BeginUpload(r, t, s, e),
         NEW d \in Docs, LinkedPending(d)'
  PROVE  Cause(d)'
<1>1. UNCHANGED <<started, stranded>> /\ req[r].pc \notin {"linked", "raised"}
  BY ZenonT(40) DEF BeginArchive, Archive, SetIgnored, AddAttachment, CreateDocument, UploadFails, BeginAdd,
         BeginSetIgnored, BeginUpload, history
<1>2. HandsKept
  <2>1. CASE BeginArchive(r) \/ Archive(r) \/ SetIgnored(r) \/ AddAttachment(r)
    BY <1>1, <2>1 DEF BeginArchive, Archive, SetIgnored, AddAttachment, DropRequest, HandsKept, TypeInv, RequestsTyped
  <2>2. CASE CreateDocument(r) \/ UploadFails(r)
    BY <1>1, <2>2 DEF CreateDocument, UploadFails, DropRequest, HandsKept, TypeInv, RequestsTyped
  <2>3. ASSUME NEW t \in Turns, NEW s \in Slots,
               \/ BeginAdd(r, t, s)
               \/ \E flag \in BOOLEAN : BeginSetIgnored(r, t, s, flag)
               \/ \E e \in Docs : BeginUpload(r, t, s, e)
        PROVE  HandsKept
    BY <1>1, <2>3 DEF BeginAdd, BeginSetIgnored, BeginUpload, HandsKept, TypeInv, RequestsTyped
  <2> QED
    BY <2>1, <2>2, <2>3
<1>3. CASE CreateDocument(r)
  <2>1. UNCHANGED att /\ \A t \in Turns, s \in Slots : att[t][s].doc # req[r].doc
    BY <1>3 DEF CreateDocument, FileInv, InHand
  <2>2. d # req[r].doc
    BY <2>1 DEF LinkedPending
  <2>3. doc'[d] = doc[d]
    BY <1>3, <2>2 DEF CreateDocument, TypeInv, RowsTyped
  <2> QED
    BY <1>1, <1>2, <2>1, <2>3, CauseKept DEF LinkedPending
<1>4. CASE SetIgnored(r) \/ AddAttachment(r) \/ UploadFails(r)
  <2> DEFINE t == req[r].turn
             s == req[r].slot
             flagged == [att[t][s] EXCEPT !.ignored = req[r].flag]
             failed == [att[t][s] EXCEPT !.upload = "failed"]
  <2>1. t \in Turns /\ s \in Slots /\ att[t][s] \in File
    BY <1>4 DEF SetIgnored, AddAttachment, UploadFails, TypeInv, FilesTyped, RequestsTyped, RequestTyped
  <2>2. flagged.doc = att[t][s].doc /\ failed.doc = att[t][s].doc /\ NewFile.doc = None
    BY <2>1 DEF File, NewFile, NoFile
  <2>3. /\ SetIgnored(r) => UNCHANGED att \/ att' = [att EXCEPT ![t][s] = flagged]
        /\ AddAttachment(r) => UNCHANGED att \/ att' = [att EXCEPT ![t][s] = NewFile]
    BY DEF SetIgnored, AddAttachment
  <2>4. UploadFails(r) => UNCHANGED att \/ att' = [att EXCEPT ![t][s] = failed]
    BY DEF UploadFails
  <2>5. UNCHANGED doc
    BY <1>4 DEF SetIgnored, AddAttachment, UploadFails
  <2> HIDE DEF t, s, flagged, failed
  <2>6. \E f \in {flagged, failed, NewFile} : UNCHANGED att \/ att' = [att EXCEPT ![t][s] = f]
    BY <1>4, <2>3, <2>4
  <2>7. ASSUME NEW u \in Turns, NEW v \in Slots PROVE att'[u][v].doc \in {att[u][v].doc, None}
    BY <2>1, <2>2, <2>6 DEF TypeInv, FilesTyped
  <2>8. LinkedPending(d)
    BY <2>5, <2>7, ChatTurnAssumption DEF LinkedPending
  <2> QED
    BY <1>1, <1>2, <2>8, CauseKept
<1>5. CASE UNCHANGED <<att, doc>>
  BY <1>1, <1>2, <1>5, CauseKept DEF LinkedPending
<1>6. CASE BeginArchive(r) \/ Archive(r)
  BY <1>5, <1>6 DEF BeginArchive, Archive
<1>7. ASSUME NEW t \in Turns, NEW s \in Slots,
             \/ BeginAdd(r, t, s)
             \/ \E flag \in BOOLEAN : BeginSetIgnored(r, t, s, flag)
             \/ \E e \in Docs : BeginUpload(r, t, s, e)
      PROVE  Cause(d)'
  BY <1>5, <1>7 DEF BeginAdd, BeginSetIgnored, BeginUpload
<1> QED
  BY <1>3, <1>4, <1>6, <1>7

\* What is linked is in the hands of the request that linked it, until it ingests.
LEMMA UploadKeepsCause ==
  ASSUME TypeInv, FileInv, StuckHasCause, NEW r \in Requests,
         \/ LinkDocument(r) \/ IngestDocument(r) \/ IngestFails(r)
         \/ LoseUpload(r) \/ IngestRefused(r) \/ IngestFailRaises(r),
         NEW d \in Docs, LinkedPending(d)'
  PROVE  Cause(d)'
<1>1. CASE LinkDocument(r)
  <2> DEFINE t == req[r].turn
             s == req[r].slot
             e == req[r].doc
             f == [att[t][s] EXCEPT !.doc = e, !.upload = "uploaded"]
             q == [req[r] EXCEPT !.pc = "linked"]
  <2>1. req[r].pc = "created" /\ UNCHANGED <<doc, started, stranded>>
    BY <1>1 DEF LinkDocument, history
  <2>2. CASE UNCHANGED att
    <3>1. req' = [req EXCEPT ![r] = NoRequest] \/ req' = [req EXCEPT ![r] = q]
      BY <1>1 DEF LinkDocument, DropRequest
    <3>2. HandsKept
      BY <2>1, <3>1, OtherHandsKept
    <3> QED
      BY <2>1, <2>2, <3>2, CauseKept DEF LinkedPending
  <2>3. CASE att' # att
    <3>0. att' = [att EXCEPT ![t][s].doc = e, ![t][s].upload = "uploaded"]
          /\ req' = [req EXCEPT ![r].pc = "linked"]
      BY <1>1, <2>3, Zenon DEF LinkDocument, AfterLink
    <3>1. att' = [att EXCEPT ![t][s] = f] /\ req' = [req EXCEPT ![r] = q]
      BY <3>0
    <3>2. q.pc = "linked" /\ q.doc = e
      BY DEF TypeInv, RequestsTyped, RequestState
    <3>3. t \in Turns /\ s \in Slots /\ f.doc = e
      BY <2>1 DEF TypeInv, RequestsTyped, RequestTyped, FilesTyped, File
    <3> HIDE DEF t, s, e, f, q
    <3>4. HandsKept
      BY <2>1, <3>1, OtherHandsKept
    <3>5. CASE d = e
      <4>1. req'[r].pc = "linked" /\ req'[r].doc = d
        BY <3>1, <3>2, <3>5 DEF TypeInv, RequestsTyped
      <4> QED
        BY <4>1 DEF Cause
    <3>6. CASE d # e
      <4>1. ASSUME NEW u \in Turns, NEW v \in Slots, att'[u][v].doc = d PROVE att[u][v].doc = d
        BY <3>1, <3>3, <3>6, <4>1 DEF TypeInv, FilesTyped
      <4> QED
        BY <2>1, <3>4, <4>1, CauseKept DEF LinkedPending
    <3> QED
      BY <3>5, <3>6
  <2> QED
    BY <2>2, <2>3
<1>2. ASSUME IngestDocument(r) \/ IngestFails(r) \/ LoseUpload(r) \/ IngestRefused(r) \/ IngestFailRaises(r)
      PROVE  Cause(d)'
  <2> DEFINE e == req[r].doc
  <2> USE DEF IngestDocument, IngestFails, LoseUpload, IngestRefused, IngestFailRaises
  <2>1. UNCHANGED att /\ (DropRequest(r) \/ (req' = [req EXCEPT ![r].pc = "raised"] /\ req[r].pc = "linked"))
    BY <1>2
  <2>2. \A p \in Requests : p # r => req'[p] = req[p]
    BY <2>1 DEF DropRequest, TypeInv, RequestsTyped
  <2>3. started \subseteq started' /\ stranded \subseteq stranded'
    BY <1>2 DEF Strand, history
  <2>4. CASE d # e \/ req[r].pc \notin {"linked", "raised"}
    <3>1. doc'[d] = doc[d]
      BY <1>2, <2>4 DEF StartFails, TypeInv, RowsTyped
    <3>2. LinkedPending(d)
      BY <2>1, <3>1 DEF LinkedPending
    <3> QED
      BY <2>2, <2>3, <2>4, <3>2 DEF StuckHasCause, Cause
  <2>5. CASE d = e /\ req' = [req EXCEPT ![r].pc = "raised"]
    <3>1. req'[r].pc = "raised" /\ req'[r].doc = d
      BY <2>5 DEF TypeInv, RequestsTyped, RequestState
    <3> QED
      BY <3>1 DEF Cause
  <2>6. CASE d = e /\ DropRequest(r) /\ req[r].pc \in {"linked", "raised"}
    <3>1. CASE IngestFails(r)
      BY <2>6, <3>1 DEF StartFails, LinkedPending, TypeInv, RowsTyped
    <3>2. CASE IngestDocument(r)
      <4>1. req'[r] = NoRequest
        BY <2>6 DEF DropRequest, TypeInv, RequestsTyped
      <4>2. ~(req' = [req EXCEPT ![r].pc = "raised"])
        BY <4>1 DEF NoRequest, TypeInv, RequestsTyped, RequestState
      <4> QED
        BY <2>6, <3>2, <4>2 DEF Cause
    <3>3. CASE LoseUpload(r) \/ IngestRefused(r) \/ IngestFailRaises(r)
      <4>1. Strand(r) /\ UNCHANGED <<doc, started>>
        BY <2>6, <3>3
      <4>2. doc[d] = "pending"
        BY <4>1 DEF LinkedPending
      <4> QED
        BY <2>6, <4>1, <4>2 DEF Strand, Cause
    <3> QED
      BY <1>2, <3>1, <3>2, <3>3
  <2> QED
    BY <2>1, <2>4, <2>5, <2>6
<1> QED
  BY <1>1, <1>2

\* A workflow that ends has changed the status, and a retry starts another one.
LEMMA WorkflowKeepsCause ==
  ASSUME TypeInv, StuckHasCause, NEW e \in Docs,
         WorkflowFails(e) \/ WorkflowIndexes(e) \/ RetryDocument(e) \/ DeleteDocument(e) \/ FinishDelete(e),
         NEW d \in Docs, LinkedPending(d)'
  PROVE  Cause(d)'
<1>1. UNCHANGED <<att, req>> /\ stranded \ {e} \subseteq stranded'
  BY DEF WorkflowFails, WorkflowIndexes, RetryDocument, DeleteDocument, FinishDelete, history
<1>2. HandsKept
  BY <1>1 DEF HandsKept
<1>3. CASE d = e
  <2>1. RetryDocument(e)
    BY <1>3 DEF WorkflowFails, WorkflowIndexes, DeleteDocument, FinishDelete, LinkedPending, TypeInv, RowsTyped
  <2> QED
    BY <1>3, <2>1 DEF RetryDocument, Cause
<1>4. CASE d # e
  <2>1. doc'[d] = doc[d] /\ (d \in started => d \in started')
    BY <1>4 DEF WorkflowFails, WorkflowIndexes, RetryDocument, DeleteDocument, FinishDelete, TypeInv, RowsTyped
  <2>2. LinkedPending(d)
    BY <1>1, <2>1 DEF LinkedPending
  <2>3. d \in stranded => d \in stranded'
    BY <1>1, <1>4
  <2> QED
    BY <1>2, <2>1, <2>2, <2>3, CauseKept
<1> QED
  BY <1>3, <1>4

\* A linked document is pending because a workflow runs, because the request that
\* linked it is still at work on it, or because that request was refused or lost,
\* or could not even report that it failed.
THEOREM PendingHasCause == Spec => []StuckHasCause
<1>1. Init => StuckHasCause
  BY DEF Init, StuckHasCause, LinkedPending
<1>2. TypeInv /\ FileInv /\ StuckHasCause /\ [Next]_vars => StuckHasCause'
  <2> SUFFICES ASSUME TypeInv, FileInv, StuckHasCause, [Next]_vars, NEW d \in Docs, LinkedPending(d)'
      PROVE Cause(d)'
    BY DEF StuckHasCause, Cause
  <2>1. CASE UNCHANGED <<att, doc, started, req, stranded>>
    BY <2>1 DEF StuckHasCause, LinkedPending, Cause
  <2>2. CASE Restore \/ (\E t \in Turns : CancelTurn(t)) \/ UNCHANGED vars
    BY <2>1, <2>2 DEF Restore, CancelTurn, vars, history
  <2>3. CASE DeleteSession
    BY <2>3, ChatTurnAssumption DEF DeleteSession, LinkedPending, NoFile
  <2>4. ASSUME NEW t \in Turns, NEW S \in SUBSET Slots, CreateTurn(t, S) PROVE Cause(d)'
    <3>1. ASSUME NEW u \in Turns, NEW v \in Slots PROVE att'[u][v].doc \in {att[u][v].doc, None}
      BY <2>4 DEF CreateTurn, NewFile, NoFile, TypeInv, FilesTyped
    <3>2. UNCHANGED <<doc, started, req, stranded>>
      BY <2>4 DEF CreateTurn, history
    <3>3. LinkedPending(d)
      BY <3>1, <3>2, ChatTurnAssumption DEF LinkedPending
    <3> QED
      BY <3>2, <3>3 DEF StuckHasCause, Cause
  <2>5. ASSUME NEW r \in Requests,
               BeginArchive(r) \/ RequestStep(r) \/ \E t \in Turns, s \in Slots :
                  \/ BeginAdd(r, t, s)
                  \/ \E flag \in BOOLEAN : BeginSetIgnored(r, t, s, flag)
                  \/ \E e \in Docs : BeginUpload(r, t, s, e)
        PROVE Cause(d)'
    BY <2>5, RequestKeepsCause, UploadKeepsCause DEF RequestStep
  <2>6. ASSUME NEW e \in Docs,
               WorkflowFails(e) \/ WorkflowIndexes(e) \/ RetryDocument(e) \/ DeleteDocument(e) \/ FinishDelete(e)
        PROVE Cause(d)'
    BY <2>6, WorkflowKeepsCause
  <2>7. ASSUME NEW t \in Turns, NEW s \in Slots, RetryAttachment(t, s) PROVE Cause(d)'
    <3>1. att[t][s].doc \in Docs /\ RetryDocument(att[t][s].doc)
      BY <2>7 DEF RetryAttachment, TypeInv, FilesTyped, File
    <3> QED
      BY <3>1, <2>6
  <2>8. ASSUME NEW a \in Streams, StreamStep(a) \/ \E t \in Turns : PrepareAnswer(a, t) PROVE Cause(d)'
    BY <2>1, <2>8 DEF StreamStep, PrepareAnswer, ClaimUpdate, ClaimScope, StartStream, PersistAnswer,
                      StreamRaises, FailAnswer, FailAnswerRaises, FinishStream, history
  <2>9. CASE (\E a \in Streams : LoseStream(a)) \/ (\E r \in Requests : LoseUpload(r))
    BY <2>1, <2>9, UploadKeepsCause DEF LoseStream
  <2> QED
    BY <2>2, <2>3, <2>4, <2>5, <2>6, <2>7, <2>8, <2>9 DEF Next
<1> QED
  BY <1>1, <1>2, TypeInit, FileInit, TypeStep, FileStep, PTL DEF Spec

------------------------------------------------------------------------------
(* How many attachments a turn has *)

RoomFor(t) == Cardinality(Declared(t)) <= MaxAttachments

LEMMA FewerFit ==
  ASSUME NEW t \in Turns, NEW S \in SUBSET Slots, Cardinality(S) <= MaxAttachments, Declared(t)' \subseteq S
  PROVE  RoomFor(t)'
<1>1. IsFiniteSet(S) /\ Cardinality(S) \in Nat
  BY ChatTurnAssumption, FS_Subset, FS_CardinalityType
<1>2. IsFiniteSet(Declared(t)') /\ Cardinality(Declared(t)') <= Cardinality(S)
  BY <1>1, FS_Subset
<1>3. Cardinality(Declared(t)') \in Nat
  BY <1>2, FS_CardinalityType
<1> QED
  BY <1>1, <1>2, <1>3, ChatTurnAssumption DEF RoomFor

\* A write to a declared attachment, or one that does not declare it, adds nothing.
LEMMA DeclaredWrite ==
  ASSUME TypeInv, NEW u \in Turns, NEW s \in Slots, NEW f, att' = [att EXCEPT ![u][s] = f],
         f.upload = att[u][s].upload \/ s \in Declared(u) \/ HasRoom(u), NEW t \in Turns
  PROVE  \/ Declared(t)' \subseteq Declared(t)
         \/ HasRoom(t) /\ \E v \in Slots \ Declared(t) : Declared(t)' \subseteq Declared(t) \cup {v}
<1>1. \A v \in Slots : att'[t][v] = IF t = u /\ v = s THEN f ELSE att[t][v]
  BY DEF TypeInv, FilesTyped
<1>2. CASE t # u
  BY <1>1, <1>2 DEF Declared
<1>3. CASE t = u
  <2>1. CASE f.upload = att[u][s].upload \/ s \in Declared(u)
    BY <1>1, <1>3, <2>1 DEF Declared
  <2>2. CASE s \notin Declared(u) /\ HasRoom(u)
    BY <1>1, <1>3, <2>2 DEF Declared
  <2> QED
    BY <2>1, <2>2
<1> QED
  BY <1>2, <1>3

\* Of the writers to an attachment one declares it, and counts before.
LEMMA DeclaredStep ==
  ASSUME TypeInv, NEW r \in Requests,
         SetIgnored(r) \/ AddAttachment(r) \/ UploadFails(r) \/ LinkDocument(r), NEW t \in Turns
  PROVE  \/ Declared(t)' \subseteq Declared(t)
         \/ HasRoom(t) /\ \E s \in Slots \ Declared(t) : Declared(t)' \subseteq Declared(t) \cup {s}
<1> DEFINE u == req[r].turn
           s == req[r].slot
           d == req[r].doc
           flagged == [att[u][s] EXCEPT !.ignored = req[r].flag]
           failed == [att[u][s] EXCEPT !.upload = "failed"]
           linked == [att[u][s] EXCEPT !.doc = d, !.upload = "uploaded"]
<1>1. u \in Turns /\ s \in Slots /\ att[u][s] \in File
  BY DEF SetIgnored, AddAttachment, UploadFails, LinkDocument, TypeInv, FilesTyped, RequestsTyped, RequestTyped
<1>2. SetIgnored(r) => (UNCHANGED att) \/ (att' = [att EXCEPT ![u][s] = flagged] /\ flagged.upload = att[u][s].upload)
  BY <1>1 DEF SetIgnored, File
<1>3. UploadFails(r) => (UNCHANGED att) \/ (att' = [att EXCEPT ![u][s] = failed] /\ s \in Declared(u))
  BY <1>1 DEF UploadFails, Declared
<1>4. LinkDocument(r) => (UNCHANGED att) \/ (att' = [att EXCEPT ![u][s] = linked] /\ s \in Declared(u))
  <2> SUFFICES ASSUME LinkDocument(r)
               PROVE  UNCHANGED att \/ (att' = [att EXCEPT ![u][s] = linked] /\ s \in Declared(u))
    OBVIOUS
  <2>1. UNCHANGED att \/ (CanLink(u, s, d) /\ att' = [att EXCEPT ![u][s] = linked])
    BY DEF LinkDocument
  <2> QED
    BY <2>1 DEF CanLink
<1>5. AddAttachment(r) => (UNCHANGED att) \/ (att' = [att EXCEPT ![u][s] = NewFile] /\ HasRoom(u))
  BY DEF AddAttachment
<1> HIDE DEF u, s, d, flagged, failed, linked
<1>6. CASE UNCHANGED att
  BY <1>6 DEF Declared
<1> QED
  BY <1>1, <1>2, <1>3, <1>4, <1>5, <1>6, DeclaredWrite

\* However many additions run at the same time, a turn has room for its attachments.
THEOREM LimitHolds == Spec => []AttachmentLimit
<1>1. Init => AttachmentLimit
  <2> SUFFICES ASSUME Init, NEW t \in Turns PROVE Cardinality(Declared(t)) <= MaxAttachments
    BY DEF AttachmentLimit
  <2>1. Declared(t) = {}
    BY DEF Init, Declared, NoFile
  <2> QED
    BY <2>1, FS_EmptySet, ChatTurnAssumption
<1>2. TypeInv /\ AttachmentLimit /\ [Next]_vars => AttachmentLimit'
  <2> SUFFICES ASSUME TypeInv, AttachmentLimit, [Next]_vars, NEW t \in Turns PROVE RoomFor(t)'
    BY DEF AttachmentLimit, RoomFor
  <2>1. Declared(t) \in SUBSET Slots /\ RoomFor(t)
    BY DEF AttachmentLimit, RoomFor, Declared
  <2>2. CASE Declared(t)' \subseteq Declared(t)
    BY <2>1, <2>2, FewerFit DEF RoomFor
  <2>3. CASE DeleteSession
    BY <2>2, <2>3 DEF DeleteSession, Declared, NoFile
  <2>4. CASE UNCHANGED att
    BY <2>2, <2>4 DEF Declared
  <2>5. ASSUME NEW u \in Turns, NEW S \in SUBSET Slots, CreateTurn(u, S) PROVE RoomFor(t)'
    <3>1. CASE u = t
      <4>1. Declared(t)' \subseteq S /\ Cardinality(S) <= MaxAttachments
        BY <2>5, <3>1 DEF CreateTurn, Declared, NoFile, TypeInv, FilesTyped
      <4> QED
        BY <4>1, FewerFit
    <3>2. CASE u # t
      BY <2>2, <2>5, <3>2 DEF CreateTurn, Declared, TypeInv, FilesTyped
    <3> QED
      BY <3>1, <3>2
  <2>6. ASSUME HasRoom(t), NEW s \in Slots \ Declared(t), Declared(t)' \subseteq Declared(t) \cup {s}
        PROVE  RoomFor(t)'
    <3>1. IsFiniteSet(Declared(t))
      BY <2>1, ChatTurnAssumption, FS_Subset
    <3>2. Cardinality(Declared(t)) \in Nat /\ Cardinality(Declared(t) \cup {s}) = Cardinality(Declared(t)) + 1
      BY <3>1, <2>6, FS_AddElement, FS_CardinalityType
    <3>3. Cardinality(Declared(t) \cup {s}) <= MaxAttachments
      BY <2>6, <3>2, ChatTurnAssumption DEF HasRoom
    <3> QED
      BY <2>1, <2>6, <3>3, FewerFit
  <2>7. ASSUME NEW r \in Requests, SetIgnored(r) \/ AddAttachment(r) \/ UploadFails(r) \/ LinkDocument(r)
        PROVE  RoomFor(t)'
    BY <2>2, <2>6, <2>7, DeclaredStep
  <2> QED
    BY <2>3, <2>4, <2>5, <2>7, AttachmentWriters
<1> QED
  BY <1>1, <1>2, TypeInit, TypeStep, PTL DEF Spec
=============================================================================
