--------------------------- MODULE DocumentProofs ---------------------------
(***************************************************************************)
(* Theorems about DocumentLifecycle, for any number of workflows, attempts *)
(* and requests.  TypeInv types the state and DeleteInv follows a deletion;*)
(* SettledInv says that, as long as every retry comes after the workflows  *)
(* it replaces, the document is in one party's hands at a time: of a retry *)
(* that cleans up, or of one workflow, whose batches alone are stored.     *)
(***************************************************************************)
EXTENDS DocumentLifecycle, TLAPS

------------------------------------------------------------------------------
(* Typing *)

\* An activity under way has attempts left.
AttemptsLeft == \A n \in Runs : run[n].pc \in Open => run[n].tries < MaxAttempts

\* TypeOK with what it needs to be inductive.
TypeInv == TypeOK /\ AttemptsLeft

\* A workflow that goes on, or starts anew, stays typed.
LEMMA RunAdvances ==
  ASSUME TypeInv, NEW n \in Runs, NEW pc \in Open \cup {"over"}, run[n].pc \in Open, Advance(n, pc)
  PROVE  run' \in [Runs -> [pc : Open \cup {"none", "over"}, tries : 0..MaxAttempts]] /\ AttemptsLeft'
<1> DEFINE t == IF pc \in {"chunk", "embed"} THEN 0 ELSE run[n].tries
<1>1. run[n] \in [pc : Open \cup {"none", "over"}, tries : 0..MaxAttempts]
      /\ run[n].tries < MaxAttempts
  BY DEF TypeInv, TypeOK, AttemptsLeft
<1>2. t \in 0..MaxAttempts /\ t < MaxAttempts
  BY <1>1, DocumentAssumption
<1>3. run' = [run EXCEPT ![n].pc = pc, ![n].tries = t]
  BY DEF Advance
<1> HIDE DEF t
<1>4. run' \in [Runs -> [pc : Open \cup {"none", "over"}, tries : 0..MaxAttempts]]
  BY <1>2, <1>3 DEF TypeInv, TypeOK
<1>5. \A m \in Runs : run'[m].tries = IF m = n THEN t ELSE run[m].tries
  BY <1>3 DEF TypeInv, TypeOK
<1>6. \A m \in Runs : m # n => run'[m] = run[m]
  BY <1>3 DEF TypeInv, TypeOK
<1> QED
  BY <1>2, <1>4, <1>5, <1>6 DEF TypeInv, AttemptsLeft

\* A new workflow is typed.
LEMMA RunStarts ==
  ASSUME TypeInv, NEW n \in Runs, Start(n)
  PROVE  run' \in [Runs -> [pc : Open \cup {"none", "over"}, tries : 0..MaxAttempts]] /\ AttemptsLeft'
  BY DocumentAssumption DEF TypeInv, TypeOK, AttemptsLeft, Start, Open, RunStep, Raised

\* An attempt that ends leaves the workflow over or with attempts left.
LEMMA AttemptEnds ==
  ASSUME TypeInv, NEW n \in Runs, run[n].pc \in Open, EndAttempt(n)
  PROVE  run' \in [Runs -> [pc : Open \cup {"none", "over"}, tries : 0..MaxAttempts]] /\ AttemptsLeft'
<1>1. FirstStep(run[n].pc) \in Open
  BY DEF FirstStep, Open, RunStep, Raised
<1>2. run[n].tries \in 0..MaxAttempts /\ run[n].tries < MaxAttempts
  BY DEF TypeInv, TypeOK, AttemptsLeft
<1>3. ~LastAttempt(n) => run[n].tries + 1 \in 0..MaxAttempts /\ run[n].tries + 1 < MaxAttempts
  BY <1>2, DocumentAssumption DEF LastAttempt
<1> DEFINE w == IF LastAttempt(n) THEN [pc |-> "over", tries |-> 0]
                ELSE [pc |-> FirstStep(run[n].pc), tries |-> run[n].tries + 1]
<1>4. w \in [pc : Open \cup {"none", "over"}, tries : 0..MaxAttempts]
      /\ (w.pc \in Open => w.tries < MaxAttempts)
  BY <1>1, <1>3, DocumentAssumption DEF Open, RunStep, Raised
<1>5. run' = [run EXCEPT ![n] = w]
  BY DEF EndAttempt
<1> HIDE DEF w
<1> QED
  BY <1>4, <1>5 DEF TypeInv, TypeOK, AttemptsLeft

\* A document just uploaded is typed.
LEMMA TypeInit == Init => TypeInv
<1> SUFFICES ASSUME Init PROVE TypeInv
  OBVIOUS
<1>1. 0 \in 0..MaxAttempts /\ 0 \in 0..MaxLost
  BY DocumentAssumption
<1>2. "none" \notin Open
  BY DEF Open, RunStep, Raised
<1>3. TypeOK
  BY <1>1 DEF Init, TypeOK, RetryPc, DeletePc
<1>4. AttemptsLeft
  BY <1>2 DEF Init, AttemptsLeft
<1> QED
  BY <1>3, <1>4 DEF TypeInv

\* Every step of a workflow keeps the typing.
LEMMA TypeRun ==
  ASSUME TypeInv, NEW n \in Runs, WorkflowStep(n) \/ LoseAttempt(n)
  PROVE  TypeInv'
<1> USE DEF TypeInv, RunUnchanged, rows, stores, history
<1>1. CASE ParseDocument(n) \/ ChunkDocument(n)
  <2>1. \E pc \in Open : Advance(n, pc)
    BY <1>1 DEF ParseDocument, ChunkDocument, Open, RunStep, Raised
  <2>2. run[n].pc \in Open
    BY <1>1 DEF ParseDocument, ChunkDocument, Open, RunStep, Raised
  <2> QED
    BY <1>1, <2>1, <2>2, RunAdvances DEF ParseDocument, ChunkDocument, TypeOK
<1>2. CASE EmbedChunks(n) \/ IndexChunks(n) \/ SaveChunks(n) \/ MarkIndexed(n)
  <2>1. \E pc \in Open \cup {"over"} : Advance(n, pc)
    BY <1>2 DEF EmbedChunks, IndexChunks, SaveChunks, MarkIndexed, Open, RunStep, Raised
  <2>2. run[n].pc \in Open
    BY <1>2 DEF EmbedChunks, IndexChunks, SaveChunks, MarkIndexed, Open, RunStep, Raised
  <2> QED
    BY <1>2, <2>1, <2>2, RunAdvances DEF EmbedChunks, IndexChunks, SaveChunks, MarkIndexed, TypeOK
<1>3. CASE MarkFailed(n)
  BY <1>3, AttemptEnds DEF MarkFailed, TypeOK, Open
<1>4. CASE LoseAttempt(n)
  BY <1>4, AttemptEnds, DocumentAssumption DEF LoseAttempt, Leave, TypeOK
<1> QED
  BY <1>1, <1>2, <1>3, <1>4 DEF WorkflowStep

\* Every step of the upload or a retry keeps the typing.
LEMMA TypeRetry ==
  ASSUME TypeInv,
         UploadStep \/ LoseUpload \/ \E j \in Retries : BeginRetry(j) \/ RetryStep(j) \/ LoseRetry(j)
  PROVE  TypeInv'
<1> USE DEF TypeInv, rows, stores, history, RetryUnchanged, RetryAt, RetryPc
<1>1. CASE StartIngest
  BY <1>1, RunStarts, DocumentAssumption DEF StartIngest, AnswerLost, TypeOK, AttemptsLeft
<1>2. CASE IngestFails \/ IngestRefused \/ LoseUpload
  BY <1>2 DEF IngestFails, IngestRefused, LoseUpload, Leave, TypeOK, AttemptsLeft
<1>3. ASSUME NEW j \in Retries, BeginRetry(j) \/ ResetFailed(j) PROVE TypeInv'
  BY <1>3 DEF BeginRetry, ResetFailed, Unsettled, TypeOK, AttemptsLeft
<1>4. ASSUME NEW j \in Retries, CleanVectors(j) \/ CleanIndex(j) \/ CleanChunks(j) PROVE TypeInv'
  BY <1>4 DEF CleanVectors, CleanIndex, CleanedIndex, CleanChunks, TypeOK, AttemptsLeft
<1>5. ASSUME NEW j \in Retries, NEW n \in Runs, StartRetry(j, n) PROVE TypeInv'
  BY <1>5, RunStarts, DocumentAssumption, SMTT(30) DEF StartRetry, AnswerLost, TypeOK, AttemptsLeft
<1>6. ASSUME NEW j \in Retries, RetryRaises(j) \/ RetryFails(j) PROVE TypeInv'
  BY <1>6 DEF RetryRaises, RetryFails, StatusAfterRaise, TypeOK, AttemptsLeft
<1>7. ASSUME NEW j \in Retries, LoseRetry(j) PROVE TypeInv'
  BY <1>7 DEF LoseRetry, Leave, TypeOK, AttemptsLeft
<1> QED
  BY <1>1, <1>2, <1>3, <1>4, <1>5, <1>6, <1>7 DEF UploadStep, RetryStep

\* Every step of a deletion keeps the typing.
LEMMA TypeDelete ==
  ASSUME TypeInv, NEW k \in Deletes, BeginDelete(k) \/ DeleteStep(k)
  PROVE  TypeInv'
<1> USE DEF TypeInv, rows, stores, history, DeleteUnchanged, DeleteAt, DeletePc
<1>1. CASE BeginDelete(k) \/ MarkDeleting(k) \/ MarkDeleted(k) \/ FinishDelete(k) \/ DeleteRaises(k)
  BY <1>1 DEF BeginDelete, MarkDeleting, MarkDeleted, FinishDelete, DeleteRaises, TypeOK, AttemptsLeft
<1>2. CASE RemoveObject(k) \/ RemoveVectors(k) \/ RemoveIndex(k) \/ RemoveChunks(k)
  BY <1>2, ZenonT(40) DEF RemoveObject, RemoveVectors, RemoveIndex, RemoveChunks, TypeOK, AttemptsLeft
<1> QED
  BY <1>1, <1>2 DEF DeleteStep

\* Every step keeps the typing.
LEMMA TypeStep == TypeInv /\ [Next]_vars => TypeInv'
<1> SUFFICES ASSUME TypeInv, [Next]_vars PROVE TypeInv'
  OBVIOUS
<1>1. CASE UNCHANGED vars
  BY <1>1 DEF vars, history, TypeInv, TypeOK, AttemptsLeft
<1> QED
  BY <1>1, TypeRun, TypeRetry, TypeDelete DEF Next

------------------------------------------------------------------------------
(* Deletion *)

\* A delete request that has passed a step has done it, and nobody undoes the
\* removal of the file or the time of deletion.
DeleteInv ==
    /\ TypeOK
    /\ \A k \in Deletes :
          /\ delete[k] \in {"vectors", "index", "chunks", "mark", "cache", "done"} => ~object
          /\ delete[k] \in {"cache", "done"} => deletedAt
    /\ deletedAt => ~object

------------------------------------------------------------------------------
(* Retries *)

\* Before the upload has started its workflow there is nothing to retry.
Untouched ==
    upload = "starting" =>
        /\ status \in {"pending", "deleting", "deleted"}
        /\ \A n \in Runs : run[n].pc = "none"
        /\ \A j \in Retries : retry[j] = "idle"
        /\ vectors = {} /\ index = {} /\ chunks = None

AtWork == Cleaning \ {"raised"}

\* A retry at work has the document for itself, and has cleaned as far as it is.
RetryAlone ==
    ~overlap => \A j \in Retries : retry[j] \in AtWork =>
        /\ status \in {"pending", "deleting", "deleted"} /\ upload = "done"
        /\ \A n \in Runs : run[n].pc \notin Open
        /\ retry[j] \in {"index", "chunks", "start"} => vectors = {}
        /\ retry[j] \in {"chunks", "start"} => index = {}
        /\ retry[j] = "start" => chunks = None

\* One workflow is open at a time, ...
OneOpen == ~overlap => \A m, n \in Runs : run[m].pc \in Open /\ run[n].pc \in Open => m = n

\* ... what is stored is its own, and unless a deletion takes it away it is all
\* that the workflow has got through.
BatchesOwn ==
    ~overlap => \A n \in Runs : run[n].pc \in Open =>
        /\ vectors \subseteq {n} /\ index \subseteq {n} /\ chunks \in {None, n}
        /\ Undisturbed =>
              /\ run[n].pc \in {"index", "save", "finish"} => vectors = {n}
              /\ run[n].pc \in {"save", "finish"} => index = {n}
              /\ run[n].pc = "finish" => chunks = n

\* An indexed document is finished and whole.
IndexedWhole ==
    ~overlap /\ status = "indexed" =>
        /\ \A n \in Runs : run[n].pc \notin Open
        /\ Undisturbed => chunks \in Runs /\ vectors = {chunks} /\ index = {chunks}

\* OneRetryWins and IndexedIsSearchable with what they need to be inductive.
SettledInv ==
    /\ TypeOK /\ Untouched /\ OneRetryWins /\ RetryAlone /\ OneOpen
    /\ BatchesOwn /\ IndexedWhole

------------------------------------------------------------------------------
(* The deletion's argument *)

\* Every step keeps what a deletion has done.
LEMMA DeleteInvStep == DeleteInv /\ TypeOK' /\ [Next]_vars => DeleteInv'
<1> SUFFICES ASSUME DeleteInv, TypeOK', [Next]_vars PROVE DeleteInv'
  OBVIOUS
<1> USE DEF DeleteInv, TypeOK, rows, stores, history
<1>1. CASE UNCHANGED vars
  BY <1>1 DEF vars
<1>2. CASE \E n \in Runs : WorkflowStep(n) \/ LoseAttempt(n)
  <2>1. UNCHANGED <<deletedAt, object, delete>>
    BY <1>2 DEF WorkflowStep, LoseAttempt, ParseDocument, ChunkDocument, EmbedChunks, IndexChunks,
                SaveChunks, MarkIndexed, MarkFailed, RunUnchanged
  <2> QED
    BY <2>1
<1>3. CASE UploadStep \/ LoseUpload \/ \E j \in Retries : BeginRetry(j) \/ RetryStep(j) \/ LoseRetry(j)
  <2>1. UNCHANGED <<deletedAt, object, delete>>
    BY <1>3 DEF UploadStep, StartIngest, IngestRefused, IngestFails, LoseUpload, LoseRetry, BeginRetry, RetryStep, ResetFailed, CleanVectors,
                CleanIndex, CleanChunks, StartRetry, RetryRaises, RetryFails, RetryUnchanged
  <2> QED
    BY <2>1
<1>4. ASSUME NEW k \in Deletes, BeginDelete(k) \/ DeleteStep(k) PROVE DeleteInv'
  <2> USE DEF DeleteAt
  <2>1. CASE BeginDelete(k) \/ MarkDeleting(k) \/ FinishDelete(k) \/ DeleteRaises(k)
    BY <1>4, <2>1 DEF BeginDelete, MarkDeleting, FinishDelete, DeleteRaises
  <2>2. CASE RemoveObject(k) \/ RemoveVectors(k) \/ RemoveIndex(k) \/ RemoveChunks(k) \/ MarkDeleted(k)
    BY <1>4, <2>2 DEF RemoveObject, RemoveVectors, RemoveIndex, RemoveChunks, MarkDeleted
  <2> QED
    BY <1>4, <2>1, <2>2 DEF DeleteStep
<1> QED
  BY <1>1, <1>2, <1>3, <1>4 DEF Next

------------------------------------------------------------------------------
(* The retries' argument *)

\* A workflow under way is not in the state before its start or after its end.
LEMMA OpenSteps ==
  /\ RunStep \subseteq Open /\ Raised \subseteq Open
  /\ "none" \notin Open /\ "over" \notin Open
  /\ \A pc \in Open : FirstStep(pc) \in {"parse", "chunk", "embed"}
  BY DEF Open, RunStep, Raised, FirstStep

\* Init: nothing has happened.
LEMMA SettledInit == Init => SettledInv
<1> SUFFICES ASSUME Init PROVE SettledInv
  OBVIOUS
<1>1. TypeOK
  BY TypeInit DEF TypeInv
<1> QED
  BY <1>1, OpenSteps DEF Init, SettledInv, Untouched, OneRetryWins, RetryAlone, AtWork, Cleaning,
     OneOpen, BatchesOwn, IndexedWhole

\* While a workflow is open, without overlap, the upload has started and no
\* retry is at work; and it is the only one.
LEMMA OpenExcludes ==
  ASSUME SettledInv, NEW n \in Runs, run[n].pc \in Open
  PROVE  /\ upload # "starting"
         /\ ~overlap => \A j \in Retries : retry[j] \notin AtWork
         /\ ~overlap => \A m \in Runs : run[m].pc \in Open => m = n
         /\ ~overlap => status # "indexed"
  BY OpenSteps DEF SettledInv, Untouched, RetryAlone, OneOpen, IndexedWhole

OnlyRun(n) == \A m \in Runs : m # n => run'[m] = run[m]

\* Advance takes one workflow to the step it names.
LEMMA AdvanceRun ==
  ASSUME TypeOK, NEW n \in Runs, NEW pc, Advance(n, pc)
  PROVE  OnlyRun(n) /\ run'[n].pc = pc
  BY DEF Advance, OnlyRun, TypeOK

\* So does the end of an attempt.
LEMMA EndAttemptRun ==
  ASSUME TypeOK, NEW n \in Runs, run[n].pc \in Open, EndAttempt(n)
  PROVE  OnlyRun(n) /\ run'[n].pc \in {"parse", "chunk", "embed", "over"}
  BY OpenSteps DEF EndAttempt, OnlyRun, TypeOK

\* A step of an open workflow that changes neither stores nor the number of
\* open workflows: it may end, go on or begin an activity again.
LEMMA RunMoves ==
  ASSUME SettledInv, TypeOK', NEW n \in Runs, run[n].pc \in Open, OnlyRun(n),
         run'[n].pc \in {"parse", "chunk", "embed", "over"} \cup Raised,
         status' \in {status, "failed"},
         UNCHANGED <<stores, upload, retry, delete, overlap>>
  PROVE  SettledInv'
<1> USE DEF stores
<1>1. /\ upload # "starting"
      /\ ~overlap => \A j \in Retries : retry[j] \notin AtWork
      /\ ~overlap => \A m \in Runs : run[m].pc \in Open => m = n
      /\ ~overlap => status # "indexed"
  BY OpenExcludes
<1>2. \A m \in Runs : m # n => run'[m] = run[m]
  BY DEF OnlyRun
<1>3. Untouched' /\ RetryAlone' /\ IndexedWhole'
  BY <1>1 DEF Untouched, RetryAlone, IndexedWhole, AtWork
<1>4. OneRetryWins'
  BY DEF SettledInv, OneRetryWins
<1>5. OneOpen'
  BY <1>1, <1>2 DEF OneOpen
<1>6. run'[n].pc \notin {"index", "save", "finish"}
  BY DEF Raised
<1>7. BatchesOwn'
  BY <1>1, <1>2, <1>6 DEF SettledInv, BatchesOwn, Undisturbed
<1> QED
  BY <1>3, <1>4, <1>5, <1>7 DEF SettledInv

\* Parsing, chunking and a step that raises before it has written ...
LEMMA SettledMove ==
  ASSUME SettledInv, TypeOK', NEW n \in Runs,
         ParseDocument(n) \/ ChunkDocument(n) \/ MarkFailed(n) \/ LoseAttempt(n)
  PROVE  SettledInv'
<1> USE DEF RunUnchanged, rows, history
<1>1. CASE ParseDocument(n) \/ ChunkDocument(n)
  <2>1. PICK pc \in {"chunk", "embed"} \cup Raised : Advance(n, pc)
    BY <1>1 DEF ParseDocument, ChunkDocument, Raised
  <2>2. OnlyRun(n) /\ run'[n].pc = pc
    BY <2>1, AdvanceRun DEF SettledInv
  <2>3. run[n].pc \in Open
    BY <1>1, OpenSteps DEF ParseDocument, ChunkDocument, RunStep
  <2> QED
    BY <1>1, <2>1, <2>2, <2>3, RunMoves DEF ParseDocument, ChunkDocument
<1>2. CASE MarkFailed(n) \/ LoseAttempt(n)
  <2>1. run[n].pc \in Open /\ EndAttempt(n)
    BY <1>2, OpenSteps DEF MarkFailed, LoseAttempt
  <2>2. OnlyRun(n) /\ run'[n].pc \in {"parse", "chunk", "embed", "over"}
    BY <2>1, EndAttemptRun DEF SettledInv
  <2> QED
    BY <1>2, <2>1, <2>2, RunMoves DEF MarkFailed, LoseAttempt
<1> QED
  BY <1>1, <1>2

\* ... a write of the workflow that has the document for itself, and its end.
LEMMA SettledWrite ==
  ASSUME SettledInv, TypeOK', NEW n \in Runs,
         EmbedChunks(n) \/ IndexChunks(n) \/ SaveChunks(n) \/ MarkIndexed(n)
  PROVE  SettledInv'
<1> USE DEF RunUnchanged, rows, history
<1>1. PICK pc \in {"index", "save", "finish", "over", "embed_raised"} : Advance(n, pc)
  BY DEF EmbedChunks, IndexChunks, SaveChunks, MarkIndexed
<1>2. OnlyRun(n) /\ run'[n].pc = pc
  BY <1>1, AdvanceRun DEF SettledInv
<1>3. run[n].pc \in Open
  BY OpenSteps DEF EmbedChunks, IndexChunks, SaveChunks, MarkIndexed, RunStep
<1>4. UNCHANGED <<upload, retry, delete, overlap>>
  BY DEF EmbedChunks, IndexChunks, SaveChunks, MarkIndexed
<1>5. /\ upload # "starting"
      /\ ~overlap => \A j \in Retries : retry[j] \notin AtWork
      /\ ~overlap => \A m \in Runs : run[m].pc \in Open => m = n
      /\ ~overlap => status # "indexed"
  BY <1>3, OpenExcludes
<1>6. Untouched' /\ RetryAlone' /\ OneRetryWins' /\ OneOpen'
  <2>1. Untouched' /\ RetryAlone'
    BY <1>4, <1>5 DEF Untouched, RetryAlone, AtWork
  <2>2. OneRetryWins'
    BY <1>4 DEF SettledInv, OneRetryWins
  <2>3. OneOpen'
    BY <1>2, <1>4, <1>5 DEF OneOpen, OnlyRun
  <2> QED
    BY <2>1, <2>2, <2>3
<1>7. SUFFICES ASSUME ~overlap PROVE BatchesOwn' /\ IndexedWhole'
  BY <1>4, <1>6 DEF SettledInv, BatchesOwn, IndexedWhole
<1>8. /\ vectors \subseteq {n} /\ index \subseteq {n} /\ chunks \in {None, n}
      /\ Undisturbed =>
            /\ run[n].pc \in {"index", "save", "finish"} => vectors = {n}
            /\ run[n].pc \in {"save", "finish"} => index = {n}
            /\ run[n].pc = "finish" => chunks = n
  BY <1>3, <1>7 DEF SettledInv, BatchesOwn
<1>9. Undisturbed' = Undisturbed
  BY <1>4 DEF Undisturbed
<1>10. \A m \in Runs : run'[m].pc \in Open => m = n
  BY <1>2, <1>5, <1>7 DEF OnlyRun
<1>11. n # None
  BY DocumentAssumption
<1>12. CASE EmbedChunks(n)
  <2>1. /\ pc \in {"index", "embed_raised"} /\ (pc = "index" => vectors' = {n}) /\ vectors' \subseteq {n}
        /\ UNCHANGED <<status, index, chunks>>
    BY <1>1, <1>2, <1>8, <1>12, AdvanceRun DEF EmbedChunks, SettledInv
  <2> QED
    BY <2>1, <1>2, <1>5, <1>7, <1>8, <1>10 DEF BatchesOwn, IndexedWhole
<1>13. CASE IndexChunks(n)
  <2>1. /\ pc \in {"save", "embed_raised"} /\ (pc = "save" => index' = {n}) /\ index' \subseteq {n}
        /\ run[n].pc = "index" /\ UNCHANGED <<status, vectors, chunks>>
    BY <1>1, <1>2, <1>8, <1>13, AdvanceRun DEF IndexChunks, SettledInv
  <2> QED
    BY <2>1, <1>2, <1>5, <1>7, <1>8, <1>9, <1>10 DEF BatchesOwn, IndexedWhole
<1>14. CASE SaveChunks(n)
  <2>1. /\ pc \in {"finish", "embed_raised"} /\ (pc = "finish" => chunks' = n) /\ chunks' \in {None, n}
        /\ run[n].pc = "save" /\ UNCHANGED <<status, vectors, index>>
    BY <1>1, <1>2, <1>8, <1>14, AdvanceRun DEF SaveChunks, SettledInv
  <2> QED
    BY <2>1, <1>2, <1>5, <1>7, <1>8, <1>9, <1>10 DEF BatchesOwn, IndexedWhole
<1>15. CASE MarkIndexed(n)
  <2>1. /\ pc \in {"over", "embed_raised"} /\ (status' = "indexed" => pc = "over")
        /\ run[n].pc = "finish" /\ UNCHANGED stores
    BY <1>1, <1>2, <1>5, <1>7, <1>15, AdvanceRun DEF MarkIndexed, SettledInv
  <2>2. pc = "over" => \A m \in Runs : run'[m].pc \notin Open
    BY <1>2, <1>10, OpenSteps
  <2> QED
    BY <2>1, <2>2, <1>2, <1>7, <1>8, <1>9, <1>10 DEF BatchesOwn, IndexedWhole, stores
<1> QED
  BY <1>12, <1>13, <1>14, <1>15

\* The upload starts its workflow, or reports that it could not.
LEMMA SettledUpload ==
  ASSUME SettledInv, TypeOK', UploadStep \/ LoseUpload
  PROVE  SettledInv'
<1> USE DEF rows, stores, history
<1>1. CASE StartIngest
  <2>1. /\ upload' # "starting" /\ UNCHANGED <<status, stores, retry, delete, overlap>>
        /\ \A n \in Runs : run'[n].pc \in {"none", "parse"} /\ (n # First => run'[n].pc = "none")
    BY <1>1 DEF StartIngest, Start, SettledInv, Untouched, TypeOK
  <2>2. /\ status # "indexed" /\ vectors = {} /\ index = {} /\ chunks = None
        /\ \A j \in Retries : retry[j] = "idle"
    BY <1>1 DEF StartIngest, SettledInv, Untouched
  <2>3. Untouched' /\ RetryAlone' /\ OneRetryWins' /\ IndexedWhole'
    BY <2>1, <2>2 DEF Untouched, RetryAlone, AtWork, Cleaning, OneRetryWins, IndexedWhole
  <2>4. OneOpen' /\ BatchesOwn'
    BY <2>1, <2>2, OpenSteps DEF OneOpen, BatchesOwn
  <2> QED
    BY <2>3, <2>4 DEF SettledInv
<1>2. CASE IngestFails \/ IngestRefused \/ LoseUpload
  BY <1>2 DEF IngestFails, IngestRefused, LoseUpload, SettledInv, Untouched, RetryAlone, OneRetryWins, OneOpen, BatchesOwn,
              IndexedWhole, Undisturbed
<1> QED
  BY <1>1, <1>2 DEF UploadStep

\* A retry is asked for, or wins the document: without overlap nobody else has it.
LEMMA SettledReset ==
  ASSUME SettledInv, TypeOK', NEW j \in Retries, BeginRetry(j) \/ ResetFailed(j)
  PROVE  SettledInv'
<1> USE DEF RetryAt, RetryUnchanged
<1>1. CASE BeginRetry(j)
  BY <1>1 DEF BeginRetry, SettledInv, TypeOK, Untouched, RetryAlone, AtWork, Cleaning, OneRetryWins,
              OneOpen, BatchesOwn, IndexedWhole, Undisturbed
<1>2. CASE ResetFailed(j) /\ ~CanReset
  BY <1>2 DEF ResetFailed, SettledInv, TypeOK, Untouched, RetryAlone, AtWork, Cleaning, OneRetryWins,
              OneOpen, BatchesOwn, IndexedWhole, Undisturbed
<1>3. CASE ResetFailed(j) /\ CanReset
  <2>1. /\ status = "failed" /\ status' = "pending" /\ overlap' = (overlap \/ Unsettled)
        /\ retry' = [retry EXCEPT ![j] = "vectors"]
        /\ UNCHANGED <<vectors, index, chunks, run, upload, delete>>
    BY <1>3 DEF ResetFailed, CanReset
  <2>2. upload # "starting"
    BY <2>1 DEF SettledInv, Untouched
  <2>3. \A i \in Retries : i # j => retry'[i] = retry[i]
    BY <2>1 DEF SettledInv, TypeOK
  <2>4. retry'[j] = "vectors"
    BY <2>1 DEF SettledInv, TypeOK
  <2>5. Untouched' /\ IndexedWhole'
    BY <2>1, <2>2 DEF Untouched, IndexedWhole
  <2>6. OneOpen' /\ BatchesOwn'
    BY <2>1 DEF SettledInv, OneOpen, BatchesOwn, Undisturbed
  <2>7. ASSUME ~overlap'
        PROVE  /\ ~overlap /\ upload = "done" /\ \A n \in Runs : run[n].pc \notin Open
               /\ \A i \in Retries : retry[i] \notin Cleaning
    <3>1. ~overlap /\ ~Unsettled
      BY <2>1, <2>7
    <3>2. upload = "done" /\ \A n \in Runs : run[n].pc \notin Open
      BY <2>2, <3>1 DEF Unsettled, SettledInv, TypeOK
    <3>3. \A i \in Retries : retry[i] \notin AtWork /\ retry[i] # "raised"
      BY <2>1, <3>1 DEF SettledInv, RetryAlone, Unsettled
    <3> QED
      BY <3>1, <3>2, <3>3 DEF AtWork
  <2>8. RetryAlone'
    BY <2>1, <2>3, <2>4, <2>7 DEF RetryAlone, AtWork
  <2>9. OneRetryWins'
    BY <2>3, <2>7 DEF OneRetryWins
  <2> QED
    BY <2>5, <2>6, <2>8, <2>9 DEF SettledInv
<1> QED
  BY <1>1, <1>2, <1>3

\* The winner cleans one store after the other.
LEMMA SettledClean ==
  ASSUME SettledInv, TypeOK', NEW j \in Retries, CleanVectors(j) \/ CleanIndex(j) \/ CleanChunks(j)
  PROVE  SettledInv'
<1> USE DEF RetryAt, RetryUnchanged
<1>1. /\ retry[j] \in AtWork /\ retry'[j] \in AtWork /\ \A i \in Retries : i # j => retry'[i] = retry[i]
      /\ UNCHANGED <<status, upload, run, delete, overlap>>
      /\ vectors' \in {vectors, {}} /\ index' \in {index, {}} /\ chunks' \in {chunks, None}
  BY DEF CleanVectors, CleanIndex, CleanChunks, CleanedIndex, SettledInv, TypeOK, AtWork, Cleaning, RetryPc
<1>2. Untouched'
  BY <1>1 DEF SettledInv, Untouched, AtWork, Cleaning
<1>3. ~overlap => \A n \in Runs : run[n].pc \notin Open
  BY <1>1 DEF SettledInv, RetryAlone
<1>4. ~overlap => status # "indexed"
  BY <1>1 DEF SettledInv, RetryAlone
<1>5. OneOpen' /\ BatchesOwn' /\ IndexedWhole'
  BY <1>1, <1>3, <1>4 DEF OneOpen, BatchesOwn, IndexedWhole
<1>6. OneRetryWins'
  BY <1>1 DEF SettledInv, OneRetryWins, AtWork
<1>7. ASSUME ~overlap, NEW i \in Retries, retry'[i] \in AtWork PROVE i = j
  BY <1>1, <1>7 DEF SettledInv, OneRetryWins, AtWork
<1>8. ASSUME ~overlap
      PROVE  /\ retry'[j] \in {"index", "chunks", "start"} => vectors' = {}
             /\ retry'[j] \in {"chunks", "start"} => index' = {}
             /\ retry'[j] = "start" => chunks' = None
  BY <1>1, <1>8 DEF CleanVectors, CleanIndex, CleanChunks, CleanedIndex, SettledInv, TypeOK, RetryAlone
<1>9. RetryAlone'
  BY <1>1, <1>7, <1>8 DEF SettledInv, RetryAlone
<1> QED
  BY <1>2, <1>5, <1>6, <1>9 DEF SettledInv

\* It hands the document to a new workflow, or back to the users.
LEMMA SettledHandOver ==
  ASSUME SettledInv, TypeOK', NEW j \in Retries,
         RetryRaises(j) \/ RetryFails(j) \/ LoseRetry(j) \/ \E n \in Runs : StartRetry(j, n)
  PROVE  SettledInv'
<1> USE DEF RetryAt, RetryUnchanged, rows, stores
<1>1. /\ retry[j] \in Cleaning /\ retry'[j] \in {"raised", "idle"}
      /\ \A i \in Retries : i # j => retry'[i] = retry[i]
      /\ UNCHANGED <<upload, delete, overlap, vectors, index, chunks>>
  BY DEF RetryRaises, RetryFails, LoseRetry, StartRetry, SettledInv, TypeOK, Cleaning, RetryPc
<1>2. Untouched'
  BY <1>1 DEF SettledInv, Untouched, Cleaning
<1>3. ~overlap => \A i \in Retries : retry'[i] \notin AtWork
  BY <1>1 DEF SettledInv, OneRetryWins, AtWork, Cleaning
<1>4. RetryAlone' /\ OneRetryWins'
  BY <1>1, <1>3 DEF RetryAlone, SettledInv, OneRetryWins, Cleaning
<1>5. CASE RetryRaises(j) \/ RetryFails(j) \/ LoseRetry(j)
  <2>1. run' = run /\ status' \in {status, "failed"}
    BY <1>5 DEF RetryRaises, RetryFails, LoseRetry, StatusAfterRaise
  <2> QED
    BY <1>1, <1>2, <1>4, <2>1 DEF SettledInv, OneOpen, BatchesOwn, IndexedWhole, Undisturbed
<1>6. ASSUME NEW n \in Runs, StartRetry(j, n) PROVE SettledInv'
  <2>1. OnlyRun(n) /\ run'[n].pc = "parse" /\ UNCHANGED status
    BY <1>6 DEF StartRetry, Start, OnlyRun, SettledInv, TypeOK
  <2>2. ~overlap => /\ \A m \in Runs : run[m].pc \notin Open
                    /\ status # "indexed" /\ vectors = {} /\ index = {} /\ chunks = None
    BY <1>6 DEF StartRetry, SettledInv, RetryAlone, AtWork, Cleaning, RetryPc
  <2>3. OneOpen' /\ BatchesOwn' /\ IndexedWhole'
    BY <1>1, <2>1, <2>2 DEF OnlyRun, OneOpen, BatchesOwn, IndexedWhole
  <2> QED
    BY <1>2, <1>4, <2>3 DEF SettledInv
<1> QED
  BY <1>5, <1>6

\* A deletion takes away, and calls nothing indexed.
LEMMA SettledDelete ==
  ASSUME SettledInv, TypeOK', NEW k \in Deletes, BeginDelete(k) \/ DeleteStep(k)
  PROVE  SettledInv'
<1> USE DEF DeleteAt, DeleteUnchanged, rows, stores, history
<1>1. /\ UNCHANGED <<upload, run, retry, overlap>> /\ status' \in {status, "deleting", "deleted"}
      /\ vectors' \in {vectors, {}} /\ index' \in {index, {}} /\ chunks' \in {chunks, None}
  BY DEF BeginDelete, DeleteStep, MarkDeleting, RemoveObject, RemoveVectors, RemoveIndex, RemoveChunks,
         MarkDeleted, FinishDelete, DeleteRaises
<1>2. Undisturbed' => Undisturbed /\ UNCHANGED stores
  BY DEF BeginDelete, DeleteStep, MarkDeleting, RemoveObject, RemoveVectors, RemoveIndex, RemoveChunks,
         MarkDeleted, FinishDelete, DeleteRaises, Undisturbed, SettledInv, TypeOK
<1>3. Untouched' /\ OneRetryWins' /\ OneOpen'
  BY <1>1 DEF SettledInv, Untouched, OneRetryWins, OneOpen
<1>4. RetryAlone'
  BY <1>1 DEF SettledInv, RetryAlone
<1>5. BatchesOwn' /\ IndexedWhole'
  BY <1>1, <1>2 DEF SettledInv, BatchesOwn, IndexedWhole
<1> QED
  BY <1>3, <1>4, <1>5 DEF SettledInv

\* Every step keeps the document in one party's hands.
LEMMA SettledStep == SettledInv /\ TypeOK' /\ [Next]_vars => SettledInv'
<1> SUFFICES ASSUME SettledInv, TypeOK', [Next]_vars PROVE SettledInv'
  OBVIOUS
<1>1. CASE UNCHANGED vars
  BY <1>1 DEF vars, history, SettledInv, Untouched, RetryAlone, OneRetryWins, OneOpen, BatchesOwn,
              IndexedWhole, Undisturbed
<1>2. ASSUME NEW n \in Runs, WorkflowStep(n) \/ LoseAttempt(n) PROVE SettledInv'
  BY <1>2, SettledMove, SettledWrite DEF WorkflowStep
<1>3. ASSUME NEW j \in Retries, BeginRetry(j) \/ RetryStep(j) \/ LoseRetry(j) PROVE SettledInv'
  BY <1>3, SettledReset, SettledClean, SettledHandOver DEF RetryStep
<1> QED
  BY <1>1, <1>2, <1>3, SettledUpload, SettledDelete DEF Next

------------------------------------------------------------------------------
\* The row, the stores and all parties keep their types.
THEOREM Typing == Spec => []TypeOK
<1>1. TypeInv => TypeOK
  BY DEF TypeInv
<1> QED
  BY <1>1, TypeInit, TypeStep, PTL DEF Spec

\* Nothing is cited of a document once a delete request has marked it deleted,
\* whatever workflows and retries write afterwards.
THEOREM NeverCitedAgain == Spec => []DeletedNeverCited
<1>1. Init => DeleteInv
  BY TypeInit DEF Init, DeleteInv, TypeInv
<1>2. DeleteInv => DeletedNeverCited
  BY DEF DeleteInv, DeletedNeverCited, Hydrated, Citable
<1> QED
  BY <1>1, <1>2, Typing, DeleteInvStep, PTL DEF Spec

\* A deleted document's file is gone, whichever of several deletes got how far.
THEOREM FileGone == Spec => []DeletedFileGone
<1>1. Init => DeleteInv
  BY TypeInit DEF Init, DeleteInv, TypeInv
<1>2. DeleteInv => DeletedFileGone
  BY DEF DeleteInv, DeletedFileGone
<1> QED
  BY <1>1, <1>2, Typing, DeleteInvStep, PTL DEF Spec

\* One retry of a failure cleans the stores, however many ask at once.
THEOREM RetryWinsAlone == Spec => []OneRetryWins
<1>1. SettledInv => OneRetryWins
  BY DEF SettledInv
<1> QED
  BY <1>1, SettledInit, Typing, SettledStep, PTL DEF Spec

\* An indexed document is whole and of one workflow, if retries do not overtake
\* workflows and nobody deletes it.
THEOREM IndexedIsWhole == Spec => []IndexedIsSearchable
<1>1. SettledInv => IndexedIsSearchable
  BY DocumentAssumption DEF SettledInv, IndexedWhole, IndexedIsSearchable
<1> QED
  BY <1>1, SettledInit, Typing, SettledStep, PTL DEF Spec
=============================================================================
