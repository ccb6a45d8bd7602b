--------------------------- MODULE SessionMemory ---------------------------
(***************************************************************************)
(* What a chat session remembers for its user: the messages, the summary   *)
(* of their middle (sessions.summary), and the long-term memories, a row   *)
(* in PostgreSQL and a vector in Milvus each.  A chat request reads these  *)
(* into a prompt; when its answer is out a background task stores it,      *)
(* compresses the middle and extracts memories, while the user goes on     *)
(* chatting or deletes the session.                                        *)
(*                                                                         *)
(* The messages of a session are numbered in the order they are stored,    *)
(* and a summary is the number of the last message it covers.  A fact is a *)
(* content with its embedding.  One user and one space.                    *)
(***************************************************************************)
EXTENDS Naturals, FiniteSets

CONSTANTS
    Sessions, Chats, Facts,
    Ids,           \* bound: the ids of memories, uuid4 in the code
    LastN,         \* settings.memory_last_n
    Threshold,     \* _compress_threshold of the model's context window
    MaxMessages,   \* bound: messages of a session
    None           \* no session, no fact, no id

ASSUME MemoryAssumption ==
    /\ LastN \in Nat \ {0} /\ Threshold \in Nat /\ LastN + 2 < Threshold
    /\ MaxMessages \in Nat
    /\ None \notin Sessions \cup Facts \cup Ids

VARIABLES
    count,       \* message_count; also the messages, which the same
                 \* transactions insert
    summary,     \* the last message that the summary covers, 0 for none
    deleted,     \* the sessions whose row is gone
    clearing,    \* deleted sessions whose memories are still to be deleted
    memory,      \* the rows of memories
    vector,      \* vector[id]: the fact whose embedding Milvus has for this id
    chat,        \* chat[c]: a request, then its background task
    unsettled,   \* history: sessions where two requests met, an answer was broken
                 \* off or a compression failed
    raced,       \* history: facts two tasks applied at once
    missed       \* history: facts that a search did not find, though Milvus
                 \* had their embedding

sessions == <<count, summary, deleted, clearing>>
history == <<raced, missed>>
vars == <<sessions, memory, vector, chat, unsettled, history>>

Answering == {"read", "messages", "stream"}
Compressing == {"persist", "settle", "middle", "summarise"}
Extracting == {"extract", "search", "save", "update", "upsert"}
Idle == [pc |-> "idle", session |-> None, seen |-> 0, sum |-> 0, last |-> 0,
         fact |-> None, id |-> None]
Numbers == 0..MaxMessages

TypeOK ==
    /\ count \in [Sessions -> 0..MaxMessages]
    /\ summary \in [Sessions -> 0..MaxMessages]
    /\ clearing \subseteq deleted /\ deleted \subseteq Sessions
    /\ memory \subseteq [id : Ids, fact : Facts, source : Sessions \cup {None}]
    /\ vector \in [Ids -> Facts \cup {None}]
    /\ chat \in [Chats -> [pc : {"idle"} \cup Answering \cup Compressing \cup Extracting,
                           session : Sessions \cup {None}, seen : Numbers, sum : Numbers,
                           last : Numbers, fact : Facts \cup {None}, id : Ids \cup {None}]]
    /\ unsettled \subseteq Sessions /\ raced \subseteq Facts /\ missed \subseteq Facts

Init ==
    /\ count = [s \in Sessions |-> 0] /\ summary = [s \in Sessions |-> 0]
    /\ deleted = {} /\ clearing = {}
    /\ memory = {} /\ vector = [i \in Ids |-> None]
    /\ chat = [c \in Chats |-> Idle]
    /\ unsettled = {} /\ raced = {} /\ missed = {}

------------------------------------------------------------------------------
(* The request: ChatService._stream_with_memory *)

At(c, pc) == chat[c].pc = pc
Goto(c, pc) == chat' = [chat EXCEPT ![c].pc = pc]
Quit(c) == chat' = [chat EXCEPT ![c] = Idle]
Session(c) == chat[c].session
Live(s) == s \notin deleted
Busy(s) == \E c \in Chats : chat[c].session = s
StoresUnchanged == UNCHANGED <<sessions, memory, vector, history>>

\* save_user_message: the row and message_count in one transaction.
SaveUserMessage(c, s) ==
    /\ At(c, "idle") /\ Live(s) /\ count[s] < MaxMessages
    /\ count' = [count EXCEPT ![s] = @ + 1]
    /\ chat' = [chat EXCEPT ![c] = [Idle EXCEPT !.pc = "read", !.session = s]]
    /\ unsettled' = IF Busy(s) THEN unsettled \cup {s} ELSE unsettled
    /\ UNCHANGED <<summary, deleted, clearing, memory, vector, history>>

\* load_working_memory reads the session first ...
ReadSession(c) ==
    /\ At(c, "read")
    /\ chat' = [chat EXCEPT ![c].pc = "messages",
                            ![c].seen = IF Live(Session(c)) THEN count[Session(c)] ELSE 0,
                            ![c].sum = IF Live(Session(c)) THEN summary[Session(c)] ELSE 0]
    /\ StoresUnchanged /\ UNCHANGED unsettled

Whole(c) == chat[c].seen <= LastN + 2
\* Where Last-N begins among n messages.
Recent(n) == IF n > LastN THEN n - LastN + 1 ELSE 1

\* ... and then its messages; First-2 never changes, so it is read with Last-N.
\* A short session is read whole.  The cut to the token budget is left out: it
\* only takes away from the beginning of what was read.
ReadMessages(c) ==
    /\ At(c, "messages")
    /\ LET last == IF Live(Session(c)) THEN count[Session(c)] ELSE 0 IN
         chat' = [chat EXCEPT ![c].pc = "stream", ![c].last = last,
                              ![c].sum = IF Whole(c) THEN 0 ELSE @]
    /\ StoresUnchanged /\ UNCHANGED unsettled

\* The model or the client breaks off: no answer is stored.
StreamFails(c) ==
    /\ chat[c].pc \in Answering
    /\ Quit(c) /\ unsettled' = unsettled \cup {Session(c)}
    /\ StoresUnchanged

Streamed(c) ==
    /\ At(c, "stream")
    /\ chat' = [chat EXCEPT ![c] = [Idle EXCEPT !.pc = "persist", !.session = Session(c)]]
    /\ StoresUnchanged /\ UNCHANGED unsettled

------------------------------------------------------------------------------
(* The background task: MemoryExtractor.run *)

\* The INSERT selects from sessions, so a deleted session ends the task.
PersistAnswer(c) ==
    /\ At(c, "persist") /\ Live(Session(c)) /\ count[Session(c)] < MaxMessages
    /\ count' = [count EXCEPT ![Session(c)] = @ + 1]
    /\ Goto(c, "settle")
    /\ UNCHANGED <<summary, deleted, clearing, memory, vector, unsettled, history>>

ReadCount(c) ==
    /\ At(c, "settle") /\ Live(Session(c))
    /\ Goto(c, IF count[Session(c)] >= Threshold THEN "middle" ELSE "extract")
    /\ StoresUnchanged /\ UNCHANGED unsettled

\* Mistakes that NothingTwice and SummaryMeetsRecent exclude: the middle is read
\* to its end, or not far enough.
SkipLast_None == 0
SkipLast_More == LastN + 1
SkipLast == LastN

\* _compress reads the middle and asks the model ...
ReadMiddle(c) ==
    /\ At(c, "middle")
    /\ LET last == IF Live(Session(c)) THEN count[Session(c)] ELSE 0 IN
         IF last > SkipLast + 2
         THEN chat' = [chat EXCEPT ![c].pc = "summarise", ![c].sum = last - SkipLast]
         ELSE Goto(c, "extract")
    /\ StoresUnchanged /\ UNCHANGED unsettled

\* ... and stores what it said, over whatever is there.
WriteSummary(c) ==
    /\ At(c, "summarise")
    /\ summary' = IF Live(Session(c)) THEN [summary EXCEPT ![Session(c)] = chat[c].sum]
                                      ELSE summary
    /\ chat' = [chat EXCEPT ![c].pc = "extract", ![c].sum = 0]
    /\ UNCHANGED <<count, deleted, clearing, memory, vector, unsettled, history>>

\* Every exception ends the task, and every deleted session.
TaskFails(c) ==
    /\ chat[c].pc \in Compressing \cup Extracting
    /\ Quit(c)
    /\ unsettled' = IF chat[c].pc \in Compressing THEN unsettled \cup {Session(c)}
                                                  ELSE unsettled
    /\ StoresUnchanged

\* _extract takes up the next fact of the model's reply, or ends.
NextFact(c) ==
    \/ \E f \in Facts : chat' = [chat EXCEPT ![c].pc = "search", ![c].fact = f, ![c].id = None]
    \/ Quit(c)

Extract(c) ==
    /\ At(c, "extract") /\ Live(Session(c))
    /\ NextFact(c)
    /\ StoresUnchanged /\ UNCHANGED unsettled

\* Which embeddings score memory_update_threshold is not known here, and Milvus
\* answers top_k = 1 from an approximate index and a snapshot that may be behind:
\* a search may hit any id it has an embedding for, one whose row is gone
\* included, or none, be the fact itself among them or not.
Similar(f) == {i \in Ids : vector[i] # None}
Known(f) == {i \in Ids : vector[i] = f}
Misses(f, hit) == Known(f) # {} /\ hit \notin Known(f)

\* The tasks in _apply_fact whose vector is still to come
Applying(f) ==
    {c \in Chats : chat[c].pc \in {"save", "update", "upsert"} /\ chat[c].fact = f}

\* A mistake that DuplicateHasCause excludes: every fact is an ADD.
IsHit_Never(hit) == FALSE
IsHit(hit) == hit # None

SearchMemory(c) ==
    LET f == chat[c].fact
    IN  /\ At(c, "search")
        /\ \E hit \in Similar(f) \cup {None} :
              /\ IF IsHit(hit)
                 THEN chat' = [chat EXCEPT ![c].pc = "update", ![c].id = hit]
                 ELSE Goto(c, "save")
              /\ missed' = IF Misses(f, hit) THEN missed \cup {f} ELSE missed
        /\ raced' = IF Known(f) = {} /\ Applying(f) # {} THEN raced \cup {f} ELSE raced
        /\ UNCHANGED <<sessions, memory, vector, unsettled>>

\* The foreign key refuses a session that is gone.
SourceExists(c) == Live(Session(c))

\* A uuid4 was never used before.
Fresh(i) ==
    /\ vector[i] = None /\ \A m \in memory : m.id # i
    /\ \A c \in Chats : chat[c].id # i

SaveMemory(c) ==
    /\ At(c, "save") /\ SourceExists(c)
    /\ \E i \in Ids :
          /\ Fresh(i)
          /\ memory' = memory \cup {[id |-> i, fact |-> chat[c].fact, source |-> Session(c)]}
          /\ chat' = [chat EXCEPT ![c].pc = "upsert", ![c].id = i]
    /\ UNCHANGED <<sessions, vector, unsettled, history>>

\* update_content changes nothing when the row is gone.
UpdateMemory(c) ==
    /\ At(c, "update")
    /\ memory' = {[m EXCEPT !.fact = IF m.id = chat[c].id THEN chat[c].fact ELSE @] : m \in memory}
    /\ Goto(c, "upsert")
    /\ UNCHANGED <<sessions, vector, unsettled, history>>

\* A mistake that TypeOK excludes: the embedding of no fact is stored.
Embedded_Unset(c) == chat[c].id
Embedded(c) == chat[c].fact

UpsertVector(c) ==
    /\ At(c, "upsert")
    /\ vector' = [vector EXCEPT ![chat[c].id] = Embedded(c)]
    /\ NextFact(c)
    /\ UNCHANGED <<sessions, memory, unsettled, history>>

------------------------------------------------------------------------------
(* SessionService.delete *)

\* The messages go with the row; ON DELETE SET NULL takes the source away.
DeleteSession(s) ==
    /\ Live(s)
    /\ deleted' = deleted \cup {s} /\ clearing' = clearing \cup {s}
    /\ count' = [count EXCEPT ![s] = 0] /\ summary' = [summary EXCEPT ![s] = 0]
    /\ memory' = {[m EXCEPT !.source = IF @ = s THEN None ELSE @] : m \in memory}
    /\ UNCHANGED <<vector, chat, unsettled, history>>

\* delete_by_session, in a transaction of its own; Milvus is left alone.
ClearMemories(s) ==
    /\ s \in clearing
    /\ clearing' = clearing \ {s}
    /\ memory' = {m \in memory : m.source # s}
    /\ UNCHANGED <<count, summary, deleted, vector, chat, unsettled, history>>

------------------------------------------------------------------------------
ChatStep(c) ==
    \/ ReadSession(c) \/ ReadMessages(c) \/ StreamFails(c) \/ Streamed(c)
    \/ PersistAnswer(c) \/ ReadCount(c) \/ ReadMiddle(c) \/ WriteSummary(c)
    \/ TaskFails(c) \/ Extract(c) \/ SearchMemory(c) \/ SaveMemory(c) \/ UpdateMemory(c)
    \/ UpsertVector(c)

Next ==
    \/ \E c \in Chats : ChatStep(c) \/ \E s \in Sessions : SaveUserMessage(c, s)
    \/ \E s \in Sessions : DeleteSession(s) \/ ClearMemories(s)

Spec == Init /\ [][Next]_vars

------------------------------------------------------------------------------
(* Properties *)

Prompting(c) == At(c, "stream") /\ chat[c].last > 0

\* No message is told to the model both as itself and in the summary, although
\* the summary, the messages and the next summary come from four transactions.
NothingTwice ==
    \A c \in Chats : Prompting(c) => chat[c].sum < Recent(chat[c].last)

\* In a session that was used one request at a time, and whose answers and
\* compressions went well, at most one message is between the summary and Last-N: the one
\* that the question itself has pushed out of Last-N since.
SummaryMeetsRecent ==
    \A c \in Chats : Prompting(c) /\ chat[c].sum > 0 /\ Session(c) \notin unsettled =>
        Recent(chat[c].last) <= chat[c].sum + 2

\* Two memories of one fact have a cause: two tasks applied it at once, a search
\* missed it, or Milvus has another embedding, or none yet, for one of the two.
DuplicateHasCause ==
    \A m, n \in memory : m # n /\ m.fact = n.fact =>
        m.fact \in raced \cup missed \/ vector[m.id] # m.fact \/ vector[n.id] # n.fact
=============================================================================
