------------------------- MODULE SessionMemoryProofs -------------------------
(***************************************************************************)
(* Theorems about SessionMemory, for any sessions, requests and facts, and *)
(* any length of the window and threshold.  Every number that a request or *)
(* a task has read stays behind the messages of its session, as these only *)
(* grow; in a session used one request at a time the summary lacks a number*)
(* of messages that the step of that request determines; and a fact that   *)
(* was neither applied twice at once nor missed by a search has one place,  *)
(* where its embedding is or is to be.                                     *)
(***************************************************************************)
EXTENDS SessionMemory, FiniteSetTheorems, TLAPS

Pc == {"idle"} \cup Answering \cup Compressing \cup Extracting
ChatState == [pc : Pc, session : Sessions \cup {None}, seen : Numbers, sum : Numbers,
              last : Numbers, fact : Facts \cup {None}, id : Ids \cup {None}]
Row == [id : Ids, fact : Facts, source : Sessions \cup {None}]

SessionsTyped ==
    /\ count \in [Sessions -> Numbers] /\ summary \in [Sessions -> Numbers]
    /\ clearing \subseteq deleted /\ deleted \subseteq Sessions
    /\ unsettled \subseteq Sessions

ChatsTyped ==
    /\ chat \in [Chats -> ChatState]
    /\ \A c \in Chats : chat[c].pc = "idle" <=> chat[c].session = None

FactsTyped ==
    /\ raced \subseteq Facts /\ missed \subseteq Facts
    /\ \A c \in Chats :
          /\ chat[c].pc \in {"search", "save", "update", "upsert"} => chat[c].fact \in Facts
          /\ chat[c].pc \in {"update", "upsert"} => chat[c].id \in Ids

\* No two rows have an id, and no row is of a session that is gone.
RowsTyped ==
    /\ memory \subseteq Row
    /\ \A m, n \in memory : m.id = n.id => m = n
    /\ \A m \in memory : m.source \notin deleted
    /\ vector \in [Ids -> Facts \cup {None}]

TypeInv == SessionsTyped /\ ChatsTyped /\ FactsTyped /\ RowsTyped

------------------------------------------------------------------------------
(* Typing *)

LEMMA IdleTyped ==
  /\ Idle \in ChatState /\ Idle.pc = "idle" /\ Idle.session = None /\ Idle.sum = 0 /\ Idle.last = 0
  BY MemoryAssumption DEF Idle, ChatState, Pc, Numbers

Asking(p, s) == [Idle EXCEPT !.pc = p, !.session = s]

LEMMA AskingTyped ==
  ASSUME NEW p \in Pc, NEW s \in Sessions
  PROVE  /\ Asking(p, s) \in ChatState
         /\ Asking(p, s).pc = p /\ Asking(p, s).session = s
         /\ Asking(p, s).sum = 0 /\ Asking(p, s).last = 0
  BY IdleTyped DEF Asking, ChatState

\* One request or task writes its own record only, which becomes x.
Written(c, x) ==
    /\ chat' = [chat EXCEPT ![c] = x]
    /\ chat' \in [Chats -> ChatState]
    /\ chat'[c] = x
    /\ \A d \in Chats : d # c => chat'[d] = chat[d]

LEMMA WriteChat ==
  ASSUME ChatsTyped, NEW c \in Chats, NEW x \in ChatState, chat' = [chat EXCEPT ![c] = x]
  PROVE  Written(c, x)
  BY DEF ChatsTyped, Written

LEMMA QuitWrites ==
  ASSUME ChatsTyped, NEW c \in Chats, Quit(c)
  PROVE  Written(c, Idle)
  BY IdleTyped, WriteChat DEF Quit

LEMMA GotoWrites ==
  ASSUME ChatsTyped, NEW c \in Chats, NEW p \in Pc, Goto(c, p)
  PROVE  Written(c, [chat[c] EXCEPT !.pc = p])
<1>1. [chat[c] EXCEPT !.pc = p] \in ChatState
  BY DEF ChatsTyped, ChatState
<1>2. chat' = [chat EXCEPT ![c] = [chat[c] EXCEPT !.pc = p]]
  BY DEF Goto, ChatsTyped
<1> QED
  BY <1>1, <1>2, WriteChat

LEMMA WorkingSession ==
  ASSUME ChatsTyped, NEW c \in Chats, chat[c].pc # "idle"
  PROVE  Session(c) \in Sessions
  BY DEF ChatsTyped, ChatState, Session

\* The numbers that a step reads are those of messages.
LEMMA LiveCount ==
  ASSUME SessionsTyped, NEW s \in Sessions
  PROVE  (IF Live(s) THEN count[s] ELSE 0) \in Numbers /\ (IF Live(s) THEN summary[s] ELSE 0) \in Numbers
  BY MemoryAssumption DEF SessionsTyped, Numbers

\* What each step writes into its record
LEMMA ReadSessionWrites ==
  ASSUME TypeInv, NEW c \in Chats, ReadSession(c)
  PROVE  \E n, m \in Numbers :
            /\ Written(c, [chat[c] EXCEPT !.pc = "messages", !.seen = n, !.sum = m])
            /\ m = IF Live(Session(c)) THEN summary[Session(c)] ELSE 0
<1> DEFINE n == IF Live(Session(c)) THEN count[Session(c)] ELSE 0
           m == IF Live(Session(c)) THEN summary[Session(c)] ELSE 0
           x == [chat[c] EXCEPT !.pc = "messages", !.seen = n, !.sum = m]
<1>1. n \in Numbers /\ m \in Numbers
  BY WorkingSession, LiveCount DEF TypeInv, ReadSession, At
<1>2. x \in ChatState
  BY <1>1 DEF TypeInv, ChatsTyped, ChatState, Pc, Answering
<1>3. chat' = [chat EXCEPT ![c] = x]
  BY DEF ReadSession, TypeInv, ChatsTyped, ChatState
<1> QED
  BY <1>1, <1>2, <1>3, WriteChat DEF TypeInv

LEMMA ReadMessagesWrites ==
  ASSUME TypeInv, NEW c \in Chats, ReadMessages(c)
  PROVE  \E n, m \in Numbers :
            /\ Written(c, [chat[c] EXCEPT !.pc = "stream", !.last = n, !.sum = m])
            /\ n = IF Live(Session(c)) THEN count[Session(c)] ELSE 0
            /\ m = 0 \/ m = chat[c].sum
<1> DEFINE n == IF Live(Session(c)) THEN count[Session(c)] ELSE 0
           m == IF Whole(c) THEN 0 ELSE chat[c].sum
           x == [chat[c] EXCEPT !.pc = "stream", !.last = n, !.sum = m]
<1>1. n \in Numbers /\ m \in Numbers
  BY MemoryAssumption, WorkingSession, LiveCount DEF TypeInv, ReadMessages, At, ChatsTyped, ChatState, Numbers
<1>2. x \in ChatState
  BY <1>1 DEF TypeInv, ChatsTyped, ChatState, Pc, Answering
<1>3. chat' = [chat EXCEPT ![c] = x]
  BY DEF ReadMessages, TypeInv, ChatsTyped, ChatState
<1> QED
  BY <1>1, <1>2, <1>3, WriteChat DEF TypeInv

LEMMA ReadMiddleWrites ==
  ASSUME TypeInv, NEW c \in Chats, ReadMiddle(c)
  PROVE  LET n == IF Live(Session(c)) THEN count[Session(c)] ELSE 0
         IN  \/ /\ n > LastN + 2
                /\ n - LastN \in Numbers
                /\ Written(c, [chat[c] EXCEPT !.pc = "summarise", !.sum = n - LastN])
             \/ n <= LastN + 2 /\ Written(c, [chat[c] EXCEPT !.pc = "extract"])
<1> DEFINE n == IF Live(Session(c)) THEN count[Session(c)] ELSE 0
           x == [chat[c] EXCEPT !.pc = "summarise", !.sum = n - LastN]
<1>1. n \in Numbers
  BY WorkingSession, LiveCount DEF TypeInv, ReadMiddle, At
<1>2. CASE n > LastN + 2
  <2>1. n - LastN \in Numbers
    BY <1>1, <1>2, MemoryAssumption DEF Numbers
  <2>2. x \in ChatState
    BY <2>1 DEF TypeInv, ChatsTyped, ChatState, Pc, Compressing
  <2>3. chat' = [chat EXCEPT ![c] = x]
    BY <1>2 DEF ReadMiddle, SkipLast, TypeInv, ChatsTyped, ChatState
  <2> QED
    BY <1>2, <2>1, <2>2, <2>3, WriteChat DEF TypeInv
<1>3. CASE ~(n > LastN + 2)
  <2>1. n <= LastN + 2
    BY <1>1, <1>3, MemoryAssumption DEF Numbers
  <2>2. Goto(c, "extract")
    BY <1>3 DEF ReadMiddle, SkipLast
  <2> QED
    BY <2>1, <2>2, GotoWrites DEF TypeInv, Pc, Extracting
<1> QED
  BY <1>2, <1>3

LEMMA WriteSummaryWrites ==
  ASSUME TypeInv, NEW c \in Chats, WriteSummary(c)
  PROVE  Written(c, [chat[c] EXCEPT !.pc = "extract", !.sum = 0])
<1> DEFINE x == [chat[c] EXCEPT !.pc = "extract", !.sum = 0]
<1>0. 0 \in Numbers
  BY MemoryAssumption DEF Numbers
<1>1. x \in ChatState
  BY <1>0 DEF TypeInv, ChatsTyped, ChatState, Pc, Extracting
<1>2. chat' = [chat EXCEPT ![c] = x]
  BY DEF WriteSummary, TypeInv, ChatsTyped, ChatState
<1> QED
  BY <1>1, <1>2, WriteChat DEF TypeInv

LEMMA NextFactWrites ==
  ASSUME TypeInv, NEW c \in Chats, NextFact(c)
  PROVE  \/ \E f \in Facts : Written(c, [chat[c] EXCEPT !.pc = "search", !.fact = f, !.id = None])
         \/ Written(c, Idle)
<1>1. ASSUME NEW f \in Facts,
             chat' = [chat EXCEPT ![c].pc = "search", ![c].fact = f, ![c].id = None]
      PROVE  Written(c, [chat[c] EXCEPT !.pc = "search", !.fact = f, !.id = None])
  <2>1. [chat[c] EXCEPT !.pc = "search", !.fact = f, !.id = None] \in ChatState
    BY DEF TypeInv, ChatsTyped, ChatState, Pc, Extracting
  <2>2. chat' = [chat EXCEPT ![c] = [chat[c] EXCEPT !.pc = "search", !.fact = f, !.id = None]]
    BY <1>1 DEF TypeInv, ChatsTyped, ChatState
  <2> QED
    BY <2>1, <2>2, WriteChat DEF TypeInv
<1> QED
  BY <1>1, QuitWrites DEF NextFact, TypeInv

LEMMA SearchWrites ==
  ASSUME TypeInv, NEW c \in Chats, SearchMemory(c)
  PROVE  \E hit \in Ids \cup {None} :
            /\ \/ hit \in Ids /\ Written(c, [chat[c] EXCEPT !.pc = "update", !.id = hit])
               \/ hit = None /\ Written(c, [chat[c] EXCEPT !.pc = "save"])
            /\ missed' = IF Misses(chat[c].fact, hit) THEN missed \cup {chat[c].fact} ELSE missed
<1>1. PICK hit \in Ids \cup {None} :
        /\ IF hit # None THEN chat' = [chat EXCEPT ![c].pc = "update", ![c].id = hit]
                         ELSE Goto(c, "save")
        /\ missed' = IF Misses(chat[c].fact, hit) THEN missed \cup {chat[c].fact} ELSE missed
  BY DEF SearchMemory, Similar, IsHit
<1>2. CASE hit = None
  <2>1. Written(c, [chat[c] EXCEPT !.pc = "save"])
    BY <1>1, <1>2, GotoWrites DEF TypeInv, Pc, Extracting
  <2> QED
    BY <1>1, <1>2, <2>1
<1>3. CASE hit # None
  <2>1. hit \in Ids
    BY <1>3
  <2>2. [chat[c] EXCEPT !.pc = "update", !.id = hit] \in ChatState
    BY <2>1 DEF TypeInv, ChatsTyped, ChatState, Pc, Extracting
  <2>3. chat' = [chat EXCEPT ![c] = [chat[c] EXCEPT !.pc = "update", !.id = hit]]
    BY <1>1, <1>3 DEF TypeInv, ChatsTyped, ChatState
  <2>4. Written(c, [chat[c] EXCEPT !.pc = "update", !.id = hit])
    BY <2>2, <2>3, WriteChat DEF TypeInv
  <2> QED
    BY <1>1, <2>1, <2>4
<1> QED
  BY <1>2, <1>3

LEMMA SaveWrites ==
  ASSUME TypeInv, NEW c \in Chats, SaveMemory(c)
  PROVE  \E i \in Ids :
            /\ \A m \in memory : m.id # i
            /\ memory' = memory \cup {[id |-> i, fact |-> chat[c].fact, source |-> Session(c)]}
            /\ Written(c, [chat[c] EXCEPT !.pc = "upsert", !.id = i])
<1>1. PICK i \in Ids :
        /\ \A m \in memory : m.id # i
        /\ memory' = memory \cup {[id |-> i, fact |-> chat[c].fact, source |-> Session(c)]}
        /\ chat' = [chat EXCEPT ![c].pc = "upsert", ![c].id = i]
  BY DEF SaveMemory, Fresh
<1>2. [chat[c] EXCEPT !.pc = "upsert", !.id = i] \in ChatState
  BY DEF TypeInv, ChatsTyped, ChatState, Pc, Extracting
<1>3. chat' = [chat EXCEPT ![c] = [chat[c] EXCEPT !.pc = "upsert", !.id = i]]
  BY <1>1 DEF TypeInv, ChatsTyped, ChatState
<1> QED
  BY <1>1, <1>2, <1>3, WriteChat DEF TypeInv

LEMMA UpdateWrites ==
  ASSUME TypeInv, NEW c \in Chats, UpdateMemory(c)
  PROVE  Written(c, [chat[c] EXCEPT !.pc = "upsert"])
  BY GotoWrites DEF UpdateMemory, TypeInv, Pc, Extracting

LEMMA StreamedWrites ==
  ASSUME TypeInv, NEW c \in Chats, Streamed(c)
  PROVE  LET x == Asking("persist", Session(c))
         IN  /\ Written(c, x) /\ Session(c) \in Sessions
             /\ x.pc = "persist" /\ x.session = Session(c) /\ x.sum = 0 /\ x.last = 0
<1>1. Session(c) \in Sessions
  BY WorkingSession DEF TypeInv, Streamed, At
<1> DEFINE x == Asking("persist", Session(c))
<1>2. x \in ChatState /\ x.pc = "persist" /\ x.session = Session(c) /\ x.sum = 0 /\ x.last = 0
  BY <1>1, AskingTyped DEF Pc, Compressing
<1>3. chat' = [chat EXCEPT ![c] = x]
  BY DEF Streamed, Asking
<1> HIDE DEF x
<1>4. Written(c, x)
  BY <1>2, <1>3, WriteChat DEF TypeInv
<1> QED
  BY <1>1, <1>2, <1>4 DEF x

\* A record that is typed keeps the records typed.
LEMMA TypedWrite ==
  ASSUME ChatsTyped, FactsTyped, NEW c \in Chats, NEW x, Written(c, x), raced' \subseteq Facts,
         missed' \subseteq Facts, x.pc = "idle" <=> x.session = None,
         x.pc \in {"search", "save", "update", "upsert"} => x.fact \in Facts,
         x.pc \in {"update", "upsert"} => x.id \in Ids
  PROVE  ChatsTyped' /\ FactsTyped'
  BY DEF ChatsTyped, FactsTyped, Written, At

LEMMA RowsKept ==
  ASSUME RowsTyped, UNCHANGED <<memory, deleted, vector>>
  PROVE  RowsTyped'
  BY DEF RowsTyped

\* The deletion of a session changes the sources of rows and nothing else.
LEMMA RowsOfDeleted ==
  ASSUME TypeInv, NEW s \in Sessions, DeleteSession(s)
  PROVE  RowsTyped'
<1> DEFINE Cut(m) == [m EXCEPT !.source = IF @ = s THEN None ELSE @]
<1>1. memory' = {Cut(m) : m \in memory} /\ deleted' = deleted \cup {s} /\ vector' = vector
  BY DEF DeleteSession
<1>2. ASSUME NEW m \in memory
      PROVE  Cut(m) \in Row /\ Cut(m).id = m.id /\ Cut(m).source \notin deleted'
  <2>1. m \in Row /\ m.source \notin deleted
    BY DEF TypeInv, RowsTyped
  <2>2. None \notin deleted'
    BY <1>1, MemoryAssumption DEF TypeInv, SessionsTyped
  <2> QED
    BY <1>1, <2>1, <2>2 DEF Row
<1>3. \A n \in memory' : \E m \in memory : n = Cut(m)
  BY <1>1
<1> HIDE DEF Cut
<1>4. memory' \subseteq Row /\ \A n \in memory' : n.source \notin deleted'
  BY <1>2, <1>3
<1>5. \A m, n \in memory' : m.id = n.id => m = n
  BY <1>2, <1>3 DEF TypeInv, RowsTyped
<1> QED
  BY <1>1, <1>4, <1>5 DEF TypeInv, RowsTyped

\* A new row has a new id.
LEMMA RowsOfSaved ==
  ASSUME TypeInv, NEW c \in Chats, SaveMemory(c)
  PROVE  RowsTyped'
<1>1. PICK i \in Ids :
        /\ \A m \in memory : m.id # i
        /\ memory' = memory \cup {[id |-> i, fact |-> chat[c].fact, source |-> Session(c)]}
  BY SaveWrites
<1> DEFINE new == [id |-> i, fact |-> chat[c].fact, source |-> Session(c)]
<1>2. Session(c) \in Sessions /\ Session(c) \notin deleted /\ chat[c].fact \in Facts
  BY WorkingSession DEF TypeInv, FactsTyped, SaveMemory, At, SourceExists, Live
<1>3. memory' = memory \cup {new} /\ UNCHANGED <<deleted, vector>>
  BY <1>1 DEF SaveMemory, sessions
<1>4. new \in Row /\ new.id = i /\ new.source = Session(c)
  BY <1>2 DEF Row
<1> HIDE DEF new
<1>5. memory' \subseteq Row /\ \A m \in memory' : m.source \notin deleted'
  BY <1>2, <1>3, <1>4 DEF TypeInv, RowsTyped
<1>6. \A m, n \in memory' : m.id = n.id => m = n
  BY <1>1, <1>3, <1>4 DEF TypeInv, RowsTyped
<1> QED
  BY <1>3, <1>5, <1>6 DEF TypeInv, RowsTyped

\* The update of a row changes its fact and nothing else.
LEMMA RowsOfUpdated ==
  ASSUME TypeInv, NEW c \in Chats, UpdateMemory(c)
  PROVE  RowsTyped'
<1> DEFINE New(m) == [m EXCEPT !.fact = IF m.id = chat[c].id THEN chat[c].fact ELSE @]
<1>1. memory' = {New(m) : m \in memory} /\ UNCHANGED <<deleted, vector>>
  BY DEF UpdateMemory, sessions
<1>2. chat[c].fact \in Facts
  BY DEF TypeInv, FactsTyped, UpdateMemory, At
<1>3. ASSUME NEW m \in memory
      PROVE  New(m) \in Row /\ New(m).id = m.id /\ New(m).source = m.source
  <2>1. m \in Row
    BY DEF TypeInv, RowsTyped
  <2> QED
    BY <1>2, <2>1 DEF Row
<1>4. \A n \in memory' : \E m \in memory : n = New(m)
  BY <1>1
<1> HIDE DEF New
<1>5. memory' \subseteq Row /\ \A n \in memory' : n.source \notin deleted'
  BY <1>1, <1>3, <1>4 DEF TypeInv, RowsTyped
<1>6. \A m, n \in memory' : m.id = n.id => m = n
  BY <1>3, <1>4 DEF TypeInv, RowsTyped
<1> QED
  BY <1>1, <1>5, <1>6 DEF TypeInv, RowsTyped

LEMMA RowsOfUpserted ==
  ASSUME TypeInv, NEW c \in Chats, UpsertVector(c)
  PROVE  RowsTyped'
<1>1. chat[c].fact \in Facts
  BY DEF TypeInv, FactsTyped, UpsertVector, At
<1>2. vector' = [vector EXCEPT ![chat[c].id] = chat[c].fact] /\ UNCHANGED <<memory, deleted>>
  BY DEF UpsertVector, Embedded, sessions
<1> QED
  BY <1>1, <1>2 DEF TypeInv, RowsTyped

LEMMA TypeInit == Init => TypeInv
<1> SUFFICES ASSUME Init PROVE TypeInv
  OBVIOUS
<1>1. SessionsTyped
  BY MemoryAssumption DEF Init, SessionsTyped, Numbers
<1>2. ChatsTyped /\ FactsTyped
  BY IdleTyped DEF Init, ChatsTyped, FactsTyped, At
<1>3. RowsTyped
  BY DEF Init, RowsTyped
<1> QED
  BY <1>1, <1>2, <1>3 DEF TypeInv

\* What the records of working requests have in common
Sound(x) ==
    /\ x.pc = "idle" <=> x.session = None
    /\ x.pc \in {"search", "save", "update", "upsert"} => x.fact \in Facts
    /\ x.pc \in {"update", "upsert"} => x.id \in Ids

LEMMA IdleSound == Sound(Idle)
  BY IdleTyped DEF Sound

LEMMA SoundAtWork ==
  ASSUME TypeInv, NEW c \in Chats, chat[c].pc # "idle",
         NEW x, x.session = chat[c].session, x.pc # "idle",
         x.pc \in {"search", "save", "update", "upsert"} => x.fact \in Facts,
         x.pc \in {"update", "upsert"} => x.id \in Ids
  PROVE  Sound(x)
  BY WorkingSession, MemoryAssumption DEF TypeInv, Session, Sound

\* The steps of _extract and _apply_fact stay there or end the task.
LEMMA MemoryWrites ==
  ASSUME TypeInv, NEW c \in Chats,
         Extract(c) \/ SearchMemory(c) \/ SaveMemory(c) \/ UpdateMemory(c) \/ UpsertVector(c)
  PROVE  /\ chat[c].pc \in Extracting
         /\ \E x : /\ Written(c, x) /\ Sound(x)
                   /\ x = Idle \/ (x.pc \in Extracting /\ x.session = chat[c].session)
<1>1. chat[c].pc \in Extracting /\ chat[c].pc # "idle" /\ chat[c] \in ChatState
  BY DEF Extract, SearchMemory, SaveMemory, UpdateMemory, UpsertVector, At, Extracting, TypeInv, ChatsTyped
<1> DEFINE Goes(x) == /\ Written(c, x) /\ Sound(x)
                      /\ x = Idle \/ (x.pc \in Extracting /\ x.session = chat[c].session)
<1> SUFFICES \E x : Goes(x)
  BY <1>1
<1>2. ASSUME NEW x, Written(c, x), x.pc \in Extracting, x.session = chat[c].session,
             x.pc \in {"search", "save", "update", "upsert"} => x.fact \in Facts,
             x.pc \in {"update", "upsert"} => x.id \in Ids
      PROVE  Goes(x)
  <2>1. x.pc # "idle"
    BY <1>2 DEF Extracting
  <2>2. Sound(x)
    BY <1>1, <1>2, <2>1, SoundAtWork
  <2> QED
    BY <1>2, <2>2
<1>3. Written(c, Idle) => Goes(Idle)
  BY IdleSound
<1> HIDE DEF Goes
<1>4. CASE Extract(c) \/ UpsertVector(c)
  <2>1. ASSUME NEW f \in Facts, Written(c, [chat[c] EXCEPT !.pc = "search", !.fact = f, !.id = None])
        PROVE  \E x : Goes(x)
    <3>1. PICK x : x = [chat[c] EXCEPT !.pc = "search", !.fact = f, !.id = None]
      OBVIOUS
    <3>2. x.pc = "search" /\ x.session = chat[c].session /\ x.fact = f
      BY <1>1, <3>1 DEF ChatState
    <3>3. Goes(x)
      BY <1>2, <2>1, <3>1, <3>2 DEF Extracting
    <3> QED
      BY <3>3
  <2>2. NextFact(c)
    BY <1>4 DEF Extract, UpsertVector
  <2> QED
    BY <1>3, <2>1, <2>2, NextFactWrites
<1>5. CASE SearchMemory(c)
  <2>1. PICK hit, x : /\ Written(c, x)
                      /\ \/ hit \in Ids /\ x = [chat[c] EXCEPT !.pc = "update", !.id = hit]
                         \/ x = [chat[c] EXCEPT !.pc = "save"]
    BY <1>5, SearchWrites
  <2>2. chat[c].fact \in Facts
    BY <1>5 DEF SearchMemory, TypeInv, FactsTyped, At
  <2>3. /\ x.pc \in {"update", "save"} /\ x.session = chat[c].session /\ x.fact = chat[c].fact
        /\ x.pc = "update" => x.id \in Ids
    BY <1>1, <2>1 DEF ChatState
  <2>4. Goes(x)
    BY <1>2, <2>1, <2>2, <2>3 DEF Extracting
  <2> QED
    BY <2>4
<1>6. CASE SaveMemory(c) \/ UpdateMemory(c)
  <2>1. /\ chat[c].fact \in Facts
        /\ UpdateMemory(c) => chat[c].id \in Ids
    BY <1>6 DEF SaveMemory, UpdateMemory, TypeInv, FactsTyped, At
  <2>2. PICK i, x : i \in Ids /\ Written(c, x) /\ x = [chat[c] EXCEPT !.pc = "upsert", !.id = i]
    <3>1. CASE SaveMemory(c)
      BY <3>1, SaveWrites
    <3>2. CASE UpdateMemory(c)
      <4>1. [chat[c] EXCEPT !.pc = "upsert"] = [chat[c] EXCEPT !.pc = "upsert", !.id = chat[c].id]
        BY <1>1 DEF ChatState
      <4> QED
        BY <2>1, <3>2, <4>1, UpdateWrites
    <3> QED
      BY <1>6, <3>1, <3>2
  <2>3. x.pc = "upsert" /\ x.session = chat[c].session /\ x.fact = chat[c].fact /\ x.id = i
    BY <1>1, <2>2 DEF ChatState
  <2>4. Goes(x)
    BY <1>2, <2>1, <2>2, <2>3 DEF Extracting
  <2> QED
    BY <2>4
<1> QED
  BY <1>4, <1>5, <1>6

LEMMA TypedStep ==
  ASSUME TypeInv, NEW c \in Chats, NEW x, Written(c, x), Sound(x), UNCHANGED sessions, RowsTyped',
         raced' \subseteq Facts, missed' \subseteq Facts, unsettled' \subseteq Sessions
  PROVE  TypeInv'
<1>1. ChatsTyped' /\ FactsTyped'
  BY TypedWrite DEF TypeInv, Sound
<1>2. SessionsTyped'
  BY DEF TypeInv, SessionsTyped, sessions
<1> QED
  BY <1>1, <1>2 DEF TypeInv

\* The steps that read, and those that give up
LEMMA TypeOfReading ==
  ASSUME TypeInv, NEW c \in Chats,
         \/ ReadSession(c) \/ ReadMessages(c) \/ StreamFails(c) \/ Streamed(c)
         \/ ReadCount(c) \/ ReadMiddle(c) \/ TaskFails(c)
  PROVE  TypeInv'
<1>1. chat[c] \in ChatState /\ unsettled \subseteq Sessions
  BY DEF TypeInv, ChatsTyped, SessionsTyped
<1>0. UNCHANGED sessions /\ RowsTyped' /\ raced' \subseteq Facts /\ missed' \subseteq Facts
  <2>1. UNCHANGED <<sessions, memory, vector, history>>
    BY DEF ReadSession, ReadMessages, StreamFails, Streamed, ReadCount, ReadMiddle, TaskFails, StoresUnchanged
  <2> QED
    BY <2>1, RowsKept DEF TypeInv, FactsTyped, sessions, history
<1>2. CASE ReadSession(c)
  <2>1. PICK n \in Numbers, m \in Numbers :
          Written(c, [chat[c] EXCEPT !.pc = "messages", !.seen = n, !.sum = m])
    BY <1>2, ReadSessionWrites
  <2> DEFINE x == [chat[c] EXCEPT !.pc = "messages", !.seen = n, !.sum = m]
  <2>2. Sound(x)
    BY <1>1, <1>2, SoundAtWork DEF ChatState, ReadSession, At
  <2> QED
    BY <1>0, <1>1, <1>2, <2>1, <2>2, TypedStep DEF ReadSession
<1>3. CASE ReadMessages(c)
  <2>1. PICK n \in Numbers, m \in Numbers :
          Written(c, [chat[c] EXCEPT !.pc = "stream", !.last = n, !.sum = m])
    BY <1>3, ReadMessagesWrites
  <2> DEFINE x == [chat[c] EXCEPT !.pc = "stream", !.last = n, !.sum = m]
  <2>2. Sound(x)
    BY <1>1, <1>3, SoundAtWork DEF ChatState, ReadMessages, At
  <2> QED
    BY <1>0, <1>1, <1>3, <2>1, <2>2, TypedStep DEF ReadMessages
<1>4. CASE StreamFails(c) \/ TaskFails(c)
  <2>1. Session(c) \in Sessions
    BY <1>4, WorkingSession DEF TypeInv, StreamFails, TaskFails, Answering, Compressing, Extracting
  <2>2. Written(c, Idle)
    BY <1>4, QuitWrites DEF TypeInv, StreamFails, TaskFails
  <2>3. unsettled' \subseteq Sessions
    BY <1>1, <1>4, <2>1 DEF StreamFails, TaskFails
  <2> QED
    BY <1>0, <2>2, <2>3, IdleSound, TypedStep
<1>5. CASE Streamed(c)
  <2> DEFINE x == Asking("persist", Session(c))
  <2>1. Written(c, x) /\ Sound(x)
    BY <1>5, StreamedWrites, MemoryAssumption DEF Sound
  <2> HIDE DEF x
  <2> QED
    BY <1>0, <1>1, <1>5, <2>1, TypedStep DEF Streamed
<1>6. CASE ReadCount(c)
  <2>1. \E p \in {"middle", "extract"} : Goto(c, p)
    BY <1>6 DEF ReadCount
  <2>2. PICK p \in {"middle", "extract"} : Goto(c, p)
    BY <2>1
  <2> DEFINE x == [chat[c] EXCEPT !.pc = p]
  <2>3. Written(c, x)
    BY <2>2, GotoWrites DEF TypeInv, Pc, Compressing, Extracting
  <2>4. Sound(x)
    BY <1>1, <1>6, SoundAtWork DEF ChatState, ReadCount, At
  <2> QED
    BY <1>0, <1>1, <1>6, <2>3, <2>4, TypedStep DEF ReadCount
<1>7. CASE ReadMiddle(c)
  <2>1. \/ \E n \in Numbers : Written(c, [chat[c] EXCEPT !.pc = "summarise", !.sum = n])
        \/ Written(c, [chat[c] EXCEPT !.pc = "extract"])
    BY <1>7, ReadMiddleWrites
  <2>2. ASSUME NEW n \in Numbers PROVE Sound([chat[c] EXCEPT !.pc = "summarise", !.sum = n])
    BY <1>1, <1>7, SoundAtWork DEF ChatState, ReadMiddle, At
  <2>3. Sound([chat[c] EXCEPT !.pc = "extract"])
    BY <1>1, <1>7, SoundAtWork DEF ChatState, ReadMiddle, At
  <2> QED
    BY <1>0, <1>1, <1>7, <2>1, <2>2, <2>3, TypedStep DEF ReadMiddle
<1> QED
  BY <1>2, <1>3, <1>4, <1>5, <1>6, <1>7

\* The steps that store a message or a summary
LEMMA TypeOfWriting ==
  ASSUME TypeInv, NEW c \in Chats, PersistAnswer(c) \/ WriteSummary(c)
  PROVE  TypeInv'
<1>1. chat[c] \in ChatState /\ Session(c) \in Sessions
  BY WorkingSession DEF TypeInv, ChatsTyped, PersistAnswer, WriteSummary, At
<1>0. RowsTyped' /\ raced' \subseteq Facts /\ missed' \subseteq Facts
  <2>1. UNCHANGED <<memory, deleted, vector, history>>
    BY DEF PersistAnswer, WriteSummary
  <2> QED
    BY <2>1, RowsKept DEF TypeInv, FactsTyped, history
<1>2. CASE PersistAnswer(c)
  <2>1. Written(c, [chat[c] EXCEPT !.pc = "settle"])
    BY <1>2, GotoWrites DEF TypeInv, PersistAnswer, Pc, Compressing
  <2>2. Sound([chat[c] EXCEPT !.pc = "settle"])
    BY <1>1, <1>2, SoundAtWork DEF ChatState, PersistAnswer, At
  <2>3. SessionsTyped'
    BY <1>1, <1>2, MemoryAssumption DEF TypeInv, SessionsTyped, PersistAnswer, Numbers
  <2> QED
    BY <1>0, <2>1, <2>2, <2>3, TypedWrite DEF TypeInv, Sound
<1>3. CASE WriteSummary(c)
  <2>1. Written(c, [chat[c] EXCEPT !.pc = "extract", !.sum = 0])
    BY <1>3, WriteSummaryWrites
  <2>2. Sound([chat[c] EXCEPT !.pc = "extract", !.sum = 0])
    BY <1>1, <1>3, SoundAtWork DEF ChatState, WriteSummary, At
  <2>3. SessionsTyped'
    BY <1>1, <1>3 DEF TypeInv, SessionsTyped, WriteSummary, ChatState
  <2> QED
    BY <1>0, <2>1, <2>2, <2>3, TypedWrite DEF TypeInv, Sound
<1> QED
  BY <1>2, <1>3

\* The steps of _extract and _apply_fact
LEMMA TypeOfMemory ==
  ASSUME TypeInv, NEW c \in Chats,
         Extract(c) \/ SearchMemory(c) \/ SaveMemory(c) \/ UpdateMemory(c) \/ UpsertVector(c)
  PROVE  TypeInv'
<1>1. UNCHANGED <<sessions, unsettled>>
  BY DEF Extract, SearchMemory, SaveMemory, UpdateMemory, UpsertVector, StoresUnchanged
<1>2. raced' \subseteq Facts /\ missed' \subseteq Facts
  <2>1. CASE SearchMemory(c)
    <3>1. chat[c].fact \in Facts /\ raced \subseteq Facts /\ missed \subseteq Facts
      BY <2>1 DEF SearchMemory, TypeInv, FactsTyped, At
    <3>2. raced' \subseteq raced \cup {chat[c].fact} /\ missed' \subseteq missed \cup {chat[c].fact}
      BY <2>1 DEF SearchMemory
    <3> QED
      BY <3>1, <3>2
  <2>2. CASE Extract(c) \/ SaveMemory(c) \/ UpdateMemory(c) \/ UpsertVector(c)
    BY <2>2 DEF Extract, SaveMemory, UpdateMemory, UpsertVector, StoresUnchanged, history, TypeInv, FactsTyped
  <2> QED
    BY <2>1, <2>2
<1>3. RowsTyped'
  <2>1. CASE Extract(c) \/ SearchMemory(c)
    BY <2>1, RowsKept DEF Extract, SearchMemory, StoresUnchanged, TypeInv, sessions
  <2> QED
    BY <2>1, RowsOfSaved, RowsOfUpdated, RowsOfUpserted
<1>4. unsettled' \subseteq Sessions
  BY <1>1 DEF TypeInv, SessionsTyped
<1>5. PICK x : Written(c, x) /\ Sound(x)
  BY MemoryWrites
<1> QED
  BY <1>1, <1>2, <1>3, <1>4, <1>5, TypedStep

\* A question comes in.
LEMMA SaveUserWrites ==
  ASSUME TypeInv, NEW c \in Chats, NEW s \in Sessions, SaveUserMessage(c, s)
  PROVE  LET x == Asking("read", s)
         IN  /\ Written(c, x) /\ Sound(x)
             /\ x.pc = "read" /\ x.session = s /\ x.sum = 0 /\ x.last = 0
<1> DEFINE x == Asking("read", s)
<1>1. x \in ChatState /\ x.pc = "read" /\ x.session = s /\ x.sum = 0 /\ x.last = 0
  BY AskingTyped DEF Pc, Answering
<1>2. chat' = [chat EXCEPT ![c] = x]
  BY DEF SaveUserMessage, Asking
<1> HIDE DEF x
<1>3. Written(c, x) /\ Sound(x)
  BY <1>1, <1>2, WriteChat, MemoryAssumption DEF TypeInv, Sound
<1> QED
  BY <1>1, <1>3 DEF x

LEMMA TypeOfUser ==
  ASSUME TypeInv, NEW s \in Sessions,
         \/ \E c \in Chats : SaveUserMessage(c, s)
         \/ DeleteSession(s) \/ ClearMemories(s)
  PROVE  TypeInv'
<1>1. ASSUME NEW c \in Chats, SaveUserMessage(c, s) PROVE TypeInv'
  <2>1. SessionsTyped'
    BY <1>1, MemoryAssumption DEF TypeInv, SessionsTyped, SaveUserMessage, Numbers
  <2>2. RowsTyped' /\ raced' = raced /\ missed' = missed
    BY <1>1, RowsKept DEF TypeInv, SaveUserMessage, history
  <2> QED
    BY <1>1, <2>1, <2>2, SaveUserWrites, TypedWrite DEF TypeInv, Sound, FactsTyped
<1>2. CASE DeleteSession(s)
  <2>1. SessionsTyped'
    BY <1>2, MemoryAssumption DEF TypeInv, SessionsTyped, DeleteSession, Numbers
  <2>2. ChatsTyped' /\ FactsTyped'
    BY <1>2 DEF TypeInv, ChatsTyped, FactsTyped, DeleteSession, history
  <2> QED
    BY <1>2, <2>1, <2>2, RowsOfDeleted DEF TypeInv
<1>3. CASE ClearMemories(s)
  <2>1. SessionsTyped'
    BY <1>3 DEF TypeInv, SessionsTyped, ClearMemories
  <2>2. ChatsTyped' /\ FactsTyped'
    BY <1>3 DEF TypeInv, ChatsTyped, FactsTyped, ClearMemories, history
  <2>3. RowsTyped'
    <3>1. memory' \subseteq memory /\ UNCHANGED <<deleted, vector>>
      BY <1>3 DEF ClearMemories
    <3> QED
      BY <3>1 DEF TypeInv, RowsTyped
  <2> QED
    BY <2>1, <2>2, <2>3 DEF TypeInv
<1> QED
  BY <1>1, <1>2, <1>3

LEMMA TypeStep == TypeInv /\ [Next]_vars => TypeInv'
<1> SUFFICES ASSUME TypeInv, [Next]_vars PROVE TypeInv'
  OBVIOUS
<1>1. CASE Next
  BY <1>1, TypeOfReading, TypeOfWriting, TypeOfMemory, TypeOfUser DEF Next, ChatStep
<1>2. CASE UNCHANGED vars
  BY <1>2 DEF vars, sessions, history, TypeInv, SessionsTyped, ChatsTyped, FactsTyped, RowsTyped
<1> QED
  BY <1>1, <1>2

LEMMA TypeAlways == Spec => []TypeInv
  BY TypeInit, TypeStep, PTL DEF Spec

\* Every count, summary, request and memory is of its kind, for any sessions,
\* requests and facts.
THEOREM Typing == Spec => []TypeOK
<1>1. TypeInv => TypeOK
  BY DEF TypeInv, TypeOK, SessionsTyped, ChatsTyped, FactsTyped, RowsTyped, Row, ChatState, Pc, Numbers
<1> QED
  BY <1>1, TypeAlways, PTL

------------------------------------------------------------------------------
(* NothingTwice *)

\* The n-th message and LastN others are among k.
Short(n, k) == n = 0 \/ n + LastN <= k

SummaryBound == \A s \in Sessions : Short(summary[s], count[s])
ReadBound(c) ==
    chat[c].pc \in {"messages", "summarise"} /\ Live(Session(c))
        => Short(chat[c].sum, count[Session(c)])
PromptBound(c) == At(c, "stream") /\ chat[c].last > 0 => Short(chat[c].sum, chat[c].last)

\* What has been read of a summary is behind Last-N of its session or prompt.
BoundInv == SummaryBound /\ \A c \in Chats : ReadBound(c) /\ PromptBound(c)

\* A session is as long as before or longer, or gone.
Grown ==
    \A s \in Sessions : s \notin deleted' => s \notin deleted /\ count[s] <= count'[s]

LEMMA NumbersNatural == Numbers \subseteq Nat /\ LastN \in Nat /\ LastN > 0 /\ Threshold \in Nat
  BY MemoryAssumption DEF Numbers

LEMMA ShortGrown ==
  ASSUME NEW n \in Numbers, NEW j \in Numbers, NEW k \in Numbers, j <= k, Short(n, j)
  PROVE  Short(n, k)
  BY NumbersNatural DEF Short

\* A request that does not move keeps its bounds.
LEMMA BoundKept ==
  ASSUME TypeInv, TypeInv', BoundInv, Grown, NEW c \in Chats, chat'[c] = chat[c]
  PROVE  ReadBound(c)' /\ PromptBound(c)'
<1>1. PromptBound(c)'
  BY DEF BoundInv, PromptBound, At
<1>2. ASSUME chat[c].pc \in {"messages", "summarise"}, Live(Session(c))'
      PROVE  Short(chat[c].sum, count'[Session(c)])
  <2>1. Session(c) \in Sessions /\ chat[c].sum \in Numbers
    BY <1>2, WorkingSession DEF TypeInv, ChatsTyped, ChatState
  <2>2. Session(c)' = Session(c)
    BY DEF Session
  <2>3. Live(Session(c)) /\ count[Session(c)] <= count'[Session(c)]
    BY <1>2, <2>1, <2>2 DEF Grown, Live
  <2>4. count[Session(c)] \in Numbers /\ count'[Session(c)] \in Numbers
    BY <2>1 DEF TypeInv, SessionsTyped
  <2> QED
    BY <1>2, <2>1, <2>3, <2>4, ShortGrown DEF BoundInv, ReadBound
<1>3. ReadBound(c)'
  BY <1>2 DEF ReadBound, Session
<1> QED
  BY <1>1, <1>3

\* Summaries that do not change stay within what grows.
LEMMA SummariesKept ==
  ASSUME TypeInv, TypeInv', SummaryBound, UNCHANGED summary,
         \A s \in Sessions : count[s] <= count'[s]
  PROVE  SummaryBound'
<1> SUFFICES ASSUME NEW s \in Sessions PROVE Short(summary'[s], count'[s])
  BY DEF SummaryBound
<1>1. summary[s] \in Numbers /\ count[s] \in Numbers /\ count'[s] \in Numbers
  BY DEF TypeInv, SessionsTyped
<1> QED
  BY <1>1, ShortGrown DEF SummaryBound

\* One request moves on to x.
LEMMA BoundStep ==
  ASSUME TypeInv, TypeInv', BoundInv, Grown, SummaryBound', NEW c \in Chats, NEW x, Written(c, x),
         x.pc \in {"messages", "summarise"} /\ x.session \notin deleted'
             => Short(x.sum, count'[x.session]),
         x.pc = "stream" /\ x.last > 0 => Short(x.sum, x.last)
  PROVE  BoundInv'
<1>1. ReadBound(c)' /\ PromptBound(c)'
  BY DEF Written, ReadBound, PromptBound, At, Session, Live
<1>2. \A d \in Chats : d # c => ReadBound(d)' /\ PromptBound(d)'
  BY BoundKept DEF Written
<1> QED
  BY <1>1, <1>2 DEF BoundInv

LEMMA SameLength ==
  ASSUME TypeInv, UNCHANGED sessions
  PROVE  Grown /\ (\A s \in Sessions : count[s] <= count'[s]) /\ UNCHANGED summary
<1>1. \A s \in Sessions : count[s] \in Nat
  BY NumbersNatural DEF TypeInv, SessionsTyped
<1>2. count' = count /\ summary' = summary /\ deleted' = deleted
  BY DEF sessions
<1> QED
  BY <1>1, <1>2 DEF Grown

LEMMA OneLonger ==
  ASSUME TypeInv, NEW s \in Sessions, count' = [count EXCEPT ![s] = @ + 1], UNCHANGED deleted
  PROVE  Grown /\ \A q \in Sessions : count[q] <= count'[q]
<1>1. \A q \in Sessions : count[q] \in Nat
  BY NumbersNatural DEF TypeInv, SessionsTyped
<1>2. \A q \in Sessions : count'[q] = IF q = s THEN count[s] + 1 ELSE count[q]
  BY DEF TypeInv, SessionsTyped
<1>3. \A q \in Sessions : count[q] <= count'[q]
  BY <1>1, <1>2
<1> QED
  BY <1>3 DEF Grown

LEMMA BoundOfReading ==
  ASSUME TypeInv, TypeInv', BoundInv, NEW c \in Chats,
         ReadSession(c) \/ ReadMessages(c) \/ ReadMiddle(c)
  PROVE  BoundInv'
<1>1. UNCHANGED sessions
  BY DEF ReadSession, ReadMessages, ReadMiddle, StoresUnchanged
<1>2. Grown /\ SummaryBound'
  BY <1>1, SameLength, SummariesKept DEF BoundInv
<1>3. count' = count /\ deleted' = deleted
  BY <1>1 DEF sessions
<1>4. chat[c] \in ChatState /\ Session(c) \in Sessions /\ chat[c].session = Session(c)
  BY WorkingSession DEF TypeInv, ChatsTyped, ReadSession, ReadMessages, ReadMiddle, At, Session
<1>5. count[Session(c)] \in Numbers /\ summary[Session(c)] \in Numbers
  BY <1>4 DEF TypeInv, SessionsTyped
<1>6. CASE ReadSession(c)
  <2>1. PICK n \in Numbers, m \in Numbers :
          /\ Written(c, [chat[c] EXCEPT !.pc = "messages", !.seen = n, !.sum = m])
          /\ m = IF Live(Session(c)) THEN summary[Session(c)] ELSE 0
    BY <1>6, ReadSessionWrites
  <2> DEFINE x == [chat[c] EXCEPT !.pc = "messages", !.seen = n, !.sum = m]
  <2>2. x.pc = "messages" /\ x.session = Session(c) /\ x.sum = m
    BY <1>4 DEF ChatState
  <2>3. Session(c) \notin deleted' => Short(m, count'[Session(c)])
    BY <1>3, <1>4, <2>1 DEF BoundInv, SummaryBound, Live
  <2> HIDE DEF x
  <2>4. Written(c, x)
    BY <2>1 DEF x
  <2> QED
    BY <1>2, <2>2, <2>3, <2>4, BoundStep
<1>7. CASE ReadMessages(c)
  <2>1. PICK n \in Numbers, m \in Numbers :
          /\ Written(c, [chat[c] EXCEPT !.pc = "stream", !.last = n, !.sum = m])
          /\ n = IF Live(Session(c)) THEN count[Session(c)] ELSE 0
          /\ m = 0 \/ m = chat[c].sum
    BY <1>7, ReadMessagesWrites
  <2> DEFINE x == [chat[c] EXCEPT !.pc = "stream", !.last = n, !.sum = m]
  <2>2. x.pc = "stream" /\ x.last = n /\ x.sum = m
    BY <1>4 DEF ChatState
  <2>3. chat[c].pc = "messages" /\ ReadBound(c)
    BY <1>7 DEF ReadMessages, At, BoundInv
  <2>4. n > 0 => Short(m, n)
    BY <2>1, <2>3, NumbersNatural DEF ReadBound, Short
  <2> HIDE DEF x
  <2>5. Written(c, x)
    BY <2>1 DEF x
  <2> QED
    BY <1>2, <2>2, <2>4, <2>5, BoundStep
<1>8. CASE ReadMiddle(c)
  <2> DEFINE n == IF Live(Session(c)) THEN count[Session(c)] ELSE 0
             x == [chat[c] EXCEPT !.pc = "summarise", !.sum = n - LastN]
             y == [chat[c] EXCEPT !.pc = "extract"]
  <2>1. n \in Numbers
    BY <1>4, LiveCount DEF TypeInv
  <2>2. x.pc = "summarise" /\ x.session = Session(c) /\ x.sum = n - LastN /\ y.pc = "extract"
    BY <1>4 DEF ChatState
  <2>3. n > LastN + 2 /\ Session(c) \notin deleted' => Short(n - LastN, count'[Session(c)])
    <3>1. LastN \in Nat /\ n \in Nat
      BY <2>1, NumbersNatural
    <3>2. Session(c) \notin deleted' => n = count'[Session(c)]
      BY <1>3 DEF Live
    <3> HIDE DEF n
    <3> QED
      BY <3>1, <3>2 DEF Short
  <2>4. (Written(c, x) /\ n > LastN + 2) \/ Written(c, y)
    BY <1>8, ReadMiddleWrites
  <2> HIDE DEF n, x, y
  <2> QED
    BY <1>2, <2>2, <2>3, <2>4, BoundStep
<1> QED
  BY <1>6, <1>7, <1>8

\* The steps that neither read a number nor store one
LEMMA BoundOfOthers ==
  ASSUME TypeInv, TypeInv', BoundInv, NEW c \in Chats,
         \/ StreamFails(c) \/ Streamed(c) \/ ReadCount(c) \/ TaskFails(c)
         \/ Extract(c) \/ SearchMemory(c) \/ SaveMemory(c) \/ UpdateMemory(c) \/ UpsertVector(c)
  PROVE  BoundInv'
<1>1. UNCHANGED sessions
  BY DEF StreamFails, Streamed, ReadCount, TaskFails, Extract, SearchMemory, SaveMemory, UpdateMemory,
         UpsertVector, StoresUnchanged
<1>2. Grown /\ SummaryBound'
  BY <1>1, SameLength, SummariesKept DEF BoundInv
<1>3. chat[c] \in ChatState
  BY DEF TypeInv, ChatsTyped
<1> DEFINE Still(x) == Written(c, x) /\ x.pc \notin {"messages", "summarise", "stream"}
<1>4. ASSUME NEW x, Still(x) PROVE BoundInv'
  BY <1>2, <1>4, BoundStep
<1>5. CASE StreamFails(c) \/ TaskFails(c)
  <2>1. Still(Idle)
    BY <1>5, QuitWrites, IdleTyped DEF TypeInv, StreamFails, TaskFails
  <2> QED
    BY <2>1, <1>4
<1>6. CASE Streamed(c)
  <2> QED
    BY <1>4, <1>6, StreamedWrites
<1>7. CASE ReadCount(c)
  <2>1. PICK p \in {"middle", "extract"} : Goto(c, p)
    BY <1>7 DEF ReadCount
  <2>2. Still([chat[c] EXCEPT !.pc = p])
    BY <1>3, <2>1, GotoWrites DEF TypeInv, Pc, Compressing, Extracting, ChatState
  <2> QED
    BY <2>2, <1>4
<1>8. CASE Extract(c) \/ SearchMemory(c) \/ SaveMemory(c) \/ UpdateMemory(c) \/ UpsertVector(c)
  <2>1. PICK x : Written(c, x) /\ (x = Idle \/ x.pc \in Extracting)
    BY <1>8, MemoryWrites
  <2>2. Still(x)
    BY <2>1, IdleTyped DEF Extracting
  <2> QED
    BY <1>4, <2>2
<1> QED
  BY <1>5, <1>6, <1>7, <1>8

\* The summary that is stored is behind Last-N, whatever was stored since it
\* was begun.
LEMMA BoundOfSummary ==
  ASSUME TypeInv, TypeInv', BoundInv, NEW c \in Chats, WriteSummary(c)
  PROVE  BoundInv'
<1> DEFINE x == [chat[c] EXCEPT !.pc = "extract", !.sum = 0]
<1>1. Written(c, x) /\ x.pc = "extract"
  BY WriteSummaryWrites DEF TypeInv, ChatsTyped, ChatState
<1>2. count' = count /\ deleted' = deleted /\ At(c, "summarise")
  BY DEF WriteSummary
<1>3. Grown
  <2>1. \A s \in Sessions : count[s] \in Nat
    BY NumbersNatural DEF TypeInv, SessionsTyped
  <2> QED
    BY <1>2, <2>1 DEF Grown
<1>4. SummaryBound'
  <2>1. CASE ~Live(Session(c))
    BY <1>2, <2>1 DEF WriteSummary, BoundInv, SummaryBound, Short
  <2>2. CASE Live(Session(c))
    <3>1. summary' = [summary EXCEPT ![Session(c)] = chat[c].sum] /\ summary \in [Sessions -> Numbers]
      BY <2>2 DEF WriteSummary, TypeInv, SessionsTyped
    <3>2. Short(chat[c].sum, count[Session(c)])
      BY <1>2, <2>2 DEF BoundInv, ReadBound, At
    <3> QED
      BY <1>2, <3>1, <3>2 DEF BoundInv, SummaryBound
  <2> QED
    BY <2>1, <2>2
<1> HIDE DEF x
<1> QED
  BY <1>1, <1>3, <1>4, BoundStep

LEMMA BoundOfMessage ==
  ASSUME TypeInv, TypeInv', BoundInv, NEW c \in Chats,
         PersistAnswer(c) \/ \E s \in Sessions : SaveUserMessage(c, s)
  PROVE  BoundInv'
<1>1. CASE PersistAnswer(c)
  <2> DEFINE x == [chat[c] EXCEPT !.pc = "settle"]
  <2>1. Written(c, x) /\ x.pc = "settle" /\ Session(c) \in Sessions
    BY <1>1, GotoWrites, WorkingSession DEF PersistAnswer, Pc, Compressing, TypeInv, ChatsTyped, ChatState, At
  <2>2. Grown /\ SummaryBound'
    BY <1>1, <2>1, OneLonger, SummariesKept DEF PersistAnswer, BoundInv
  <2> HIDE DEF x
  <2> QED
    BY <2>1, <2>2, BoundStep
<1>2. ASSUME NEW s \in Sessions, SaveUserMessage(c, s) PROVE BoundInv'
  <2>1. Written(c, Asking("read", s)) /\ Asking("read", s).pc = "read"
    BY <1>2, SaveUserWrites
  <2>2. Grown /\ SummaryBound'
    BY <1>2, OneLonger, SummariesKept DEF SaveUserMessage, BoundInv
  <2> QED
    BY <2>1, <2>2, BoundStep
<1> QED
  BY <1>1, <1>2

LEMMA BoundOfDeletion ==
  ASSUME TypeInv, TypeInv', BoundInv, NEW s \in Sessions, DeleteSession(s) \/ ClearMemories(s)
  PROVE  BoundInv'
<1>1. CASE ClearMemories(s)
  <2>1. UNCHANGED <<count, summary, deleted, chat>>
    BY <1>1 DEF ClearMemories
  <2> QED
    BY <2>1 DEF BoundInv, SummaryBound, ReadBound, PromptBound, At, Session, Live
<1>2. CASE DeleteSession(s)
  <2>1. /\ count' = [count EXCEPT ![s] = 0] /\ summary' = [summary EXCEPT ![s] = 0]
        /\ deleted' = deleted \cup {s} /\ UNCHANGED chat
    BY <1>2 DEF DeleteSession
  <2>2. SummaryBound'
    BY <2>1 DEF BoundInv, SummaryBound, Short, TypeInv, SessionsTyped
  <2>3. Grown
    <3>1. \A q \in Sessions : count[q] \in Nat
      BY NumbersNatural DEF TypeInv, SessionsTyped
    <3> QED
      BY <2>1, <3>1 DEF Grown, TypeInv, SessionsTyped
  <2> QED
    BY <2>1, <2>2, <2>3, BoundKept DEF BoundInv
<1> QED
  BY <1>1, <1>2

LEMMA BoundStart == Init => BoundInv
  BY IdleTyped DEF Init, BoundInv, SummaryBound, ReadBound, PromptBound, Short, At

LEMMA BoundNext == TypeInv /\ TypeInv' /\ BoundInv /\ [Next]_vars => BoundInv'
<1> SUFFICES ASSUME TypeInv, TypeInv', BoundInv, [Next]_vars PROVE BoundInv'
  OBVIOUS
<1>1. CASE Next
  BY <1>1, BoundOfReading, BoundOfOthers, BoundOfSummary, BoundOfMessage, BoundOfDeletion DEF Next, ChatStep
<1>2. CASE UNCHANGED vars
  BY <1>2 DEF vars, sessions, BoundInv, SummaryBound, ReadBound, PromptBound, At, Session, Live
<1> QED
  BY <1>1, <1>2

\* Whatever tasks compress meanwhile, the summary that a prompt is made from ends
\* before the first of the recent messages told with it: for any window, any
\* threshold and any number of requests.
THEOREM ToldOnce == Spec => []NothingTwice
<1>1. TypeInv /\ BoundInv => NothingTwice
  <2> SUFFICES ASSUME TypeInv, BoundInv, NEW c \in Chats, Prompting(c)
               PROVE  chat[c].sum < Recent(chat[c].last)
    BY DEF NothingTwice
  <2>1. chat[c].sum \in Nat /\ chat[c].last \in Nat /\ LastN \in Nat
    BY NumbersNatural DEF TypeInv, ChatsTyped, ChatState
  <2>2. Short(chat[c].sum, chat[c].last)
    BY DEF BoundInv, PromptBound, Prompting
  <2> QED
    BY <2>1, <2>2, NumbersNatural DEF Short, Recent
<1>2. Spec => []BoundInv
  BY BoundStart, BoundNext, TypeAlways, PTL DEF Spec
<1> QED
  BY <1>1, <1>2, TypeAlways, PTL

------------------------------------------------------------------------------
(* DuplicateHasCause *)

\* The ids whose embedding is a fact, or is to be
Writing(f) == {c \in Chats : chat[c].pc \in {"update", "upsert"} /\ chat[c].fact = f}
Places(f) == Known(f) \cup {chat[c].id : c \in Writing(f)}

\* A fact that was neither raced for nor missed has one place at most, and who
\* saves it as a new memory is alone with it.
OnePlace(f) == \A i, j \in Places(f) : i = j
SaveAlone(f) ==
    \A c \in Chats : At(c, "save") /\ chat[c].fact = f => Places(f) = {} /\ Applying(f) = {c}
FactInv == \A f \in Facts \ (raced \cup missed) : OnePlace(f) /\ SaveAlone(f)

\* Who applies a fact has a place for it or is to save it.
LEMMA NoPlace ==
  ASSUME NEW f, Known(f) = {}, Applying(f) = {}
  PROVE  Places(f) = {}
  BY DEF Places, Writing, Applying

\* No fact gets a place or is taken up.
LEMMA FactKept ==
  ASSUME FactInv, raced \subseteq raced', missed \subseteq missed',
         \A f \in Facts : Places(f)' \subseteq Places(f) /\ Applying(f)' \subseteq Applying(f),
         \A c \in Chats : At(c, "save")' => At(c, "save") /\ chat'[c].fact = chat[c].fact
  PROVE  FactInv'
<1> SUFFICES ASSUME NEW f \in Facts, f \notin raced', f \notin missed'
             PROVE  OnePlace(f)' /\ SaveAlone(f)'
  BY DEF FactInv
<1>1. OnePlace(f) /\ SaveAlone(f)
  BY DEF FactInv
<1>2. ASSUME NEW c \in Chats, At(c, "save")', chat'[c].fact = f
      PROVE  Places(f)' = {} /\ Applying(f)' = {c}
  <2>1. Places(f) = {} /\ Applying(f) = {c}
    BY <1>1, <1>2 DEF SaveAlone
  <2>2. c \in Applying(f)'
    BY <1>2 DEF Applying, At
  <2> QED
    BY <2>1, <2>2
<1> QED
  BY <1>1, <1>2 DEF OnePlace, SaveAlone

\* c is not applying a fact, or no longer, and no embedding is stored.
LEMMA FactQuiet ==
  ASSUME FactInv, NEW c \in Chats, NEW x, Written(c, x), x.pc \notin {"save", "update", "upsert"},
         UNCHANGED <<vector, raced, missed>>
  PROVE  FactInv'
<1>1. \A f : Known(f)' = Known(f) /\ Applying(f)' \subseteq Applying(f)
  BY DEF Known, Applying, Written
<1>2. \A f : \A d \in Writing(f)' : d \in Writing(f) /\ chat'[d].id = chat[d].id
  BY DEF Writing, Written
<1>3. \A f : Places(f)' \subseteq Places(f)
  BY <1>1, <1>2 DEF Places
<1>4. \A d \in Chats : At(d, "save")' => At(d, "save") /\ chat'[d].fact = chat[d].fact
  BY DEF At, Written
<1> QED
  BY <1>1, <1>3, <1>4, FactKept

LEMMA FactOfOthers ==
  ASSUME TypeInv, FactInv, NEW c \in Chats,
         \/ ReadSession(c) \/ ReadMessages(c) \/ StreamFails(c) \/ Streamed(c)
         \/ PersistAnswer(c) \/ ReadCount(c) \/ ReadMiddle(c) \/ WriteSummary(c)
         \/ TaskFails(c) \/ Extract(c) \/ \E s \in Sessions : SaveUserMessage(c, s)
  PROVE  FactInv'
<1>1. chat[c] \in ChatState
  BY DEF TypeInv, ChatsTyped
<1>2. UNCHANGED <<vector, raced, missed>>
  BY DEF ReadSession, ReadMessages, StreamFails, Streamed, PersistAnswer, ReadCount, ReadMiddle,
         WriteSummary, TaskFails, Extract, SaveUserMessage, StoresUnchanged, history
<1> DEFINE Rests(x) == Written(c, x) /\ x.pc \notin {"save", "update", "upsert"}
<1>3. ASSUME NEW x, Rests(x) PROVE FactInv'
  BY <1>2, <1>3, FactQuiet
<1>4. ASSUME NEW p \in Pc \ {"save", "update", "upsert"}, Goto(c, p) PROVE FactInv'
  <2>1. Rests([chat[c] EXCEPT !.pc = p])
    BY <1>1, <1>4, GotoWrites DEF TypeInv, ChatState
  <2> QED
    BY <1>3, <2>1
<1>5. CASE ReadSession(c)
  <2>1. \A n, m \in Numbers : [chat[c] EXCEPT !.pc = "messages", !.seen = n, !.sum = m].pc = "messages"
    BY <1>1 DEF ChatState
  <2> QED
    BY <1>3, <1>5, <2>1, ReadSessionWrites
<1>6. CASE ReadMessages(c)
  <2>1. \A n, m \in Numbers : [chat[c] EXCEPT !.pc = "stream", !.last = n, !.sum = m].pc = "stream"
    BY <1>1 DEF ChatState
  <2> QED
    BY <1>3, <1>6, <2>1, ReadMessagesWrites
<1>7. CASE ReadMiddle(c)
  <2>1. \A n \in Numbers : [chat[c] EXCEPT !.pc = "summarise", !.sum = n].pc = "summarise"
    BY <1>1 DEF ChatState
  <2>2. [chat[c] EXCEPT !.pc = "extract"].pc = "extract"
    BY <1>1 DEF ChatState
  <2> QED
    BY <1>3, <1>7, <2>1, <2>2, ReadMiddleWrites
<1>8. CASE WriteSummary(c)
  <2>1. [chat[c] EXCEPT !.pc = "extract", !.sum = 0].pc = "extract"
    BY <1>1 DEF ChatState
  <2> QED
    BY <1>3, <1>8, <2>1, WriteSummaryWrites
<1>9. CASE Extract(c)
  <2>1. \A f \in Facts : [chat[c] EXCEPT !.pc = "search", !.fact = f, !.id = None].pc = "search"
    BY <1>1 DEF ChatState
  <2> QED
    BY <1>3, <1>9, <2>1, NextFactWrites, IdleTyped DEF Extract
<1>10. CASE StreamFails(c) \/ TaskFails(c)
  BY <1>3, <1>10, QuitWrites, IdleTyped DEF TypeInv, StreamFails, TaskFails
<1>11. CASE Streamed(c)
  BY <1>3, <1>11, StreamedWrites
<1>12. CASE \E s \in Sessions : SaveUserMessage(c, s)
  BY <1>3, <1>12, SaveUserWrites
<1>13. CASE PersistAnswer(c) \/ ReadCount(c)
  <2>1. \E p \in {"settle", "middle", "extract"} : Goto(c, p)
    BY <1>13 DEF PersistAnswer, ReadCount
  <2> QED
    BY <1>4, <2>1 DEF Pc, Compressing, Extracting
<1> QED
  BY <1>5, <1>6, <1>7, <1>8, <1>9, <1>10, <1>11, <1>12, <1>13

\* What the search of one task leaves of the facts of the others
LEMMA OtherFacts ==
  ASSUME FactInv, NEW c \in Chats, NEW x, Written(c, x), UNCHANGED vector,
         raced \subseteq raced', missed \subseteq missed',
         NEW f \in Facts, chat[c].fact = f, x.fact = f,
         NEW g \in Facts, g # f, g \notin raced', g \notin missed'
  PROVE  OnePlace(g)' /\ SaveAlone(g)'
<1>1. Known(g)' = Known(g) /\ Applying(g)' = Applying(g) /\ Writing(g)' = Writing(g)
  BY DEF Known, Applying, Writing, Written
<1>2. c \notin Writing(g) /\ Writing(g) \subseteq Chats
  BY DEF Writing
<1>3. \A d \in Writing(g) : chat'[d].id = chat[d].id
  BY <1>2 DEF Written
<1>4. Places(g)' = Places(g)
  BY <1>1, <1>3 DEF Places
<1>5. OnePlace(g) /\ SaveAlone(g)
  BY DEF FactInv
<1>6. \A d \in Chats : At(d, "save")' /\ chat'[d].fact = g => At(d, "save") /\ chat[d].fact = g
  BY DEF At, Written
<1> QED
  BY <1>1, <1>4, <1>5, <1>6 DEF OnePlace, SaveAlone

LEMMA FactOfSearch ==
  ASSUME TypeInv, FactInv, NEW c \in Chats, SearchMemory(c)
  PROVE  FactInv'
<1>1. PICK f \in Facts : f = chat[c].fact
  BY DEF TypeInv, FactsTyped, SearchMemory, At
<1>2. chat[c] \in ChatState /\ chat[c].pc = "search" /\ vector' = vector
  BY DEF TypeInv, ChatsTyped, SearchMemory, At
<1>3. PICK hit, x :
        /\ hit \in Ids \cup {None}
        /\ Written(c, x)
        /\ \/ hit \in Ids /\ x = [chat[c] EXCEPT !.pc = "update", !.id = hit]
           \/ hit = None /\ x = [chat[c] EXCEPT !.pc = "save"]
        /\ missed' = IF Misses(f, hit) THEN missed \cup {f} ELSE missed
  BY <1>1, SearchWrites
<1>4. raced' = IF Known(f) = {} /\ Applying(f) # {} THEN raced \cup {f} ELSE raced
  BY <1>1 DEF SearchMemory
<1>5. /\ x.fact = f
      /\ \/ hit \in Ids /\ x.pc = "update" /\ x.id = hit
         \/ hit = None /\ x.pc = "save"
  BY <1>1, <1>2, <1>3 DEF ChatState
<1>6. raced \subseteq raced' /\ missed \subseteq missed'
  BY <1>3, <1>4
<1>7. ASSUME NEW g \in Facts, g # f, g \notin raced', g \notin missed'
      PROVE  OnePlace(g)' /\ SaveAlone(g)'
  BY <1>1, <1>2, <1>3, <1>5, <1>6, <1>7, OtherFacts
<1>8. ASSUME f \notin raced', f \notin missed' PROVE OnePlace(f)' /\ SaveAlone(f)'
  <2>1. OnePlace(f) /\ SaveAlone(f)
    BY <1>6, <1>8 DEF FactInv
  <2>2. Known(f) # {} => hit \in Known(f)
    BY <1>3, <1>8 DEF Misses
  <2>3. Known(f) = {} => Applying(f) = {} /\ Places(f) = {}
    BY <1>4, <1>8, NoPlace
  <2>4. Known(f)' = Known(f) /\ Applying(f)' = Applying(f) \cup {c}
    BY <1>2, <1>3, <1>5 DEF Known, Applying, Written
  <2>5. Writing(f)' = IF x.pc = "update" THEN Writing(f) \cup {c} ELSE Writing(f)
    BY <1>2, <1>3, <1>5 DEF Writing, Written
  <2>6. c \notin Writing(f) /\ chat'[c] = x /\ \A d \in Writing(f) : chat'[d].id = chat[d].id
    BY <1>2, <1>3 DEF Writing, Written
  <2>7. Places(f)' = IF x.pc = "update" THEN Places(f) \cup {hit} ELSE Places(f)
    BY <1>5, <2>4, <2>5, <2>6 DEF Places
  <2>8. Known(f) # {} => hit \in Places(f) /\ hit \in Ids /\ x.pc = "update"
    <3>1. None \notin Ids
      BY MemoryAssumption
    <3> QED
      BY <1>5, <2>2, <3>1 DEF Places, Known
  <2>9. OnePlace(f)'
    BY <2>1, <2>3, <2>7, <2>8 DEF OnePlace
  <2>10. ASSUME NEW d \in Chats, At(d, "save")', chat'[d].fact = f
         PROVE  Places(f)' = {} /\ Applying(f)' = {d}
    <3>1. CASE d = c
      BY <1>5, <2>3, <2>4, <2>6, <2>7, <2>8, <2>10, <3>1 DEF At
    <3>2. CASE d # c
      <4>1. At(d, "save") /\ chat[d].fact = f
        BY <1>3, <2>10, <3>2 DEF At, Written
      <4>2. d \in Applying(f) /\ Places(f) = {}
        BY <2>1, <4>1 DEF SaveAlone, Applying, At
      <4> QED
        BY <2>3, <2>8, <4>2
    <3> QED
      BY <3>1, <3>2
  <2> QED
    BY <2>9, <2>10 DEF SaveAlone
<1> QED
  BY <1>7, <1>8 DEF FactInv

\* Who saves a fact is alone with it, and the new row is its place.
LEMMA FactOfSave ==
  ASSUME TypeInv, FactInv, NEW c \in Chats, SaveMemory(c)
  PROVE  FactInv'
<1>1. PICK f \in Facts : f = chat[c].fact
  BY DEF TypeInv, FactsTyped, SaveMemory, At
<1>2. chat[c] \in ChatState /\ chat[c].pc = "save" /\ UNCHANGED <<vector, raced, missed>>
  BY DEF TypeInv, ChatsTyped, SaveMemory, At, history
<1>3. PICK i, x : i \in Ids /\ Written(c, x) /\ x = [chat[c] EXCEPT !.pc = "upsert", !.id = i]
  BY SaveWrites
<1>4. x.fact = f /\ x.pc = "upsert" /\ x.id = i
  BY <1>1, <1>2, <1>3 DEF ChatState
<1>5. ASSUME NEW g \in Facts, g # f, g \notin raced', g \notin missed'
      PROVE  OnePlace(g)' /\ SaveAlone(g)'
  BY <1>1, <1>2, <1>3, <1>4, <1>5, OtherFacts
<1>6. ASSUME f \notin raced', f \notin missed' PROVE OnePlace(f)' /\ SaveAlone(f)'
  <2>1. Places(f) = {} /\ Applying(f) = {c}
    BY <1>1, <1>2, <1>6 DEF FactInv, SaveAlone, At
  <2>2. Known(f)' = {} /\ Writing(f)' = {c} /\ Applying(f)' = {c}
    <3>1. Known(f)' = {}
      BY <1>2, <2>1 DEF Places, Known
    <3>2. Applying(f)' = {c}
      BY <1>1, <1>2, <1>3, <1>4, <2>1 DEF Applying, Written
    <3>3. Writing(f)' \subseteq Applying(f)' /\ c \in Writing(f)'
      BY <1>3, <1>4 DEF Writing, Applying, Written
    <3> QED
      BY <3>1, <3>2, <3>3
  <2>3. Places(f)' = {i}
    BY <1>3, <1>4, <2>2 DEF Places, Written
  <2>4. \A d \in Chats : ~(At(d, "save")' /\ chat'[d].fact = f)
    <3>1. \A d \in Chats : At(d, "save")' /\ chat'[d].fact = f => d = c
      BY <2>2 DEF Applying, At
    <3> QED
      BY <1>3, <1>4, <3>1 DEF At, Written
  <2> QED
    BY <2>3, <2>4 DEF OnePlace, SaveAlone
<1> QED
  BY <1>5, <1>6 DEF FactInv

\* Between the row and its vector a fact keeps its place.
LEMMA FactOfUpdate ==
  ASSUME TypeInv, FactInv, NEW c \in Chats, UpdateMemory(c)
  PROVE  FactInv'
<1>1. chat[c] \in ChatState /\ chat[c].pc = "update" /\ UNCHANGED <<vector, raced, missed>>
  BY DEF TypeInv, ChatsTyped, UpdateMemory, At, history
<1>2. PICK x : Written(c, x) /\ x = [chat[c] EXCEPT !.pc = "upsert"]
  BY UpdateWrites
<1>3. x.fact = chat[c].fact /\ x.pc = "upsert" /\ x.id = chat[c].id
  BY <1>1, <1>2 DEF ChatState
<1>4. \A d \in Chats : chat'[d].fact = chat[d].fact /\ chat'[d].id = chat[d].id
  BY <1>2, <1>3 DEF Written
<1>5. \A f : Known(f)' = Known(f) /\ Writing(f)' = Writing(f) /\ Applying(f)' = Applying(f)
  BY <1>1, <1>2, <1>3, <1>4 DEF Known, Writing, Applying, Written
<1>6. \A f : Places(f)' = Places(f)
  <2>1. \A f : Writing(f) \subseteq Chats
    BY DEF Writing
  <2> QED
    BY <1>4, <1>5, <2>1 DEF Places
<1>7. \A d \in Chats : At(d, "save")' => At(d, "save")
  BY <1>2, <1>3 DEF At, Written
<1> QED
  BY <1>1, <1>4, <1>5, <1>6, <1>7, FactKept

\* The embedding is stored at a place of its fact; others may lose theirs.
LEMMA FactOfUpsert ==
  ASSUME TypeInv, FactInv, NEW c \in Chats, UpsertVector(c)
  PROVE  FactInv'
<1>1. PICK f \in Facts : f = chat[c].fact
  BY DEF TypeInv, FactsTyped, UpsertVector, At
<1>2. /\ chat[c] \in ChatState /\ chat[c].pc = "upsert" /\ UNCHANGED <<raced, missed>>
      /\ vector' = [vector EXCEPT ![chat[c].id] = f]
  BY <1>1 DEF TypeInv, ChatsTyped, UpsertVector, Embedded, At, history
<1>3. PICK x : Written(c, x) /\ x.pc \in {"search", "idle"}
  <2>1. \A g \in Facts : [chat[c] EXCEPT !.pc = "search", !.fact = g, !.id = None].pc = "search"
    BY <1>2 DEF ChatState
  <2> QED
    BY <2>1, NextFactWrites, IdleTyped DEF UpsertVector
<1>4. chat[c].id \in Places(f)
  BY <1>1, <1>2 DEF Places, Writing
<1>5. Known(f)' \subseteq Known(f) \cup {chat[c].id}
  BY <1>2 DEF Known, TypeInv, RowsTyped
<1>6. \A g : g # f => Known(g)' \subseteq Known(g)
  BY <1>2 DEF Known, TypeInv, RowsTyped
<1>7. \A g : \A d \in Writing(g)' : d \in Writing(g) /\ chat'[d].id = chat[d].id
  BY <1>3 DEF Writing, Written
<1>8. \A g : Places(g)' \subseteq Places(g)
  BY <1>4, <1>5, <1>6, <1>7 DEF Places
<1>9. \A g : Applying(g)' \subseteq Applying(g)
  BY <1>3 DEF Applying, Written
<1>10. \A d \in Chats : At(d, "save")' => At(d, "save") /\ chat'[d].fact = chat[d].fact
  BY <1>3 DEF At, Written
<1> QED
  BY <1>2, <1>8, <1>9, <1>10, FactKept

\* The deletion of a session changes no fact.
LEMMA FactOfRows ==
  ASSUME FactInv, UNCHANGED <<vector, raced, missed, chat>>
  PROVE  FactInv'
<1>1. \A f : Known(f)' = Known(f) /\ Writing(f)' = Writing(f) /\ Applying(f)' = Applying(f)
  BY DEF Known, Writing, Applying
<1>2. \A f : Places(f)' = Places(f)
  BY <1>1 DEF Places
<1>3. \A d \in Chats : At(d, "save")' => At(d, "save") /\ chat'[d].fact = chat[d].fact
  BY DEF At
<1> QED
  BY <1>1, <1>2, <1>3, FactKept

LEMMA FactStart == Init => FactInv
<1> SUFFICES ASSUME Init, NEW f \in Facts PROVE OnePlace(f) /\ SaveAlone(f)
  BY DEF FactInv
<1>1. vector = [i \in Ids |-> None] /\ \A c \in Chats : chat[c].pc = "idle"
  BY IdleTyped DEF Init
<1>2. Known(f) = {} /\ Applying(f) = {}
  BY <1>1, MemoryAssumption DEF Known, Applying
<1>3. Places(f) = {}
  BY <1>2, NoPlace
<1> QED
  BY <1>1, <1>3 DEF OnePlace, SaveAlone, At

LEMMA FactNext == TypeInv /\ FactInv /\ [Next]_vars => FactInv'
<1> SUFFICES ASSUME TypeInv, FactInv, [Next]_vars PROVE FactInv'
  OBVIOUS
<1>1. ASSUME NEW s \in Sessions, DeleteSession(s) \/ ClearMemories(s) PROVE FactInv'
  BY <1>1, FactOfRows DEF DeleteSession, ClearMemories, history
<1>2. CASE Next
  BY <1>1, <1>2, FactOfOthers, FactOfSearch, FactOfSave, FactOfUpdate, FactOfUpsert DEF Next, ChatStep
<1>3. CASE UNCHANGED vars
  BY <1>3, FactOfRows DEF vars, history
<1> QED
  BY <1>2, <1>3

\* A fact is remembered twice only if two tasks applied it at once, a search did
\* not find it although Milvus had it, or Milvus has another embedding or none
\* for one of the two: for any number of tasks, facts and sessions, whatever is
\* near what, and however wrong a search answers.
THEOREM RememberedOnce == Spec => []DuplicateHasCause
<1>1. TypeInv /\ FactInv => DuplicateHasCause
  <2> SUFFICES ASSUME TypeInv, FactInv, NEW m \in memory, NEW n \in memory, m.fact = n.fact,
                      m.fact \notin raced, m.fact \notin missed,
                      vector[m.id] = m.fact, vector[n.id] = n.fact
               PROVE  m = n
    BY DEF DuplicateHasCause
  <2>1. m.id \in Ids /\ n.id \in Ids /\ m.fact \in Facts
    BY DEF TypeInv, RowsTyped, Row
  <2>2. m.id \in Places(m.fact) /\ n.id \in Places(m.fact)
    BY <2>1 DEF Places, Known
  <2>3. m.id = n.id
    BY <2>1, <2>2 DEF FactInv, OnePlace
  <2> QED
    BY <2>3 DEF TypeInv, RowsTyped
<1>2. Spec => []FactInv
  BY FactStart, FactNext, TypeAlways, PTL DEF Spec
<1> QED
  BY <1>1, <1>2, TypeAlways, PTL

------------------------------------------------------------------------------
(* SummaryMeetsRecent *)

\* How many messages the summary and Last-N together lack, at a step
Lag(pc) ==
    IF pc \in {"read", "messages", "stream", "persist"} THEN 1
    ELSE IF pc \in {"settle", "middle", "summarise"} THEN 2 ELSE 0

\* A session of k messages of which n are summarised, and the record of the one
\* request that uses it
InRound(k, n, x) ==
    /\ n > 0 => k >= Threshold /\ k = n + LastN + Lag(x.pc)
    /\ x.pc = "messages" => x.sum \in {0, n}
    /\ x.pc \in {"middle", "summarise"} => k >= Threshold
    /\ x.pc = "summarise" => k = x.sum + LastN
\* and one that nobody uses
AtRest(k, n) == n > 0 => k >= Threshold /\ k = n + LastN

Round(s) ==
    /\ \A c, d \in Chats : Session(c) = s /\ Session(d) = s => c = d
    /\ \A c \in Chats : Session(c) = s => InRound(count[s], summary[s], chat[c])
    /\ (\A c \in Chats : Session(c) # s) => AtRest(count[s], summary[s])

Settled(s) == s \notin deleted /\ s \notin unsettled
RoundInv == \A s \in Sessions : Settled(s) => Round(s)

\* What another session's request does is nothing to a session.
LEMMA OtherRounds ==
  ASSUME RoundInv, NEW q \in Sessions, NEW c \in Chats, NEW x, Written(c, x), Session(c) # q, x.session # q,
         count'[q] = count[q], summary'[q] = summary[q], Settled(q)' => Settled(q)
  PROVE  (Settled(q) => Round(q))'
<1>1. \A d \in Chats : (Session(d)' = q) = (Session(d) = q)
  BY DEF Session, Written
<1>2. \A d \in Chats : Session(d) = q => chat'[d] = chat[d]
  BY DEF Session, Written
<1>3. SUFFICES ASSUME Round(q) PROVE Round(q)'
  BY DEF RoundInv
<1> QED
  BY <1>1, <1>2, <1>3 DEF Round

\* The request of a session moves on.
LEMMA RoundMoves ==
  ASSUME RoundInv, NEW s \in Sessions, NEW c \in Chats, NEW x,
         Written(c, x), Session(c) = s, x.session = s,
         \A q \in Sessions : q # s => count'[q] = count[q] /\ summary'[q] = summary[q],
         \A q \in Sessions : Settled(q)' => Settled(q),
         Settled(s)' => InRound(count'[s], summary'[s], x)
  PROVE  RoundInv'
<1>1. \A q \in Sessions : q # s => (Settled(q) => Round(q))'
  BY OtherRounds
<1>2. ASSUME Settled(s)' PROVE Round(s)'
  <2>1. Round(s)
    BY <1>2 DEF RoundInv
  <2>2. \A d \in Chats : Session(d)' = Session(d)
    BY DEF Session, Written
  <2>3. \A d \in Chats : Session(d) = s => d = c
    BY <2>1 DEF Round
  <2>4. chat'[c] = x
    BY DEF Written
  <2> QED
    BY <1>2, <2>2, <2>3, <2>4 DEF Round
<1> QED
  BY <1>1, <1>2 DEF RoundInv

\* The request of a session is over.
LEMMA RoundEnds ==
  ASSUME TypeInv, RoundInv, NEW s \in Sessions, NEW c \in Chats, Written(c, Idle), Session(c) = s,
         count' = count, summary' = summary,
         \A q \in Sessions : Settled(q)' => Settled(q),
         Settled(s)' => Lag(chat[c].pc) = 0
  PROVE  RoundInv'
<1>1. Idle.session \notin Sessions
  BY IdleTyped, MemoryAssumption
<1>2. \A q \in Sessions : q # s => (Settled(q) => Round(q))'
  BY <1>1, OtherRounds
<1>3. ASSUME Settled(s)' PROVE Round(s)'
  <2>1. Round(s)
    BY <1>3 DEF RoundInv
  <2>2. \A d \in Chats : Session(d)' # s
    BY <1>1, <2>1 DEF Session, Written, Round
  <2>3. InRound(count[s], summary[s], chat[c])
    BY <2>1 DEF Round
  <2>4. AtRest(count[s], summary[s])
    <3>1. summary[s] \in Nat /\ LastN \in Nat
      BY NumbersNatural DEF TypeInv, SessionsTyped
    <3> QED
      BY <1>3, <2>3, <3>1 DEF InRound, AtRest
  <2> QED
    BY <2>2, <2>4 DEF Round
<1> QED
  BY <1>2, <1>3 DEF RoundInv

\* The first request of a session at rest, or one that meets another.
LEMMA RoundBegins ==
  ASSUME TypeInv, RoundInv, NEW s \in Sessions, NEW c \in Chats, SaveUserMessage(c, s)
  PROVE  RoundInv'
<1> DEFINE x == Asking("read", s)
<1>1. Written(c, x) /\ x.pc = "read" /\ x.session = s
  BY SaveUserWrites
<1>2. Session(c) \notin Sessions
  BY MemoryAssumption DEF SaveUserMessage, At, TypeInv, ChatsTyped, Session
<1> HIDE DEF x
<1>3. /\ count' = [count EXCEPT ![s] = @ + 1] /\ summary' = summary
      /\ \A q \in Sessions : Settled(q)' => Settled(q)
      /\ Settled(s)' => ~Busy(s)
  BY DEF SaveUserMessage, Settled
<1>4. count \in [Sessions -> Numbers] /\ count[s] \in Nat /\ summary[s] \in Nat
  BY NumbersNatural DEF TypeInv, SessionsTyped
<1>5. \A q \in Sessions : q # s => (Settled(q) => Round(q))'
  BY <1>1, <1>2, <1>3, <1>4, OtherRounds
<1>6. ASSUME Settled(s)' PROVE Round(s)'
  <2>1. \A d \in Chats : Session(d) # s
    BY <1>3, <1>6 DEF Busy, Session
  <2>2. AtRest(count[s], summary[s])
    BY <1>3, <1>6, <2>1 DEF RoundInv, Round
  <2>3. InRound(count[s] + 1, summary[s], x)
    BY <1>1, <1>4, <2>2, NumbersNatural DEF InRound, AtRest, Lag
  <2>4. \A d \in Chats : Session(d)' = s => d = c
    BY <1>1, <2>1 DEF Session, Written
  <2>5. chat'[c] = x /\ Session(c)' = s /\ count'[s] = count[s] + 1
    BY <1>1, <1>3, <1>4 DEF Session, Written
  <2> QED
    BY <1>3, <2>3, <2>4, <2>5 DEF Round
<1> QED
  BY <1>5, <1>6 DEF RoundInv

\* A step of a session's request, seen from the numbers of the session
LEMMA RoundOfRequest ==
  ASSUME TypeInv, RoundInv, NEW c \in Chats,
         \/ ReadSession(c) \/ ReadMessages(c) \/ Streamed(c)
         \/ ReadCount(c) \/ ReadMiddle(c)
  PROVE  RoundInv'
<1> DEFINE s == Session(c)
<1>1. chat[c] \in ChatState /\ s \in Sessions /\ s = chat[c].session
  BY WorkingSession DEF TypeInv, ChatsTyped, ReadSession, ReadMessages, Streamed, ReadCount, ReadMiddle,
                        At, Session
<1>2. UNCHANGED <<count, summary, deleted, unsettled>>
  BY DEF ReadSession, ReadMessages, Streamed, ReadCount, ReadMiddle, StoresUnchanged, sessions
<1>3. count[s] \in Nat /\ summary[s] \in Nat /\ LastN \in Nat /\ Threshold \in Nat
  BY <1>1, NumbersNatural DEF TypeInv, SessionsTyped
<1>4. Settled(s) => InRound(count[s], summary[s], chat[c])
  BY <1>1 DEF RoundInv, Round
<1>5. Settled(s) => Live(s)
  BY DEF Settled, Live
<1>6. PICK t \in Sessions, k \in Nat, n \in Nat :
        /\ t = s /\ k = count[s] /\ n = summary[s]
        /\ count'[t] = k /\ summary'[t] = n
        /\ Settled(t)' = Settled(t)
  BY <1>1, <1>2, <1>3 DEF Settled
<1>7. ASSUME NEW x, Written(c, x), x.session = s, Settled(s) => InRound(k, n, x)
      PROVE  RoundInv'
  <2>1. Settled(t)' => InRound(count'[t], summary'[t], x)
    BY <1>6, <1>7
  <2>2. \A q \in Sessions : Settled(q)' => Settled(q)
    BY <1>2 DEF Settled
  <2> HIDE DEF s
  <2> QED
    BY <1>2, <1>6, <1>7, <2>1, <2>2, RoundMoves DEF s
<1>8. CASE ReadSession(c)
  <2>1. PICK j \in Numbers, m \in Numbers :
          /\ Written(c, [chat[c] EXCEPT !.pc = "messages", !.seen = j, !.sum = m])
          /\ m = IF Live(s) THEN summary[s] ELSE 0
    BY <1>8, ReadSessionWrites
  <2> DEFINE x == [chat[c] EXCEPT !.pc = "messages", !.seen = j, !.sum = m]
  <2>2. x.pc = "messages" /\ x.session = s /\ x.sum = m /\ chat[c].pc = "read"
    BY <1>1, <1>8 DEF ChatState, ReadSession, At
  <2> HIDE DEF x
  <2>3. Settled(s) => InRound(k, n, x)
    BY <1>4, <1>5, <1>6, <2>1, <2>2 DEF InRound, Lag
  <2>4. Written(c, x)
    BY <2>1 DEF x
  <2> QED
    BY <1>7, <2>2, <2>3, <2>4
<1>9. CASE ReadMessages(c)
  <2>1. PICK j \in Numbers, m \in Numbers :
          Written(c, [chat[c] EXCEPT !.pc = "stream", !.last = j, !.sum = m])
    BY <1>9, ReadMessagesWrites
  <2> DEFINE x == [chat[c] EXCEPT !.pc = "stream", !.last = j, !.sum = m]
  <2>2. x.pc = "stream" /\ x.session = s /\ chat[c].pc = "messages"
    BY <1>1, <1>9 DEF ChatState, ReadMessages, At
  <2> HIDE DEF x
  <2>3. Settled(s) => InRound(k, n, x)
    BY <1>4, <1>6, <2>2 DEF InRound, Lag
  <2>4. Written(c, x)
    BY <2>1 DEF x
  <2> QED
    BY <1>7, <2>2, <2>3, <2>4
<1>10. CASE Streamed(c)
  <2>1. PICK x : Written(c, x) /\ x.pc = "persist" /\ x.session = s
    BY <1>10, StreamedWrites
  <2>2. chat[c].pc = "stream"
    BY <1>10 DEF Streamed, At
  <2>3. Settled(s) => InRound(k, n, x)
    BY <1>4, <1>6, <2>1, <2>2 DEF InRound, Lag
  <2> QED
    BY <1>7, <2>1, <2>3
<1>11. CASE ReadCount(c)
  <2>1. chat[c].pc = "settle" /\ Goto(c, IF count[s] >= Threshold THEN "middle" ELSE "extract")
    BY <1>11 DEF ReadCount, At
  <2> DEFINE p == IF count[s] >= Threshold THEN "middle" ELSE "extract"
             x == [chat[c] EXCEPT !.pc = p]
  <2>2. Written(c, x)
    BY <2>1, GotoWrites DEF TypeInv, Pc, Compressing, Extracting
  <2>3. x.pc = p /\ x.session = s
    BY <1>1 DEF ChatState
  <2> HIDE DEF x
  <2>4. Settled(s) => InRound(k, n, x)
    BY <1>3, <1>4, <1>6, <2>1, <2>3 DEF InRound, Lag
  <2> QED
    BY <1>7, <2>2, <2>3, <2>4
<1>12. CASE ReadMiddle(c)
  <2>0. PICK j \in Nat :
          /\ j = IF Live(s) THEN count[s] ELSE 0
          /\ \/ j > LastN + 2 /\ Written(c, [chat[c] EXCEPT !.pc = "summarise", !.sum = j - LastN])
             \/ j <= LastN + 2 /\ Written(c, [chat[c] EXCEPT !.pc = "extract"])
    <3> DEFINE j == IF Live(s) THEN count[s] ELSE 0
    <3>1. j \in Nat
      BY <1>3
    <3>2. \/ j > LastN + 2 /\ Written(c, [chat[c] EXCEPT !.pc = "summarise", !.sum = j - LastN])
          \/ j <= LastN + 2 /\ Written(c, [chat[c] EXCEPT !.pc = "extract"])
      BY <1>12, ReadMiddleWrites
    <3> HIDE DEF j
    <3>3. j = IF Live(s) THEN count[s] ELSE 0
      BY DEF j
    <3> QED
      BY <3>1, <3>2, <3>3
  <2>1. PICK x, y :
          /\ x = [chat[c] EXCEPT !.pc = "summarise", !.sum = j - LastN]
          /\ y = [chat[c] EXCEPT !.pc = "extract"]
    OBVIOUS
  <2>2. x.pc = "summarise" /\ x.sum = j - LastN /\ x.session = s /\ y.pc = "extract" /\ y.session = s
    BY <1>1, <2>1 DEF ChatState
  <2>3. chat[c].pc = "middle"
    BY <1>12 DEF ReadMiddle, At
  <2>4. Settled(s) => j = k /\ k >= Threshold /\ k > LastN + 2
    BY <1>3, <1>4, <1>5, <1>6, <2>0, <2>3, MemoryAssumption DEF InRound
  <2>5. CASE j > LastN + 2 /\ Written(c, [chat[c] EXCEPT !.pc = "summarise", !.sum = j - LastN])
    <3>1. Settled(s) => InRound(k, n, x)
      BY <1>3, <1>4, <1>6, <2>2, <2>3, <2>4 DEF InRound, Lag
    <3> QED
      BY <1>7, <2>1, <2>2, <2>5, <3>1
  <2>6. CASE j <= LastN + 2 /\ Written(c, [chat[c] EXCEPT !.pc = "extract"])
    <3>1. ~Settled(s)
      BY <1>3, <2>4, <2>6
    <3> QED
      BY <1>7, <2>1, <2>2, <2>6, <3>1
  <2> QED
    BY <2>0, <2>5, <2>6
<1> QED
  BY <1>8, <1>9, <1>10, <1>11, <1>12


\* ... and the other steps of its request and of its task
LEMMA RoundOfTask ==
  ASSUME TypeInv, RoundInv, NEW c \in Chats, PersistAnswer(c) \/ WriteSummary(c)
  PROVE  RoundInv'
<1>1. PICK s \in Sessions : s = Session(c) /\ s = chat[c].session
  BY WorkingSession DEF TypeInv, PersistAnswer, WriteSummary, At, Session
<1>2. UNCHANGED <<deleted, unsettled>>
  BY DEF PersistAnswer, WriteSummary
<1>3. count \in [Sessions -> Nat] /\ summary \in [Sessions -> Nat] /\ LastN \in Nat
  BY NumbersNatural DEF TypeInv, SessionsTyped
<1>4. Settled(s) => InRound(count[s], summary[s], chat[c])
  BY <1>1 DEF RoundInv, Round
<1>5. chat[c] \in ChatState
  BY DEF TypeInv, ChatsTyped
<1>6. \A q \in Sessions : Settled(q)' => Settled(q)
  BY <1>2 DEF Settled
<1>7. CASE PersistAnswer(c)
  <2>1. PICK x : x = [chat[c] EXCEPT !.pc = "settle"]
    OBVIOUS
  <2>2. x.pc = "settle" /\ x.session = s /\ chat[c].pc = "persist"
    BY <1>1, <1>5, <1>7, <2>1 DEF ChatState, PersistAnswer, At
  <2>3. Written(c, x)
    BY <1>7, <2>1, GotoWrites DEF TypeInv, PersistAnswer, Pc, Compressing
  <2>4. count' = [count EXCEPT ![s] = @ + 1] /\ summary' = summary
    BY <1>1, <1>7 DEF PersistAnswer
  <2>5. Settled(s) => InRound(count[s] + 1, summary[s], x)
    BY <1>3, <1>4, <2>2, MemoryAssumption DEF InRound, Lag
  <2>6. Settled(s)' => InRound(count'[s], summary'[s], x)
    BY <1>3, <1>6, <2>4, <2>5
  <2>7. \A q \in Sessions : q # s => count'[q] = count[q] /\ summary'[q] = summary[q]
    BY <1>3, <2>4
  <2> QED
    BY <1>1, <1>6, <2>2, <2>3, <2>6, <2>7, RoundMoves
<1>8. CASE WriteSummary(c)
  <2>1. PICK x : x = [chat[c] EXCEPT !.pc = "extract", !.sum = 0]
    OBVIOUS
  <2>2. x.pc = "extract" /\ x.session = s /\ chat[c].pc = "summarise"
    BY <1>1, <1>5, <1>8, <2>1 DEF ChatState, WriteSummary, At
  <2>3. Written(c, x)
    BY <1>8, <2>1, WriteSummaryWrites
  <2>4. /\ count' = count
        /\ summary' = IF s \notin deleted THEN [summary EXCEPT ![s] = chat[c].sum] ELSE summary
    BY <1>1, <1>8 DEF WriteSummary, Live
  <2>5. Settled(s) => /\ count[s] >= Threshold
                      /\ count[s] = chat[c].sum + LastN
                      /\ summary'[s] = chat[c].sum
    BY <1>3, <1>4, <2>2, <2>4 DEF InRound, Settled
  <2>6. chat[c].sum \in Nat
    BY <1>5, NumbersNatural DEF ChatState
  <2>7. Settled(s) => InRound(count'[s], summary'[s], x)
    BY <1>3, <2>2, <2>4, <2>5, <2>6 DEF InRound, Lag
  <2>8. \A q \in Sessions : q # s => count'[q] = count[q] /\ summary'[q] = summary[q]
    BY <1>3, <2>4
  <2>9. Settled(s)' => InRound(count'[s], summary'[s], x)
    BY <1>6, <2>7
  <2> QED
    BY <1>1, <1>6, <2>2, <2>3, <2>8, <2>9, RoundMoves
<1> QED
  BY <1>7, <1>8

LEMMA RoundOfFacts ==
  ASSUME TypeInv, RoundInv, NEW c \in Chats,
         \/ StreamFails(c) \/ TaskFails(c) \/ Extract(c) \/ SearchMemory(c) \/ SaveMemory(c)
         \/ UpdateMemory(c) \/ UpsertVector(c)
  PROVE  RoundInv'
<1>1. PICK s \in Sessions : s = Session(c) /\ s = chat[c].session
  BY WorkingSession DEF TypeInv, StreamFails, TaskFails, Extract, SearchMemory, SaveMemory,
                        UpdateMemory, UpsertVector, At, Session, Answering, Compressing, Extracting
<1>2. count' = count /\ summary' = summary /\ deleted' = deleted /\ unsettled \subseteq unsettled'
  BY DEF StreamFails, TaskFails, Extract, SearchMemory, SaveMemory, UpdateMemory, UpsertVector,
         StoresUnchanged, sessions
<1>3. \A q \in Sessions : Settled(q)' => Settled(q)
  BY <1>2 DEF Settled
<1>4. Settled(s) => InRound(count[s], summary[s], chat[c])
  BY <1>1 DEF RoundInv, Round
<1>6. ASSUME NEW x, Written(c, x), x.pc \in Extracting, x.session = s, chat[c].pc \in Extracting
      PROVE  RoundInv'
  <2>1. Settled(s) => InRound(count[s], summary[s], x)
    BY <1>4, <1>6 DEF InRound, Lag, Extracting
  <2>2. Settled(s)' => InRound(count'[s], summary'[s], x)
    BY <1>2, <1>3, <2>1
  <2> QED
    BY <1>1, <1>2, <1>3, <1>6, <2>2, RoundMoves
<1>7. ASSUME Quit(c), Settled(s)' => chat[c].pc \in Extracting PROVE RoundInv'
  <2>1. Written(c, Idle)
    BY <1>7, QuitWrites DEF TypeInv
  <2>2. Settled(s)' => Lag(chat[c].pc) = 0
    BY <1>7 DEF Lag, Extracting
  <2> QED
    BY <1>1, <1>2, <1>3, <2>1, <2>2, RoundEnds
<1>8. CASE StreamFails(c)
  BY <1>1, <1>7, <1>8 DEF StreamFails, Settled
<1>9. CASE TaskFails(c)
  BY <1>1, <1>7, <1>9 DEF TaskFails, Settled
<1>10. CASE Extract(c) \/ SearchMemory(c) \/ SaveMemory(c) \/ UpdateMemory(c) \/ UpsertVector(c)
  <2>1. PICK x : Written(c, x) /\ (x = Idle \/ (x.pc \in Extracting /\ x.session = chat[c].session))
    BY <1>10, MemoryWrites
  <2>2. chat[c].pc \in Extracting
    BY <1>10, MemoryWrites
  <2>3. CASE x = Idle
    <3>1. Settled(s)' => Lag(chat[c].pc) = 0
      BY <2>2 DEF Lag, Extracting
    <3> QED
      BY <1>1, <1>2, <1>3, <2>1, <2>3, <3>1, RoundEnds
  <2>4. CASE x.pc \in Extracting /\ x.session = chat[c].session
    BY <1>1, <1>6, <2>1, <2>2, <2>4
  <2> QED
    BY <2>1, <2>3, <2>4
<1> QED
  BY <1>8, <1>9, <1>10

LEMMA RoundOfDeletion ==
  ASSUME TypeInv, RoundInv, NEW s \in Sessions, DeleteSession(s) \/ ClearMemories(s)
  PROVE  RoundInv'
<1>1. chat' = chat /\ unsettled' = unsettled /\ deleted \subseteq deleted'
  BY DEF DeleteSession, ClearMemories
<1>2. ASSUME NEW q \in Sessions, Settled(q)' PROVE Round(q)'
  <2>1. Settled(q) /\ Round(q)
    BY <1>1, <1>2 DEF Settled, RoundInv
  <2>2. count'[q] = count[q] /\ summary'[q] = summary[q]
    BY <1>2 DEF DeleteSession, ClearMemories, Settled, TypeInv, SessionsTyped
  <2> QED
    BY <1>1, <2>1, <2>2 DEF Round, Session
<1> QED
  BY <1>2 DEF RoundInv

LEMMA RoundStart == Init => RoundInv
<1> SUFFICES ASSUME Init PROVE RoundInv
  OBVIOUS
<1>1. \A c \in Chats : Session(c) \notin Sessions
  BY MemoryAssumption, IdleTyped DEF Init, Session
<1>2. \A s \in Sessions : summary[s] = 0
  BY DEF Init
<1> QED
  BY <1>1, <1>2 DEF RoundInv, Round, AtRest

LEMMA RoundNext == TypeInv /\ RoundInv /\ [Next]_vars => RoundInv'
<1> SUFFICES ASSUME TypeInv, RoundInv, [Next]_vars PROVE RoundInv'
  OBVIOUS
<1>1. CASE Next
  BY <1>1, RoundBegins, RoundOfRequest, RoundOfTask, RoundOfFacts, RoundOfDeletion DEF Next, ChatStep
<1>2. CASE UNCHANGED vars
  BY <1>2 DEF vars, sessions, RoundInv, Settled, Round, Session
<1> QED
  BY <1>1, <1>2

\* What a prompt is made from, in a session used one request at a time
PromptInv ==
    \A c \in Chats :
        At(c, "stream") /\ chat[c].last > 0 /\ chat[c].sum > 0 /\ Session(c) \notin unsettled =>
            chat[c].last = chat[c].sum + LastN + 1

LEMMA PromptStart == Init => PromptInv
  BY IdleTyped DEF Init, PromptInv, At

\* A record that is not put to streaming keeps PromptInv.
LEMMA PromptKept ==
  ASSUME PromptInv, NEW c \in Chats, NEW x, Written(c, x), unsettled \subseteq unsettled',
         x.pc = "stream" /\ x.last > 0 /\ x.sum > 0 /\ x.session \notin unsettled' =>
             x.last = x.sum + LastN + 1
  PROVE  PromptInv'
<1> SUFFICES ASSUME NEW d \in Chats, chat'[d].pc = "stream", chat'[d].last > 0, chat'[d].sum > 0,
                    chat'[d].session \notin unsettled'
             PROVE  chat'[d].last = chat'[d].sum + LastN + 1
  BY DEF PromptInv, At, Session
<1>1. CASE d = c
  BY <1>1 DEF Written
<1>2. CASE d # c
  <2>1. chat'[d] = chat[d]
    BY <1>2 DEF Written
  <2> QED
    BY <2>1 DEF PromptInv, At, Session
<1> QED
  BY <1>1, <1>2

LEMMA PromptOfOthers ==
  ASSUME TypeInv, PromptInv, NEW c \in Chats,
         \/ ReadSession(c) \/ StreamFails(c) \/ Streamed(c) \/ PersistAnswer(c) \/ ReadCount(c)
         \/ ReadMiddle(c) \/ WriteSummary(c) \/ TaskFails(c) \/ Extract(c) \/ SearchMemory(c)
         \/ SaveMemory(c) \/ UpdateMemory(c) \/ UpsertVector(c)
  PROVE  PromptInv'
<1>1. unsettled \subseteq unsettled'
  BY DEF ReadSession, StreamFails, Streamed, PersistAnswer, ReadCount, ReadMiddle, WriteSummary, TaskFails,
         Extract, SearchMemory, SaveMemory, UpdateMemory, UpsertVector
<1>2. chat[c] \in ChatState
  BY DEF TypeInv, ChatsTyped
<1>3. ASSUME NEW x, Written(c, x), x.pc # "stream" PROVE PromptInv'
  BY <1>1, <1>3, PromptKept
<1>4. CASE StreamFails(c) \/ TaskFails(c)
  BY <1>3, <1>4, QuitWrites, IdleTyped DEF TypeInv, StreamFails, TaskFails
<1>5. CASE Streamed(c)
  BY <1>3, <1>5, StreamedWrites
<1>6. ASSUME NEW p \in Pc \ {"stream"}, Goto(c, p) PROVE PromptInv'
  <2>1. PICK x : x = [chat[c] EXCEPT !.pc = p]
    OBVIOUS
  <2>2. x.pc = p
    BY <1>2, <2>1 DEF ChatState
  <2> QED
    BY <1>3, <1>6, <2>1, <2>2, GotoWrites DEF TypeInv
<1>7. CASE PersistAnswer(c) \/ ReadCount(c)
  BY <1>6, <1>7 DEF PersistAnswer, ReadCount, Pc, Compressing, Extracting
<1>8. CASE ReadSession(c)
  <2>1. PICK n, m, x : x = [chat[c] EXCEPT !.pc = "messages", !.seen = n, !.sum = m] /\ Written(c, x)
    BY <1>8, ReadSessionWrites
  <2>2. x.pc = "messages"
    BY <1>2, <2>1 DEF ChatState
  <2> QED
    BY <1>3, <2>1, <2>2
<1>9. CASE ReadMiddle(c)
  <2>1. PICK x : Written(c, x) /\ \/ \E n : x = [chat[c] EXCEPT !.pc = "summarise", !.sum = n]
                                  \/ x = [chat[c] EXCEPT !.pc = "extract"]
    BY <1>9, ReadMiddleWrites
  <2>2. x.pc # "stream"
    BY <1>2, <2>1 DEF ChatState
  <2> QED
    BY <1>3, <2>1, <2>2
<1>10. CASE WriteSummary(c)
  <2>1. PICK x : x = [chat[c] EXCEPT !.pc = "extract", !.sum = 0] /\ Written(c, x)
    BY <1>10, WriteSummaryWrites
  <2>2. x.pc = "extract"
    BY <1>2, <2>1 DEF ChatState
  <2> QED
    BY <1>3, <2>1, <2>2
<1>11. CASE Extract(c) \/ SearchMemory(c) \/ SaveMemory(c) \/ UpdateMemory(c) \/ UpsertVector(c)
  <2>1. PICK x : Written(c, x) /\ (x = Idle \/ x.pc \in Extracting)
    BY <1>11, MemoryWrites
  <2>2. x.pc # "stream"
    BY <2>1, IdleTyped DEF Extracting
  <2> QED
    BY <1>3, <2>1, <2>2
<1> QED
  BY <1>4, <1>5, <1>7, <1>8, <1>9, <1>10, <1>11

\* The messages are read in the round that the session was read in.
LEMMA PromptOfReading ==
  ASSUME TypeInv, RoundInv, PromptInv, NEW c \in Chats, ReadMessages(c)
  PROVE  PromptInv'
<1>1. PICK s \in Sessions : s = Session(c) /\ s = chat[c].session
  BY WorkingSession DEF TypeInv, ReadMessages, At, Session
<1>2. PICK n, m, x :
        /\ n \in Numbers /\ m \in Numbers
        /\ x = [chat[c] EXCEPT !.pc = "stream", !.last = n, !.sum = m]
        /\ Written(c, x)
        /\ n = IF s \notin deleted THEN count[s] ELSE 0
        /\ m = 0 \/ m = chat[c].sum
  BY <1>1, ReadMessagesWrites DEF Live
<1>3. x.last = n /\ x.sum = m /\ x.session = s /\ chat[c].pc = "messages"
  BY <1>1, <1>2 DEF TypeInv, ChatsTyped, ChatState, ReadMessages, At
<1>4. count[s] \in Nat /\ summary[s] \in Nat /\ n \in Nat /\ m \in Nat /\ LastN \in Nat /\ unsettled' = unsettled
  BY <1>2, NumbersNatural DEF TypeInv, SessionsTyped, ReadMessages
<1>5. Settled(s) => InRound(count[s], summary[s], chat[c])
  BY <1>1 DEF RoundInv, Round
<1>6. n > 0 /\ m > 0 /\ s \notin unsettled => n = m + LastN + 1
  BY <1>2, <1>3, <1>4, <1>5 DEF Settled, InRound, Lag
<1>7. x.last > 0 /\ x.sum > 0 /\ x.session \notin unsettled' => x.last = x.sum + LastN + 1
  BY <1>3, <1>4, <1>6
<1>8. Written(c, x) /\ unsettled \subseteq unsettled'
  BY <1>2, <1>4
<1> QED
  BY <1>7, <1>8, PromptKept

LEMMA PromptNext == TypeInv /\ RoundInv /\ PromptInv /\ [Next]_vars => PromptInv'
<1> SUFFICES ASSUME TypeInv, RoundInv, PromptInv, [Next]_vars PROVE PromptInv'
  OBVIOUS
<1>1. ASSUME NEW c \in Chats, NEW s \in Sessions, SaveUserMessage(c, s) PROVE PromptInv'
  <2>1. PICK x : Written(c, x) /\ x.pc = "read"
    BY <1>1, SaveUserWrites
  <2>2. unsettled \subseteq unsettled'
    BY <1>1 DEF SaveUserMessage
  <2> QED
    BY <2>1, <2>2, PromptKept
<1>2. ASSUME NEW s \in Sessions, DeleteSession(s) \/ ClearMemories(s) PROVE PromptInv'
  BY <1>2 DEF DeleteSession, ClearMemories, PromptInv, At, Session
<1>3. CASE Next
  BY <1>1, <1>2, <1>3, PromptOfOthers, PromptOfReading DEF Next, ChatStep
<1>4. CASE UNCHANGED vars
  BY <1>4 DEF vars, PromptInv, At, Session
<1> QED
  BY <1>3, <1>4

\* One message at most is missing between the summary of a prompt and its recent
\* messages, if the session was used one request at a time and nothing went
\* wrong in it: for any window and threshold, and whatever other sessions do.
THEOREM SummaryFollowed == Spec => []SummaryMeetsRecent
<1>1. TypeInv /\ PromptInv => SummaryMeetsRecent
  <2> SUFFICES ASSUME TypeInv, PromptInv, NEW c \in Chats, Prompting(c), chat[c].sum > 0,
                      Session(c) \notin unsettled
               PROVE  Recent(chat[c].last) <= chat[c].sum + 2
    BY DEF SummaryMeetsRecent
  <2>1. chat[c].last = chat[c].sum + LastN + 1
    BY DEF PromptInv, Prompting
  <2>2. chat[c].sum \in Nat /\ LastN \in Nat
    BY NumbersNatural DEF TypeInv, ChatsTyped, ChatState
  <2> QED
    BY <2>1, <2>2 DEF Recent
<1>2. Spec => []RoundInv
  BY RoundStart, RoundNext, TypeAlways, PTL DEF Spec
<1>3. Spec => []PromptInv
  BY <1>2, PromptStart, PromptNext, TypeAlways, PTL DEF Spec
<1> QED
  BY <1>1, <1>3, TypeAlways, PTL
=============================================================================
