------------------------ MODULE SemanticCacheProofs ------------------------
(***************************************************************************)
(* Theorems about SemanticCache, for any documents, spaces, questions and  *)
(* requests.  What a request may cite is fixed when it retrieves, and both *)
(* layers only ever keep what a request without a scope has retrieved; what*)
(* is written after a sweep is noted in the history variable raced.        *)
(***************************************************************************)
EXTENDS SemanticCache, FiniteSetTheorems, TLAPS

ReqState == [pc : RequestPc, space : Spaces, question : Questions,
             scope : SUBSET Documents, cites : SUBSET Documents]
Entry == [space : Spaces, cites : SUBSET Documents, ttl : BOOLEAN]

DeleteTyped == delete \in [Documents -> DeletePc]
ExactTyped == exact \in [Spaces -> [Questions -> SUBSET SUBSET Documents]]
\* A key holds one value.
OneValue == \A s \in Spaces, q \in Questions :
                exact[s][q] = {} \/ \E cites \in SUBSET Documents : exact[s][q] = {cites}
VecTyped == vec \subseteq Entry
ReqTyped == req \in [Requests -> ReqState]
TypeInv == DeleteTyped /\ ExactTyped /\ OneValue /\ VecTyped /\ ReqTyped /\ raced \subseteq Documents

\* Everything that is cited is of the space.
Own(cites, s) == \A d \in cites : SpaceOf[d] = s

Answered == {"generate", "done"} \cup Storing
ReqOwn(r) ==
    /\ req[r].pc \in Answered =>
          Own(req[r].cites, req[r].space) /\ (req[r].scope # {} => req[r].cites \subseteq req[r].scope)
    \* Who reads the cache or writes to it has no scope.
    /\ req[r].pc \in {"exact", "semantic"} \cup Storing => req[r].scope = {}

ReqsOwn == \A r \in Requests : ReqOwn(r)
ExactOwn == \A s \in Spaces, q \in Questions : \A cites \in exact[s][q] : Own(cites, s)
VecOwn == \A e \in vec : Own(e.cites, e.space)
OwnInv == ReqsOwn /\ ExactOwn /\ VecOwn

InExact(d) == \E s \in Spaces, q \in Questions : \E cites \in exact[s][q] : d \in cites
InVec(d) == \E e \in vec : d \in e.cites

\* A layer that has been swept of a document has got it back from a late writer.
LateExact == \A d \in Documents : delete[d] \in {"vectors", "done"} /\ InExact(d) => d \in raced
LateVec == \A d \in Documents : delete[d] = "done" /\ InVec(d) => d \in raced
LateInv == LateExact /\ LateVec

CacheInv == TypeInv /\ OwnInv /\ LateInv

------------------------------------------------------------------------------
(* What the three ways of moving a request do *)

LEMMA IdleTyped == Idle \in ReqState /\ Idle.pc = "idle"
  BY CacheAssumption DEF Idle, ReqState, RequestPc

\* The request goes to another place; what it asked for stays.
Moves(r, p, c) ==
    /\ ReqTyped'
    /\ \A q \in Requests \ {r} : req'[q] = req[q]
    /\ req'[r].pc = p /\ req'[r].cites = c
    /\ req'[r].space = req[r].space /\ req'[r].question = req[r].question /\ req'[r].scope = req[r].scope

Quits(r) ==
    /\ ReqTyped'
    /\ \A q \in Requests \ {r} : req'[q] = req[q]
    /\ req'[r].pc = "idle"

LEMMA GotoMoves ==
  ASSUME ReqTyped, NEW r \in Requests, NEW p \in RequestPc, Goto(r, p)
  PROVE  Moves(r, p, req[r].cites)
  BY DEF ReqTyped, ReqState, Goto, Moves

LEMMA AnswerMoves ==
  ASSUME ReqTyped, NEW r \in Requests, NEW p \in RequestPc, NEW c \in SUBSET Documents, Answer(r, p, c)
  PROVE  Moves(r, p, c)
  BY DEF ReqTyped, ReqState, Answer, Moves

LEMMA QuitQuits ==
  ASSUME ReqTyped, NEW r \in Requests, Quit(r)
  PROVE  Quits(r)
  BY IdleTyped DEF ReqTyped, Quit, Quits

LEMMA PlacesTyped ==
  /\ Answered \subseteq RequestPc /\ Storing \subseteq RequestPc /\ Asking \subseteq RequestPc
  /\ AfterHit = "done" /\ AfterHit \in RequestPc
  BY DEF Answered, Storing, Asking, RequestPc, AfterHit

\* Where a request gets that reads: nowhere, or to an answer of its own.
ReadsOwn(r) ==
    \/ Quits(r)
    \/ Moves(r, "semantic", req[r].cites) /\ req[r].pc = "exact"
    \/ Moves(r, "retrieve", req[r].cites)
    \/ \E c \in SUBSET Documents :
          /\ Own(c, req[r].space)
          /\ \/ Moves(r, "done", c) /\ req[r].scope = {}
             \/ Moves(r, "generate", c) /\ (req[r].scope # {} => c \subseteq req[r].scope)
                                        /\ \A d \in c : delete[d] = "live"

LEMMA LookupsRead ==
  ASSUME TypeInv, OwnInv, NEW r \in Requests, LookupExact(r) \/ LookupSemantic(r)
  PROVE  ReadsOwn(r) /\ UNCHANGED <<delete, exact, vec, raced>>
<1>1. req[r] \in ReqState
  BY DEF TypeInv, ReqTyped
<1>2. CASE LookupExact(r)
  <2>1. UNCHANGED <<delete, exact, vec, raced>> /\ req[r].pc = "exact" /\ req[r].scope = {}
    BY <1>2 DEF LookupExact, OwnInv, ReqsOwn, ReqOwn
  <2>2. ASSUME NEW c \in exact[req[r].space][req[r].question], Answer(r, AfterHit, c)
        PROVE  ReadsOwn(r)
    <3>1. c \in SUBSET Documents /\ Own(c, req[r].space)
      BY <1>1, <2>2 DEF TypeInv, ExactTyped, OwnInv, ExactOwn, ReqState
    <3>2. Moves(r, "done", c)
      BY <2>2, <3>1, AnswerMoves, PlacesTyped DEF TypeInv
    <3> QED
      BY <2>1, <3>1, <3>2 DEF ReadsOwn
  <2>3. CASE Goto(r, "semantic")
    BY <2>1, <2>3, GotoMoves, PlacesTyped DEF TypeInv, Asking, ReadsOwn
  <2>4. CASE Quit(r)
    BY <2>1, <2>4, QuitQuits DEF TypeInv, ReadsOwn
  <2> QED
    BY <1>2, <2>1, <2>2, <2>3, <2>4 DEF LookupExact
<1>3. CASE LookupSemantic(r)
  <2>1. UNCHANGED <<delete, exact, vec, raced>> /\ req[r].pc = "semantic" /\ req[r].scope = {}
    BY <1>3 DEF LookupSemantic, OwnInv, ReqsOwn, ReqOwn
  <2>2. ASSUME NEW e \in vec, e.space = req[r].space, Answer(r, AfterHit, e.cites)
        PROVE  ReadsOwn(r)
    <3>1. e.cites \in SUBSET Documents /\ Own(e.cites, req[r].space)
      BY <2>2 DEF TypeInv, VecTyped, Entry, OwnInv, VecOwn
    <3>2. Moves(r, "done", e.cites)
      BY <2>2, <3>1, AnswerMoves, PlacesTyped DEF TypeInv
    <3> QED
      BY <2>1, <3>1, <3>2 DEF ReadsOwn
  <2>3. CASE Goto(r, "retrieve")
    BY <2>1, <2>3, GotoMoves, PlacesTyped DEF TypeInv, Asking, ReadsOwn
  <2> QED
    BY <1>3, <2>1, <2>2, <2>3 DEF LookupSemantic
<1> QED
  BY <1>2, <1>3

LEMMA RetrieveReads ==
  ASSUME TypeInv, NEW r \in Requests, Retrieve(r)
  PROVE  ReadsOwn(r) /\ UNCHANGED <<delete, exact, vec, raced>>
<1>1. CASE Quit(r)
  BY <1>1, QuitQuits DEF TypeInv, ReadsOwn, Retrieve
<1>2. ASSUME NEW c \in SUBSET {d \in Documents : SpaceOf[d] = req[r].space /\ Citable(d)},
             req[r].scope # {} => c \subseteq req[r].scope, Answer(r, "generate", c)
      PROVE  ReadsOwn(r)
  <2>1. c \in SUBSET Documents /\ Own(c, req[r].space) /\ \A d \in c : delete[d] = "live"
    BY <1>2 DEF Own, Citable
  <2>2. Moves(r, "generate", c)
    BY <1>2, <2>1, AnswerMoves, PlacesTyped DEF TypeInv, Asking
  <2> QED
    BY <1>2, <2>1, <2>2 DEF ReadsOwn
<1> QED
  BY <1>1, <1>2 DEF Retrieve

\* From the answer on a request takes its citations along.
Carries(r) ==
    /\ req[r].pc \in {"generate"} \cup Storing
    /\ \/ Quits(r)
       \/ \E p \in {"done"} \cup Storing :
            /\ Moves(r, p, req[r].cites)
            /\ p \in Storing => req[r].pc \in Storing \/ req[r].scope = {}

LEMMA GenerateCarries ==
  ASSUME TypeInv, NEW r \in Requests, Generate(r)
  PROVE  Carries(r) /\ UNCHANGED <<delete, exact, vec, raced>>
<1>1. CASE Quit(r)
  BY <1>1, QuitQuits DEF TypeInv, Carries, Generate
<1>2. CASE Goto(r, IF UseCache(req[r].scope) THEN "store_exact" ELSE "done")
  BY <1>2, GotoMoves, PlacesTyped DEF TypeInv, Carries, Generate, UseCache, Storing, Answered
<1> QED
  BY <1>1, <1>2 DEF Generate

LEMMA WritersCarry ==
  ASSUME TypeInv, NEW r \in Requests,
         StoreExact(r) \/ StoreVector(r) \/ ExpireAfter(r) \/ ExpireRaises(r)
  PROVE  Carries(r) /\ UNCHANGED delete
<1>1. req[r].pc \in Storing /\ UNCHANGED delete
  BY DEF StoreExact, StoreVector, ExpireAfter, ExpireRaises, Storing
<1>2. Goto(r, "store_vector") \/ Goto(r, "expire") \/ Goto(r, "done")
  BY DEF StoreExact, StoreVector, ExpireAfter, ExpireRaises
<1>3. \E p \in {"done"} \cup Storing : Moves(r, p, req[r].cites)
  BY <1>2, GotoMoves, PlacesTyped DEF TypeInv, Storing, Answered
<1> QED
  BY <1>1, <1>3 DEF Carries

------------------------------------------------------------------------------
(* Requests keep to their space *)

LEMMA ReadKeepsOwn ==
  ASSUME ReqsOwn, NEW r \in Requests, ReadsOwn(r)
  PROVE  ReqsOwn'
<1>1. ReqOwn(r)'
  BY DEF ReadsOwn, Quits, Moves, ReqsOwn, ReqOwn, Answered, Storing
<1>2. \A q \in Requests \ {r} : req'[q] = req[q]
  BY DEF ReadsOwn, Quits, Moves
<1> QED
  BY <1>1, <1>2 DEF ReqsOwn, ReqOwn

LEMMA CarryKeepsOwn ==
  ASSUME ReqsOwn, NEW r \in Requests, Carries(r)
  PROVE  ReqsOwn'
<1>1. ReqOwn(r)'
  BY DEF Carries, Quits, Moves, ReqsOwn, ReqOwn, Answered, Storing
<1>2. \A q \in Requests \ {r} : req'[q] = req[q]
  BY DEF Carries, Quits, Moves
<1> QED
  BY <1>1, <1>2 DEF ReqsOwn, ReqOwn

LEMMA AskKeepsOwn ==
  ASSUME TypeInv, ReqsOwn, NEW r \in Requests, Ask(r)
  PROVE  ReqTyped' /\ ReqsOwn' /\ UNCHANGED <<delete, exact, vec, raced>>
<1>1. PICK s \in Spaces, q \in Questions, scope \in Scopes :
        req' = [req EXCEPT ![r] = [pc |-> IF UseCache(scope) THEN "exact" ELSE "retrieve",
                                   space |-> s, question |-> q, scope |-> scope, cites |-> {}]]
  BY DEF Ask
<1> DEFINE w == [pc |-> IF UseCache(scope) THEN "exact" ELSE "retrieve",
                 space |-> s, question |-> q, scope |-> scope, cites |-> {}]
<1>2. w \in ReqState /\ w.pc \notin Answered /\ (w.pc \in {"exact", "semantic"} \cup Storing => w.scope = {})
  BY CacheAssumption DEF ReqState, RequestPc, Asking, Storing, Answered, UseCache
<1>3. req' = [req EXCEPT ![r] = w] /\ UNCHANGED <<delete, exact, vec, raced>>
  BY <1>1 DEF Ask
<1> HIDE DEF w
<1> QED
  BY <1>2, <1>3 DEF TypeInv, ReqTyped, ReqsOwn, ReqOwn

------------------------------------------------------------------------------
(* What each write does to the two layers *)

LEMMA StoreExactInv ==
  ASSUME CacheInv, NEW r \in Requests, StoreExact(r)
  PROVE  CacheInv'
<1>1. ReqTyped' /\ ReqsOwn' /\ UNCHANGED <<delete, vec>>
  BY WritersCarry, CarryKeepsOwn DEF CacheInv, OwnInv, Carries, Moves, Quits, StoreExact
<1>2. CASE UNCHANGED <<exact, raced>>
  BY <1>1, <1>2 DEF CacheInv, TypeInv, DeleteTyped, ExactTyped, OneValue, VecTyped, OwnInv, ExactOwn, VecOwn,
                    LateInv, LateExact, LateVec, InExact, InVec
<1>3. CASE exact' # exact \/ raced' # raced
  <2> DEFINE s == req[r].space
             q == req[r].question
             c == req[r].cites
  <2>1. s \in Spaces /\ q \in Questions /\ c \in SUBSET Documents /\ Own(c, s)
    BY DEF CacheInv, TypeInv, ReqTyped, ReqState, OwnInv, ReqsOwn, ReqOwn, Answered, Storing, StoreExact
  <2>2. /\ exact' = [exact EXCEPT ![s][q] = {c}]
        /\ raced' = raced \cup (c \cap Swept({"vectors", "done", "raised"}))
    BY <1>3 DEF StoreExact, Stored
  <2> HIDE DEF s, q, c
  <2>3. \A u \in Spaces, v \in Questions : exact'[u][v] = IF u = s /\ v = q THEN {c} ELSE exact[u][v]
    BY <2>1, <2>2 DEF CacheInv, TypeInv, ExactTyped
  <2>4. ExactTyped'
    BY <2>1, <2>2 DEF CacheInv, TypeInv, ExactTyped
  <2>5. OneValue' /\ ExactOwn'
    BY <2>1, <2>3, SMTT(30) DEF CacheInv, TypeInv, OneValue, OwnInv, ExactOwn
  <2>6. raced' \subseteq Documents
    BY <2>1, <2>2 DEF CacheInv, TypeInv
  <2>7. LateInv'
    BY <1>1, <2>2, <2>3 DEF CacheInv, LateInv, LateExact, LateVec, InExact, InVec, Swept
  <2> QED
    BY <1>1, <2>4, <2>5, <2>6, <2>7 DEF CacheInv, TypeInv, DeleteTyped, VecTyped, OwnInv, VecOwn
<1> QED
  BY <1>2, <1>3

\* What may be added to the vectors without more ado: an entry that cites what
\* the space owns and that is noted where it comes late.
LEMMA VectorsInv ==
  ASSUME CacheInv, ReqTyped', ReqsOwn', UNCHANGED <<delete, exact>>,
         raced \subseteq raced', raced' \subseteq Documents, vec' \subseteq Entry,
         \A e \in vec' : \/ \E f \in vec : f.space = e.space /\ f.cites = e.cites
                         \/ Own(e.cites, e.space) /\ \A d \in e.cites : delete[d] = "done" => d \in raced'
  PROVE  CacheInv'
<1>1. TypeInv'
  BY DEF CacheInv, TypeInv, DeleteTyped, ExactTyped, OneValue, VecTyped
<1>2. VecOwn'
  BY DEF CacheInv, OwnInv, VecOwn
<1>3. LateExact' /\ LateVec'
  BY DEF CacheInv, LateInv, LateExact, LateVec, InExact, InVec, TypeInv, VecTyped, Entry
<1> QED
  BY <1>1, <1>2, <1>3 DEF CacheInv, OwnInv, ExactOwn, LateInv

LEMMA StoreVectorInv ==
  ASSUME CacheInv, NEW r \in Requests, StoreVector(r)
  PROVE  CacheInv'
<1>1. ReqTyped' /\ ReqsOwn' /\ UNCHANGED <<delete, exact>>
  BY WritersCarry, CarryKeepsOwn DEF CacheInv, OwnInv, Carries, Moves, Quits, StoreVector
<1> DEFINE e == [space |-> req[r].space, cites |-> req[r].cites, ttl |-> FALSE]
<1>2. e \in Entry /\ e.cites = req[r].cites /\ req[r].cites \subseteq Documents
  BY DEF CacheInv, TypeInv, ReqTyped, ReqState, Entry
<1>3. Own(e.cites, e.space)
  BY DEF CacheInv, OwnInv, ReqsOwn, ReqOwn, Answered, Storing, StoreVector
<1>4. \/ UNCHANGED <<vec, raced>>
      \/ vec' = vec \cup {e} /\ raced' = raced \cup (req[r].cites \cap Swept({"done", "raised"}))
  BY DEF StoreVector
<1> HIDE DEF e
<1>5. raced \subseteq raced' /\ raced' \subseteq Documents /\ vec' \subseteq Entry
  BY <1>2, <1>4 DEF CacheInv, TypeInv, VecTyped
<1>6. \A f \in vec' : \/ f \in vec
                      \/ Own(f.cites, f.space) /\ \A d \in f.cites : delete[d] = "done" => d \in raced'
  BY <1>2, <1>3, <1>4 DEF Swept
<1> QED
  BY <1>1, <1>5, <1>6, VectorsInv

LEMMA ExpireInv ==
  ASSUME CacheInv, NEW r \in Requests, ExpireAfter(r) \/ ExpireRaises(r)
  PROVE  CacheInv'
<1>1. ReqTyped' /\ ReqsOwn' /\ UNCHANGED <<delete, exact, raced>>
  BY WritersCarry, CarryKeepsOwn DEF CacheInv, OwnInv, Carries, Moves, Quits, ExpireAfter, ExpireRaises
<1> DEFINE e == [space |-> req[r].space, cites |-> req[r].cites, ttl |-> FALSE]
           f == [e EXCEPT !.ttl = TRUE]
<1>2. f \in Entry /\ f.space = e.space /\ f.cites = e.cites
  BY DEF CacheInv, TypeInv, ReqTyped, ReqState, Entry
<1>3. (UNCHANGED vec) \/ (e \in vec /\ vec' = (vec \ {e}) \cup {f})
  <2>1. CASE ExpireRaises(r)
    BY <2>1 DEF ExpireRaises
  <2>2. CASE ExpireAfter(r)
    BY <2>2, Zenon DEF ExpireAfter
  <2> QED
    BY <2>1, <2>2
<1> HIDE DEF e, f
<1>4. vec' \subseteq Entry /\ raced' \subseteq Documents
  BY <1>1, <1>2, <1>3 DEF CacheInv, TypeInv, VecTyped
<1>5. \A g \in vec' : \E h \in vec : h.space = g.space /\ h.cites = g.cites
  BY <1>2, <1>3
<1> QED
  BY <1>1, <1>4, <1>5, VectorsInv

\* Entries go: a key expires, a space is swept.
LEMMA ShrinkInv ==
  ASSUME TypeInv, OwnInv, UNCHANGED <<req, raced>>, ExactTyped', DeleteTyped', vec' \subseteq vec,
         \A s \in Spaces, q \in Questions : exact'[s][q] \in {exact[s][q], {}}
  PROVE  TypeInv' /\ OwnInv'
<1>1. OneValue'
  BY DEF TypeInv, OneValue
<1>2. ExactOwn' /\ VecOwn'
  BY DEF OwnInv, ExactOwn, VecOwn
<1> QED
  BY <1>1, <1>2 DEF TypeInv, VecTyped, ReqTyped, OwnInv, ReqsOwn, ReqOwn

LEMMA RedisInv ==
  ASSUME CacheInv,
         \/ \E s \in Spaces, q \in Questions : DropExact(s, q)
         \/ \E e \in Expiring : DropVector(e)
  PROVE  CacheInv'
<1>1. UNCHANGED <<req, raced, delete>> /\ ExactTyped' /\ vec' \subseteq vec
  BY DEF DropExact, DropVector, CacheInv, TypeInv, ExactTyped
<1>2. \A s \in Spaces, q \in Questions : exact'[s][q] \in {exact[s][q], {}}
  BY DEF DropExact, DropVector, CacheInv, TypeInv, ExactTyped
<1>3. TypeInv' /\ OwnInv'
  BY <1>1, <1>2, ShrinkInv DEF CacheInv, TypeInv, DeleteTyped
<1>4. LateInv'
  BY <1>1, <1>2 DEF CacheInv, LateInv, LateExact, LateVec, InExact, InVec
<1> QED
  BY <1>3, <1>4 DEF CacheInv

LEMMA DeleteInv ==
  ASSUME CacheInv, NEW d \in Documents, DeleteStep(d)
  PROVE  CacheInv'
<1>1. UNCHANGED <<req, raced>> /\ SpaceOf[d] \in Spaces
  BY CacheAssumption DEF DeleteStep, MarkDeleted, SweepExact, SweepVectors, SweepRaises
<1>2. \E p \in DeletePc : DeleteAt(d, p)
  BY DEF DeleteStep, MarkDeleted, SweepExact, SweepVectors, SweepRaises, DeletePc
<1>3. DeleteTyped' /\ \A c \in Documents \ {d} : delete'[c] = delete[c]
  BY <1>2 DEF DeleteAt, CacheInv, TypeInv, DeleteTyped
<1>4. CASE SweepExact(d)
  <2>1. exact' = [exact EXCEPT ![SpaceOf[d]] = [q \in Questions |-> {}]] /\ UNCHANGED vec
    BY <1>4 DEF SweepExact
  <2>2. ExactTyped'
    BY <1>1, <2>1 DEF CacheInv, TypeInv, ExactTyped
  <2>3. \A s \in Spaces, q \in Questions : exact'[s][q] = IF s = SpaceOf[d] THEN {} ELSE exact[s][q]
    BY <1>1, <2>1 DEF CacheInv, TypeInv, ExactTyped
  <2>4. ~InExact(d)'
    BY <2>3 DEF InExact, CacheInv, OwnInv, ExactOwn, Own
  <2>5. delete'[d] = "vectors"
    BY <1>4 DEF SweepExact, DeleteAt, CacheInv, TypeInv, DeleteTyped
  <2>6. LateInv'
    BY <1>1, <1>3, <2>1, <2>3, <2>4, <2>5 DEF CacheInv, LateInv, LateExact, LateVec, InExact, InVec
  <2> QED
    BY <1>1, <1>3, <2>1, <2>2, <2>3, <2>6, ShrinkInv DEF CacheInv
<1>5. CASE SweepVectors(d)
  <2>1. vec' = vec \ {e \in vec : e.space = SpaceOf[d]} /\ UNCHANGED exact /\ delete[d] = "vectors"
    BY <1>5 DEF SweepVectors, SweptVectors
  <2>2. ~InVec(d)'
    BY <2>1 DEF InVec, CacheInv, OwnInv, VecOwn, Own
  <2>3. LateInv'
    BY <1>1, <1>3, <2>1, <2>2 DEF CacheInv, LateInv, LateExact, LateVec, InExact, InVec
  <2> QED
    BY <1>1, <1>3, <2>1, <2>3, ShrinkInv DEF CacheInv, TypeInv, ExactTyped
<1>6. CASE MarkDeleted(d) \/ SweepRaises(d)
  <2>1. UNCHANGED <<exact, vec>> /\ delete'[d] \in {"exact", "raised"}
    BY <1>6 DEF MarkDeleted, SweepRaises, DeleteAt, CacheInv, TypeInv, DeleteTyped
  <2>2. LateInv'
    BY <1>1, <1>3, <2>1 DEF CacheInv, LateInv, LateExact, LateVec, InExact, InVec
  <2> QED
    BY <1>1, <1>3, <2>1, <2>2, ShrinkInv DEF CacheInv, TypeInv, ExactTyped
<1> QED
  BY <1>4, <1>5, <1>6 DEF DeleteStep

------------------------------------------------------------------------------
\* A step that only moves a request leaves the cache as it is.
LEMMA ReadInv ==
  ASSUME CacheInv, ReqTyped', ReqsOwn', UNCHANGED <<delete, exact, vec, raced>>
  PROVE  CacheInv'
  BY DEF CacheInv, TypeInv, DeleteTyped, ExactTyped, OneValue, VecTyped, OwnInv, ExactOwn, VecOwn,
         LateInv, LateExact, LateVec, InExact, InVec

LEMMA CacheStep ==
  ASSUME CacheInv, [Next]_vars
  PROVE  CacheInv'
<1>1. CASE UNCHANGED vars
  BY <1>1, ReadInv DEF vars, CacheInv, TypeInv, ReqTyped, OwnInv, ReqsOwn, ReqOwn
<1>2. ASSUME NEW r \in Requests, Ask(r) PROVE CacheInv'
  BY <1>2, AskKeepsOwn, ReadInv DEF CacheInv, OwnInv
<1>3. ASSUME NEW r \in Requests, LookupExact(r) \/ LookupSemantic(r) \/ Retrieve(r) PROVE CacheInv'
  <2>1. ReadsOwn(r) /\ UNCHANGED <<delete, exact, vec, raced>>
    BY <1>3, LookupsRead, RetrieveReads DEF CacheInv
  <2>2. ReqTyped'
    BY <2>1 DEF ReadsOwn, Quits, Moves
  <2> QED
    BY <2>1, <2>2, ReadKeepsOwn, ReadInv DEF CacheInv, OwnInv
<1>4. ASSUME NEW r \in Requests, Generate(r) PROVE CacheInv'
  <2>1. Carries(r) /\ UNCHANGED <<delete, exact, vec, raced>>
    BY <1>4, GenerateCarries DEF CacheInv
  <2>2. ReqTyped'
    BY <2>1 DEF Carries, Quits, Moves
  <2> QED
    BY <2>1, <2>2, CarryKeepsOwn, ReadInv DEF CacheInv, OwnInv
<1>5. ASSUME NEW r \in Requests, StoreExact(r) \/ StoreVector(r) \/ ExpireAfter(r) \/ ExpireRaises(r)
      PROVE  CacheInv'
  BY <1>5, StoreExactInv, StoreVectorInv, ExpireInv
<1>6. CASE Next
  BY <1>2, <1>3, <1>4, <1>5, <1>6, RedisInv, DeleteInv DEF Next, RequestStep
<1> QED
  BY <1>1, <1>6

LEMMA CacheInit == Init => CacheInv
<1> SUFFICES ASSUME Init PROVE CacheInv
  OBVIOUS
<1>1. TypeInv
  BY IdleTyped DEF Init, TypeInv, DeleteTyped, DeletePc, ExactTyped, OneValue, VecTyped, ReqTyped
<1>2. OwnInv
  BY IdleTyped DEF Init, OwnInv, ReqsOwn, ReqOwn, Answered, Storing, ExactOwn, VecOwn
<1>3. LateInv
  BY DEF Init, LateInv, LateExact, LateVec
<1> QED
  BY <1>1, <1>2, <1>3 DEF CacheInv

\* What requests and both layers hold is well formed, and a key holds one answer.
THEOREM TypeCorrect == Spec => []TypeOK
<1>1. TypeInv => TypeOK
  <2> SUFFICES ASSUME TypeInv PROVE TypeOK
    OBVIOUS
  <2>1. \A s \in Spaces, q \in Questions : Cardinality(exact[s][q]) <= 1
    <3> SUFFICES ASSUME NEW s \in Spaces, NEW q \in Questions PROVE Cardinality(exact[s][q]) <= 1
      OBVIOUS
    <3>1. CASE exact[s][q] = {}
      BY <3>1, FS_EmptySet
    <3>2. ASSUME NEW c \in SUBSET Documents, exact[s][q] = {c} PROVE Cardinality(exact[s][q]) <= 1
      <4>1. Cardinality({c}) = 1
        BY FS_Singleton
      <4> QED
        BY <3>2, <4>1
    <3> QED
      BY <3>1, <3>2 DEF TypeInv, OneValue
  <2> QED
    BY <2>1 DEF TypeInv, TypeOK, DeleteTyped, ExactTyped, VecTyped, ReqTyped, ReqState, Entry
<1>2. CacheInv => TypeInv
  BY DEF CacheInv
<1> QED
  BY <1>1, <1>2, CacheInit, CacheStep, PTL DEF Spec

\* No answer cites a document of another space or outside the scope.
THEOREM AnswersAreOwn == Spec => []OwnAnswer
<1>1. CacheInv => OwnAnswer
  BY DEF CacheInv, OwnInv, ReqsOwn, ReqOwn, Own, OwnAnswer, Answered
<1> QED
  BY <1>1, CacheInit, CacheStep, PTL DEF Spec

\* After a finished deletion only what was written late cites the document.
THEOREM OldAnswersAreGone == Spec => []OnlyLateAnswersCite
<1>1. CacheInv => OnlyLateAnswersCite
  BY DEF CacheInv, LateInv, LateExact, LateVec, InExact, InVec, Cites, OnlyLateAnswersCite
<1> QED
  BY <1>1, CacheInit, CacheStep, PTL DEF Spec

------------------------------------------------------------------------------
(* Once clean, for ever clean *)

LEMMA CleanStep ==
  ASSUME CacheInv, Next, NEW d \in Documents, Clean(d)
  PROVE  Clean(d)'
<1> USE DEF Clean
<1>1. CASE \E s \in Spaces, q \in Questions : DropExact(s, q)
  BY <1>1 DEF DropExact, Cites, Held, CacheInv, TypeInv, ExactTyped
<1>2. CASE \E e \in Expiring : DropVector(e)
  BY <1>2 DEF DropVector, Cites, Held
<1>3. ASSUME NEW e \in Documents, DeleteStep(e) PROVE Clean(d)'
  <2>1. e # d
    BY <1>3 DEF DeleteStep, MarkDeleted, SweepExact, SweepVectors, SweepRaises
  <2>2. delete'[d] = "done" /\ UNCHANGED req /\ vec' \subseteq vec
    BY <1>3, <2>1 DEF DeleteStep, MarkDeleted, SweepExact, SweepVectors, SweepRaises, DeleteAt,
                      CacheInv, TypeInv, DeleteTyped
  <2>3. \A s \in Spaces, q \in Questions : exact'[s][q] \in {exact[s][q], {}}
    BY <1>3 DEF DeleteStep, MarkDeleted, SweepExact, SweepVectors, SweepRaises, CacheInv, TypeInv, ExactTyped
  <2> QED
    BY <2>2, <2>3 DEF Cites, Held
<1>4. ASSUME NEW r \in Requests, Ask(r) \/ RequestStep(r) PROVE Clean(d)'
  <2>1. /\ UNCHANGED delete
        /\ \A q \in Requests \ {r} : req'[q] = req[q]
    BY <1>4 DEF Ask, RequestStep, LookupExact, LookupSemantic, Retrieve, Generate, StoreExact, StoreVector,
                ExpireAfter, ExpireRaises, Goto, Answer, Quit, CacheInv, TypeInv, ReqTyped
  <2>2. ~(req'[r].pc \in {"generate"} \cup Storing /\ d \in req'[r].cites)
    <3>1. CASE Ask(r)
      BY <3>1 DEF Ask, UseCache, Storing, CacheInv, TypeInv, ReqTyped
    <3>2. CASE LookupExact(r) \/ LookupSemantic(r) \/ Retrieve(r)
      BY <3>2, LookupsRead, RetrieveReads DEF CacheInv, ReadsOwn, Quits, Moves, Storing
    <3>3. CASE Generate(r) \/ StoreExact(r) \/ StoreVector(r) \/ ExpireAfter(r) \/ ExpireRaises(r)
      BY <3>3, GenerateCarries, WritersCarry DEF CacheInv, Carries, Quits, Moves, Storing, Held
    <3> QED
      BY <1>4, <3>1, <3>2, <3>3 DEF RequestStep
  <2>3. ~Cites(d)'
    <3>1. CASE UNCHANGED <<exact, vec>>
      BY <3>1 DEF Cites
    <3>2. CASE StoreExact(r)
      <4>1. d \notin req[r].cites /\ UNCHANGED vec
        BY <3>2 DEF StoreExact, Held, Storing
      <4>2. \A s \in Spaces, q \in Questions : exact'[s][q] \in {exact[s][q], {req[r].cites}}
        BY <3>2 DEF StoreExact, Stored, CacheInv, TypeInv, ExactTyped
      <4> QED
        BY <4>1, <4>2 DEF Cites
    <3>3. CASE StoreVector(r) \/ ExpireAfter(r)
      <4>1. d \notin req[r].cites /\ UNCHANGED exact
        BY <3>3 DEF StoreVector, ExpireAfter, Held, Storing
      <4>2. \A e \in vec' : e \in vec \/ e.cites = req[r].cites
        BY <3>3 DEF StoreVector, ExpireAfter
      <4> QED
        BY <4>1, <4>2 DEF Cites
    <3> QED
      BY <1>4, <3>1, <3>2, <3>3 DEF Ask, RequestStep, LookupExact, LookupSemantic, Retrieve, Generate, ExpireRaises
  <2> QED
    BY <2>1, <2>2, <2>3 DEF Held
<1> QED
  BY <1>1, <1>2, <1>3, <1>4 DEF Next

\* No question brings a deleted document back into a clean cache.
THEOREM CacheStaysClean == Spec => StaysClean
<1>1. CacheInv /\ [Next]_vars => [\A d \in Documents : Clean(d) => Clean(d)']_vars
  BY CleanStep
<1> QED
  BY <1>1, CacheInit, CacheStep, PTL DEF Spec, StaysClean
=============================================================================
