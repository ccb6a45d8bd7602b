--------------------------- MODULE SemanticCache ---------------------------
(***************************************************************************)
(* The answers that Redis keeps for a space, and the two parties who write *)
(* there: chat requests, which look a question up, retrieve, stream and    *)
(* store the answer in a background task, and deletions of documents,      *)
(* which drop the space's answers last of all.                             *)
(*                                                                         *)
(* An answer is the set of documents it cites.  A vector search may find   *)
(* any answer of the space, or none: the similarity threshold, the HNSW    *)
(* index and the process's note that it has created that index decide      *)
(* which.  The cache holds the documents of one tenant.                    *)
(***************************************************************************)
EXTENDS Naturals, FiniteSets

CONSTANTS
    Documents, Spaces, Questions, Requests,
    SpaceOf,       \* the space of a document
    Scopes,        \* bound: the document_ids that are asked for, {} for none
    Doomed,        \* bound: the documents somebody deletes
    MaxVectors     \* bound: vector entries at a time

ASSUME CacheAssumption ==
    /\ SpaceOf \in [Documents -> Spaces]
    /\ Spaces # {} /\ Questions # {}
    /\ Scopes \subseteq SUBSET Documents /\ Doomed \subseteq Documents /\ MaxVectors \in Nat

VARIABLES
    delete,    \* delete[d]: how far the deletion of a document is
    exact,     \* exact[s][q]: the answer at cache:exact:<space>:<md5>, or nothing
    vec,       \* the cache:vec:<space>:<uuid> hashes
    req,       \* req[r]: a chat request and what it has read
    raced      \* history: documents cited by an entry written after the sweep

vars == <<delete, exact, vec, req, raced>>

DeletePc == {"live", "exact", "vectors", "done", "raised"}
Asking == {"exact", "semantic", "retrieve", "generate"}
Storing == {"store_exact", "store_vector", "expire"}
RequestPc == {"idle", "done"} \cup Asking \cup Storing

TypeOK ==
    /\ delete \in [Documents -> DeletePc]
    /\ exact \in [Spaces -> [Questions -> SUBSET SUBSET Documents]]
    /\ \A s \in Spaces, q \in Questions : Cardinality(exact[s][q]) <= 1
    /\ vec \subseteq [space : Spaces, cites : SUBSET Documents, ttl : BOOLEAN]
    /\ req \in [Requests -> [pc : RequestPc, space : Spaces, question : Questions,
                             scope : SUBSET Documents, cites : SUBSET Documents]]
    /\ raced \subseteq Documents

Idle == [pc |-> "idle", space |-> CHOOSE s \in Spaces : TRUE,
         question |-> CHOOSE q \in Questions : TRUE, scope |-> {}, cites |-> {}]

Init ==
    /\ delete = [d \in Documents |-> "live"]
    /\ exact = [s \in Spaces |-> [q \in Questions |-> {}]]
    /\ vec = {} /\ raced = {}
    /\ req = [r \in Requests |-> Idle]

------------------------------------------------------------------------------
(* RAGOrchestrator.chat *)

Goto(r, pc) == req' = [req EXCEPT ![r].pc = pc]
Answer(r, pc, cites) == req' = [req EXCEPT ![r].pc = pc, ![r].cites = cites]
\* The request ends without an answer.
Quit(r) == req' = [req EXCEPT ![r] = Idle]
Swept(pcs) == {d \in Documents : delete[d] \in pcs}

\* A mistake that OwnAnswer excludes: the key holds no scope, the lookup goes on.
UseCache_Always(scope) == TRUE
\* A history and metadata filters have the effect that a scope has here.
UseCache(scope) == scope = {}

Ask(r) ==
    /\ req[r].pc \in {"idle", "done"}
    /\ \E s \in Spaces, q \in Questions, scope \in Scopes :
         /\ \A d \in scope : SpaceOf[d] = s
         /\ req' = [req EXCEPT ![r] =
                     [pc |-> IF UseCache(scope) THEN "exact" ELSE "retrieve",
                      space |-> s, question |-> q, scope |-> scope, cites |-> {}]]
    /\ UNCHANGED <<delete, exact, vec, raced>>

\* A mistake that GoneForGood excludes: serving an answer stores it once more.
AfterHit_Restored == "store_exact"
AfterHit == "done"

\* get: the first layer is outside the try, so Redis being down ends the request.
LookupExact(r) ==
    /\ req[r].pc = "exact"
    /\ LET hit == exact[req[r].space][req[r].question] IN
         \/ \E cites \in hit : Answer(r, AfterHit, cites)
         \/ hit = {} /\ Goto(r, "semantic")
         \/ Quit(r)
    /\ UNCHANGED <<delete, exact, vec, raced>>

LookupSemantic(r) ==
    /\ req[r].pc = "semantic"
    /\ \/ \E e \in vec : e.space = req[r].space /\ Answer(r, AfterHit, e.cites)
       \/ Goto(r, "retrieve")
    /\ UNCHANGED <<delete, exact, vec, raced>>

\* A mistake that StaysClean excludes: the hits are not checked against the rows.
Citable_Found(d) == TRUE
\* Until deleted_at is set an open workflow may still overwrite 'deleting'.
Citable(d) == delete[d] = "live"

\* Search and hydration, which is what decides.
Retrieve(r) ==
    /\ req[r].pc = "retrieve"
    /\ \/ \E cites \in SUBSET {d \in Documents : SpaceOf[d] = req[r].space /\ Citable(d)} :
            /\ req[r].scope # {} => cites \subseteq req[r].scope
            /\ Answer(r, "generate", cites)
       \/ Quit(r)
    /\ UNCHANGED <<delete, exact, vec, raced>>

\* The stream ends, or it is broken off and nothing is stored.
Generate(r) ==
    /\ req[r].pc = "generate"
    /\ \/ Goto(r, IF UseCache(req[r].scope) THEN "store_exact" ELSE "done")
       \/ Quit(r)
    /\ UNCHANGED <<delete, exact, vec, raced>>

\* A mistake that TypeOK excludes: the key collects answers.
Stored_Added(old, cites) == old \cup {cites}
\* SETEX replaces the value.
Stored(old, cites) == {cites}

\* set, in a task of its own that swallows every exception.
StoreExact(r) ==
    /\ req[r].pc = "store_exact"
    /\ \/ /\ exact' = [exact EXCEPT ![req[r].space][req[r].question] = Stored(@, req[r].cites)]
          /\ raced' = raced \cup (req[r].cites \cap Swept({"vectors", "done", "raised"}))
          /\ Goto(r, "store_vector")
       \/ Goto(r, "done") /\ UNCHANGED <<exact, raced>>
    /\ UNCHANGED <<delete, vec>>

\* HSET makes an entry for good; the EXPIRE that follows gives it its end.
StoreVector(r) ==
    /\ req[r].pc = "store_vector"
    /\ \/ /\ Cardinality(vec) < MaxVectors
          /\ vec' = vec \cup {[space |-> req[r].space, cites |-> req[r].cites, ttl |-> FALSE]}
          /\ raced' = raced \cup (req[r].cites \cap Swept({"done", "raised"}))
          /\ Goto(r, "expire")
       \/ Goto(r, "done") /\ UNCHANGED <<vec, raced>>
    /\ UNCHANGED <<delete, exact>>

\* EXPIRE on a key that has been swept does nothing.
ExpireAfter(r) ==
    /\ req[r].pc = "expire"
    /\ LET e == [space |-> req[r].space, cites |-> req[r].cites, ttl |-> FALSE] IN
         \/ e \in vec /\ vec' = (vec \ {e}) \cup {[e EXCEPT !.ttl = TRUE]}
         \/ e \notin vec /\ UNCHANGED vec
    /\ Goto(r, "done")
    /\ UNCHANGED <<delete, exact, raced>>

ExpireRaises(r) ==
    /\ req[r].pc = "expire" /\ Goto(r, "done")
    /\ UNCHANGED <<delete, exact, vec, raced>>

------------------------------------------------------------------------------
(* Redis *)

DropExact(s, q) ==
    /\ exact[s][q] # {}
    /\ exact' = [exact EXCEPT ![s][q] = {}]
    /\ UNCHANGED <<delete, vec, req, raced>>

DropVector(e) ==
    /\ e \in vec
    /\ vec' = vec \ {e}
    /\ UNCHANGED <<delete, exact, req, raced>>

------------------------------------------------------------------------------
(* DocumentService.delete, seen from the cache *)

DeleteAt(d, pc) == delete' = [delete EXCEPT ![d] = pc]

\* deleted_at is set; what comes before is module DocumentLifecycle.
MarkDeleted(d) ==
    /\ delete[d] = "live" /\ d \in Doomed /\ DeleteAt(d, "exact")
    /\ UNCHANGED <<exact, vec, req, raced>>

\* invalidate: both layers of the space, one after the other.
SweepExact(d) ==
    /\ delete[d] = "exact"
    /\ exact' = [exact EXCEPT ![SpaceOf[d]] = [q \in Questions |-> {}]]
    /\ DeleteAt(d, "vectors")
    /\ UNCHANGED <<vec, req, raced>>

\* A mistake that OnlyLateAnswersCite excludes: the vectors are left to expire.
SweptVectors_None(s) == {}
SweptVectors(s) == {e \in vec : e.space = s}

SweepVectors(d) ==
    /\ delete[d] = "vectors"
    /\ vec' = vec \ SweptVectors(SpaceOf[d])
    /\ DeleteAt(d, "done")
    /\ UNCHANGED <<exact, req, raced>>

\* Nobody repeats an invalidation that has raised.
SweepRaises(d) ==
    /\ delete[d] \in {"exact", "vectors"} /\ DeleteAt(d, "raised")
    /\ UNCHANGED <<exact, vec, req, raced>>

------------------------------------------------------------------------------
RequestStep(r) ==
    \/ LookupExact(r) \/ LookupSemantic(r) \/ Retrieve(r) \/ Generate(r)
    \/ StoreExact(r) \/ StoreVector(r) \/ ExpireAfter(r) \/ ExpireRaises(r)

DeleteStep(d) == MarkDeleted(d) \/ SweepExact(d) \/ SweepVectors(d) \/ SweepRaises(d)

Expiring == [space : Spaces, cites : SUBSET Documents, ttl : {TRUE}]

Next ==
    \/ \E r \in Requests : Ask(r) \/ RequestStep(r)
    \/ \E s \in Spaces, q \in Questions : DropExact(s, q)
    \/ \E e \in Expiring : DropVector(e)
    \/ \E d \in Documents : DeleteStep(d)

Spec == Init /\ [][Next]_vars

\* Redis drops what has expired; a request that has begun goes on to its end.
Fairness ==
    /\ \A r \in Requests : WF_vars(RequestStep(r))
    /\ \A s \in Spaces, q \in Questions : WF_vars(DropExact(s, q))
    /\ \A e \in Expiring : WF_vars(DropVector(e))
FairSpec == Spec /\ Fairness

------------------------------------------------------------------------------
(* Properties *)

\* An answer, cached or not, cites nothing outside the space that was asked or
\* outside the documents the question was limited to, though the cache's key
\* names the space alone.
OwnAnswer ==
    \A r \in Requests : req[r].pc \in {"generate", "done"} \cup Storing =>
        \A d \in req[r].cites :
            SpaceOf[d] = req[r].space /\ (req[r].scope # {} => d \in req[r].scope)

Cites(d) ==
    \/ \E e \in vec : d \in e.cites
    \/ \E s \in Spaces, q \in Questions : \E cites \in exact[s][q] : d \in cites

\* What a finished deletion leaves in the cache of the document is there because
\* a request wrote it after the sweep of its layer: every older entry is gone.
OnlyLateAnswersCite ==
    \A d \in Documents : delete[d] = "done" /\ Cites(d) => d \in raced

\* Nobody holds an answer that cites d with a write to the cache still to come.
Held(d) ==
    \E r \in Requests : req[r].pc \in {"generate"} \cup Storing /\ d \in req[r].cites
Clean(d) == delete[d] = "done" /\ ~Held(d) /\ ~Cites(d)

\* Once the late writers are through and the cache is clean of a deleted
\* document, no question asked afterwards brings it back.
StaysClean == [][\A d \in Documents : Clean(d) => Clean(d)']_vars

\* An entry whose EXPIRE has raised, and not only yet to come, has no end.
Immortal(d) ==
    \E e \in vec :
        /\ d \in e.cites /\ ~e.ttl
        /\ \A r \in Requests : req[r].pc = "expire" =>
             ~(req[r].space = e.space /\ req[r].cites = e.cites)

\* Even what was written too late goes, for good, when it expires: serving an
\* answer never prolongs its life.
GoneForGood ==
    \A d \in Documents : delete[d] = "done" ~> (Clean(d) \/ Immortal(d))
=============================================================================
