----------------------------- MODULE AnswerPath -----------------------------
(***************************************************************************)
(* One question through RAGOrchestrator.chat: the query pipeline (rewrite, *)
(* vector search, keyword search, fusion, rerank), the hydration of its    *)
(* hits from PostgreSQL, the prompt, and the stream of ResilientLLMProvider*)
(* with its fallback.  Meanwhile documents are deleted, and any component  *)
(* may raise.                                                              *)
(*                                                                         *)
(* The engines return what they have indexed, deleted chunks included: the *)
(* index lags behind.  The cache lookup before it is module SemanticCache. *)
(***************************************************************************)
EXTENDS Naturals, Sequences, FiniteSets, SequencesExt

CONSTANTS
    Documents,
    Chunks,
    DocOf,       \* the document of a chunk
    TopK,        \* query.top_k
    K,           \* _RRF_K (60)
    MaxTokens    \* bound: tokens of a reply

ASSUME AnswerAssumption ==
    /\ DocOf \in [Chunks -> Documents]
    /\ TopK \in Nat \ {0} /\ K \in Nat /\ MaxTokens \in Nat
    /\ IsFiniteSet(Chunks)

VARIABLES
    setting,     \* rerank_enabled; another provider to fall back on; use_cache
    deleted,     \* the documents whose chunks are gone from PostgreSQL
    pc,          \* how far the request is
    valid,       \* query.intent_is_valid
    vector,      \* vector_hits, best first
    keyword,     \* keyword_hits, best first
    hits,        \* ranked_hits, then the hits of the pipeline
    chunks,      \* result.chunks: the hits that had a text
    passages,    \* the numbered passages of the prompt
    tokens,      \* which provider each token of the reply came from
    ended,       \* the provider whose stream has come to its end
    citations,   \* what the client was sent after the reply
    cached       \* the answer was handed to _cache.set

search == <<vector, keyword, hits>>
reply == <<tokens, ended>>
outcome == <<citations, cached>>
vars == <<setting, deleted, pc, valid, search, chunks, passages, reply, outcome>>

Providers == {"primary", "fallback"}
Over == {"done", "failed", "left"}
Pc == {"rewrite", "vector", "keyword", "fuse", "rerank", "hydrate", "prompt"}
      \cup Providers \cup {"cite", "store"} \cup Over
Passage == [number : Nat \ {0}, chunk : Chunks]

TypeOK ==
    /\ setting \in [rerank : BOOLEAN, backup : BOOLEAN, cache : BOOLEAN]
    /\ deleted \subseteq Documents
    /\ pc \in Pc /\ valid \in BOOLEAN
    /\ vector \in Seq(Chunks) /\ keyword \in Seq(Chunks) /\ hits \in Seq(Chunks)
    /\ Len(keyword) <= TopK /\ Len(hits) <= TopK
    /\ chunks \subseteq Chunks
    /\ passages \in Seq(Passage)
    /\ tokens \in Seq(Providers) /\ Len(tokens) <= MaxTokens
    /\ ended \in Providers \cup {"none"}
    /\ citations \in Seq(Chunks) /\ cached \in BOOLEAN

Init ==
    /\ setting \in [rerank : BOOLEAN, backup : BOOLEAN, cache : BOOLEAN]
    /\ deleted \in SUBSET Documents
    /\ pc = "rewrite" /\ valid = TRUE
    /\ vector = <<>> /\ keyword = <<>> /\ hits = <<>>
    /\ chunks = {} /\ passages = <<>> /\ tokens = <<>> /\ ended = "none"
    /\ citations = <<>> /\ cached = FALSE

------------------------------------------------------------------------------
At(here, next) == pc = here /\ pc' = next /\ UNCHANGED <<setting, deleted>>

\* An exception that nobody catches ends the request.
Fails(here) ==
    /\ At(here, "failed")
    /\ UNCHANGED <<valid, search, chunks, passages, reply, outcome>>

DeleteDocument(d) ==
    /\ d \notin deleted /\ pc \notin Over
    /\ deleted' = deleted \cup {d}
    /\ UNCHANGED <<setting, pc, valid, search, chunks, passages, reply, outcome>>

Present(c) == DocOf[c] \notin deleted

\* The members of a list that are wanted, in their order
Among(list, wanted) ==
    LET places == {i \in DOMAIN list : list[i] \in wanted}
        place(k) == CHOOSE i \in places : Cardinality({j \in places : j <= i}) = k
    IN  [k \in 1..Cardinality(places) |-> list[place(k)]]

------------------------------------------------------------------------------
(* the query pipeline *)

\* Whatever goes wrong in it, the rewriter lets the query pass as it is, valid.
Rewrite ==
    /\ At("rewrite", "vector")
    /\ valid' \in BOOLEAN
    /\ UNCHANGED <<search, chunks, passages, reply, outcome>>

\* The union of the expanded queries' results may be longer than TopK.
VectorSearch ==
    /\ At("vector", "keyword")
    /\ vector' \in IF valid THEN SetToAllKPermutations(Chunks) ELSE {<<>>}
    /\ UNCHANGED <<valid, keyword, hits, chunks, passages, reply, outcome>>

KeywordSearch ==
    /\ At("keyword", "fuse")
    /\ keyword' \in IF valid THEN SetToAllKPermutations(Chunks) ELSE {<<>>}
    /\ Len(keyword') <= TopK
    /\ UNCHANGED <<valid, vector, hits, chunks, passages, reply, outcome>>

RankIn(list, c) == CHOOSE r \in DOMAIN list : list[r] = c

\* A mistake that BothBeatOne excludes: the mean of the ranks, without smoothing.
Weight_Bare(rank) == [num |-> 1, den |-> rank]
\* 1 / (K + rank), as a fraction
Weight(rank) == [num |-> 1, den |-> K + rank]

Zero == [num |-> 0, den |-> 1]
Plus(x, y) == [num |-> x.num * y.den + y.num * x.den, den |-> x.den * y.den]
Exceeds(x, y) == x.num * y.den > y.num * x.den

Share(list, c) == IF c \in Range(list) THEN Weight(RankIn(list, c)) ELSE Zero
Score(c) == Plus(Share(vector, c), Share(keyword, c))

\* hit_map holds the vector hits first; sorted() is stable.
FirstSeen(c) ==
    IF c \in Range(vector) THEN RankIn(vector, c) ELSE Len(vector) + RankIn(keyword, c)

Precedes(c, d) ==
    \/ Exceeds(Score(c), Score(d))
    \/ ~Exceeds(Score(d), Score(c)) /\ FirstSeen(c) < FirstSeen(d)

Found == Range(vector) \cup Range(keyword)
Fused == CHOOSE list \in SetToSeqs(Found) : IsSorted(list, Precedes)

\* A mistake that TypeOK excludes: the fused list is not cut.
TopHits_All(list) == list
TopHits(list) == SubSeq(list, 1, IF Len(list) < TopK THEN Len(list) ELSE TopK)

Fuse ==
    /\ At("fuse", "rerank")
    /\ hits' = TopHits(Fused)
    /\ UNCHANGED <<valid, vector, keyword, chunks, passages, reply, outcome>>

\* Hits without a text are dropped, the others ordered anew; with no text, no
\* provider or any failure the order stays as it is.
Rerank ==
    /\ At("rerank", "hydrate")
    /\ LET scored == {c \in Range(hits) : Present(c)}
       IN  \/ /\ setting.rerank /\ scored # {}
              /\ hits' \in SetToSeqs(scored)
           \/ UNCHANGED hits
    /\ UNCHANGED <<valid, vector, keyword, chunks, passages, reply, outcome>>

------------------------------------------------------------------------------
(* retrieve, after the pipeline, and the prompt *)

\* A mistake that CitationsFollowPrompt excludes: hits whose text is gone keep
\* their place in the list.
Hydrated_All(list, found) == list
Hydrated(list, found) == Among(list, found)

\* The search lists are dropped with their SearchContext.
Hydrate ==
    LET found == {c \in Range(hits) : Present(c)}
    IN  /\ At("hydrate", "prompt")
        /\ chunks' = found /\ hits' = Hydrated(hits, found)
        /\ vector' = <<>> /\ keyword' = <<>>
        /\ UNCHANGED <<valid, passages, reply, outcome>>

\* _truncate_context: [i] is the place among all hits; the first passage that
\* does not fit ends the context.
BuildPrompt ==
    LET numbered == [i \in DOMAIN hits |-> [number |-> i, chunk |-> hits[i]]]
        texts == Among(numbered, [number : DOMAIN hits, chunk : chunks])
    IN  /\ At("prompt", "primary")
        /\ \E n \in 0..Len(texts) : passages' = SubSeq(texts, 1, n)
        /\ UNCHANGED <<valid, search, chunks, reply, outcome>>

------------------------------------------------------------------------------
(* the reply *)

Yield(p) ==
    /\ At(p, p) /\ Len(tokens) < MaxTokens
    /\ tokens' = Append(tokens, p)
    /\ UNCHANGED <<valid, search, chunks, passages, ended, outcome>>

EndStream(p) ==
    /\ At(p, "cite") /\ ended' = p
    /\ UNCHANGED <<valid, search, chunks, passages, tokens, outcome>>

\* A mistake that WholeAnswer excludes: falling back whenever the primary raises.
MayFallBack_Always == setting.backup
\* Before the first token only: what was pushed cannot be taken back.
MayFallBack == setting.backup /\ tokens = <<>>

FallBack ==
    /\ At("primary", "fallback") /\ MayFallBack
    /\ UNCHANGED <<valid, search, chunks, passages, reply, outcome>>

StreamFails ==
    \/ ~MayFallBack /\ Fails("primary")
    \/ Fails("fallback")

\* The client is gone: GeneratorExit at a yield, CancelledError at an await.
Leave ==
    /\ pc \notin Over /\ At(pc, "left")
    /\ UNCHANGED <<valid, search, chunks, passages, reply, outcome>>

\* _build_citations; a list is sent if it is not empty.
Cite ==
    /\ At("cite", "store")
    /\ citations' = Among(hits, chunks)
    /\ UNCHANGED <<valid, search, chunks, passages, reply, cached>>

\* The background _cache.set: module SemanticCache.
Store ==
    /\ At("store", "done")
    /\ cached' = setting.cache
    /\ UNCHANGED <<valid, search, chunks, passages, reply, citations>>

------------------------------------------------------------------------------
\* The embedding, an engine, PostgreSQL or the model hub raises; without a
\* valid intent neither search calls anything.
SearchFails == valid /\ (Fails("vector") \/ Fails("keyword"))
\* The reranker's health check stands outside the try that degrades it.
RetrieveFails ==
    \/ setting.rerank /\ hits # <<>> /\ Fails("rerank")
    \/ Fails("hydrate") \/ Fails("prompt")

Retrieval == Rewrite \/ VectorSearch \/ KeywordSearch \/ Fuse \/ Rerank \/ Hydrate \/ BuildPrompt
Generation == (\E p \in Providers : Yield(p) \/ EndStream(p)) \/ FallBack \/ Leave \/ Cite \/ Store

Next ==
    \/ Retrieval \/ Generation \/ SearchFails \/ RetrieveFails \/ StreamFails
    \/ \E d \in Documents : DeleteDocument(d)

Spec == Init /\ [][Next]_vars

------------------------------------------------------------------------------
(* properties *)

\* A passage's number in the prompt is the place of the same chunk among the
\* citations the client is sent, also when documents are deleted between the
\* search, the reranking and the hydration; what the model may refer to is a
\* prefix of what the client can show.
CitationsFollowPrompt ==
    pc \in {"store", "done"} =>
        \A i \in DOMAIN passages :
            /\ i \in DOMAIN citations
            /\ passages[i] = [number |-> i, chunk |-> citations[i]]

\* What is cited and cached is one provider's reply, from its first token to
\* its end: never the beginning of one and the reply of another, and never a
\* reply that broke off.
WholeAnswer ==
    citations # <<>> \/ cached =>
        ended # "none" /\ \A i \in DOMAIN tokens : tokens[i] = ended

\* After fusion, a chunk that both searches found stands before every chunk that
\* one of them found, wherever it stood in their lists (while the lists are
\* shorter than K + 2).
BothBeatOne ==
    pc = "rerank" =>
        LET both == Range(vector) \cap Range(keyword)
            place(c) == RankIn(hits, c)
        IN  \A c \in both, d \in (Range(vector) \cup Range(keyword)) \ both :
                d \in Range(hits) => c \in Range(hits) /\ place(c) < place(d)
=============================================================================
