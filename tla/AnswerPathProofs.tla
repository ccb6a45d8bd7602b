-------------------------- MODULE AnswerPathProofs --------------------------
(***************************************************************************)
(* Theorems about AnswerPath, for any documents, chunks, lists and         *)
(* smoothing: the reply that is cited and cached is one provider's, whole; *)
(* the fusion is a strict order, so that what was found can be listed in   *)
(* it, and puts what both searches found first; and every hit that is left *)
(* after the hydration has a text, so that the passages of the prompt and  *)
(* the citations are numbered alike.                                       *)
(***************************************************************************)
EXTENDS AnswerPath, FiniteSetTheorems, TLAPS

------------------------------------------------------------------------------
(* The reply *)

AllFrom(p) == \A i \in DOMAIN tokens : tokens[i] = p

\* While a provider streams, all there is of the reply is its own; before the
\* first there is nothing, and after the end the reply is of the one that ended.
ReplyInv ==
    /\ tokens \in Seq(Providers) /\ ended \in Providers \cup {"none"}
    /\ \A p \in Providers : pc = p => AllFrom(p) /\ ended = "none"
    /\ pc \notin Providers \cup Over \cup {"cite", "store"} => tokens = <<>> /\ ended = "none"
    /\ pc \in {"cite", "store", "done"} => ended # "none"
    /\ ended # "none" => AllFrom(ended)
    /\ citations # <<>> \/ cached => ended # "none"

\* Before the first token nothing was said.
LEMMA ReplyInit == Init => ReplyInv
  BY DEF Init, ReplyInv, Providers, Over, AllFrom

\* Another token of the provider that streams
LEMMA ReplyYields ==
  ASSUME ReplyInv, NEW p \in Providers, Yield(p)
  PROVE  ReplyInv'
<1>1. /\ tokens \in Seq(Providers) /\ tokens' = Append(tokens, p) /\ AllFrom(p) /\ ended = "none"
      /\ pc = p /\ pc' = p /\ UNCHANGED <<ended, citations, cached>>
  BY DEF Yield, At, ReplyInv, outcome
<1>2. tokens' \in Seq(Providers) /\ AllFrom(p)'
  BY <1>1 DEF AllFrom
<1> QED
  BY <1>1, <1>2 DEF ReplyInv, Providers, Over

\* A step that leaves the reply as it is, and does not go to another stream or
\* past the end of one
LEMMA ReplyKept ==
  ASSUME ReplyInv, UNCHANGED reply,
         \/ UNCHANGED <<pc, outcome>>
         \/ pc \notin Over /\ pc' \in {"failed", "left"} /\ UNCHANGED outcome
         \/ /\ pc \notin Providers \cup Over \cup {"cite", "store"} /\ UNCHANGED outcome
            /\ pc' \notin {"fallback", "cite", "store"} \cup Over
         \/ pc = "cite" /\ pc' = "store" /\ UNCHANGED cached
         \/ pc = "store" /\ pc' = "done" /\ UNCHANGED citations
  PROVE  ReplyInv'
  BY DEF ReplyInv, AllFrom, Providers, Over, reply, outcome

\* Every step keeps the reply whole.
LEMMA ReplyStep == ReplyInv /\ [Next]_vars => ReplyInv'
<1> SUFFICES ASSUME ReplyInv, [Next]_vars PROVE ReplyInv'
  OBVIOUS
<1> USE DEF At, Providers, Over
<1>1. CASE UNCHANGED vars
  BY <1>1, ReplyKept DEF vars
<1>2. CASE Retrieval
  BY <1>2, ReplyKept DEF Retrieval, Rewrite, VectorSearch, KeywordSearch, Fuse, Rerank, Hydrate, BuildPrompt
<1>3. ASSUME NEW p \in Providers, Yield(p) PROVE ReplyInv'
  BY <1>3, ReplyYields
<1>4. ASSUME NEW p \in Providers, EndStream(p) PROVE ReplyInv'
  <2>1. /\ AllFrom(p) /\ tokens \in Seq(Providers) /\ ended' = p /\ pc' = "cite"
        /\ UNCHANGED <<tokens, citations, cached>>
    BY <1>4 DEF EndStream, ReplyInv, outcome
  <2> QED
    BY <2>1 DEF ReplyInv, AllFrom
<1>5. CASE FallBack
  BY <1>5 DEF FallBack, MayFallBack, ReplyInv, AllFrom, reply, outcome
<1>6. CASE Leave \/ Cite \/ Store
  BY <1>6, ReplyKept DEF Leave, Cite, Store, reply
<1>7. CASE SearchFails \/ RetrieveFails \/ StreamFails
  BY <1>7, ReplyKept DEF SearchFails, RetrieveFails, StreamFails, Fails
<1>8. CASE \E d \in Documents : DeleteDocument(d)
  BY <1>8, ReplyKept DEF DeleteDocument
<1> QED
  BY <1>1, <1>2, <1>3, <1>4, <1>5, <1>6, <1>7, <1>8 DEF Next, Generation

\* What is cited and cached is the whole reply of one provider, whenever the
\* primary fails and however the client leaves.
THEOREM RepliesWhole == Spec => []WholeAnswer
<1>1. ReplyInv => WholeAnswer
  BY DEF ReplyInv, WholeAnswer, AllFrom
<1> QED
  BY <1>1, ReplyInit, ReplyStep, PTL DEF Spec

------------------------------------------------------------------------------
(* The fusion *)

Outweighs(x, y) == Exceeds(x, y) /\ ~Exceeds(y, x)

\* Two ranks of at most K + 1 outweigh any other: of three numbers between
\* K + 1 and 2K + 1, none is as much as twice another.
LEMMA TwoOutweighOne ==
  ASSUME NEW r \in 1..(K + 1), NEW s \in 1..(K + 1), NEW t \in Nat \ {0}
  PROVE  /\ Outweighs(Plus(Weight(r), Weight(s)), Plus(Weight(t), Zero))
         /\ Outweighs(Plus(Weight(r), Weight(s)), Plus(Zero, Weight(t)))
<1>1. K \in Nat
  BY AnswerAssumption
<1> DEFINE a == K + r
           b == K + s
           c == K + t
<1>2. a \in Nat /\ b \in Nat /\ c \in Nat /\ a > 0 /\ b > 0 /\ a < 2 * c /\ b < 2 * c
  BY <1>1
<1>3. /\ Plus(Weight(r), Weight(s)) = [num |-> b + a, den |-> a * b]
      /\ Plus(Weight(t), Zero) = [num |-> 1, den |-> c]
      /\ Plus(Zero, Weight(t)) = [num |-> 1, den |-> c]
  BY <1>1 DEF Plus, Weight, Zero
<1> HIDE DEF a, b, c
<1>4. a * b < (2 * c) * b /\ b * a < (2 * c) * a
  BY <1>2
<1>5. (b + a) * c > a * b
  BY <1>2, <1>4
<1>6. a * b \in Nat /\ (b + a) * c \in Nat /\ ~(a * b > (b + a) * c)
  BY <1>2, <1>5
<1>7. Outweighs([num |-> b + a, den |-> a * b], [num |-> 1, den |-> c])
  BY <1>2, <1>5, <1>6 DEF Outweighs, Exceeds
<1> QED
  BY <1>3, <1>7

\* However the searches rank them, the fusion puts a chunk that both have found
\* within the first K + 1 before every chunk that one alone has found.
THEOREM BothPrecedeOne ==
  ASSUME vector \in Seq(Chunks), keyword \in Seq(Chunks),
         Len(vector) <= K + 1, Len(keyword) <= K + 1,
         NEW c \in Range(vector) \cap Range(keyword),
         NEW d \in (Range(vector) \cup Range(keyword)) \ (Range(vector) \cap Range(keyword))
  PROVE  Precedes(c, d) /\ ~Precedes(d, c)
<1>1. K \in Nat
  BY AnswerAssumption
<1>2. ASSUME NEW list \in Seq(Chunks), Len(list) <= K + 1, NEW e \in Range(list)
      PROVE  RankIn(list, e) \in 1..(K + 1)
  <2>1. PICK i \in DOMAIN list : list[i] = e
    BY <1>2 DEF Range
  <2>2. RankIn(list, e) \in DOMAIN list
    BY <2>1 DEF RankIn
  <2> QED
    BY <2>2, <1>1, <1>2
<1>3. Outweighs(Score(c), Score(d))
  <2>1. Score(c) = Plus(Weight(RankIn(vector, c)), Weight(RankIn(keyword, c)))
    BY DEF Score, Share
  <2>2. RankIn(vector, c) \in 1..(K + 1) /\ RankIn(keyword, c) \in 1..(K + 1)
    BY <1>2
  <2>3. CASE d \in Range(vector)
    <3>1. Score(d) = Plus(Weight(RankIn(vector, d)), Zero)
      BY <2>3 DEF Score, Share
    <3>2. RankIn(vector, d) \in Nat \ {0}
      BY <2>3, <1>1, <1>2
    <3> QED
      BY <2>1, <2>2, <3>1, <3>2, TwoOutweighOne
  <2>4. CASE d \in Range(keyword)
    <3>1. Score(d) = Plus(Zero, Weight(RankIn(keyword, d)))
      BY <2>4 DEF Score, Share
    <3>2. RankIn(keyword, d) \in Nat \ {0}
      BY <2>4, <1>1, <1>2
    <3> QED
      BY <2>1, <2>2, <3>1, <3>2, TwoOutweighOne
  <2> QED
    BY <2>3, <2>4
<1> QED
  BY <1>3 DEF Outweighs, Precedes

------------------------------------------------------------------------------
(* Finite sets in order *)

StrictOrder(R, S) ==
    /\ \A x \in S : <<x, x>> \notin R
    /\ \A x, y, z \in S : <<x, y>> \in R /\ <<y, z>> \in R => <<x, z>> \in R
    /\ \A x, y \in S : x # y => <<x, y>> \in R \/ <<y, x>> \in R

UpTo(x, R, S) == {v \in S : v = x \/ <<v, x>> \in R}
Place(R, S) == [x \in S |-> Cardinality(UpTo(x, R, S))]

\* The members of a finite set are numbered by how many come before them.
LEMMA Numbering ==
  ASSUME NEW S, IsFiniteSet(S), NEW R, StrictOrder(R, S)
  PROVE  /\ Place(R, S) \in Surjection(S, 1..Cardinality(S))
         /\ \A x, y \in S : <<x, y>> \in R => Place(R, S)[x] < Place(R, S)[y]
<1> DEFINE n == Cardinality(S)
           place == Place(R, S)
<1>1. n \in Nat /\ IsFiniteSet(1..n) /\ Cardinality(1..n) = n
  BY FS_CardinalityType, FS_Interval
<1>2. ASSUME NEW x \in S
      PROVE  place[x] \in 1..n /\ place[x] = Cardinality(UpTo(x, R, S)) /\ IsFiniteSet(UpTo(x, R, S))
  <2>1. UpTo(x, R, S) \in SUBSET S /\ UpTo(x, R, S) # {}
    BY DEF UpTo
  <2>2. /\ IsFiniteSet(UpTo(x, R, S)) /\ Cardinality(UpTo(x, R, S)) \in Nat
        /\ Cardinality(UpTo(x, R, S)) <= n /\ Cardinality(UpTo(x, R, S)) # 0
    BY <2>1, FS_Subset, FS_CardinalityType, FS_EmptySet
  <2>3. place[x] = Cardinality(UpTo(x, R, S))
    BY DEF Place
  <2> QED
    BY <1>1, <2>2, <2>3
<1>3. ASSUME NEW x \in S, NEW y \in S, <<x, y>> \in R PROVE place[x] < place[y]
  <2>1. UpTo(x, R, S) \in SUBSET UpTo(y, R, S) /\ y \in UpTo(y, R, S) /\ y \notin UpTo(x, R, S)
    BY <1>3 DEF UpTo, StrictOrder
  <2>2. Cardinality(UpTo(x, R, S)) <= Cardinality(UpTo(y, R, S))
    BY <1>2, <2>1, FS_Subset
  <2>3. Cardinality(UpTo(x, R, S)) # Cardinality(UpTo(y, R, S))
    BY <1>2, <2>1, FS_Subset
  <2> QED
    BY <1>1, <1>2, <2>2, <2>3
<1>4. place \in [S -> 1..n]
  BY <1>2 DEF Place
<1> HIDE DEF place, n
<1>5. \A x, y \in S : place[x] = place[y] => x = y
  <2> SUFFICES ASSUME NEW x \in S, NEW y \in S, place[x] = place[y], x # y PROVE FALSE
    OBVIOUS
  <2>1. place[x] \in Int /\ place[y] \in Int
    BY <1>1, <1>4
  <2>2. place[x] < place[y] \/ place[y] < place[x]
    BY <1>3 DEF StrictOrder
  <2> QED
    BY <2>1, <2>2
<1>6. place \in Injection(S, 1..n)
  BY <1>4, <1>5 DEF Injection, IsInjective
<1>7. place \in Surjection(S, 1..n)
  BY <1>1, <1>6, FS_Injection DEF n
<1> QED
  BY <1>3, <1>7 DEF n, place

\* So they can be listed in that order.
LEMMA Listing ==
  ASSUME NEW S, IsFiniteSet(S), NEW R, StrictOrder(R, S)
  PROVE  \E f \in [1..Cardinality(S) -> S] :
            \A i, j \in 1..Cardinality(S) : i < j => <<f[i], f[j]>> \in R
<1> DEFINE n == Cardinality(S)
           place == Place(R, S)
<1>1. place \in Surjection(S, 1..n) /\ \A x, y \in S : <<x, y>> \in R => place[x] < place[y]
  BY Numbering
<1> DEFINE f == [i \in 1..n |-> CHOOSE x \in S : place[x] = i]
<1>2. n \in Nat
  BY FS_CardinalityType
<1> HIDE DEF n, place
<1>3. ASSUME NEW i \in 1..n PROVE f[i] \in S /\ place[f[i]] = i
  BY <1>1 DEF Surjection
<1>4. ASSUME NEW i \in 1..n, NEW j \in 1..n, i < j PROVE <<f[i], f[j]>> \in R
  <2>1. f[i] \in S /\ f[j] \in S /\ place[f[i]] = i /\ place[f[j]] = j
    BY <1>3
  <2> HIDE DEF f
  <2>2. f[i] # f[j] /\ <<f[j], f[i]>> \notin R
    BY <1>1, <1>2, <1>4, <2>1
  <2> QED
    BY <2>1, <2>2 DEF StrictOrder
<1>5. f \in [1..n -> S]
  BY <1>3
<1> QED
  BY <1>4, <1>5 DEF n

\* The k-th of a set of numbers
LEMMA KthOfSet ==
  ASSUME NEW P, P \subseteq Nat, IsFiniteSet(P), NEW k \in 1..Cardinality(P)
  PROVE  \E i \in P : Cardinality({j \in P : j <= i}) = k
<1> DEFINE R == {w \in P \X P : w[1] < w[2]}
<1>0. \A x, y \in P : <<x, y>> \in R <=> x < y
  OBVIOUS
<1> HIDE DEF R
<1>1. ASSUME NEW i \in P PROVE UpTo(i, R, P) = {j \in P : j <= i}
  <2>1. \A j \in P : j = i \/ j < i <=> j <= i
    OBVIOUS
  <2> QED
    BY <1>0, <2>1 DEF UpTo
<1>2. StrictOrder(R, P)
  BY <1>0 DEF StrictOrder
<1>3. Place(R, P) \in Surjection(P, 1..Cardinality(P))
  BY <1>2, Numbering
<1>4. PICK i \in P : Place(R, P)[i] = k
  BY <1>3 DEF Surjection
<1>5. Place(R, P)[i] = Cardinality(UpTo(i, R, P))
  BY DEF Place
<1> QED
  BY <1>1, <1>4, <1>5

------------------------------------------------------------------------------
(* Lists of what is wanted *)

LEMMA DomainFinite ==
  ASSUME NEW X, NEW list \in Seq(X), NEW T \in SUBSET DOMAIN list
  PROVE  IsFiniteSet(T) /\ T \subseteq Nat /\ Cardinality(T) \in Nat /\ Cardinality(T) <= Len(list)
<1> DEFINE n == Len(list)
<1>0. n \in Nat /\ DOMAIN list = 1..n
  OBVIOUS
<1> HIDE DEF n
<1>1. IsFiniteSet(1..n) /\ Cardinality(1..n) = n
  BY <1>0, FS_Interval
<1> QED
  BY <1>0, <1>1, FS_Subset, FS_CardinalityType DEF n

LEMMA AmongTyped ==
  ASSUME NEW X, NEW list \in Seq(X), NEW wanted
  PROVE  /\ Among(list, wanted) \in Seq(X) /\ Len(Among(list, wanted)) <= Len(list)
         /\ \A k \in DOMAIN Among(list, wanted) : Among(list, wanted)[k] \in wanted
<1> DEFINE places == {i \in DOMAIN list : list[i] \in wanted}
           n == Cardinality(places)
           place(k) == CHOOSE i \in places : Cardinality({j \in places : j <= i}) = k
<1>1. IsFiniteSet(places) /\ places \subseteq Nat /\ n \in Nat /\ n <= Len(list)
  BY DomainFinite
<1>2. ASSUME NEW k \in 1..n PROVE place(k) \in places
  <2>1. \E i \in places : Cardinality({j \in places : j <= i}) = k
    <3> HIDE DEF places
    <3> QED
      BY <1>1, KthOfSet
  <2> QED
    BY <2>1
<1>3. Among(list, wanted) = [k \in 1..n |-> list[place(k)]]
  BY DEF Among
<1> HIDE DEF place, n
<1>4. \A k \in 1..n : list[place(k)] \in X /\ list[place(k)] \in wanted
  BY <1>2
<1> QED
  BY <1>1, <1>3, <1>4

\* Nothing is dropped where everything is wanted.
LEMMA AmongAll ==
  ASSUME NEW X, NEW list \in Seq(X), NEW wanted, \A i \in DOMAIN list : list[i] \in wanted
  PROVE  Among(list, wanted) = list
<1> DEFINE n == Len(list)
<1>1. n \in Nat /\ DOMAIN list = 1..n /\ list = [k \in 1..n |-> list[k]]
  OBVIOUS
<1>2. {i \in DOMAIN list : list[i] \in wanted} = 1..n
  BY <1>1
<1> HIDE DEF n
<1>3. Cardinality(1..n) = n
  BY <1>1, FS_Interval
<1> DEFINE place(k) == CHOOSE i \in 1..n : Cardinality({j \in 1..n : j <= i}) = k
<1>4. ASSUME NEW k \in 1..n PROVE place(k) = k
  <2>1. \A i \in 1..n : Cardinality({j \in 1..n : j <= i}) = i
    <3>1. ASSUME NEW i \in 1..n PROVE Cardinality({j \in 1..n : j <= i}) = i
      <4>1. {j \in 1..n : j <= i} = 1..i /\ i \in Int /\ i >= 1 /\ (i - 1) + 1 = i
        BY <1>1
      <4>2. Cardinality(1..i) = i
        BY <4>1, FS_Interval
      <4> QED
        BY <4>1, <4>2
    <3> QED
      BY <3>1
  <2> QED
    BY <2>1
<1>5. Among(list, wanted) = [k \in 1..n |-> list[k]]
  <2> DEFINE Of(P) == [k \in 1..Cardinality(P) |-> list[CHOOSE i \in P : Cardinality({j \in P : j <= i}) = k]]
  <2>1. Among(list, wanted) = Of({i \in DOMAIN list : list[i] \in wanted})
    BY DEF Among
  <2>2. Among(list, wanted) = Of(1..n)
    <3> HIDE DEF Of
    <3> QED
      BY <1>2, <2>1
  <2>3. Of(1..n) = [k \in 1..n |-> list[place(k)]]
    BY <1>3
  <2>4. [k \in 1..n |-> list[place(k)]] = [k \in 1..n |-> list[k]]
    <3> HIDE DEF place
    <3> QED
      BY <1>4
  <2> HIDE DEF Of, place
  <2> QED
    BY <2>2, <2>3, <2>4
<1> QED
  BY <1>1, <1>5

------------------------------------------------------------------------------
(* The order of the fusion *)

Fraction == [num : Nat, den : Nat \ {0}]
AtLeast(x, y) == y.num * x.den <= x.num * y.den

LEMMA ScalesUp ==
  ASSUME NEW a \in Nat, NEW b \in Nat, NEW c \in Nat \ {0}
  PROVE  (a <= b <=> a * c <= b * c) /\ (a < b <=> a * c < b * c)
  OBVIOUS

\* Fractions are ordered.
LEMMA FractionsOrdered ==
  ASSUME NEW x \in Fraction, NEW y \in Fraction, NEW z \in Fraction
  PROVE  /\ Exceeds(x, y) <=> ~AtLeast(y, x)
         /\ Exceeds(x, y) => AtLeast(x, y)
         /\ AtLeast(x, y) /\ AtLeast(y, z) => AtLeast(x, z)
         /\ Exceeds(x, y) /\ AtLeast(y, z) => Exceeds(x, z)
         /\ AtLeast(x, y) /\ Exceeds(y, z) => Exceeds(x, z)
<1>1. PICK a \in Nat, b \in Nat \ {0} : x.num = a /\ x.den = b
  BY DEF Fraction
<1>2. PICK c \in Nat, d \in Nat \ {0} : y.num = c /\ y.den = d
  BY DEF Fraction
<1>3. PICK e \in Nat, f \in Nat \ {0} : z.num = e /\ z.den = f
  BY DEF Fraction
<1>4. /\ a * d \in Nat /\ c * b \in Nat /\ c * f \in Nat /\ e * d \in Nat /\ a * f \in Nat /\ e * b \in Nat
  OBVIOUS
<1>5. /\ (a * d) * f = (a * f) * d /\ (c * b) * f = (c * f) * b /\ (e * d) * b = (e * b) * d
  OBVIOUS
<1>6. /\ c * b <= a * d <=> (c * b) * f <= (a * d) * f
      /\ c * b < a * d <=> (c * b) * f < (a * d) * f
      /\ e * d <= c * f <=> (e * d) * b <= (c * f) * b
      /\ e * d < c * f <=> (e * d) * b < (c * f) * b
      /\ e * b <= a * f <=> (e * b) * d <= (a * f) * d
      /\ e * b < a * f <=> (e * b) * d < (a * f) * d
  BY <1>4, ScalesUp
<1>7. /\ (a * d) * f \in Nat /\ (c * b) * f \in Nat /\ (e * d) * b \in Nat
  BY <1>4
<1>8. /\ c * b <= a * d /\ e * d <= c * f => e * b <= a * f
      /\ c * b < a * d /\ e * d <= c * f => e * b < a * f
      /\ c * b <= a * d /\ e * d < c * f => e * b < a * f
  BY <1>5, <1>6, <1>7
<1> QED
  BY <1>1, <1>2, <1>3, <1>4, <1>8 DEF Exceeds, AtLeast

LEMMA RankTyped ==
  ASSUME NEW list \in Seq(Chunks), NEW c \in Range(list)
  PROVE  RankIn(list, c) \in 1..Len(list) /\ list[RankIn(list, c)] = c
<1>1. PICK i \in DOMAIN list : list[i] = c
  BY DEF Range
<1> QED
  BY <1>1 DEF RankIn

LEMMA ScoreTyped ==
  ASSUME vector \in Seq(Chunks), keyword \in Seq(Chunks), NEW c
  PROVE  Score(c) \in Fraction
<1>1. ASSUME NEW list \in Seq(Chunks) PROVE Share(list, c) \in Fraction
  <2>1. CASE c \in Range(list)
    <3>1. RankIn(list, c) \in Nat \ {0}
      BY <2>1, RankTyped
    <3> QED
      BY <2>1, <3>1, AnswerAssumption DEF Share, Weight, Fraction
  <2>2. CASE c \notin Range(list)
    BY <2>2 DEF Share, Zero, Fraction
  <2> QED
    BY <2>1, <2>2
<1>2. ASSUME NEW x \in Fraction, NEW y \in Fraction PROVE Plus(x, y) \in Fraction
  <2>1. PICK a \in Nat, b \in Nat \ {0} : x.num = a /\ x.den = b
    BY DEF Fraction
  <2>2. PICK e \in Nat, f \in Nat \ {0} : y.num = e /\ y.den = f
    BY DEF Fraction
  <2>3. a * f + e * b \in Nat /\ b * f \in Nat \ {0}
    OBVIOUS
  <2> QED
    BY <2>1, <2>2, <2>3 DEF Plus, Fraction
<1> QED
  BY <1>1, <1>2 DEF Score

\* No two chunks were seen at once.
LEMMA SeenInOrder ==
  ASSUME vector \in Seq(Chunks), keyword \in Seq(Chunks)
  PROVE  /\ \A c \in Found : FirstSeen(c) \in Nat
         /\ \A c, d \in Found : FirstSeen(c) = FirstSeen(d) => c = d
<1>1. ASSUME NEW c \in Range(vector)
      PROVE  FirstSeen(c) \in 1..Len(vector) /\ vector[FirstSeen(c)] = c
  BY RankTyped DEF FirstSeen
<1>2. ASSUME NEW c \in Found \ Range(vector)
      PROVE  /\ FirstSeen(c) = Len(vector) + RankIn(keyword, c)
             /\ RankIn(keyword, c) \in 1..Len(keyword) /\ keyword[RankIn(keyword, c)] = c
  BY RankTyped DEF FirstSeen, Found
<1>3. Len(vector) \in Nat /\ Len(keyword) \in Nat
  OBVIOUS
<1>4. \A c \in Found : FirstSeen(c) \in Nat
  BY <1>1, <1>2, <1>3
<1>5. ASSUME NEW c \in Found, NEW d \in Found, FirstSeen(c) = FirstSeen(d) PROVE c = d
  <2>1. CASE c \in Range(vector) /\ d \in Range(vector)
    BY <1>1, <1>5, <2>1
  <2>2. CASE c \notin Range(vector) /\ d \notin Range(vector)
    BY <1>2, <1>3, <1>5, <2>2
  <2>3. CASE (c \in Range(vector)) # (d \in Range(vector))
    BY <1>1, <1>2, <1>3, <1>5, <2>3
  <2> QED
    BY <2>1, <2>2, <2>3
<1> QED
  BY <1>4, <1>5

\* Higher scores first, and of equal ones that which was seen first: a strict
\* order, which lists what was found in one way.
FusionOrder == {w \in Found \X Found : Precedes(w[1], w[2])}

LEMMA FusionOrders ==
  ASSUME vector \in Seq(Chunks), keyword \in Seq(Chunks)
  PROVE  StrictOrder(FusionOrder, Found)
<1>0. \A c, d \in Found : <<c, d>> \in FusionOrder <=> Precedes(c, d)
  BY DEF FusionOrder
<1>1. \A c \in Found : Score(c) \in Fraction /\ FirstSeen(c) \in Nat
  BY ScoreTyped, SeenInOrder
<1>2. \A c, d \in Found : Precedes(c, d) <=>
        \/ Exceeds(Score(c), Score(d))
        \/ AtLeast(Score(c), Score(d)) /\ FirstSeen(c) < FirstSeen(d)
  BY <1>1, FractionsOrdered DEF Precedes
<1>3. \A c \in Found : ~Precedes(c, c)
  BY <1>1, <1>2, FractionsOrdered
<1>4. ASSUME NEW c \in Found, NEW d \in Found, NEW e \in Found, Precedes(c, d), Precedes(d, e)
      PROVE  Precedes(c, e)
  BY <1>1, <1>2, <1>4, FractionsOrdered
<1>5. ASSUME NEW c \in Found, NEW d \in Found, c # d PROVE Precedes(c, d) \/ Precedes(d, c)
  <2>1. FirstSeen(c) < FirstSeen(d) \/ FirstSeen(d) < FirstSeen(c)
    BY <1>1, <1>5, SeenInOrder
  <2> QED
    BY <1>1, <1>2, <2>1, FractionsOrdered
<1> QED
  BY <1>0, <1>3, <1>4, <1>5 DEF StrictOrder

LEMMA RangeFinite ==
  ASSUME NEW X, NEW list \in Seq(X)
  PROVE  IsFiniteSet(Range(list)) /\ Cardinality(Range(list)) <= Len(list) /\ Range(list) \subseteq X
<1> DEFINE n == Len(list)
<1>1. n \in Nat /\ list \in [1..n -> X] /\ DOMAIN list = 1..n
  OBVIOUS
<1>2. list \in Surjection(1..n, Range(list)) /\ Range(list) \subseteq X
  BY <1>1 DEF Surjection, Range
<1> HIDE DEF n
<1>3. IsFiniteSet(1..n) /\ Cardinality(1..n) = n
  BY <1>1, FS_Interval
<1> QED
  BY <1>2, <1>3, FS_Surjection DEF n

\* The fused list: what either search found, each once and in order.
LEMMA FusedSorted ==
  ASSUME vector \in Seq(Chunks), keyword \in Seq(Chunks)
  PROVE  /\ Fused \in Seq(Found) /\ Range(Fused) = Found
         /\ \A i, j \in DOMAIN Fused : i < j => Precedes(Fused[i], Fused[j]) /\ Fused[i] # Fused[j]
<1> DEFINE n == Cardinality(Found)
<1>1. IsFiniteSet(Found) /\ n \in Nat
  <2>1. IsFiniteSet(Found)
    BY RangeFinite, FS_Union DEF Found
  <2> QED
    BY <2>1, FS_CardinalityType
<1>2. StrictOrder(FusionOrder, Found) /\ \A c, d \in Found : <<c, d>> \in FusionOrder <=> Precedes(c, d)
  BY FusionOrders DEF FusionOrder
<1>3. PICK f \in [1..n -> Found] : \A i, j \in 1..n : i < j => <<f[i], f[j]>> \in FusionOrder
  BY <1>1, <1>2, Listing
<1> HIDE DEF n
<1>4. \A g \in [1..n -> Found] : g \in Seq(Found) /\ Len(g) = n /\ DOMAIN g = 1..n
  BY <1>1
<1>5. f \in SetToSeqs(Found) /\ IsSorted(f, Precedes)
  <2>1. \A i, j \in 1..n : i < j => Precedes(f[i], f[j]) /\ f[i] # f[j]
    BY <1>2, <1>3 DEF StrictOrder
  <2>2. \A i, j \in 1..n : i # j => f[i] # f[j]
    <3> SUFFICES ASSUME NEW i \in 1..n, NEW j \in 1..n, i # j PROVE f[i] # f[j]
      OBVIOUS
    <3>1. i < j \/ j < i
      BY <1>1
    <3> QED
      BY <2>1, <3>1
  <2> QED
    BY <1>3, <1>4, <2>1, <2>2 DEF SetToSeqs, IsSorted, n
<1>6. Fused \in SetToSeqs(Found) /\ IsSorted(Fused, Precedes)
  BY <1>5 DEF Fused
<1>7. Fused \in [1..n -> Found] /\ \A i, j \in 1..n : i # j => Fused[i] # Fused[j]
  BY <1>6 DEF SetToSeqs, n
<1>8. Fused \in Seq(Found) /\ Len(Fused) = n /\ DOMAIN Fused = 1..n
  BY <1>4, <1>7
<1>9. \A i, j \in 1..n : i < j => Precedes(Fused[i], Fused[j]) /\ Fused[i] # Fused[j]
  BY <1>1, <1>6, <1>7, <1>8 DEF IsSorted
<1>10. Range(Fused) = Found
  <2>1. Fused \in Injection(1..n, Found)
    BY <1>7 DEF Injection, IsInjective
  <2>2. Cardinality(1..n) = Cardinality(Found)
    BY <1>1, FS_Interval DEF n
  <2>3. Fused \in Surjection(1..n, Found)
    BY <1>1, <2>1, <2>2, FS_Injection
  <2> QED
    BY <1>7, <2>3 DEF Surjection, Range
<1> QED
  BY <1>8, <1>9, <1>10

------------------------------------------------------------------------------
(* From the search to the citations *)

Answering == {"prompt"} \cup Providers \cup {"cite", "store", "done"}
Cited == {"store", "done"}

\* What the reranker gets stands in the order of the fusion, and whatever did
\* not fit comes after it; from the hydration on every hit has a text; the
\* passages are the first of the hits, numbered; and the citations are the hits.
HitsFused ==
    pc = "rerank" =>
        /\ Range(hits) \subseteq Found
        /\ \A i, j \in DOMAIN hits : i < j => Precedes(hits[i], hits[j]) /\ hits[i] # hits[j]
        /\ \A i \in DOMAIN hits, c \in Found \ Range(hits) : Precedes(hits[i], c)
HitsHaveText == pc \in Answering => \A i \in DOMAIN hits : hits[i] \in chunks
PassagesNumbered ==
    pc \in Answering \ {"prompt"} =>
        \A i \in DOMAIN passages : i \in DOMAIN hits /\ passages[i] = [number |-> i, chunk |-> hits[i]]
CitationsAreHits == pc \in Cited => citations = hits

AnswerInv == TypeOK /\ HitsFused /\ HitsHaveText /\ PassagesNumbered /\ CitationsAreHits

LEMMA PermutationTyped ==
  ASSUME NEW S \in SUBSET Chunks, NEW list \in SetToSeqs(S)
  PROVE  list \in Seq(Chunks) /\ Len(list) = Cardinality(S) /\ \A i \in DOMAIN list : list[i] \in S
<1> DEFINE n == Cardinality(S)
<1>1. n \in Nat
  BY AnswerAssumption, FS_Subset, FS_CardinalityType
<1>2. list \in [1..n -> S]
  BY DEF SetToSeqs
<1> HIDE DEF n
<1>3. list \in Seq(Chunks) /\ Len(list) = n /\ DOMAIN list = 1..n
  BY <1>1, <1>2
<1> QED
  BY <1>2, <1>3 DEF n

LEMMA SearchTyped ==
  ASSUME NEW list \in SetToAllKPermutations(Chunks)
  PROVE  list \in Seq(Chunks)
  BY PermutationTyped DEF SetToAllKPermutations

LEMMA EmptyTyped == \A X : <<>> \in Seq(X) /\ Len(<<>>) = 0
  OBVIOUS

LEMMA TopHitsTyped ==
  ASSUME NEW X, NEW list \in Seq(X)
  PROVE  /\ TopHits(list) \in Seq(X) /\ Len(TopHits(list)) <= TopK
         /\ Len(TopHits(list)) = IF Len(list) < TopK THEN Len(list) ELSE TopK
         /\ \A i \in DOMAIN TopHits(list) : i \in DOMAIN list /\ TopHits(list)[i] = list[i]
<1> DEFINE n == IF Len(list) < TopK THEN Len(list) ELSE TopK
<1>1. n \in Nat /\ n <= TopK /\ n <= Len(list) /\ Len(list) \in Nat /\ DOMAIN list = 1..Len(list)
  BY AnswerAssumption
<1> HIDE DEF n
<1>2. /\ SubSeq(list, 1, n) \in Seq(X) /\ Len(SubSeq(list, 1, n)) = n
      /\ \A i \in 1..n : SubSeq(list, 1, n)[i] = list[i]
  BY <1>1
<1>3. TopHits(list) = SubSeq(list, 1, n)
  BY DEF TopHits, n
<1> QED
  BY <1>1, <1>2, <1>3 DEF n

LEMMA AnswerInit == Init => AnswerInv
<1> SUFFICES ASSUME Init PROVE AnswerInv
  OBVIOUS
<1>1. TypeOK
  <2>1. pc \in Pc /\ ended \in Providers \cup {"none"}
    BY DEF Init, Pc
  <2>2. /\ vector \in Seq(Chunks) /\ keyword \in Seq(Chunks) /\ hits \in Seq(Chunks) /\ citations \in Seq(Chunks)
        /\ passages \in Seq(Passage) /\ tokens \in Seq(Providers)
    BY DEF Init
  <2>3. Len(keyword) <= TopK /\ Len(hits) <= TopK /\ Len(tokens) <= MaxTokens
    BY AnswerAssumption DEF Init
  <2> QED
    BY <2>1, <2>2, <2>3 DEF Init, TypeOK
<1> QED
  BY <1>1 DEF Init, AnswerInv, HitsFused, HitsHaveText, PassagesNumbered, CitationsAreHits, Answering, Cited,
              Providers

\* A step that changes nothing that was found or said, and goes back to nothing
LEMMA AnswerKept ==
  ASSUME AnswerInv, UNCHANGED <<setting, valid, search, chunks, passages, reply, outcome>>,
         deleted' \subseteq Documents,
         \/ pc' = pc
         \/ pc' \in {"failed", "left"}
         \/ pc = "rewrite" /\ pc' = "vector"
         \/ pc = "primary" /\ pc' = "fallback"
  PROVE  AnswerInv'
<1>1. TypeOK'
  BY DEF AnswerInv, TypeOK, search, reply, outcome, Pc, Over, Providers
<1>2. Found' = Found /\ \A c, d : Precedes(c, d)' <=> Precedes(c, d)
  BY DEF search, Found, Precedes, FirstSeen, Score, Share
<1>3. HitsFused'
  BY <1>2 DEF AnswerInv, HitsFused, search, Providers
<1> QED
  BY <1>1, <1>3 DEF AnswerInv, HitsHaveText, PassagesNumbered, CitationsAreHits, Answering, Cited,
                    Providers, search, outcome

\* Before the hits are hydrated only their order matters.
LEMMA SearchStep ==
  ASSUME AnswerInv, VectorSearch \/ KeywordSearch
  PROVE  AnswerInv'
<1> USE DEF AnswerInv
<1>1. /\ pc' \in {"keyword", "fuse"} /\ vector' \in Seq(Chunks) /\ keyword' \in Seq(Chunks) /\ Len(keyword') <= TopK
      /\ UNCHANGED <<setting, deleted, valid, hits, chunks, passages, tokens, ended, citations, cached>>
  BY SearchTyped, EmptyTyped DEF VectorSearch, KeywordSearch, At, TypeOK, reply, outcome
<1>2. TypeOK'
  BY <1>1 DEF TypeOK, Pc
<1> QED
  BY <1>1, <1>2 DEF HitsFused, HitsHaveText, PassagesNumbered, CitationsAreHits, Answering, Cited, Providers

LEMMA FuseStep ==
  ASSUME AnswerInv, Fuse
  PROVE  AnswerInv'
<1> USE DEF AnswerInv
<1>1. /\ pc' = "rerank" /\ hits' = TopHits(Fused)
      /\ UNCHANGED <<setting, deleted, valid, vector, keyword, chunks, passages, tokens, ended, citations, cached>>
  BY DEF Fuse, At, reply, outcome
<1>2. /\ Fused \in Seq(Found) /\ Range(Fused) = Found /\ Found \subseteq Chunks
      /\ \A i, j \in DOMAIN Fused : i < j => Precedes(Fused[i], Fused[j]) /\ Fused[i] # Fused[j]
  BY FusedSorted, RangeFinite DEF TypeOK, Found
<1>3. /\ hits' \in Seq(Found) /\ Len(hits') <= TopK
      /\ Len(hits') = IF Len(Fused) < TopK THEN Len(Fused) ELSE TopK
      /\ \A i \in DOMAIN hits' : i \in DOMAIN Fused /\ hits'[i] = Fused[i]
  BY <1>1, <1>2, TopHitsTyped
<1>4. hits' \in Seq(Chunks)
  BY <1>2, <1>3
<1>5. TypeOK'
  BY <1>1, <1>3, <1>4 DEF TypeOK, Pc
<1>6. ASSUME NEW i \in DOMAIN hits', NEW c \in Found \ Range(hits') PROVE Precedes(hits'[i], c)
  <2>1. PICK j \in DOMAIN Fused : Fused[j] = c
    BY <1>2 DEF Range
  <2>2. j \notin DOMAIN hits'
    BY <1>3, <1>6, <2>1 DEF Range
  <2>3. /\ DOMAIN hits' = 1..Len(hits') /\ DOMAIN Fused = 1..Len(Fused)
        /\ Len(hits') \in Nat /\ Len(Fused) \in Nat
    BY <1>2, <1>3
  <2>4. i < j
    BY <2>2, <2>3
  <2> QED
    BY <1>2, <1>3, <2>1, <2>4
<1>7. Range(hits') \subseteq Found
  BY <1>3, RangeFinite
<1>8. Found' = Found /\ \A c, d : Precedes(c, d)' <=> Precedes(c, d)
  BY <1>1 DEF Found, Precedes, FirstSeen, Score, Share
<1>9. HitsFused'
  BY <1>2, <1>3, <1>6, <1>7, <1>8 DEF HitsFused
<1> QED
  BY <1>1, <1>5, <1>9 DEF HitsHaveText, PassagesNumbered, CitationsAreHits, Answering, Cited, Providers

LEMMA RerankStep ==
  ASSUME AnswerInv, Rerank
  PROVE  AnswerInv'
<1> USE DEF AnswerInv
<1> DEFINE scored == {c \in Range(hits) : Present(c)}
<1>1. /\ pc' = "hydrate" /\ hits' \in SetToSeqs(scored) \cup {hits}
      /\ UNCHANGED <<setting, deleted, valid, vector, keyword, chunks, passages, tokens, ended, citations, cached>>
  BY DEF Rerank, At, reply, outcome
<1>2. /\ IsFiniteSet(Range(hits)) /\ Cardinality(Range(hits)) <= Len(hits) /\ Range(hits) \subseteq Chunks
      /\ Len(hits) \in Nat /\ Len(hits) <= TopK /\ hits \in Seq(Chunks)
  BY RangeFinite DEF TypeOK
<1>3. scored \in SUBSET Range(hits) /\ scored \in SUBSET Chunks
  BY <1>2
<1> HIDE DEF scored
<1>4. hits' \in Seq(Chunks) /\ Len(hits') <= TopK
  <2>1. /\ Cardinality(scored) <= Cardinality(Range(hits)) /\ Cardinality(scored) \in Nat
        /\ Cardinality(Range(hits)) \in Nat
    BY <1>2, <1>3, FS_Subset, FS_CardinalityType
  <2>2. Cardinality(scored) <= TopK
    BY <1>2, <2>1, AnswerAssumption
  <2>3. ASSUME hits' \in SetToSeqs(scored) PROVE hits' \in Seq(Chunks) /\ Len(hits') <= TopK
    BY <1>3, <2>2, <2>3, PermutationTyped
  <2> QED
    BY <1>1, <1>2, <2>3
<1>5. TypeOK'
  BY <1>1, <1>4 DEF TypeOK, Pc
<1> QED
  BY <1>1, <1>5 DEF HitsFused, HitsHaveText, PassagesNumbered, CitationsAreHits, Answering, Cited, Providers

\* The hits that are left are those that have a text.
LEMMA HydrateStep ==
  ASSUME AnswerInv, Hydrate
  PROVE  AnswerInv'
<1> USE DEF AnswerInv
<1>1. /\ pc' = "prompt" /\ chunks' = {c \in Range(hits) : Present(c)} /\ hits' = Among(hits, chunks')
      /\ vector' = <<>> /\ keyword' = <<>>
      /\ UNCHANGED <<setting, deleted, valid, passages, tokens, ended, citations, cached>>
  BY DEF Hydrate, Hydrated, At, reply, outcome
<1>2. /\ Range(hits) \subseteq Chunks /\ Len(hits) \in Nat /\ Len(hits) <= TopK /\ hits \in Seq(Chunks)
  BY RangeFinite DEF TypeOK
<1>3. /\ hits' \in Seq(Chunks) /\ Len(hits') <= Len(hits)
      /\ \A i \in DOMAIN hits' : hits'[i] \in chunks'
  BY <1>1, <1>2, AmongTyped
<1>4. Len(hits') <= TopK /\ Len(keyword') <= TopK /\ vector' \in Seq(Chunks) /\ keyword' \in Seq(Chunks)
  BY <1>1, <1>2, <1>3, AnswerAssumption
<1>5. TypeOK'
  BY <1>1, <1>2, <1>3, <1>4 DEF TypeOK, Pc
<1> QED
  BY <1>1, <1>3, <1>5 DEF HitsFused, HitsHaveText, PassagesNumbered, CitationsAreHits, Answering, Cited, Providers

\* Every hit has a text, so the passages are numbered as the hits are.
LEMMA PromptStep ==
  ASSUME AnswerInv, BuildPrompt
  PROVE  AnswerInv'
<1> USE DEF AnswerInv
<1> DEFINE numbered == [i \in DOMAIN hits |-> [number |-> i, chunk |-> hits[i]]]
           wanted == [number : DOMAIN hits, chunk : chunks]
           texts == Among(numbered, wanted)
<1>1. /\ pc = "prompt" /\ pc' = "primary" /\ \E n \in 0..Len(texts) : passages' = SubSeq(texts, 1, n)
      /\ UNCHANGED <<setting, deleted, valid, vector, keyword, hits, chunks, tokens, ended, citations, cached>>
  BY DEF BuildPrompt, At, search, reply, outcome
<1>2. hits \in Seq(Chunks) /\ \A i \in DOMAIN hits : hits[i] \in chunks
  BY <1>1 DEF TypeOK, HitsHaveText, Answering
<1>3. /\ DOMAIN hits = 1..Len(hits) /\ Len(hits) \in Nat /\ \A i \in DOMAIN hits : hits[i] \in Chunks
      /\ DOMAIN hits \subseteq Nat \ {0}
  BY <1>2
<1>4. numbered \in Seq(Passage) /\ DOMAIN numbered = DOMAIN hits /\ Len(numbered) = Len(hits)
  <2>1. \A i \in DOMAIN hits : [number |-> i, chunk |-> hits[i]] \in Passage
    BY <1>3 DEF Passage
  <2>2. numbered \in [1..Len(hits) -> Passage]
    BY <1>3, <2>1
  <2> HIDE DEF numbered
  <2> QED
    BY <1>3, <2>2
<1>5. \A i \in DOMAIN numbered : numbered[i] \in wanted /\ numbered[i] = [number |-> i, chunk |-> hits[i]]
  BY <1>2, <1>4
<1> HIDE DEF numbered, wanted
<1>6. texts = numbered
  BY <1>4, <1>5, AmongAll
<1>7. PICK n \in 0..Len(hits) : passages' = SubSeq(numbered, 1, n)
  BY <1>1, <1>4, <1>6
<1>8. /\ passages' \in Seq(Passage) /\ DOMAIN passages' \subseteq DOMAIN hits
      /\ \A i \in DOMAIN passages' : passages'[i] = numbered[i]
  <2>1. n \in Nat /\ n <= Len(numbered)
    BY <1>3, <1>4, <1>7
  <2>2. /\ SubSeq(numbered, 1, n) \in Seq(Passage) /\ DOMAIN SubSeq(numbered, 1, n) = 1..n
        /\ \A i \in 1..n : SubSeq(numbered, 1, n)[i] = numbered[i]
    BY <1>4, <2>1
  <2> QED
    BY <1>3, <1>7, <2>2
<1>9. TypeOK'
  BY <1>1, <1>8 DEF TypeOK, Pc, Providers
<1> QED
  BY <1>1, <1>4, <1>5, <1>8, <1>9 DEF HitsFused, HitsHaveText, PassagesNumbered, CitationsAreHits, Answering,
     Cited, Providers

\* The citations are the hits, as every hit has a text.
LEMMA ReplyStepKeepsHits ==
  ASSUME AnswerInv, (\E p \in Providers : Yield(p) \/ EndStream(p)) \/ Cite \/ Store
  PROVE  AnswerInv'
<1> USE DEF AnswerInv
<1>1. UNCHANGED <<setting, deleted, valid, vector, keyword, hits, chunks, passages>>
  BY DEF Yield, EndStream, Cite, Store, At, search
<1>2. hits \in Seq(Chunks) /\ (pc \in Answering => Among(hits, chunks) = hits)
  BY AmongAll DEF TypeOK, HitsHaveText
<1>3. ASSUME NEW p \in Providers, Yield(p) PROVE AnswerInv'
  <2>1. pc = p /\ pc' = p /\ tokens' = Append(tokens, p) /\ Len(tokens) < MaxTokens /\ UNCHANGED <<ended, citations, cached>>
    BY <1>3 DEF Yield, At, outcome
  <2>2. tokens' \in Seq(Providers) /\ Len(tokens') <= MaxTokens
    BY <2>1, AnswerAssumption DEF TypeOK
  <2>3. TypeOK'
    BY <1>1, <2>1, <2>2 DEF TypeOK
  <2> QED
    BY <1>1, <2>1, <2>3 DEF HitsFused, HitsHaveText, PassagesNumbered, CitationsAreHits, Answering, Cited,
       Providers
<1>4. ASSUME NEW p \in Providers, EndStream(p) PROVE AnswerInv'
  <2>1. pc = p /\ pc' = "cite" /\ ended' = p /\ UNCHANGED <<tokens, citations, cached>>
    BY <1>4 DEF EndStream, At, outcome
  <2>2. TypeOK'
    BY <1>1, <2>1 DEF TypeOK, Pc
  <2> QED
    BY <1>1, <2>1, <2>2 DEF HitsFused, HitsHaveText, PassagesNumbered, CitationsAreHits, Answering, Cited,
       Providers
<1>5. CASE Cite
  <2>1. pc = "cite" /\ pc' = "store" /\ citations' = hits /\ UNCHANGED <<tokens, ended, cached>>
    BY <1>2, <1>5 DEF Cite, At, reply, Answering
  <2>2. TypeOK'
    BY <1>1, <2>1 DEF TypeOK, Pc
  <2> QED
    BY <1>1, <2>1, <2>2 DEF HitsFused, HitsHaveText, PassagesNumbered, CitationsAreHits, Answering, Cited,
       Providers
<1>6. CASE Store
  <2>1. pc = "store" /\ pc' = "done" /\ cached' \in BOOLEAN /\ UNCHANGED <<tokens, ended, citations>>
    BY <1>6 DEF Store, At, reply, TypeOK
  <2>2. TypeOK'
    BY <1>1, <2>1 DEF TypeOK, Pc, Over
  <2> QED
    BY <1>1, <2>1, <2>2 DEF HitsFused, HitsHaveText, PassagesNumbered, CitationsAreHits, Answering, Cited,
       Providers
<1> QED
  BY <1>3, <1>4, <1>5, <1>6

LEMMA AnswerStep == AnswerInv /\ [Next]_vars => AnswerInv'
<1> SUFFICES ASSUME AnswerInv, [Next]_vars PROVE AnswerInv'
  OBVIOUS
<1>0. deleted \subseteq Documents
  BY DEF AnswerInv, TypeOK
<1>1. CASE UNCHANGED vars
  BY <1>0, <1>1, AnswerKept DEF vars
<1>2. CASE Rewrite
  <2>1. /\ pc = "rewrite" /\ pc' = "vector" /\ valid' \in BOOLEAN
        /\ UNCHANGED <<setting, deleted, search, chunks, passages, reply, outcome>>
    BY <1>2 DEF Rewrite, At
  <2> QED
    BY <2>1 DEF AnswerInv, TypeOK, HitsFused, HitsHaveText, PassagesNumbered, CitationsAreHits, Answering, Cited,
       Providers, Pc, search, reply, outcome
<1>3. CASE Retrieval
  BY <1>2, <1>3, SearchStep, FuseStep, RerankStep, HydrateStep, PromptStep DEF Retrieval
<1>4. CASE FallBack \/ Leave \/ SearchFails \/ RetrieveFails \/ StreamFails
  BY <1>0, <1>4, AnswerKept DEF FallBack, Leave, SearchFails, RetrieveFails, StreamFails, Fails, At
<1>5. ASSUME NEW d \in Documents, DeleteDocument(d) PROVE AnswerInv'
  BY <1>0, <1>5, AnswerKept DEF DeleteDocument
<1> QED
  BY <1>1, <1>3, <1>4, <1>5, ReplyStepKeepsHits DEF Next, Generation

\* The variables of a question hold what they should, and the lists that are
\* cut are no longer than TopK.
THEOREM TypeCorrect == Spec => []TypeOK
<1>1. AnswerInv => TypeOK
  BY DEF AnswerInv
<1> QED
  BY <1>1, AnswerInit, AnswerStep, PTL DEF Spec

\* Whatever is deleted meanwhile, the number of a passage is the place of its
\* chunk among the citations.
THEOREM NumbersAreCited == Spec => []CitationsFollowPrompt
<1>1. AnswerInv => CitationsFollowPrompt
  BY DEF AnswerInv, CitationsFollowPrompt, CitationsAreHits, PassagesNumbered, Answering, Cited
<1> QED
  BY <1>1, AnswerInit, AnswerStep, PTL DEF Spec

\* Up to K + 1, two low ranks weigh more than the highest one.
ListsShort == Len(vector) <= K + 1 /\ Len(keyword) <= K + 1

\* While the searches return at most K + 1 chunks, the fused list, cut to TopK, has
\* those that both have found before those that one has found.
THEOREM BothComeFirst == Spec /\ []ListsShort => []BothBeatOne
<1>1. AnswerInv /\ ListsShort => BothBeatOne
  <2> SUFFICES ASSUME AnswerInv, ListsShort, pc = "rerank",
                      NEW c \in Range(vector) \cap Range(keyword),
                      NEW d \in (Range(vector) \cup Range(keyword)) \ (Range(vector) \cap Range(keyword)),
                      d \in Range(hits)
               PROVE  c \in Range(hits) /\ RankIn(hits, c) < RankIn(hits, d)
    BY DEF BothBeatOne
  <2>1. ~Precedes(d, c) /\ c \in Found /\ c # d
    BY BothPrecedeOne DEF AnswerInv, TypeOK, ListsShort, Found
  <2>2. RankIn(hits, d) \in DOMAIN hits /\ hits[RankIn(hits, d)] = d /\ hits \in Seq(Chunks)
    BY RankTyped DEF AnswerInv, TypeOK
  <2>3. c \in Range(hits)
    BY <2>1, <2>2 DEF AnswerInv, HitsFused
  <2>4. RankIn(hits, c) \in DOMAIN hits /\ hits[RankIn(hits, c)] = c
    BY <2>2, <2>3, RankTyped
  <2>5. ~(RankIn(hits, d) < RankIn(hits, c))
    BY <2>1, <2>2, <2>4 DEF AnswerInv, HitsFused
  <2>6. RankIn(hits, c) \in Nat /\ RankIn(hits, d) \in Nat /\ RankIn(hits, c) # RankIn(hits, d)
    BY <2>1, <2>2, <2>4
  <2> QED
    BY <2>3, <2>5, <2>6
<1> QED
  BY <1>1, AnswerInit, AnswerStep, PTL DEF Spec
=============================================================================
