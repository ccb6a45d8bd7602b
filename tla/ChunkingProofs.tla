--------------------------- MODULE ChunkingProofs ---------------------------
(***************************************************************************)
(* Theorems about Chunking, for every document, chunk size and overlap:    *)
(* the four invariants that MCChunking checks on small documents.          *)
(*                                                                         *)
(* Four inductive invariants, each upon the first.  ReadInv: the types,    *)
(* the loop each variable belongs to, and blocks that fit what the parser  *)
(* has read (it stands outside of code and of tables).  SectionInv: every  *)
(* heading is passed, waits among the blocks or is not yet read, so a line *)
(* stands under the last heading passed.  LineInv: chunks, what is being   *)
(* built, sentences, buffer and blocks follow one another in the document  *)
(* and hold every line of the body read so far.  SizeInv, for which the    *)
(* order of lines is needed: what is being built fits a chunk or is one    *)
(* long sentence, and is empty only after a chunk that ends with a         *)
(* sentence and has no room for an empty string.                           *)
(*                                                                         *)
(* Sums, the fences open after a line and the ends of sentences are        *)
(* recursions and counts; what they compute is proved by induction over    *)
(* numbers, as a fact about sets of numbers (AllNumbers).                  *)
(*                                                                         *)
(* The operators with a parameter d are those of Chunking for a document   *)
(* d: no step changes doc, so they say the same before and after it.       *)
(***************************************************************************)
EXTENDS Chunking, FiniteSetTheorems, WellFoundedInduction, TLAPS

------------------------------------------------------------------------------
(* Induction over numbers *)

\* There is a least number in every set of them that is not empty.
LEMMA LeastNumber ==
  ASSUME NEW T, T \subseteq Nat, T # {}
  PROVE  \E n \in T : \A m \in T : n <= m
<1> DEFINE Below == {0..n : n \in T}
<1>1. Below \subseteq FiniteSubsetsOf(Nat)
  <2>1. \A n \in Nat : IsFiniteSet(0..n) /\ 0..n \subseteq Nat
    BY FS_Interval
  <2>2. \A b \in Below : \E n \in Nat : b = 0..n
    OBVIOUS
  <2>3. \A b \in Below : b \in FiniteSubsetsOf(Nat)
    BY <2>1, <2>2 DEF FiniteSubsetsOf
  <2> QED
    BY <2>3
<1>2. PICK b \in Below : \A c \in Below : <<c, b>> \notin StrictSubsetOrdering(Nat)
  <2>1. Below # {}
    OBVIOUS
  <2> HIDE DEF Below
  <2> QED
    BY <1>1, <2>1, FS_StrictSubsetOrderingWellFounded, WFMin
<1>3. PICK n \in T : b = 0..n
  OBVIOUS
<1>4. ASSUME NEW m \in T, m < n PROVE FALSE
  <2>1. n \in Nat /\ m \in Nat
    OBVIOUS
  <2>2. 0..m \subseteq 0..n /\ n \in 0..n /\ n \notin 0..m
    BY <1>4, <2>1
  <2>3. 0..m \in SUBSET Nat /\ 0..n \in SUBSET Nat /\ 0..m # 0..n
    BY <2>1, <2>2
  <2>4. <<0..m, 0..n>> \in StrictSubsetOrdering(Nat)
    BY <2>2, <2>3 DEF StrictSubsetOrdering
  <2>5. 0..m \in Below
    OBVIOUS
  <2> QED
    BY <1>2, <1>3, <2>4, <2>5
<1> QED
  BY <1>4

\* Induction, for a set of numbers
LEMMA AllNumbers ==
  ASSUME NEW T, 0 \in T, \A n \in Nat : n \in T => n + 1 \in T
  PROVE  Nat \subseteq T
<1> SUFFICES ASSUME Nat \ T # {} PROVE FALSE
  OBVIOUS
<1>1. PICK n \in Nat \ T : \A m \in Nat \ T : n <= m
  BY LeastNumber
<1>2. n - 1 \in Nat /\ n - 1 \in T
  BY <1>1
<1> QED
  BY <1>2

\* f starts at a and goes on by G, n times.
Computes(f, a, G, n) == f[0] = a /\ \A i \in 1..n : f[i] = G[<<i, f[i - 1]>>]

\* A recursion by steps defines a function.
LEMMA Recursion ==
  \A S : \A a \in S, G \in [Nat \X S -> S], n \in Nat : \E f \in [0..n -> S] : Computes(f, a, G, n)
<1> SUFFICES ASSUME NEW S, NEW a \in S, NEW G \in [Nat \X S -> S], NEW n \in Nat
             PROVE  \E f \in [0..n -> S] : Computes(f, a, G, n)
  OBVIOUS
<1> DEFINE T == {k \in Nat : \E f \in [0..k -> S] : Computes(f, a, G, k)}
<1>1. 0 \in T
  <2>1. [i \in 0..0 |-> a] \in [0..0 -> S] /\ Computes([i \in 0..0 |-> a], a, G, 0)
    BY DEF Computes
  <2> QED
    BY <2>1
<1>2. ASSUME NEW k \in Nat, k \in T PROVE k + 1 \in T
  <2>1. PICK f \in [0..k -> S] : Computes(f, a, G, k)
    BY <1>2
  <2>2. G[<<k + 1, f[k]>>] \in S
    OBVIOUS
  <2> DEFINE g == [i \in 0..(k + 1) |-> IF i = k + 1 THEN G[<<k + 1, f[k]>>] ELSE f[i]]
  <2>3. g \in [0..(k + 1) -> S]
    <3>1. ASSUME NEW i \in 0..(k + 1) PROVE g[i] \in S
      <4>1. i = k + 1 \/ i \in 0..k
        OBVIOUS
      <4> QED
        BY <2>2, <4>1
    <3> QED
      BY <3>1
  <2>4. g[k + 1] = G[<<k + 1, f[k]>>] /\ \A i \in 0..k : g[i] = f[i]
    OBVIOUS
  <2> HIDE DEF g
  <2>5. ASSUME NEW i \in 1..(k + 1) PROVE g[i] = G[<<i, g[i - 1]>>]
    <3>1. CASE i = k + 1
      <4>1. i - 1 = k /\ k \in 0..k
        BY <3>1
      <4> QED
        BY <2>4, <3>1, <4>1
    <3>2. CASE i # k + 1
      <4>1. i \in 1..k /\ i \in 0..k /\ i - 1 \in 0..k
        BY <3>2
      <4> QED
        BY <2>1, <2>4, <4>1 DEF Computes
    <3> QED
      BY <3>1, <3>2
  <2>6. g[0] = a
    BY <2>1, <2>4 DEF Computes
  <2>7. Computes(g, a, G, k + 1)
    BY <2>5, <2>6 DEF Computes
  <2> QED
    BY <2>3, <2>7
<1> HIDE DEF T
<1>3. n \in T
  BY <1>1, <1>2, AllNumbers
<1> QED
  BY <1>3 DEF T

------------------------------------------------------------------------------
(* Sums *)

\* What SumOf adds up to after each number
Sums(sum, numbers) ==
    /\ sum[0] = 0
    /\ \A i \in 1..Len(numbers) : sum[i] = sum[i - 1] + numbers[i]

LEMMA SumRecursion ==
  \A numbers \in Seq(Nat) :
      \E sum \in [0..Len(numbers) -> Nat] : Sums(sum, numbers) /\ SumOf(numbers) = sum[Len(numbers)]
<1> SUFFICES ASSUME NEW numbers \in Seq(Nat)
             PROVE  \E sum \in [0..Len(numbers) -> Nat] :
                        Sums(sum, numbers) /\ SumOf(numbers) = sum[Len(numbers)]
  OBVIOUS
<1> DEFINE N == Len(numbers)
           add == [w \in Nat \X Nat |-> w[2] + (IF w[1] \in 1..N THEN numbers[w[1]] ELSE 0)]
           Is(f) == f = [n \in 0..N |-> IF n = 0 THEN 0 ELSE f[n - 1] + numbers[n]]
<1>1. N \in Nat /\ \A n \in 1..N : numbers[n] \in Nat
  OBVIOUS
<1> HIDE DEF N
<1>2. add \in [Nat \X Nat -> Nat] /\ \A n \in 1..N, v \in Nat : add[<<n, v>>] = v + numbers[n]
  BY <1>1
<1> HIDE DEF add
<1>3. PICK f \in [0..N -> Nat] : Computes(f, 0, add, N)
  BY <1>1, <1>2, Recursion
<1>4. Is(f)
  <2>1. ASSUME NEW n \in 0..N PROVE f[n] = IF n = 0 THEN 0 ELSE f[n - 1] + numbers[n]
    <3>1. CASE n = 0
      BY <1>3, <3>1 DEF Computes
    <3>2. CASE n # 0
      <4>1. n \in 1..N /\ n - 1 \in 0..N
        BY <1>1, <3>2
      <4>2. f[n - 1] \in Nat /\ f[n] = add[<<n, f[n - 1]>>]
        BY <1>3, <4>1 DEF Computes
      <4> QED
        BY <1>2, <3>2, <4>1, <4>2
    <3> QED
      BY <3>1, <3>2
  <2> QED
    BY <2>1
<1>5. PICK sum : Is(sum) /\ SumOf(numbers) = sum[N]
  <2> DEFINE Sum == CHOOSE g : Is(g)
  <2>1. Is(Sum)
    BY <1>4
  <2>2. SumOf(numbers) = Sum[N]
    BY DEF SumOf, N
  <2> QED
    BY <2>1, <2>2
<1>6. sum[0] = 0 /\ \A i \in 1..N : sum[i] = sum[i - 1] + numbers[i]
  <2>1. 0 \in 0..N /\ \A i \in 1..N : i \in 0..N /\ i # 0
    BY <1>1
  <2> QED
    BY <1>5, <2>1
<1>7. \A n \in 0..N : sum[n] \in Nat
  <2> DEFINE T == {n \in Nat : n <= N => sum[n] \in Nat}
  <2>1. 0 \in T
    BY <1>6
  <2>2. ASSUME NEW n \in Nat, n \in T PROVE n + 1 \in T
    <3>1. CASE n + 1 <= N
      <4>1. n + 1 \in 1..N /\ n <= N /\ (n + 1) - 1 = n
        BY <1>1, <3>1
      <4>2. sum[n] \in Nat /\ numbers[n + 1] \in Nat
        BY <1>1, <2>2, <4>1
      <4>3. sum[n + 1] = sum[n] + numbers[n + 1]
        BY <1>6, <4>1
      <4>4. sum[n + 1] \in Nat
        BY <4>2, <4>3
      <4> QED
        BY <4>4
    <3> QED
      BY <3>1
  <2> HIDE DEF T
  <2>3. Nat \subseteq T
    BY <2>1, <2>2, AllNumbers
  <2> QED
    BY <1>1, <2>3 DEF T
<1>8. sum \in [0..N -> Nat]
  <2>1. sum = [n \in 0..N |-> sum[n]]
    BY <1>5
  <2> QED
    BY <1>7, <2>1
<1> QED
  BY <1>5, <1>6, <1>8 DEF N, Sums

LEMMA SumTyped == \A numbers \in Seq(Nat) : SumOf(numbers) \in Nat
<1> SUFFICES ASSUME NEW numbers \in Seq(Nat) PROVE SumOf(numbers) \in Nat
  OBVIOUS
<1>1. PICK sum \in [0..Len(numbers) -> Nat] : SumOf(numbers) = sum[Len(numbers)]
  BY SumRecursion
<1>2. Len(numbers) \in 0..Len(numbers)
  OBVIOUS
<1> QED
  BY <1>1, <1>2

LEMMA SumEmpty == SumOf(<<>>) = 0
<1>1. <<>> \in Seq(Nat) /\ Len(<<>>) = 0
  OBVIOUS
<1>2. PICK sum \in [0..Len(<<>>) -> Nat] : Sums(sum, <<>>) /\ SumOf(<<>>) = sum[Len(<<>>)]
  BY <1>1, SumRecursion
<1> QED
  BY <1>1, <1>2 DEF Sums

LEMMA AddUp ==
  \A x, y, z, p, q, r \in Nat : z <= x + y /\ r <= p + q => z + r <= (x + p) + (y + q)
  OBVIOUS

\* A sum is at most the sum of two others if each of its numbers is.
LEMMA SumOfTwo ==
  ASSUME NEW f \in Seq(Nat), NEW g \in Seq(Nat), NEW h \in Seq(Nat),
         Len(f) = Len(h), Len(g) = Len(h), \A i \in 1..Len(h) : h[i] <= f[i] + g[i]
  PROVE  SumOf(h) <= SumOf(f) + SumOf(g)
<1> DEFINE N == Len(h)
<1>1. N \in Nat /\ \A i \in 1..N : f[i] \in Nat /\ g[i] \in Nat /\ h[i] \in Nat
  <2>1. \A seq \in Seq(Nat) : Len(seq) \in Nat /\ \A i \in 1..Len(seq) : seq[i] \in Nat
    OBVIOUS
  <2> QED
    BY <2>1
<1>2. PICK a \in [0..N -> Nat] : Sums(a, f) /\ SumOf(f) = a[N]
  BY SumRecursion
<1>3. PICK b \in [0..N -> Nat] : Sums(b, g) /\ SumOf(g) = b[N]
  BY SumRecursion
<1>4. PICK c \in [0..N -> Nat] : Sums(c, h) /\ SumOf(h) = c[N]
  BY SumRecursion
<1>5. /\ a[0] = 0 /\ b[0] = 0 /\ c[0] = 0
      /\ \A i \in 1..N : /\ a[i] = a[i - 1] + f[i] /\ b[i] = b[i - 1] + g[i] /\ c[i] = c[i - 1] + h[i]
                         /\ h[i] <= f[i] + g[i]
  BY <1>2, <1>3, <1>4 DEF Sums
<1> HIDE DEF N
<1> DEFINE T == {n \in Nat : n <= N => c[n] <= a[n] + b[n]}
<1>6. 0 \in T
  BY <1>1, <1>5
<1>7. ASSUME NEW n \in Nat, n \in T PROVE n + 1 \in T
  <2>1. CASE n + 1 <= N
    <3>1. n + 1 \in 1..N /\ n <= N /\ (n + 1) - 1 = n /\ n \in 0..N
      BY <1>1, <2>1
    <3>2. a[n] \in Nat /\ b[n] \in Nat /\ c[n] \in Nat
      BY <3>1
    <3>3. f[n + 1] \in Nat /\ g[n + 1] \in Nat /\ h[n + 1] \in Nat /\ h[n + 1] <= f[n + 1] + g[n + 1]
      BY <1>1, <1>5, <3>1
    <3>4. /\ a[n + 1] = a[n] + f[n + 1] /\ b[n + 1] = b[n] + g[n + 1] /\ c[n + 1] = c[n] + h[n + 1]
      BY <1>5, <3>1
    <3>5. c[n] <= a[n] + b[n]
      BY <1>7, <3>1
    <3>6. c[n] + h[n + 1] <= (a[n] + f[n + 1]) + (b[n] + g[n + 1])
      BY <3>2, <3>3, <3>5, AddUp
    <3>7. c[n + 1] <= a[n + 1] + b[n + 1]
      BY <3>4, <3>6
    <3> QED
      BY <3>7
  <2> QED
    BY <2>1
<1> HIDE DEF T
<1>8. N \in T
  BY <1>1, <1>6, <1>7, AllNumbers
<1> QED
  BY <1>2, <1>3, <1>4, <1>8 DEF T

\* One number more
LEMMA SumAppend ==
  ASSUME NEW f \in Seq(Nat), NEW g \in Seq(Nat), Len(g) = Len(f) + 1, \A i \in 1..Len(f) : g[i] = f[i]
  PROVE  SumOf(g) = SumOf(f) + g[Len(g)]
<1> DEFINE N == Len(f)
<1>1. N \in Nat /\ Len(g) = N + 1
  OBVIOUS
<1>2. PICK a \in [0..N -> Nat] : Sums(a, f) /\ SumOf(f) = a[N]
  BY SumRecursion
<1>3. PICK b \in [0..(N + 1) -> Nat] : Sums(b, g) /\ SumOf(g) = b[N + 1]
  BY SumRecursion
<1>5. /\ a[0] = 0 /\ b[0] = 0
      /\ \A i \in 1..N : a[i] = a[i - 1] + f[i]
      /\ \A i \in 1..(N + 1) : b[i] = b[i - 1] + g[i]
  BY <1>1, <1>2, <1>3 DEF Sums
<1>6. \A i \in 1..N : g[i] = f[i]
  OBVIOUS
<1> HIDE DEF N
<1> DEFINE T == {n \in Nat : n <= N => b[n] = a[n]}
<1>7. 0 \in T
  BY <1>5
<1>8. ASSUME NEW n \in Nat, n \in T PROVE n + 1 \in T
  <2>1. CASE n + 1 <= N
    <3>1. n + 1 \in 1..N /\ n + 1 \in 1..(N + 1) /\ n <= N /\ (n + 1) - 1 = n
      BY <1>1, <2>1
    <3>2. a[n + 1] = a[n] + f[n + 1] /\ b[n + 1] = b[n] + g[n + 1] /\ g[n + 1] = f[n + 1]
      BY <1>5, <1>6, <3>1
    <3> QED
      BY <1>8, <3>1, <3>2
  <2> QED
    BY <2>1
<1> HIDE DEF T
<1>9. N \in T
  BY <1>1, <1>7, <1>8, AllNumbers
<1>10. N + 1 \in 1..(N + 1) /\ (N + 1) - 1 = N
  BY <1>1
<1>11. b[N + 1] = b[N] + g[N + 1]
  BY <1>5, <1>10
<1> QED
  BY <1>1, <1>2, <1>3, <1>9, <1>11 DEF T

LEMMA SumOfZeros ==
  ASSUME NEW f \in Seq(Nat), \A i \in 1..Len(f) : f[i] = 0
  PROVE  SumOf(f) = 0
<1> DEFINE N == Len(f)
<1>1. N \in Nat /\ \A i \in 1..N : f[i] = 0
  OBVIOUS
<1>2. PICK a \in [0..N -> Nat] : Sums(a, f) /\ SumOf(f) = a[N]
  BY SumRecursion
<1>3. a[0] = 0 /\ \A i \in 1..N : a[i] = a[i - 1] + f[i]
  BY <1>2 DEF Sums
<1> HIDE DEF N
<1> DEFINE T == {n \in Nat : n <= N => a[n] = 0}
<1>4. 0 \in T
  BY <1>3
<1>5. ASSUME NEW n \in Nat, n \in T PROVE n + 1 \in T
  <2>1. CASE n + 1 <= N
    <3>1. n + 1 \in 1..N /\ n <= N /\ (n + 1) - 1 = n
      BY <1>1, <2>1
    <3>2. a[n + 1] = a[n] + f[n + 1] /\ a[n] = 0 /\ f[n + 1] = 0
      BY <1>1, <1>3, <1>5, <3>1
    <3>3. a[n + 1] = 0
      BY <3>2
    <3> QED
      BY <3>3
  <2> QED
    BY <2>1
<1> HIDE DEF T
<1>6. N \in T
  BY <1>1, <1>4, <1>5, AllNumbers
<1> QED
  BY <1>1, <1>2, <1>6 DEF T

------------------------------------------------------------------------------
(* The tokens of a document *)

Lines(s) == s.first..s.last
Document == Seq(Line)

\* The definitions of the specification, for a document that does not change
TokensIn(d, lines) == SumOf([i \in 1..Len(d) |-> IF i \in lines THEN d[i].size ELSE 0])
SizeIn(d, s) == IF Lines(s) = {} THEN EmptySize ELSE TokensIn(d, Lines(s))
TotalIn(d, parts) == SumOf([k \in 1..Len(parts) |-> SizeIn(d, parts[k])])

Weights(d, lines) == [i \in 1..Len(d) |-> IF i \in lines THEN d[i].size ELSE 0]
Sizes(d, parts) == [k \in 1..Len(parts) |-> SizeIn(d, parts[k])]

LEMMA WeightsTyped ==
  ASSUME NEW d \in Document, NEW lines
  PROVE  /\ Weights(d, lines) \in Seq(Nat) /\ Len(Weights(d, lines)) = Len(d)
         /\ \A i \in 1..Len(d) : Weights(d, lines)[i] = IF i \in lines THEN d[i].size ELSE 0
         /\ \A i \in 1..Len(d) : d[i].size \in Nat
<1>1. Len(d) \in Nat /\ \A i \in 1..Len(d) : d[i].size \in Nat
  <2>1. d \in Seq(Line)
    BY DEF Document
  <2>2. \A l \in Line : l.size \in Nat
    BY DEF Line
  <2>3. Len(d) \in Nat /\ \A i \in 1..Len(d) : d[i] \in Line
    BY <2>1
  <2> QED
    BY <2>2, <2>3
<1>2. Weights(d, lines) \in [1..Len(d) -> Nat]
  BY <1>1 DEF Weights
<1> QED
  BY <1>1, <1>2 DEF Weights

LEMMA TokensTyped ==
  ASSUME NEW d \in Document, NEW lines
  PROVE  TokensIn(d, lines) = SumOf(Weights(d, lines)) /\ TokensIn(d, lines) \in Nat
  BY WeightsTyped, SumTyped DEF TokensIn, Weights

LEMMA TokensOfNone ==
  ASSUME NEW d \in Document
  PROVE  TokensIn(d, {}) = 0
  BY WeightsTyped, TokensTyped, SumOfZeros

\* No line counts twice.
LEMMA TokensOfUnion ==
  ASSUME NEW d \in Document, NEW A, NEW B, NEW C, C \subseteq A \cup B
  PROVE  TokensIn(d, C) <= TokensIn(d, A) + TokensIn(d, B)
<1>1. ASSUME NEW i \in 1..Len(d) PROVE Weights(d, C)[i] <= Weights(d, A)[i] + Weights(d, B)[i]
  <2>1. d[i].size \in Nat
    BY WeightsTyped
  <2>2. /\ Weights(d, A)[i] = IF i \in A THEN d[i].size ELSE 0
        /\ Weights(d, B)[i] = IF i \in B THEN d[i].size ELSE 0
        /\ Weights(d, C)[i] = IF i \in C THEN d[i].size ELSE 0
    BY WeightsTyped
  <2> QED
    BY <2>1, <2>2
<1>2. /\ Weights(d, A) \in Seq(Nat) /\ Len(Weights(d, A)) = Len(d)
      /\ Weights(d, B) \in Seq(Nat) /\ Len(Weights(d, B)) = Len(d)
      /\ Weights(d, C) \in Seq(Nat) /\ Len(Weights(d, C)) = Len(d)
  BY WeightsTyped
<1>3. SumOf(Weights(d, C)) <= SumOf(Weights(d, A)) + SumOf(Weights(d, B))
  BY <1>1, <1>2, SumOfTwo
<1> QED
  BY <1>3, TokensTyped

LEMMA TokensOfFewer ==
  ASSUME NEW d \in Document, NEW A, NEW C, C \subseteq A
  PROVE  TokensIn(d, C) <= TokensIn(d, A)
<1>1. TokensIn(d, C) <= TokensIn(d, A) + TokensIn(d, {})
  BY TokensOfUnion
<1> QED
  BY <1>1, TokensOfNone, TokensTyped

\* The empty string may count, a part with lines has their tokens.
LEMMA SizeTyped ==
  ASSUME NEW d \in Document, NEW s
  PROVE  /\ SizeIn(d, s) \in Nat /\ TokensIn(d, Lines(s)) \in Nat
         /\ TokensIn(d, Lines(s)) <= SizeIn(d, s)
<1>1. TokensIn(d, Lines(s)) \in Nat /\ TokensIn(d, {}) = 0 /\ EmptySize \in Nat
  BY TokensTyped, TokensOfNone, ChunkingAssumption DEF ChunkingAssumption
<1>2. CASE Lines(s) = {}
  BY <1>1, <1>2 DEF SizeIn
<1>3. CASE Lines(s) # {}
  BY <1>1, <1>3 DEF SizeIn
<1> QED
  BY <1>2, <1>3

LEMMA SizesTyped ==
  ASSUME NEW d \in Document, NEW X, NEW parts \in Seq(X)
  PROVE  /\ Sizes(d, parts) \in Seq(Nat) /\ Len(Sizes(d, parts)) = Len(parts)
         /\ \A k \in 1..Len(parts) : Sizes(d, parts)[k] = SizeIn(d, parts[k])
<1>1. Len(parts) \in Nat /\ \A k \in 1..Len(parts) : SizeIn(d, parts[k]) \in Nat
  BY SizeTyped
<1>2. Sizes(d, parts) \in [1..Len(parts) -> Nat]
  BY <1>1 DEF Sizes
<1> QED
  BY <1>1, <1>2 DEF Sizes

LEMMA TotalTyped ==
  ASSUME NEW d \in Document, NEW X, NEW parts \in Seq(X)
  PROVE  TotalIn(d, parts) = SumOf(Sizes(d, parts)) /\ TotalIn(d, parts) \in Nat
  BY SizesTyped, SumTyped DEF TotalIn, Sizes

LEMMA TotalOfNone ==
  ASSUME NEW d \in Document
  PROVE  TotalIn(d, <<>>) = 0
<1>1. <<>> \in Seq(Nat) /\ Len(<<>>) = 0
  OBVIOUS
<1>2. Sizes(d, <<>>) \in Seq(Nat) /\ Len(Sizes(d, <<>>)) = 0
  BY <1>1, SizesTyped
<1>3. SumOf(Sizes(d, <<>>)) = 0
  BY <1>2, SumOfZeros
<1> QED
  BY <1>1, <1>3, TotalTyped

LEMMA TotalOfMore ==
  ASSUME NEW d \in Document, NEW X, NEW parts \in Seq(X), NEW s \in X
  PROVE  TotalIn(d, Append(parts, s)) = TotalIn(d, parts) + SizeIn(d, s)
<1> DEFINE more == Append(parts, s)
<1>1. /\ more \in Seq(X) /\ Len(more) = Len(parts) + 1 /\ Len(parts) \in Nat
      /\ \A k \in 1..Len(parts) : more[k] = parts[k]
      /\ more[Len(more)] = s /\ Len(more) \in 1..Len(more)
      /\ \A k \in 1..Len(parts) : k \in 1..Len(more)
  OBVIOUS
<1> HIDE DEF more
<1>2. /\ Len(Sizes(d, more)) = Len(Sizes(d, parts)) + 1
      /\ \A k \in 1..Len(Sizes(d, parts)) : Sizes(d, more)[k] = Sizes(d, parts)[k]
      /\ Sizes(d, more)[Len(Sizes(d, more))] = SizeIn(d, s)
      /\ Sizes(d, parts) \in Seq(Nat) /\ Sizes(d, more) \in Seq(Nat)
  <2>1. /\ Sizes(d, parts) \in Seq(Nat) /\ Len(Sizes(d, parts)) = Len(parts)
        /\ \A k \in 1..Len(parts) : Sizes(d, parts)[k] = SizeIn(d, parts[k])
    BY SizesTyped
  <2>2. /\ Sizes(d, more) \in Seq(Nat) /\ Len(Sizes(d, more)) = Len(more)
        /\ \A k \in 1..Len(more) : Sizes(d, more)[k] = SizeIn(d, more[k])
    BY <1>1, SizesTyped
  <2>3. \A k \in 1..Len(parts) : Sizes(d, more)[k] = Sizes(d, parts)[k]
    BY <1>1, <2>1, <2>2
  <2> QED
    BY <1>1, <2>1, <2>2, <2>3
<1>3. SumOf(Sizes(d, more)) = SumOf(Sizes(d, parts)) + SizeIn(d, s)
  BY <1>2, SumAppend
<1> QED
  BY <1>1, <1>3, TotalTyped DEF more

LEMMA TotalOfOne ==
  ASSUME NEW d \in Document, NEW s
  PROVE  TotalIn(d, <<s>>) = SizeIn(d, s) /\ SizeIn(d, s) \in Nat
<1>1. <<>> \in Seq({s}) /\ <<s>> = Append(<<>>, s) /\ s \in {s}
  OBVIOUS
<1>2. TotalIn(d, <<s>>) = TotalIn(d, <<>>) + SizeIn(d, s)
  BY <1>1, TotalOfMore
<1> QED
  BY <1>2, TotalOfNone, SizeTyped

\* Parts have no more tokens together than one by one.
LEMMA TokensOfParts ==
  ASSUME NEW d \in Document, NEW X, NEW parts \in Seq(X)
  PROVE  TokensIn(d, LinesOf(parts)) <= TotalIn(d, parts)
<1> DEFINE N == Len(parts)
           part(n) == UNION {Lines(parts[k]) : k \in 1..n}
<1>1. N \in Nat /\ Sizes(d, parts) \in Seq(Nat) /\ Len(Sizes(d, parts)) = N
      /\ \A k \in 1..N : Sizes(d, parts)[k] = SizeIn(d, parts[k])
  BY SizesTyped
<1>2. PICK sum \in [0..N -> Nat] : Sums(sum, Sizes(d, parts)) /\ SumOf(Sizes(d, parts)) = sum[N]
  BY <1>1, SumRecursion
<1>3. sum[0] = 0 /\ \A i \in 1..N : sum[i] = sum[i - 1] + SizeIn(d, parts[i])
  BY <1>1, <1>2 DEF Sums
<1>4. LinesOf(parts) = part(N)
  BY DEF LinesOf, Lines
<1>5. part(0) = {} /\ \A n \in Nat : part(n + 1) \subseteq part(n) \cup Lines(parts[n + 1])
  OBVIOUS
<1> HIDE DEF N, part
<1> DEFINE T == {n \in Nat : n <= N => TokensIn(d, part(n)) <= sum[n]}
<1>6. 0 \in T
  <2>1. TokensIn(d, part(0)) = 0
    BY <1>5, TokensOfNone
  <2>2. TokensIn(d, part(0)) <= sum[0]
    BY <1>3, <2>1
  <2> QED
    BY <2>2
<1>7. ASSUME NEW n \in Nat, n \in T PROVE n + 1 \in T
  <2>1. CASE n + 1 <= N
    <3>1. n + 1 \in 1..N /\ n <= N /\ (n + 1) - 1 = n /\ n \in 0..N
      BY <1>1, <2>1
    <3>2. TokensIn(d, part(n + 1)) <= TokensIn(d, part(n)) + TokensIn(d, Lines(parts[n + 1]))
      BY <1>5, TokensOfUnion
    <3>3. TokensIn(d, part(n)) <= sum[n] /\ sum[n + 1] = sum[n] + SizeIn(d, parts[n + 1])
      BY <1>3, <1>7, <3>1
    <3>4. /\ TokensIn(d, part(n + 1)) \in Nat /\ TokensIn(d, part(n)) \in Nat /\ sum[n] \in Nat
          /\ TokensIn(d, Lines(parts[n + 1])) \in Nat /\ SizeIn(d, parts[n + 1]) \in Nat
          /\ TokensIn(d, Lines(parts[n + 1])) <= SizeIn(d, parts[n + 1])
      BY <3>1, TokensTyped, SizeTyped
    <3>5. TokensIn(d, part(n + 1)) <= sum[n + 1]
      BY <3>2, <3>3, <3>4
    <3> QED
      BY <3>5
  <2> QED
    BY <2>1
<1> HIDE DEF T
<1>8. N \in T
  BY <1>1, <1>6, <1>7, AllNumbers
<1>9. TokensIn(d, part(N)) <= sum[N]
  BY <1>1, <1>8 DEF T
<1> QED
  BY <1>2, <1>4, <1>9, TotalTyped

------------------------------------------------------------------------------
(* The least, the greatest and the k-th of a set of numbers *)

LEMMA MinOf ==
  ASSUME NEW S, S \subseteq Nat, S # {}
  PROVE  Min(S) \in S /\ \A x \in S : Min(S) <= x
<1>1. \E x \in S : \A y \in S : x <= y
  BY LeastNumber
<1> QED
  BY <1>1 DEF Min

LEMMA MaxOf ==
  ASSUME NEW S, S \subseteq Nat, S # {}, NEW n \in Nat, \A x \in S : x <= n
  PROVE  Max(S) \in S /\ \A x \in S : x <= Max(S)
<1> DEFINE T == {u \in Nat : \A x \in S : x <= u}
<1>1. PICK u \in T : \A v \in T : u <= v
  <2>1. T \subseteq Nat /\ n \in T
    OBVIOUS
  <2> HIDE DEF T
  <2> QED
    BY <2>1, LeastNumber
<1>2. u \in S
  <2> SUFFICES ASSUME u \notin S PROVE FALSE
    OBVIOUS
  <2>1. PICK s \in S : TRUE
    OBVIOUS
  <2>2. \A x \in S : x \in Nat /\ u \in Nat /\ x < u
    OBVIOUS
  <2>3. u - 1 \in Nat /\ \A x \in S : x <= u - 1
    BY <2>1, <2>2
  <2>4. u <= u - 1
    BY <1>1, <2>3
  <2> QED
    BY <2>4
<1>3. \A x \in S : u >= x
  OBVIOUS
<1>4. \E x \in S : \A y \in S : x >= y
  BY <1>2, <1>3
<1>5. Max(S) \in S /\ \A y \in S : Max(S) >= y
  BY <1>4 DEF Max
<1> QED
  BY <1>5

UpTo(i, P) == {j \in P : j <= i}

\* The k-th of a set of numbers is greater than the ones before it.
LEMMA KthOfSet ==
  ASSUME NEW P, P \subseteq Nat, IsFiniteSet(P)
  PROVE  /\ \A k \in 1..Cardinality(P) : \E i \in P : Cardinality(UpTo(i, P)) = k
         /\ \A i, j \in P : Cardinality(UpTo(i, P)) < Cardinality(UpTo(j, P)) <=> i < j
<1> DEFINE n == Cardinality(P)
           place == [i \in P |-> Cardinality(UpTo(i, P))]
<1>1. n \in Nat /\ IsFiniteSet(1..n) /\ Cardinality(1..n) = n
  BY FS_CardinalityType, FS_Interval
<1>2. ASSUME NEW i \in P
      PROVE  place[i] \in 1..n /\ IsFiniteSet(UpTo(i, P))
  <2>1. UpTo(i, P) \in SUBSET P /\ i \in UpTo(i, P)
    BY DEF UpTo
  <2>2. /\ IsFiniteSet(UpTo(i, P)) /\ Cardinality(UpTo(i, P)) \in Nat
        /\ Cardinality(UpTo(i, P)) <= n /\ Cardinality(UpTo(i, P)) # 0
    BY <2>1, FS_Subset, FS_EmptySet, FS_CardinalityType
  <2> QED
    BY <1>1, <2>2
<1>3. ASSUME NEW i \in P, NEW j \in P, i < j PROVE place[i] < place[j]
  <2>1. UpTo(i, P) \in SUBSET UpTo(j, P) /\ UpTo(i, P) # UpTo(j, P)
    <3>1. i \in Nat /\ j \in Nat /\ \A k \in P : k \in Nat
      OBVIOUS
    <3>2. j \in UpTo(j, P) /\ j \notin UpTo(i, P)
      BY <1>3, <3>1 DEF UpTo
    <3>3. ASSUME NEW k \in UpTo(i, P) PROVE k \in UpTo(j, P)
      <4>1. k \in P /\ k \in Nat /\ k <= i
        BY <3>1 DEF UpTo
      <4>2. k <= j
        BY <1>3, <3>1, <4>1
      <4> QED
        BY <4>1, <4>2 DEF UpTo
    <3> QED
      BY <3>2, <3>3
  <2>2. Cardinality(UpTo(i, P)) <= Cardinality(UpTo(j, P))
    BY <1>2, <2>1, FS_Subset
  <2>3. Cardinality(UpTo(i, P)) # Cardinality(UpTo(j, P))
    BY <1>2, <2>1, FS_Subset
  <2> QED
    BY <1>1, <1>2, <2>2, <2>3
<1>4. place \in [P -> 1..n] /\ \A i \in P : place[i] = Cardinality(UpTo(i, P)) /\ i \in Nat
  BY <1>2
<1> HIDE DEF place, n
<1>5. \A i, j \in P : place[i] < place[j] <=> i < j
  <2> SUFFICES ASSUME NEW i \in P, NEW j \in P PROVE place[i] < place[j] <=> i < j
    OBVIOUS
  <2>1. i \in Nat /\ j \in Nat /\ place[i] \in Int /\ place[j] \in Int
    BY <1>1, <1>4
  <2>2. i < j \/ i = j \/ j < i
    BY <2>1
  <2> QED
    BY <1>3, <2>1, <2>2
<1>6. place \in Injection(P, 1..n)
  <2>1. \A i, j \in P : place[i] = place[j] => i = j
    <3> SUFFICES ASSUME NEW i \in P, NEW j \in P, place[i] = place[j] PROVE i = j
      OBVIOUS
    <3>1. i \in Nat /\ j \in Nat /\ place[i] \in Int /\ place[j] \in Int
      BY <1>1, <1>4
    <3>2. ~(i < j) /\ ~(j < i)
      BY <1>5, <3>1
    <3> QED
      BY <3>1, <3>2
  <2> QED
    BY <1>4, <2>1 DEF Injection, IsInjective
<1>7. place \in Surjection(P, 1..n)
  BY <1>1, <1>6, FS_Injection DEF n
<1>8. \A k \in 1..n : \E i \in P : place[i] = k
  BY <1>7 DEF Surjection
<1> QED
  BY <1>4, <1>5, <1>8 DEF n

------------------------------------------------------------------------------
(* Blocks of code and tables *)

TableStartIn(d, i) == d[i].pipe /\ i < Len(d) /\ d[i + 1].kind = "separator"
OpenAfterIn(d, i, before) ==
    IF before \in Fences THEN IF d[i].kind = before THEN "none" ELSE before
    ELSE IF before = "table" /\ d[i].pipe THEN "table"
    ELSE IF d[i].kind \in Fences THEN d[i].kind
    ELSE IF d[i].kind # "heading" /\ TableStartIn(d, i) THEN "table" ELSE "none"
OpenIn(d) ==
    LET open[i \in 0..Len(d)] == IF i = 0 THEN "none" ELSE OpenAfterIn(d, i, open[i - 1])
    IN  open
ProseIn(d) == {i \in 1..Len(d) : OpenIn(d)[i] = "none" /\ OpenIn(d)[i - 1] \notin Fences}
BodyIn(d) == {i \in 1..Len(d) : i \in ProseIn(d) => d[i].kind \notin {"blank", "heading"}}
HeadingsIn(d) == {i \in ProseIn(d) : d[i].kind = "heading"}

LEMMA OfDocument ==
  /\ \A s : Size(s) = SizeIn(doc, s)
  /\ \A S : Tokens(S) = TokensIn(doc, S)
  /\ \A parts : Total(parts) = TotalIn(doc, parts)
  /\ Prose = ProseIn(doc) /\ Body = BodyIn(doc)
  BY DEF Size, SizeIn, Lines, Tokens, TokensIn, Total, TotalIn, Prose, ProseIn, OpenIn,
         OpenAfter, OpenAfterIn, TableStart, TableStartIn, Body, BodyIn

LEMMA FencesOpen ==
  ASSUME NEW d \in Document
  PROVE  /\ OpenIn(d)[0] = "none"
         /\ \A i \in 1..Len(d) : OpenIn(d)[i] = OpenAfterIn(d, i, OpenIn(d)[i - 1])
<1> DEFINE N == Len(d)
           S == Fences \cup {"none", "table"}
           G == [w \in Nat \X S |-> OpenAfterIn(d, w[1], w[2])]
           Is(f) == f = [i \in 0..N |-> IF i = 0 THEN "none" ELSE OpenAfterIn(d, i, f[i - 1])]
<1>1. N \in Nat /\ "none" \in S
  BY DEF Document
<1> HIDE DEF N
<1>2. \A i, v : v \in S => OpenAfterIn(d, i, v) \in S
  BY DEF OpenAfterIn
<1>3. G \in [Nat \X S -> S]
  BY <1>2
<1>4. \A i \in 1..N, v \in S : G[<<i, v>>] = OpenAfterIn(d, i, v)
  BY <1>1
<1> HIDE DEF G, S
<1>5. PICK f \in [0..N -> S] : Computes(f, "none", G, N)
  BY <1>1, <1>3, Recursion
<1>6. Is(f)
  <2>1. ASSUME NEW i \in 0..N
        PROVE  f[i] = IF i = 0 THEN "none" ELSE OpenAfterIn(d, i, f[i - 1])
    <3>1. CASE i = 0
      BY <1>5, <3>1 DEF Computes
    <3>2. CASE i # 0
      <4>1. i \in 1..N /\ i - 1 \in 0..N
        BY <1>1, <3>2
      <4>2. f[i - 1] \in S /\ f[i] = G[<<i, f[i - 1]>>]
        BY <1>5, <4>1 DEF Computes
      <4> QED
        BY <1>4, <3>2, <4>1, <4>2
    <3> QED
      BY <3>1, <3>2
  <2> QED
    BY <2>1
<1>7. Is(OpenIn(d))
  <2> DEFINE Open == CHOOSE g : Is(g)
  <2>1. Is(Open)
    BY <1>6
  <2>2. OpenIn(d) = Open
    BY DEF OpenIn, N
  <2> HIDE DEF Open
  <2> QED
    BY <2>1, <2>2
<1>8. \A i \in 1..N : i \in 0..N /\ i # 0
  BY <1>1
<1>9. 0 \in 0..N
  BY <1>1
<1>10. OpenIn(d)[0] = "none"
  BY <1>7, <1>9
<1>11. \A i \in 1..N : OpenIn(d)[i] = OpenAfterIn(d, i, OpenIn(d)[i - 1])
  <2> DEFINE O == OpenIn(d)
  <2>1. Is(O)
    BY <1>7
  <2> HIDE DEF O
  <2> SUFFICES \A i \in 1..N : O[i] = OpenAfterIn(d, i, O[i - 1])
    BY DEF O
  <2> QED
    BY <1>8, <2>1
<1> QED
  BY <1>10, <1>11 DEF N

LEMMA FirstOfFound ==
  ASSUME NEW S, S \subseteq Nat, NEW o
  PROVE  IF S = {} THEN FirstOf(S, o) = o
         ELSE FirstOf(S, o) \in S /\ \A x \in S : FirstOf(S, o) <= x
  BY MinOf DEF FirstOf

LEMMA DocumentLines ==
  ASSUME NEW d \in Document
  PROVE  /\ Len(d) \in Nat /\ DOMAIN d = 1..Len(d)
         /\ \A i \in 1..Len(d) :
               /\ d[i].kind \in Kinds /\ d[i].size \in Nat /\ d[i].stop \in BOOLEAN
               /\ d[i].kind = "blank" => ~d[i].pipe
<1>1. d \in Seq(Line)
  BY DEF Document
<1>2. \A l \in Line : /\ l.kind \in Kinds /\ l.size \in Nat /\ l.stop \in BOOLEAN
                      /\ l.kind = "blank" => ~l.pipe
  BY DEF Line
<1>3. Len(d) \in Nat /\ DOMAIN d = 1..Len(d) /\ \A i \in 1..Len(d) : d[i] \in Line
  BY <1>1
<1> QED
  BY <1>2, <1>3

\* Line i is in no block of code and does not go on with a table.
Outside(d, i) == OpenIn(d)[i - 1] = "none" \/ (OpenIn(d)[i - 1] = "table" /\ ~d[i].pipe)
StartsNone(d, i) == d[i].kind \notin Fences /\ (d[i].kind = "heading" \/ ~TableStartIn(d, i))

LEMMA OpenOutside ==
  ASSUME NEW d \in Document, NEW i \in 1..Len(d), Outside(d, i)
  PROVE  /\ OpenIn(d)[i - 1] \notin Fences
         /\ d[i].kind \in Fences => OpenIn(d)[i] = d[i].kind
         /\ d[i].kind \notin Fences \cup {"heading"} /\ TableStartIn(d, i) => OpenIn(d)[i] = "table"
         /\ StartsNone(d, i) => OpenIn(d)[i] = "none"
<1>1. OpenIn(d)[i] = OpenAfterIn(d, i, OpenIn(d)[i - 1])
  BY FencesOpen
<1>2. "none" \notin Fences /\ "table" \notin Fences
  BY DEF Fences
<1> QED
  BY <1>1, <1>2 DEF Outside, OpenAfterIn, StartsNone

\* No fence or table opens where no line starts one.
LEMMA PlainLines ==
  ASSUME NEW d \in Document, NEW i \in 1..Len(d), NEW e \in i..Len(d),
         Outside(d, i), \A j \in i..e : StartsNone(d, j)
  PROVE  i..e \subseteq ProseIn(d) /\ OpenIn(d)[e] = "none"
<1>1. Len(d) \in Nat /\ i \in Nat /\ e \in Nat
  BY DocumentLines
<1> DEFINE T == {n \in Nat : n <= e - i => OpenIn(d)[i + n] = "none"}
<1>2. 0 \in T
  <2>1. i + 0 = i /\ i \in i..e
    BY <1>1
  <2>2. OpenIn(d)[i] = "none"
    BY <2>1, OpenOutside
  <2> QED
    BY <2>1, <2>2
<1>3. ASSUME NEW n \in Nat, n \in T PROVE n + 1 \in T
  <2>1. CASE n + 1 <= e - i
    <3>1. /\ i + (n + 1) \in i..e /\ i + (n + 1) \in 1..Len(d) /\ i + (n + 1) - 1 = i + n
          /\ n <= e - i
      BY <1>1, <2>1
    <3>2. OpenIn(d)[i + (n + 1) - 1] = "none"
      BY <1>3, <3>1
    <3>3. OpenIn(d)[i + (n + 1)] = "none"
      BY <3>1, <3>2, OpenOutside DEF Outside
    <3> QED
      BY <3>3
  <2> QED
    BY <2>1
<1> HIDE DEF T
<1>4. Nat \subseteq T
  BY <1>2, <1>3, AllNumbers
<1>5. ASSUME NEW j \in i..e PROVE OpenIn(d)[j] = "none"
  <2>1. j - i \in Nat /\ j - i <= e - i /\ i + (j - i) = j
    BY <1>1
  <2>2. j - i \in T
    BY <1>4, <2>1
  <2> QED
    BY <2>1, <2>2 DEF T
<1>6. ASSUME NEW j \in i..e PROVE j \in ProseIn(d)
  <2>1. j \in 1..Len(d) /\ (j = i \/ j - 1 \in i..e)
    BY <1>1
  <2>2. OpenIn(d)[j - 1] \notin Fences
    <3>1. CASE j = i
      BY <3>1, OpenOutside
    <3>2. CASE j - 1 \in i..e
      BY <1>5, <3>2 DEF Fences
    <3> QED
      BY <2>1, <3>1, <3>2
  <2> QED
    BY <1>5, <2>1, <2>2 DEF ProseIn
<1>7. e \in i..e
  BY <1>1
<1> QED
  BY <1>5, <1>6, <1>7

\* A block of code is not prose, and ends with its fence or the document.
LEMMA CodeLines ==
  ASSUME doc \in Document, NEW i \in 1..Len(doc), Outside(doc, i), doc[i].kind \in Fences
  PROVE  /\ CodeEnd(i) \in i..Len(doc)
         /\ i..CodeEnd(i) \subseteq BodyIn(doc)
         /\ CodeEnd(i) < Len(doc) => OpenIn(doc)[CodeEnd(i)] = "none"
<1> DEFINE S == {j \in After(i) : doc[j].kind = doc[i].kind}
           e == CodeEnd(i)
           fence == doc[i].kind
<1>1. Len(doc) \in Nat /\ i \in Nat /\ S \subseteq Nat /\ \A j \in S : j \in (i + 1)..Len(doc)
  BY DocumentLines DEF After
<1>2. IF S = {} THEN e = Len(doc) ELSE e \in S /\ \A x \in S : e <= x
  BY <1>1, FirstOfFound DEF CodeEnd
<1>3. e \in i..Len(doc)
  BY <1>1, <1>2
<1>4. \A j \in (i + 1)..Len(doc) : (j \in S <=> doc[j].kind = fence)
  BY DEF After
<1>5. fence \in Fences /\ fence # "none"
  BY DEF Fences
<1> HIDE DEF S, e, fence
\* The lines from i on in which the fence stays open
<1> DEFINE Stays(n) == (S # {} => i + n < e) /\ i + n <= Len(doc)
           T == {n \in Nat : Stays(n) => OpenIn(doc)[i + n] = fence}
<1>6. 0 \in T
  <2>1. OpenIn(doc)[i] = fence
    BY <1>5, OpenOutside DEF fence
  <2>2. i + 0 = i
    BY <1>1
  <2> QED
    BY <2>1, <2>2
<1>7. ASSUME NEW n \in Nat, n \in T PROVE n + 1 \in T
  <2>1. CASE Stays(n + 1)
    <3>1. Stays(n) /\ i + (n + 1) \in (i + 1)..Len(doc) /\ i + (n + 1) \in 1..Len(doc)
          /\ i + (n + 1) - 1 = i + n
      BY <1>1, <1>3, <2>1
    <3>2. OpenIn(doc)[i + n] = fence
      BY <1>7, <3>1
    <3>3. i + (n + 1) \notin S
      BY <1>1, <1>2, <1>3, <2>1
    <3>4. doc[i + (n + 1)].kind # fence
      BY <1>4, <3>1, <3>3
    <3>5. OpenIn(doc)[i + (n + 1)] = OpenAfterIn(doc, i + (n + 1), OpenIn(doc)[i + (n + 1) - 1])
      BY <3>1, FencesOpen
    <3>6. OpenIn(doc)[i + (n + 1)] = fence
      BY <1>5, <3>1, <3>2, <3>4, <3>5 DEF OpenAfterIn
    <3> QED
      BY <3>6
  <2> QED
    BY <2>1
<1> HIDE DEF T
<1>8. Nat \subseteq T
  BY <1>6, <1>7, AllNumbers
<1>9. ASSUME NEW j \in i..Len(doc), S # {} => j < e PROVE OpenIn(doc)[j] = fence
  <2>1. j - i \in Nat /\ i + (j - i) = j /\ Stays(j - i)
    BY <1>1, <1>3, <1>9
  <2>2. j - i \in T
    BY <1>8, <2>1
  <2> QED
    BY <2>1, <2>2 DEF T
<1>10. ASSUME NEW j \in i..e PROVE j \in BodyIn(doc)
  <2>1. j \in 1..Len(doc) /\ j \in i..Len(doc)
    BY <1>1, <1>3
  <2>2. CASE S # {} => j < e
    <3>1. j \notin ProseIn(doc)
      BY <1>5, <1>9, <2>1, <2>2 DEF ProseIn
    <3> QED
      BY <2>1, <3>1 DEF BodyIn
  <2>3. CASE S # {} /\ j = e
    <3>1. e \in (i + 1)..Len(doc)
      BY <1>1, <1>2, <2>3
    <3>2. e - 1 \in i..Len(doc) /\ e - 1 < e
      BY <1>1, <3>1
    <3>3. OpenIn(doc)[j - 1] = fence
      BY <1>9, <2>3, <3>2
    <3> QED
      BY <1>5, <2>1, <3>3 DEF ProseIn, BodyIn
  <2>4. e \in Nat /\ j \in Nat /\ j <= e
    BY <1>1, <1>3
  <2> QED
    BY <2>2, <2>3, <2>4
<1>11. ASSUME e < Len(doc) PROVE OpenIn(doc)[e] = "none"
  <2>1. S # {} /\ e \in S
    BY <1>1, <1>2, <1>11
  <2>2. e \in (i + 1)..Len(doc) /\ doc[e].kind = fence
    BY <1>1, <1>4, <2>1
  <2>3. e - 1 \in i..Len(doc) /\ e - 1 < e /\ e \in 1..Len(doc)
    BY <1>1, <2>2
  <2>4. OpenIn(doc)[e - 1] = fence
    BY <1>9, <2>3
  <2>5. OpenIn(doc)[e] = OpenAfterIn(doc, e, OpenIn(doc)[e - 1])
    BY <2>3, FencesOpen
  <2> QED
    BY <1>5, <2>2, <2>4, <2>5 DEF OpenAfterIn
<1> QED
  BY <1>3, <1>10, <1>11 DEF e

\* A table or a paragraph is what follows without a line that ends it.
LEMMA RunOfLines ==
  ASSUME doc \in Document, NEW i \in 1..Len(doc), NEW S, S \subseteq After(i)
  PROVE  LET e == FirstOf(S, Len(doc) + 1) - 1
         IN  /\ e \in i..Len(doc) /\ \A j \in (i + 1)..e : j \notin S
             /\ e < Len(doc) => e + 1 \in S
<1> DEFINE f == FirstOf(S, Len(doc) + 1)
<1>1. Len(doc) \in Nat /\ i \in Nat /\ S \subseteq Nat /\ \A j \in S : j \in (i + 1)..Len(doc)
  BY DocumentLines DEF After
<1>2. IF S = {} THEN f = Len(doc) + 1 ELSE f \in S /\ \A x \in S : f <= x
  BY <1>1, FirstOfFound
<1> HIDE DEF f
<1>3. f \in (i + 1)..(Len(doc) + 1)
  <2>1. CASE S = {}
    BY <1>1, <1>2, <2>1
  <2>2. CASE S # {}
    <3>1. f \in (i + 1)..Len(doc)
      BY <1>1, <1>2, <2>2
    <3> QED
      BY <1>1, <3>1
  <2> QED
    BY <2>1, <2>2
<1>4. \A j \in (i + 1)..(f - 1) : j \notin S
  <2> SUFFICES ASSUME NEW j \in (i + 1)..(f - 1), j \in S PROVE FALSE
    OBVIOUS
  <2>1. f <= j
    BY <1>2
  <2> QED
    BY <1>1, <1>3, <2>1
<1>5. f - 1 \in i..Len(doc) /\ (f - 1) + 1 = f
  BY <1>1, <1>3
<1>6. f - 1 < Len(doc) => f \in S
  BY <1>1, <1>2, <1>3
<1> QED
  BY <1>4, <1>5, <1>6 DEF f

\* No line of a table is prose, whatever its kind, and no "|" follows it.
LEMMA TableLines ==
  ASSUME doc \in Document, NEW i \in 1..Len(doc), Outside(doc, i), doc[i].kind \in Plain, TableStart(i)
  PROVE  /\ TableEnd(i) \in i..Len(doc) /\ i..TableEnd(i) \subseteq BodyIn(doc)
         /\ TableEnd(i) < Len(doc) => Outside(doc, TableEnd(i) + 1)
<1> DEFINE S == {j \in After(i) : ~doc[j].pipe}
           e == TableEnd(i)
<1>1. /\ e \in i..Len(doc) /\ \A j \in (i + 1)..e : j \notin S
      /\ e < Len(doc) => e + 1 \in S
  BY RunOfLines DEF TableEnd
<1>2. Len(doc) \in Nat /\ i \in Nat /\ e \in Nat
  BY <1>1, DocumentLines
<1>3. ASSUME NEW j \in (i + 1)..e PROVE doc[j].pipe
  <2>1. j \in After(i)
    BY <1>1, <1>2 DEF After
  <2> QED
    BY <1>1, <2>1
<1>4. e < Len(doc) => ~doc[e + 1].pipe
  BY <1>1
<1> HIDE DEF e, S
<1>5. "table" \notin Fences /\ "none" # "table"
  BY DEF Fences
<1> DEFINE T == {n \in Nat : n <= e - i => OpenIn(doc)[i + n] = "table"}
<1>6. 0 \in T
  <2>1. doc[i].kind \notin Fences \cup {"heading"} /\ TableStartIn(doc, i)
    BY DEF Plain, Fences, TableStart, TableStartIn
  <2>2. OpenIn(doc)[i] = "table" /\ i + 0 = i
    BY <1>2, <2>1, OpenOutside
  <2> QED
    BY <2>2
<1>7. ASSUME NEW n \in Nat, n \in T PROVE n + 1 \in T
  <2>1. CASE n + 1 <= e - i
    <3>1. /\ i + (n + 1) \in (i + 1)..e /\ i + (n + 1) \in 1..Len(doc) /\ i + (n + 1) - 1 = i + n
          /\ n <= e - i
      BY <1>1, <1>2, <2>1
    <3>2. OpenIn(doc)[i + (n + 1) - 1] = "table" /\ doc[i + (n + 1)].pipe
      BY <1>3, <1>7, <3>1
    <3>3. OpenIn(doc)[i + (n + 1)] = "table"
      BY <1>5, <3>1, <3>2, FencesOpen DEF OpenAfterIn
    <3> QED
      BY <3>3
  <2> QED
    BY <2>1
<1> HIDE DEF T
<1>8. Nat \subseteq T
  BY <1>6, <1>7, AllNumbers
<1>9. ASSUME NEW j \in i..e PROVE OpenIn(doc)[j] = "table"
  <2>1. j - i \in Nat /\ j - i <= e - i /\ i + (j - i) = j
    BY <1>2
  <2>2. j - i \in T
    BY <1>8, <2>1
  <2> QED
    BY <2>1, <2>2 DEF T
<1>10. i..e \subseteq BodyIn(doc)
  <2> SUFFICES ASSUME NEW j \in i..e PROVE j \in BodyIn(doc)
    OBVIOUS
  <2>1. j \in 1..Len(doc) /\ OpenIn(doc)[j] # "none"
    BY <1>1, <1>2, <1>5, <1>9
  <2> QED
    BY <2>1 DEF BodyIn, ProseIn
<1>11. e < Len(doc) => Outside(doc, e + 1)
  <2>1. e \in i..e /\ (e + 1) - 1 = e
    BY <1>1, <1>2
  <2> QED
    BY <1>4, <1>9, <2>1 DEF Outside
<1> QED
  BY <1>1, <1>10, <1>11 DEF e

LEMMA ParagraphLines ==
  ASSUME doc \in Document, NEW i \in 1..Len(doc), Outside(doc, i), doc[i].kind \in Plain, ~TableStart(i)
  PROVE  /\ ParagraphEnd(i) \in i..Len(doc) /\ OpenIn(doc)[ParagraphEnd(i)] = "none"
         /\ i..ParagraphEnd(i) \subseteq BodyIn(doc) \cap ProseIn(doc)
<1> DEFINE S == {j \in After(i) : EndsParagraph(j)}
           e == ParagraphEnd(i)
<1>1. e \in i..Len(doc) /\ \A j \in (i + 1)..e : j \notin S
  BY RunOfLines DEF ParagraphEnd
<1>2. Len(doc) \in Nat /\ i \in Nat
  BY DocumentLines
<1> HIDE DEF e
<1>3. ASSUME NEW j \in i..e
      PROVE  doc[j].kind \notin Fences \cup {"blank", "heading"} /\ ~TableStartIn(doc, j)
  <2>1. j = i \/ (j \in (i + 1)..e /\ j \in After(i))
    BY <1>1, <1>2 DEF After
  <2>2. CASE j = i
    BY <2>2 DEF Plain, Fences, TableStart, TableStartIn
  <2>3. CASE j \in (i + 1)..e /\ j \in After(i)
    BY <1>1, <2>3 DEF EndsParagraph, TableStart, TableStartIn
  <2> QED
    BY <2>1, <2>2, <2>3
<1>4. i..e \subseteq ProseIn(doc) /\ OpenIn(doc)[e] = "none"
  BY <1>1, <1>3, PlainLines DEF StartsNone
<1>5. i..e \subseteq BodyIn(doc)
  BY <1>3, <1>4 DEF BodyIn, ProseIn
<1> QED
  BY <1>1, <1>4, <1>5 DEF e

------------------------------------------------------------------------------
(* Parts of a document *)

SpansIn(d) == [first : 1..(Len(d) + 1), last : 0..Len(d)]

Before(A, B) == \A a \in A, b \in B : a < b
Ordered(parts) == \A k, l \in DOMAIN parts : k < l => Before(Lines(parts[k]), Lines(parts[l]))

LEMMA InLinesOf ==
  \A parts, i : i \in LinesOf(parts) <=> \E k \in DOMAIN parts : i \in Lines(parts[k])
  BY DEF LinesOf, Lines

LEMMA LinesOfNone == LinesOf(<<>>) = {} /\ Ordered(<<>>)
<1>1. DOMAIN <<>> = {}
  OBVIOUS
<1> QED
  BY <1>1, InLinesOf DEF Ordered

LEMMA LinesOfMore ==
  ASSUME NEW X, NEW parts \in Seq(X), NEW s \in X
  PROVE  /\ LinesOf(Append(parts, s)) = LinesOf(parts) \cup Lines(s)
         /\ Ordered(parts) /\ Before(LinesOf(parts), Lines(s)) => Ordered(Append(parts, s))
<1> DEFINE more == Append(parts, s)
           n == Len(parts)
<1>1. /\ n \in Nat /\ DOMAIN parts = 1..n /\ DOMAIN more = 1..(n + 1)
      /\ \A k \in 1..n : more[k] = parts[k]
      /\ more[n + 1] = s
  OBVIOUS
<1> HIDE DEF more, n
<1>2. \A k \in 1..(n + 1) : k \in 1..n \/ k = n + 1
  BY <1>1
<1>3. \A k \in 1..n : k \in 1..(n + 1)
  BY <1>1
<1>4. n + 1 \in 1..(n + 1)
  BY <1>1
<1>5. LinesOf(more) = LinesOf(parts) \cup Lines(s)
  <2>1. ASSUME NEW i \in LinesOf(more) PROVE i \in LinesOf(parts) \cup Lines(s)
    BY <1>1, <1>2, <2>1, InLinesOf
  <2>2. ASSUME NEW i \in LinesOf(parts) \cup Lines(s) PROVE i \in LinesOf(more)
    BY <1>1, <1>3, <1>4, <2>2, InLinesOf
  <2> QED
    BY <2>1, <2>2
<1>6. ASSUME Ordered(parts), Before(LinesOf(parts), Lines(s)) PROVE Ordered(more)
  <2> SUFFICES ASSUME NEW k \in 1..(n + 1), NEW l \in 1..(n + 1), k < l
               PROVE  Before(Lines(more[k]), Lines(more[l]))
    BY <1>1 DEF Ordered
  <2>1. k \in 1..n
    BY <1>1
  <2>2. CASE l \in 1..n
    BY <1>1, <1>6, <2>1, <2>2 DEF Ordered
  <2>3. CASE l = n + 1
    <3>1. Lines(more[k]) \subseteq LinesOf(parts) /\ more[l] = s
      BY <1>1, <2>1, <2>3, InLinesOf
    <3> QED
      BY <1>6, <3>1 DEF Before
  <2> QED
    BY <1>2, <2>2, <2>3
<1> QED
  BY <1>5, <1>6 DEF more

LEMMA LinesOfOne ==
  ASSUME NEW s
  PROVE  LinesOf(<<s>>) = Lines(s)
<1>1. <<>> \in Seq({s}) /\ <<s>> = Append(<<>>, s) /\ s \in {s}
  OBVIOUS
<1> QED
  BY <1>1, LinesOfMore, LinesOfNone

LEMMA HeadFirst ==
  ASSUME NEW X, NEW parts \in Seq(X), parts # <<>>
  PROVE  /\ Head(parts) \in X /\ Tail(parts) \in Seq(X)
         /\ LinesOf(parts) = Lines(Head(parts)) \cup LinesOf(Tail(parts))
         /\ Ordered(parts) => /\ Ordered(Tail(parts))
                              /\ Before(Lines(Head(parts)), LinesOf(Tail(parts)))
<1> DEFINE rest == Tail(parts)
           n == Len(parts)
<1>1. /\ n \in Nat \ {0} /\ DOMAIN parts = 1..n /\ DOMAIN rest = 1..(n - 1)
      /\ \A k \in 1..(n - 1) : rest[k] = parts[k + 1]
      /\ Head(parts) = parts[1] /\ Head(parts) \in X /\ rest \in Seq(X)
  OBVIOUS
<1> HIDE DEF rest, n
<1>2. 1 \in 1..n /\ \A k \in 1..(n - 1) : k + 1 \in 1..n /\ 1 < k + 1
  BY <1>1
<1>3. \A k \in 1..n : k = 1 \/ (k - 1 \in 1..(n - 1) /\ (k - 1) + 1 = k)
  BY <1>1
<1>4. LinesOf(parts) = Lines(Head(parts)) \cup LinesOf(rest)
  <2>1. ASSUME NEW i \in LinesOf(parts) PROVE i \in Lines(Head(parts)) \cup LinesOf(rest)
    <3>1. PICK k \in 1..n : i \in Lines(parts[k])
      BY <1>1, InLinesOf
    <3>2. CASE k = 1
      BY <1>1, <3>1, <3>2
    <3>3. CASE k - 1 \in 1..(n - 1) /\ (k - 1) + 1 = k
      <4>1. rest[k - 1] = parts[k]
        BY <1>1, <3>3
      <4> QED
        BY <1>1, <3>1, <3>3, <4>1, InLinesOf
    <3> QED
      BY <1>3, <3>2, <3>3
  <2>2. ASSUME NEW i \in LinesOf(rest) PROVE i \in LinesOf(parts)
    <3>1. PICK k \in 1..(n - 1) : i \in Lines(rest[k])
      BY <1>1, InLinesOf
    <3> QED
      BY <1>1, <1>2, <3>1, InLinesOf
  <2>3. Lines(Head(parts)) \subseteq LinesOf(parts)
    BY <1>1, <1>2, InLinesOf
  <2> QED
    BY <2>1, <2>2, <2>3
<1>5. ASSUME Ordered(parts) PROVE Ordered(rest) /\ Before(Lines(Head(parts)), LinesOf(rest))
  <2>1. ASSUME NEW k \in 1..(n - 1), NEW l \in 1..(n - 1), k < l
        PROVE  Before(Lines(rest[k]), Lines(rest[l]))
    <3>1. k + 1 \in 1..n /\ l + 1 \in 1..n /\ k + 1 < l + 1
      BY <1>2, <2>1
    <3> QED
      BY <1>1, <1>5, <3>1 DEF Ordered
  <2>2. ASSUME NEW k \in 1..(n - 1) PROVE Before(Lines(Head(parts)), Lines(rest[k]))
    BY <1>1, <1>2, <1>5 DEF Ordered
  <2> QED
    BY <1>1, <2>1, <2>2, InLinesOf DEF Ordered, Before
<1> QED
  BY <1>1, <1>4, <1>5 DEF rest

\* The sentences of a paragraph are its lines, in order.  All but the last end
\* with a line that ends a sentence; only the last can be empty.
LEMMA SentencesOf ==
  ASSUME doc \in Document, NEW p \in SpansIn(doc), Lines(p) # {}
  PROVE  /\ Sentences(p) \in Seq(SpansIn(doc)) /\ Sentences(p) # <<>>
         /\ LinesOf(Sentences(p)) = Lines(p) /\ Ordered(Sentences(p))
         /\ Lines(Head(Sentences(p))) # {}
         /\ \A k \in 1..(Len(Sentences(p)) - 1) :
                Lines(Sentences(p)[k]) # {} /\ doc[Sentences(p)[k].last].stop
<1> DEFINE stops == {i \in p.first..p.last : doc[i].stop}
           n == Cardinality(stops)
           end == [k \in 0..(n + 1) |->
                     IF k = 0 THEN p.first - 1
                     ELSE IF k = n + 1 THEN p.last
                     ELSE CHOOSE i \in stops : Cardinality({j \in stops : j <= i}) = k]
           ss == [k \in 1..(n + 1) |-> Span(end[k - 1] + 1, end[k])]
<1>1. Sentences(p) = ss
  BY DEF Sentences
<1>2. /\ Len(doc) \in Nat /\ p.first \in 1..Len(doc) /\ p.last \in p.first..Len(doc)
      /\ Lines(p) = p.first..p.last
  <2>1. Len(doc) \in Nat /\ p.first \in 1..(Len(doc) + 1) /\ p.last \in 0..Len(doc)
    BY DocumentLines DEF SpansIn
  <2>2. p.first <= p.last
    BY <2>1 DEF Lines
  <2> QED
    BY <2>1, <2>2 DEF Lines
<1>3. /\ IsFiniteSet(stops) /\ stops \subseteq Nat /\ n \in Nat
      /\ \A i \in stops : i \in p.first..p.last /\ doc[i].stop
  <2>1. p.first \in Int /\ p.last \in Int
    BY <1>2
  <2>2. IsFiniteSet(p.first..p.last)
    BY <2>1, FS_Interval
  <2>3. IsFiniteSet(stops)
    BY <2>2, FS_Subset
  <2> HIDE DEF stops
  <2>4. n \in Nat
    BY <2>3, FS_CardinalityType
  <2> QED
    BY <1>2, <2>3, <2>4 DEF stops
<1>4. ASSUME NEW k \in 1..n
      PROVE  end[k] \in stops /\ Cardinality(UpTo(end[k], stops)) = k
  <2>1. \E i \in stops : Cardinality(UpTo(i, stops)) = k
    BY <1>3, KthOfSet
  <2>2. k \in 0..(n + 1) /\ k # 0 /\ k # n + 1
    BY <1>3
  <2>3. end[k] = CHOOSE i \in stops : Cardinality({j \in stops : j <= i}) = k
    BY <2>2
  <2> HIDE DEF end, stops
  <2> QED
    BY <2>1, <2>3 DEF UpTo
<1>5. end[0] = p.first - 1 /\ end[n + 1] = p.last
  BY <1>3
<1>6. /\ Len(ss) = n + 1 /\ DOMAIN ss = 1..(n + 1)
      /\ \A k \in 1..(n + 1) : ss[k] = Span(end[k - 1] + 1, end[k])
  BY <1>3
<1> HIDE DEF end, ss
<1>7. \A k, l \in 1..n : end[k] < end[l] <=> k < l
  BY <1>3, <1>4, KthOfSet
<1> HIDE DEF n, stops
<1>8. \A k \in 0..(n + 1) : end[k] \in (p.first - 1)..p.last /\ end[k] \in 0..Len(doc)
  <2>1. ASSUME NEW k \in 0..(n + 1) PROVE end[k] \in (p.first - 1)..p.last
    <3>1. k = 0 \/ k = n + 1 \/ k \in 1..n
      BY <1>3
    <3>2. k \in 1..n => end[k] \in p.first..p.last
      BY <1>3, <1>4
    <3>3. end[0] \in (p.first - 1)..p.last /\ end[n + 1] \in (p.first - 1)..p.last
      BY <1>2, <1>5
    <3> QED
      BY <1>2, <3>1, <3>2, <3>3
  <2> QED
    BY <1>2, <2>1
<1>9. \A k, l \in 0..n : k < l => end[k] < end[l]
  <2> SUFFICES ASSUME NEW k \in 0..n, NEW l \in 0..n, k < l PROVE end[k] < end[l]
    OBVIOUS
  <2>1. l \in 1..n /\ end[l] \in p.first..p.last
    <3>1. l \in 1..n
      BY <1>3
    <3>2. end[l] \in stops
      BY <1>4, <3>1
    <3> QED
      BY <1>3, <3>1, <3>2
  <2>2. CASE k = 0
    BY <1>2, <1>5, <2>1, <2>2
  <2>3. CASE k # 0
    <3>1. k \in 1..n
      BY <1>3, <2>3
    <3> QED
      BY <1>7, <2>1, <3>1
  <2> QED
    BY <2>2, <2>3
<1>10. \A k, l \in 0..(n + 1) : k <= l => end[k] <= end[l]
  <2> SUFFICES ASSUME NEW k \in 0..(n + 1), NEW l \in 0..(n + 1), k <= l PROVE end[k] <= end[l]
    OBVIOUS
  <2>1. end[k] \in (p.first - 1)..p.last /\ end[l] \in (p.first - 1)..p.last
    BY <1>8
  <2>2. CASE l = n + 1
    BY <1>2, <1>5, <2>1, <2>2
  <2>3. CASE l # n + 1 /\ k # l
    <3>1. k \in 0..n /\ l \in 0..n /\ k < l
      BY <1>3, <2>3
    <3>2. end[k] < end[l]
      BY <1>9, <3>1
    <3> QED
      BY <1>2, <2>1, <3>2
  <2> QED
    BY <1>2, <2>1, <2>2, <2>3
<1>11. ASSUME NEW k \in 1..(n + 1)
       PROVE  /\ ss[k] \in SpansIn(doc) /\ Lines(ss[k]) = (end[k - 1] + 1)..end[k] /\ ss[k].last = end[k]
              /\ k \in 0..(n + 1) /\ k - 1 \in 0..(n + 1)
              /\ end[k] \in 0..Len(doc) /\ end[k - 1] \in 0..Len(doc)
  <2>1. k \in 0..(n + 1) /\ k - 1 \in 0..(n + 1)
    BY <1>3
  <2>2. end[k] \in 0..Len(doc) /\ end[k - 1] \in 0..Len(doc)
    BY <1>8, <2>1
  <2>3. end[k - 1] + 1 \in 1..(Len(doc) + 1)
    BY <1>2, <2>2
  <2> QED
    BY <1>6, <2>1, <2>2, <2>3 DEF Span, SpansIn, Lines
<1>12. ss \in Seq(SpansIn(doc))
  <2>1. ss = [k \in 1..(n + 1) |-> ss[k]] /\ n + 1 \in Nat
    BY <1>3 DEF ss
  <2>2. ss \in [1..(n + 1) -> SpansIn(doc)]
    BY <1>11, <2>1
  <2> QED
    BY <2>1, <2>2
<1>13. ss # <<>> /\ Head(ss) = ss[1] /\ 1 \in 1..(n + 1)
  <2>1. Len(ss) # 0 /\ 1 \in 1..(n + 1)
    BY <1>3, <1>6
  <2>2. ss # <<>>
    BY <2>1
  <2> QED
    BY <1>12, <2>1, <2>2
<1>14. ASSUME NEW k \in 1..n PROVE end[k] \in Lines(ss[k]) /\ doc[ss[k].last].stop
  <2>1. k \in 0..n /\ k - 1 \in 0..n /\ k - 1 < k /\ k \in 1..(n + 1)
    BY <1>3
  <2>2. end[k - 1] < end[k]
    BY <1>9, <2>1
  <2>3. end[k] \in (end[k - 1] + 1)..end[k]
    BY <1>2, <1>11, <2>1, <2>2
  <2> QED
    BY <1>3, <1>4, <1>11, <2>1, <2>3
<1>15. Lines(Head(ss)) # {}
  <2>1. CASE n = 0
    <3>1. Lines(ss[1]) = (end[1 - 1] + 1)..end[1]
      BY <1>11, <1>13
    <3>2. end[1 - 1] + 1 = p.first /\ end[1] = p.last
      BY <1>2, <1>5, <2>1
    <3>3. p.first \in p.first..p.last
      BY <1>2
    <3> QED
      BY <1>13, <3>1, <3>2, <3>3
  <2>2. CASE n # 0
    <3>1. 1 \in 1..n
      BY <1>3, <2>2
    <3> QED
      BY <1>13, <1>14, <3>1
  <2> QED
    BY <2>1, <2>2
<1>16. Ordered(ss)
  <2> SUFFICES ASSUME NEW k \in 1..(n + 1), NEW l \in 1..(n + 1), k < l,
                      NEW a \in Lines(ss[k]), NEW b \in Lines(ss[l])
               PROVE  a < b
    BY <1>6 DEF Ordered, Before
  <2>1. k \in 0..(n + 1) /\ l - 1 \in 0..(n + 1) /\ k <= l - 1
    BY <1>3
  <2>2. end[k] <= end[l - 1]
    BY <1>10, <2>1
  <2>3. a \in (end[k - 1] + 1)..end[k] /\ b \in (end[l - 1] + 1)..end[l]
    BY <1>11
  <2>4. end[k] \in Nat /\ end[k - 1] \in Nat /\ end[l] \in Nat /\ end[l - 1] \in Nat
    BY <1>11
  <2> QED
    BY <2>2, <2>3, <2>4
<1>17. LinesOf(ss) = Lines(p)
  <2>1. ASSUME NEW i \in LinesOf(ss) PROVE i \in Lines(p)
    <3>1. PICK k \in 1..(n + 1) : i \in Lines(ss[k])
      BY <1>6, InLinesOf
    <3>2. k \in 0..(n + 1) /\ k - 1 \in 0..(n + 1)
      BY <1>3
    <3>3. end[k] \in (p.first - 1)..p.last /\ end[k - 1] \in (p.first - 1)..p.last
      BY <1>8, <3>2
    <3>4. i \in (end[k - 1] + 1)..end[k]
      BY <1>11, <3>1
    <3>5. p.first \in Nat /\ p.last \in Nat
      BY <1>2
    <3>6. p.first <= i /\ i <= p.last /\ i \in Int
      BY <3>3, <3>4, <3>5
    <3> QED
      BY <1>2, <3>5, <3>6
  <2>2. ASSUME NEW i \in Lines(p) PROVE i \in LinesOf(ss)
    <3> DEFINE K == {k \in 1..(n + 1) : i <= end[k]}
    <3>1. K \subseteq Nat /\ n + 1 \in K
      BY <1>2, <1>3, <1>5
    <3>2. PICK k \in K : \A l \in K : k <= l
      BY <3>1, LeastNumber
    <3>3. k \in 1..(n + 1) /\ i <= end[k] /\ k - 1 \notin K
      BY <1>3, <3>2
    <3>4. end[k - 1] < i
      <4>1. CASE k = 1
        BY <1>2, <1>5, <4>1
      <4>2. CASE k # 1
        <5>1. k - 1 \in 1..(n + 1)
          BY <1>3, <3>3, <4>2
        <5> QED
          BY <1>2, <1>11, <3>3, <5>1
      <4> QED
        BY <4>1, <4>2
    <3>5. i \in Lines(ss[k])
      BY <1>2, <1>11, <3>3, <3>4
    <3> QED
      BY <1>6, <3>3, <3>5, InLinesOf
  <2> QED
    BY <2>1, <2>2
<1>18. \A k \in 1..(Len(ss) - 1) : Lines(ss[k]) # {} /\ doc[ss[k].last].stop
  <2>1. Len(ss) - 1 = n
    BY <1>3, <1>6
  <2> QED
    BY <1>14, <2>1
<1> QED
  BY <1>1, <1>12, <1>13, <1>15, <1>16, <1>17, <1>18

\* What is kept of a chunk are parts of it, of at most Overlap tokens.
LEMMA KeptParts ==
  ASSUME ChunkingAssumption, doc \in Document, NEW X, current \in Seq(X)
  PROVE  /\ Kept \in Seq(X) /\ LinesOf(Kept) \subseteq LinesOf(current)
         /\ TotalIn(doc, Kept) <= Overlap
<1> DEFINE from(k) == SubSeq(current, k, Len(current))
           N == Len(current)
           S == {k \in 1..(N + 1) : Total(from(k)) <= Overlap}
           m == Min(S)
<1>1. N \in Nat /\ Overlap \in Nat /\ DOMAIN current = 1..N
  BY DEF ChunkingAssumption
<1>2. N + 1 \in S
  <2>1. from(N + 1) = <<>>
    OBVIOUS
  <2>2. Total(<<>>) = 0
    BY OfDocument, TotalOfNone
  <2> HIDE DEF N, from
  <2> QED
    BY <1>1, <2>1, <2>2
<1>3. m \in S
  <2>1. S \subseteq Nat
    BY <1>1
  <2> HIDE DEF S
  <2> QED
    BY <1>2, <2>1, MinOf
<1>4. Kept = from(m)
  BY DEF Kept
<1>5. m \in 1..(N + 1) /\ Total(from(m)) <= Overlap
  BY <1>3
<1> HIDE DEF m, S
<1>6. /\ from(m) \in Seq(X) /\ DOMAIN from(m) = 1..(N - m + 1)
      /\ \A k \in 1..(N - m + 1) : from(m)[k] = current[m + k - 1]
  <2>1. m \in Nat /\ m >= 1 /\ m <= N + 1
    BY <1>1, <1>5
  <2> QED
    BY <2>1
<1> HIDE DEF from, N
<1>7. ASSUME NEW i \in LinesOf(from(m)) PROVE i \in LinesOf(current)
  <2>1. PICK k \in 1..(N - m + 1) : i \in Lines(from(m)[k])
    BY <1>6, InLinesOf
  <2>2. m + k - 1 \in 1..N /\ from(m)[k] = current[m + k - 1]
    BY <1>1, <1>5, <1>6
  <2> QED
    BY <1>1, <2>1, <2>2, InLinesOf
<1> QED
  BY <1>4, <1>5, <1>6, <1>7, OfDocument

------------------------------------------------------------------------------
(* The types, and what the parser has read *)

BlockKinds == {"code", "table", "heading", "paragraph"}
BlocksIn(d) == [kind : BlockKinds, span : SpansIn(d)]
ChunksIn(d) == [type : {"text", "code", "table"}, section : 0..Len(d), parts : Seq(SpansIn(d))]

Typed ==
    /\ doc \in Docs
    /\ pc \in {"parse", "merge", "split", "done"}
    /\ at \in 1..(Len(doc) + 1) /\ section \in 0..Len(doc)
    /\ blocks \in Seq(BlocksIn(doc))
    /\ buffer \in Seq(SpansIn(doc)) /\ sentences \in Seq(SpansIn(doc))
    /\ current \in Seq(SpansIn(doc)) /\ tokens = TotalIn(doc, current)
    /\ chunks \in Seq(ChunksIn(doc))

\* Each loop starts where the one before it has ended.
Phases ==
    /\ pc = "parse" => /\ section = 0 /\ buffer = <<>> /\ sentences = <<>>
                       /\ current = <<>> /\ chunks = <<>>
    /\ pc # "parse" => at = Len(doc) + 1
    /\ pc \in {"merge", "done"} => sentences = <<>> /\ current = <<>>
    /\ pc = "done" => blocks = <<>> /\ buffer = <<>>

\* The parser stands outside of the blocks of code and the tables.
StandsOutside == pc = "parse" /\ at <= Len(doc) => Outside(doc, at)

\* A block after section and before line a holds lines of the body, those of a
\* paragraph outside of code, or it is a heading.
BlockFits(d, b, s, a) ==
    /\ s < b.span.first /\ b.span.first <= b.span.last /\ b.span.last < a
    /\ b.kind = "heading" => b.span.first = b.span.last /\ b.span.first \in HeadingsIn(d)
    /\ b.kind # "heading" => Lines(b.span) \subseteq BodyIn(d)
    /\ b.kind = "paragraph" => Lines(b.span) \subseteq ProseIn(d)

BlocksFit ==
    /\ \A k \in 1..Len(blocks) : BlockFits(doc, blocks[k], section, at)
    /\ \A k, l \in 1..Len(blocks) : k < l => blocks[k].span.last < blocks[l].span.first

BufferFull == \A k \in 1..Len(buffer) : Lines(buffer[k]) # {}

ReadInv == Typed /\ Phases /\ StandsOutside /\ BlocksFit /\ BufferFull

LEMMA DocsAreDocuments == Docs \subseteq Document
  BY ChunkingAssumption DEF ChunkingAssumption, Document

LEMMA BlockTyped ==
  ASSUME NEW d \in Document, NEW b \in BlocksIn(d)
  PROVE  /\ b.kind \in BlockKinds /\ b.span \in SpansIn(d)
         /\ b.span.first \in Nat \ {0} /\ b.span.last \in Nat
         /\ b.span.first <= Len(d) + 1 /\ b.span.last <= Len(d)
  BY DocumentLines DEF BlocksIn, SpansIn

\* The parser reads a block that fits, and stands outside of code again.
Reads(kind, last) ==
    /\ kind \in BlockKinds /\ last \in at..Len(doc)
    /\ last < Len(doc) => Outside(doc, last + 1)
    /\ BlockFits(doc, [kind |-> kind, span |-> Span(at, last)], 0, last + 1)
    /\ pc = "parse" /\ at <= Len(doc) /\ Parse(kind, last)

LEMMA ReadsBlock ==
  ASSUME ReadInv, ParseCode \/ ParseHeading \/ ParseTable \/ ParseParagraph
  PROVE  \E kind, last : Reads(kind, last)
<1>1. /\ doc \in Document /\ Len(doc) \in Nat /\ at \in 1..Len(doc) /\ pc = "parse"
      /\ Outside(doc, at)
  <2>1. pc = "parse" /\ at <= Len(doc)
    BY DEF ParseCode, ParseHeading, ParseTable, ParseParagraph, Parsing
  <2>2. doc \in Document /\ at \in 1..(Len(doc) + 1)
    BY DocsAreDocuments DEF ReadInv, Typed
  <2>3. Len(doc) \in Nat
    BY <2>2, DocumentLines
  <2> QED
    BY <2>1, <2>2, <2>3 DEF ReadInv, StandsOutside
<1>2. ASSUME NEW kind \in BlockKinds, NEW last \in at..Len(doc), Parse(kind, last),
             last < Len(doc) => Outside(doc, last + 1),
             kind = "heading" => last = at /\ at \in HeadingsIn(doc),
             kind # "heading" => at..last \subseteq BodyIn(doc),
             kind = "paragraph" => at..last \subseteq ProseIn(doc)
      PROVE  Reads(kind, last)
  <2> DEFINE b == [kind |-> kind, span |-> Span(at, last)]
  <2>1. b.kind = kind /\ b.span.first = at /\ b.span.last = last /\ Lines(b.span) = at..last
    BY DEF Span, Lines
  <2> HIDE DEF b
  <2>2. 0 < at /\ at <= last /\ last < last + 1
    BY <1>1
  <2>3. BlockFits(doc, b, 0, last + 1)
    BY <1>2, <2>1, <2>2 DEF BlockFits
  <2> QED
    BY <1>1, <1>2, <2>3 DEF Reads, b
\* Where nothing is open, a line is outside.
<1>0. ASSUME NEW last \in at..Len(doc), OpenIn(doc)[last] = "none" PROVE Outside(doc, last + 1)
  <2>1. (last + 1) - 1 = last
    BY <1>1
  <2> QED
    BY <1>0, <2>1 DEF Outside
<1>3. CASE ParseCode
  <2>1. doc[at].kind \in Fences /\ Parse("code", CodeEnd(at))
    BY <1>3 DEF ParseCode, Parsing
  <2>2. /\ CodeEnd(at) \in at..Len(doc) /\ at..CodeEnd(at) \subseteq BodyIn(doc)
        /\ CodeEnd(at) < Len(doc) => OpenIn(doc)[CodeEnd(at)] = "none"
    BY <1>1, <2>1, CodeLines
  <2>3. Reads("code", CodeEnd(at))
    BY <1>0, <1>2, <2>1, <2>2 DEF BlockKinds
  <2> QED
    BY <2>3
<1>4. CASE ParseHeading
  <2>1. doc[at].kind = "heading" /\ Parse("heading", at)
    BY <1>4 DEF ParseHeading, Parsing
  <2>2. at \in at..Len(doc) /\ \A j \in at..at : j = at
    BY <1>1
  <2>3. at..at \subseteq ProseIn(doc) /\ OpenIn(doc)[at] = "none"
    BY <1>1, <2>1, <2>2, PlainLines DEF Fences, StartsNone
  <2>4. at \in HeadingsIn(doc)
    <3>1. at \in at..at
      BY <1>1
    <3> QED
      BY <2>1, <2>3, <3>1 DEF HeadingsIn
  <2>5. Reads("heading", at)
    BY <1>0, <1>2, <2>1, <2>2, <2>3, <2>4 DEF BlockKinds
  <2> QED
    BY <2>5
<1>5. CASE ParseTable
  <2>1. doc[at].kind \in Plain /\ TableStart(at) /\ Parse("table", TableEnd(at))
    BY <1>5 DEF ParseTable, Parsing
  <2>2. /\ TableEnd(at) \in at..Len(doc) /\ at..TableEnd(at) \subseteq BodyIn(doc)
        /\ TableEnd(at) < Len(doc) => Outside(doc, TableEnd(at) + 1)
    BY <1>1, <2>1, TableLines
  <2>3. Reads("table", TableEnd(at))
    BY <1>2, <2>1, <2>2 DEF BlockKinds
  <2> QED
    BY <2>3
<1>6. CASE ParseParagraph
  <2>1. doc[at].kind \in Plain /\ ~TableStart(at) /\ Parse("paragraph", ParagraphEnd(at))
    BY <1>6 DEF ParseParagraph, Parsing
  <2>2. /\ ParagraphEnd(at) \in at..Len(doc) /\ OpenIn(doc)[ParagraphEnd(at)] = "none"
        /\ at..ParagraphEnd(at) \subseteq BodyIn(doc) /\ at..ParagraphEnd(at) \subseteq ProseIn(doc)
    BY <1>1, <2>1, ParagraphLines
  <2>3. Reads("paragraph", ParagraphEnd(at))
    BY <1>0, <1>2, <2>1, <2>2 DEF BlockKinds
  <2> QED
    BY <2>3
<1> QED
  BY <1>3, <1>4, <1>5, <1>6

\* What a blank line is
LEMMA BlankLine ==
  ASSUME ReadInv, SkipBlank
  PROVE  /\ pc = "parse" /\ at \in 1..Len(doc) /\ at \notin BodyIn(doc) /\ at \notin HeadingsIn(doc)
         /\ OpenIn(doc)[at] = "none" /\ Len(doc) \in Nat
<1>1. pc = "parse" /\ at <= Len(doc) /\ doc[at].kind = "blank"
  BY DEF SkipBlank, Parsing
<1>2. doc \in Document /\ at \in 1..(Len(doc) + 1)
  BY DocsAreDocuments DEF ReadInv, Typed
<1>3. Len(doc) \in Nat /\ at \in 1..Len(doc) /\ Outside(doc, at) /\ ~doc[at].pipe
  BY <1>1, <1>2, DocumentLines DEF ReadInv, StandsOutside
<1>4. at \in at..Len(doc) /\ at \in at..at /\ \A j \in at..at : j = at
  BY <1>3
<1>5. at..at \subseteq ProseIn(doc) /\ OpenIn(doc)[at] = "none"
  BY <1>1, <1>2, <1>3, <1>4, PlainLines DEF Fences, StartsNone, TableStartIn
<1> QED
  BY <1>1, <1>3, <1>4, <1>5 DEF BodyIn, HeadingsIn

LEMMA BufferHead ==
  ASSUME ReadInv, buffer # <<>>
  PROVE  /\ Head(buffer) \in SpansIn(doc) /\ Lines(Head(buffer)) # {}
         /\ Tail(buffer) \in Seq(SpansIn(doc))
         /\ \A k \in 1..Len(Tail(buffer)) : Lines(Tail(buffer)[k]) # {}
<1> DEFINE S == SpansIn(doc)
<1>1. buffer \in Seq(S) /\ \A k \in 1..Len(buffer) : Lines(buffer[k]) # {}
  BY DEF ReadInv, Typed, BufferFull
<1> HIDE DEF S
<1>2. /\ Head(buffer) \in S /\ Tail(buffer) \in Seq(S)
      /\ Len(buffer) \in Nat \ {0} /\ Len(Tail(buffer)) = Len(buffer) - 1
      /\ Head(buffer) = buffer[1] /\ \A k \in 1..Len(Tail(buffer)) : Tail(buffer)[k] = buffer[k + 1]
  BY <1>1
<1>3. 1 \in 1..Len(buffer) /\ \A k \in 1..Len(Tail(buffer)) : k + 1 \in 1..Len(buffer)
  BY <1>2
<1> QED
  BY <1>1, <1>2, <1>3 DEF S

LEMMA BlocksHead ==
  ASSUME ReadInv, blocks # <<>>
  PROVE  /\ Head(blocks) \in BlocksIn(doc) /\ BlockFits(doc, Head(blocks), section, at)
         /\ Head(blocks) = blocks[1] /\ 1 \in 1..Len(blocks)
         /\ Tail(blocks) \in Seq(BlocksIn(doc)) /\ Len(Tail(blocks)) = Len(blocks) - 1
         /\ \A k \in 1..Len(Tail(blocks)) :
               /\ k + 1 \in 1..Len(blocks) /\ Tail(blocks)[k] = blocks[k + 1]
               /\ Tail(blocks)[k] \in BlocksIn(doc)
               /\ Head(blocks).span.last < Tail(blocks)[k].span.first
               /\ \A s \in {section, Head(blocks).span.first} : BlockFits(doc, Tail(blocks)[k], s, at)
         /\ \A k, l \in 1..Len(Tail(blocks)) :
               k < l => Tail(blocks)[k].span.last < Tail(blocks)[l].span.first
<1> DEFINE S == BlocksIn(doc)
           rest == Tail(blocks)
           b == Head(blocks)
<1>1. /\ doc \in Document /\ blocks \in Seq(S)
      /\ \A k \in 1..Len(blocks) : BlockFits(doc, blocks[k], section, at)
      /\ \A k, l \in 1..Len(blocks) : k < l => blocks[k].span.last < blocks[l].span.first
  BY DocsAreDocuments DEF ReadInv, Typed, BlocksFit
<1> HIDE DEF S
<1>2. /\ b \in S /\ rest \in Seq(S) /\ Len(blocks) \in Nat \ {0} /\ Len(rest) = Len(blocks) - 1
      /\ b = blocks[1] /\ \A k \in 1..Len(rest) : rest[k] = blocks[k + 1] /\ rest[k] \in S
  BY <1>1
<1> HIDE DEF rest, b
<1>3. 1 \in 1..Len(blocks) /\ \A k \in 1..Len(rest) : k + 1 \in 1..Len(blocks) /\ 1 < k + 1
  BY <1>2
<1>4. BlockFits(doc, b, section, at)
  BY <1>1, <1>2, <1>3
<1>5. ASSUME NEW k \in 1..Len(rest)
      PROVE  /\ b.span.last < rest[k].span.first
             /\ \A s \in {section, b.span.first} : BlockFits(doc, rest[k], s, at)
  <2>1. blocks[k + 1] = rest[k] /\ BlockFits(doc, rest[k], section, at) /\ b.span.last < rest[k].span.first
    BY <1>1, <1>2, <1>3
  <2>2. b.span.first \in Nat /\ b.span.last \in Nat /\ rest[k].span.first \in Nat
    BY <1>1, <1>2, BlockTyped DEF S
  <2>3. b.span.first < rest[k].span.first
    BY <1>4, <2>1, <2>2 DEF BlockFits
  <2>4. BlockFits(doc, rest[k], b.span.first, at)
    BY <2>1, <2>3 DEF BlockFits
  <2> QED
    BY <2>1, <2>4
<1>6. \A k, l \in 1..Len(rest) : k < l => rest[k].span.last < rest[l].span.first
  <2> SUFFICES ASSUME NEW k \in 1..Len(rest), NEW l \in 1..Len(rest), k < l
               PROVE  rest[k].span.last < rest[l].span.first
    OBVIOUS
  <2>1. k + 1 < l + 1 /\ k + 1 \in 1..Len(blocks) /\ l + 1 \in 1..Len(blocks)
    BY <1>2, <1>3
  <2> QED
    BY <1>1, <1>2, <2>1
<1> QED
  BY <1>2, <1>3, <1>4, <1>5, <1>6 DEF S, rest, b

LEMMA ReadInit == Init => ReadInv
<1> SUFFICES ASSUME Init PROVE ReadInv
  OBVIOUS
<1>1. doc \in Document /\ doc \in Docs
  BY DocsAreDocuments DEF Init
<1>2. Len(doc) \in Nat
  BY <1>1, DocumentLines
<1>3. TotalIn(doc, <<>>) = 0
  BY <1>1, TotalOfNone
<1>4. Typed
  <2>1. at \in 1..(Len(doc) + 1) /\ section \in 0..Len(doc)
    BY <1>2 DEF Init
  <2>2. \A S : <<>> \in Seq(S)
    OBVIOUS
  <2> QED
    BY <1>1, <1>3, <2>1, <2>2 DEF Init, Typed
<1>5. OpenIn(doc)[at - 1] = "none"
  <2>1. at - 1 = 0
    BY DEF Init
  <2> QED
    BY <1>1, <2>1, FencesOpen
<1> QED
  BY <1>4, <1>5 DEF Init, ReadInv, Phases, StandsOutside, Outside, BlocksFit, BufferFull

LEMMA ReadStep == ReadInv /\ [Next]_vars => ReadInv'
<1> SUFFICES ASSUME ReadInv, [Next]_vars PROVE ReadInv'
  OBVIOUS
<1> DEFINE N == Len(doc)
<1>1. /\ doc \in Document /\ doc \in Docs /\ N \in Nat /\ Typed /\ Phases
      /\ at \in 1..(N + 1) /\ section \in 0..N
      /\ blocks \in Seq(BlocksIn(doc)) /\ buffer \in Seq(SpansIn(doc))
      /\ sentences \in Seq(SpansIn(doc)) /\ current \in Seq(SpansIn(doc))
      /\ tokens = TotalIn(doc, current) /\ chunks \in Seq(ChunksIn(doc))
  <2>1. doc \in Document
    BY DocsAreDocuments DEF ReadInv, Typed
  <2>2. N \in Nat
    BY <2>1, DocumentLines
  <2> QED
    BY <2>1, <2>2 DEF ReadInv, Typed
<1>2. BlocksFit /\ BufferFull /\ StandsOutside
  BY DEF ReadInv
<1> HIDE DEF N
\* A chunk of text that is given out is one.
<1>3. ASSUME Emit("text", current) PROVE chunks' \in Seq(ChunksIn(doc))
  <2>1. [type |-> "text", section |-> section, parts |-> current] \in ChunksIn(doc)
    BY <1>1 DEF ChunksIn, N
  <2> QED
    BY <1>1, <1>3, <2>1 DEF Emit
<1>4. CASE ParseCode \/ ParseHeading \/ ParseTable \/ ParseParagraph
  <2>1. PICK kind, last : Reads(kind, last)
    BY <1>4, ReadsBlock
  <2> DEFINE b == [kind |-> kind, span |-> Span(at, last)]
  <2>2. /\ blocks' = Append(blocks, b) /\ at' = last + 1
        /\ UNCHANGED <<doc, pc, section, buffer, sentences, current, tokens, chunks>>
        /\ last \in at..N /\ pc = "parse" /\ at <= N /\ section = 0
        /\ BlockFits(doc, b, 0, last + 1) /\ (last < N => Outside(doc, last + 1))
    BY <2>1, <1>1 DEF Reads, Parse, splitting, Phases, N
  <2>3. b \in BlocksIn(doc)
    BY <1>1, <2>1, <2>2 DEF Reads, BlocksIn, SpansIn, Span, N
  <2>4. b.span.first = at
    BY DEF Span
  <2> HIDE DEF b
  <2>5. /\ Len(blocks') = Len(blocks) + 1 /\ blocks'[Len(blocks) + 1] = b
        /\ blocks' \in Seq(BlocksIn(doc)) /\ Len(blocks) \in Nat
        /\ \A k \in 1..Len(blocks) : blocks'[k] = blocks[k] /\ blocks[k] \in BlocksIn(doc)
        /\ \A k \in 1..(Len(blocks) + 1) : k \in 1..Len(blocks) \/ k = Len(blocks) + 1
    BY <1>1, <2>2, <2>3
  <2>6. at' \in 1..(N + 1) /\ at < at'
    BY <1>1, <2>2
  <2>7. Typed'
    BY <1>1, <2>2, <2>5, <2>6 DEF Typed, N
  <2>8. Phases' /\ BufferFull'
    BY <1>1, <1>2, <2>2 DEF Phases, BufferFull
  <2>9. StandsOutside'
    <3>1. at' = last + 1 /\ (at' <= N => last < N)
      BY <1>1, <2>2
    <3> QED
      BY <2>2, <3>1 DEF StandsOutside, N
  <2>10. BlocksFit'
    <3>1. ASSUME NEW k \in 1..Len(blocks)
          PROVE  BlockFits(doc, blocks[k], section, at') /\ blocks[k].span.last < b.span.first
      <4>1. BlockFits(doc, blocks[k], section, at) /\ blocks[k].span.last \in Nat
        BY <1>1, <1>2, <2>5, BlockTyped DEF BlocksFit
      <4>2. blocks[k].span.last < at /\ blocks[k].span.last < at'
        BY <1>1, <2>6, <4>1 DEF BlockFits
      <4> QED
        BY <2>4, <4>1, <4>2 DEF BlockFits
    <3>2. \A k \in 1..Len(blocks') : BlockFits(doc, blocks'[k], section, at')
      BY <2>2, <2>5, <3>1
    <3>3. ASSUME NEW k \in 1..Len(blocks'), NEW l \in 1..Len(blocks'), k < l
          PROVE  blocks'[k].span.last < blocks'[l].span.first
      <4>1. k \in 1..Len(blocks)
        BY <2>5, <3>3
      <4> QED
        BY <1>2, <2>5, <3>1, <3>3, <4>1 DEF BlocksFit
    <3> QED
      BY <2>2, <3>2, <3>3 DEF BlocksFit
  <2> QED
    BY <2>7, <2>8, <2>9, <2>10 DEF ReadInv
<1>5. CASE SkipBlank
  <2>1. /\ pc = "parse" /\ at \in 1..N /\ OpenIn(doc)[at] = "none" /\ at' = at + 1
        /\ UNCHANGED <<doc, pc, blocks, section, buffer, sentences, current, tokens, chunks>>
    BY <1>5, BlankLine DEF SkipBlank, splitting, N
  <2>2. at' \in 1..(N + 1) /\ at' - 1 = at /\ at < at'
    BY <1>1, <2>1
  <2>3. Typed'
    BY <1>1, <2>1, <2>2 DEF Typed, N
  <2>4. Phases' /\ BufferFull' /\ StandsOutside'
    BY <1>1, <1>2, <2>1, <2>2 DEF Phases, BufferFull, StandsOutside, Outside
  <2>5. BlocksFit'
    <3>1. ASSUME NEW k \in 1..Len(blocks) PROVE BlockFits(doc, blocks[k], section, at')
      <4>1. blocks[k] \in BlocksIn(doc)
        BY <1>1
      <4>2. BlockFits(doc, blocks[k], section, at) /\ blocks[k].span.last \in Nat
        BY <1>1, <1>2, <4>1, BlockTyped DEF BlocksFit
      <4>3. blocks[k].span.last < at'
        BY <1>1, <2>2, <4>2 DEF BlockFits
      <4> QED
        BY <4>2, <4>3 DEF BlockFits
    <3> QED
      BY <1>2, <2>1, <3>1 DEF BlocksFit
  <2> QED
    BY <2>3, <2>4, <2>5 DEF ReadInv
<1>6. CASE EndParse
  <2>1. /\ pc = "parse" /\ at > N /\ pc' = "merge"
        /\ UNCHANGED <<doc, at, blocks, section, buffer, sentences, current, tokens, chunks>>
    BY <1>6 DEF EndParse, parsed, splitting, N
  <2>2. at = N + 1
    BY <1>1, <2>1
  <2>3. Typed' /\ Phases'
    BY <1>1, <2>1, <2>2 DEF Typed, Phases, N
  <2> QED
    BY <1>2, <2>1, <2>3 DEF ReadInv, StandsOutside, BlocksFit, BufferFull
<1>7. CASE FlushParagraphs
  <2>1. /\ pc = "merge" /\ pc' = "split"
        /\ UNCHANGED <<doc, at, blocks, section, buffer, sentences, current, tokens, chunks>>
    BY <1>7 DEF FlushParagraphs, parsed, splitting
  <2>2. Typed' /\ Phases'
    BY <1>1, <2>1 DEF Typed, Phases
  <2> QED
    BY <1>2, <2>1, <2>2 DEF ReadInv, StandsOutside, BlocksFit, BufferFull
<1>8. CASE MergeHeading \/ MergeWhole \/ MergeParagraph
  <2> DEFINE b == Head(blocks)
             rest == Tail(blocks)
  <2>1. /\ pc = "merge" /\ blocks # <<>> /\ blocks' = rest
        /\ UNCHANGED <<doc, pc, at, sentences, current, tokens>>
    BY <1>8 DEF MergeHeading, MergeWhole, MergeParagraph, Merging, splitting
  <2>2. /\ b \in BlocksIn(doc) /\ BlockFits(doc, b, section, at) /\ rest \in Seq(BlocksIn(doc))
        /\ \A k \in 1..Len(rest) :
              \A s \in {section, b.span.first} : BlockFits(doc, rest[k], s, at)
        /\ \A k, l \in 1..Len(rest) : k < l => rest[k].span.last < rest[l].span.first
    BY <2>1, BlocksHead
  <2>3. /\ b.span \in SpansIn(doc) /\ b.span.first \in Nat /\ b.span.last \in Nat
        /\ b.span.first <= b.span.last /\ b.span.last <= N
    BY <1>1, <2>2, BlockTyped DEF BlockFits, N
  <2>4. StandsOutside' /\ at = N + 1
    BY <1>1, <2>1 DEF StandsOutside, Phases, N
  <2>5. CASE MergeHeading
    <3>1. section' = b.span.first /\ UNCHANGED <<buffer, chunks>>
      BY <2>5 DEF MergeHeading
    <3>2. Typed'
      <4>1. section' \in 0..N
        BY <1>1, <2>3, <3>1
      <4> QED
        BY <1>1, <2>1, <2>2, <3>1, <4>1 DEF Typed, N
    <3>3. Phases' /\ BufferFull'
      BY <1>1, <1>2, <2>1, <3>1 DEF Phases, BufferFull
    <3>4. BlocksFit'
      BY <2>1, <2>2, <3>1 DEF BlocksFit
    <3> QED
      BY <2>4, <3>2, <3>3, <3>4 DEF ReadInv
  <2>6. CASE MergeWhole
    <3>1. /\ UNCHANGED <<section, buffer>> /\ b.kind \in {"code", "table"}
          /\ chunks' = Append(chunks, [type |-> b.kind, section |-> section, parts |-> <<b.span>>])
      BY <2>6 DEF MergeWhole, Merging, Emit
    <3>2. Typed'
      <4>1. <<b.span>> \in Seq(SpansIn(doc))
        BY <2>3
      <4>2. [type |-> b.kind, section |-> section, parts |-> <<b.span>>] \in ChunksIn(doc)
        BY <1>1, <3>1, <4>1 DEF ChunksIn, N
      <4>3. chunks' \in Seq(ChunksIn(doc))
        BY <1>1, <3>1, <4>2
      <4> QED
        BY <1>1, <2>1, <2>2, <3>1, <4>3 DEF Typed, N
    <3>3. Phases' /\ BufferFull'
      BY <1>1, <1>2, <2>1, <3>1 DEF Phases, BufferFull
    <3>4. BlocksFit'
      BY <2>1, <2>2, <3>1 DEF BlocksFit
    <3> QED
      BY <2>4, <3>2, <3>3, <3>4 DEF ReadInv
  <2>7. CASE MergeParagraph
    <3>1. UNCHANGED <<section, chunks>> /\ buffer' = Append(buffer, b.span)
      BY <2>7 DEF MergeParagraph
    <3>2. /\ buffer' \in Seq(SpansIn(doc)) /\ Len(buffer') = Len(buffer) + 1 /\ Len(buffer) \in Nat
          /\ \A k \in 1..Len(buffer) : buffer'[k] = buffer[k]
          /\ buffer'[Len(buffer) + 1] = b.span
      BY <1>1, <2>3, <3>1
    <3>3. BufferFull'
      <4>1. b.span.first \in Lines(b.span)
        BY <2>3 DEF Lines
      <4>2. \A k \in 1..(Len(buffer) + 1) : k \in 1..Len(buffer) \/ k = Len(buffer) + 1
        BY <3>2
      <4> QED
        BY <1>2, <3>2, <4>1, <4>2 DEF BufferFull
    <3>4. Typed' /\ Phases'
      BY <1>1, <2>1, <2>2, <3>1, <3>2 DEF Typed, Phases
    <3>5. BlocksFit'
      BY <2>1, <2>2, <3>1 DEF BlocksFit
    <3> QED
      BY <2>4, <3>3, <3>4, <3>5 DEF ReadInv
  <2> QED
    BY <1>8, <2>5, <2>6, <2>7
<1>9. CASE EndMerge
  <2>1. /\ pc = "merge" /\ blocks = <<>> /\ buffer = <<>> /\ pc' = "done"
        /\ UNCHANGED <<doc, at, blocks, section, buffer, sentences, current, tokens, chunks>>
    BY <1>9 DEF EndMerge, parsed, splitting
  <2>2. Typed' /\ Phases'
    BY <1>1, <2>1 DEF Typed, Phases
  <2> QED
    BY <1>2, <2>1, <2>2 DEF ReadInv, StandsOutside, BlocksFit, BufferFull
\* A step of _split_text leaves what was read alone.
<1>10. ASSUME pc = "split", pc' \in {"split", "merge"}, UNCHANGED <<doc, at, blocks, section>>,
              buffer' \in Seq(SpansIn(doc)), BufferFull', sentences' \in Seq(SpansIn(doc)),
              current' \in Seq(SpansIn(doc)), tokens' = TotalIn(doc, current'),
              chunks' \in Seq(ChunksIn(doc)),
              pc' = "merge" => sentences' = <<>> /\ current' = <<>>
       PROVE  ReadInv'
  <2>1. Typed' /\ Phases'
    BY <1>1, <1>10 DEF Typed, Phases
  <2> QED
    BY <1>2, <1>10, <2>1 DEF ReadInv, StandsOutside, BlocksFit
<1>11. <<>> \in Seq(SpansIn(doc)) /\ TotalIn(doc, <<>>) = 0
  BY <1>1, TotalOfNone
<1>12. CASE SplitLong
  <2>1. /\ pc = "split" /\ pc' = pc /\ UNCHANGED <<doc, at, blocks, section>> /\ buffer # <<>>
        /\ sentences' = Sentences(Head(buffer)) /\ buffer' = Tail(buffer)
        /\ current' = <<>> /\ tokens' = 0
        /\ Emit("text", current) \/ UNCHANGED chunks
    BY <1>12 DEF SplitLong, Splitting, Build, parsed
  <2>2. sentences' \in Seq(SpansIn(doc)) /\ buffer' \in Seq(SpansIn(doc)) /\ BufferFull'
    BY <1>1, <2>1, BufferHead, SentencesOf DEF BufferFull
  <2> QED
    BY <1>1, <1>3, <1>10, <1>11, <2>1, <2>2
<1>13. CASE AddSentence
  <2> DEFINE s == Head(sentences)
  <2>1. /\ pc = "split" /\ pc' = pc /\ UNCHANGED <<doc, at, blocks, section, buffer>>
        /\ sentences # <<>> /\ sentences' = Tail(sentences)
        /\ \/ Emit("text", current) /\ current' = <<s>> /\ tokens' = Size(s)
           \/ UNCHANGED chunks /\ current' = Append(current, s) /\ tokens' = tokens + Size(s)
    BY <1>13 DEF AddSentence, Splitting, Build, parsed
  <2>2. s \in SpansIn(doc) /\ sentences' \in Seq(SpansIn(doc))
    BY <1>1, <2>1, HeadFirst
  <2>3. Size(s) = SizeIn(doc, s)
    BY OfDocument
  <2> HIDE DEF s
  <2>4. BufferFull'
    BY <1>2, <2>1 DEF BufferFull
  <2>5. CASE Emit("text", current) /\ current' = <<s>> /\ tokens' = Size(s)
    <3>1. <<s>> \in Seq(SpansIn(doc)) /\ TotalIn(doc, <<s>>) = Size(s)
      BY <1>1, <2>2, <2>3, TotalOfOne
    <3> QED
      BY <1>1, <1>3, <1>10, <2>1, <2>2, <2>4, <2>5, <3>1
  <2>6. CASE UNCHANGED chunks /\ current' = Append(current, s) /\ tokens' = tokens + Size(s)
    <3>1. TotalIn(doc, Append(current, s)) = TotalIn(doc, current) + SizeIn(doc, s)
      BY <1>1, <2>2, TotalOfMore
    <3>2. Append(current, s) \in Seq(SpansIn(doc))
      BY <1>1, <2>2
    <3> QED
      BY <1>1, <1>10, <2>1, <2>2, <2>3, <2>4, <2>6, <3>1, <3>2
  <2> QED
    BY <2>1, <2>5, <2>6
<1>14. CASE AddParagraph
  <2> DEFINE p == Head(buffer)
  <2>1. /\ pc = "split" /\ pc' = pc /\ UNCHANGED <<doc, at, blocks, section, sentences>>
        /\ buffer # <<>> /\ buffer' = Tail(buffer)
        /\ \/ /\ Emit("text", current) /\ current' = Append(Kept, p)
              /\ tokens' = Total(Kept) + Size(p)
           \/ UNCHANGED chunks /\ current' = Append(current, p) /\ tokens' = tokens + Size(p)
    BY <1>14 DEF AddParagraph, Splitting, Build, parsed
  <2>2. p \in SpansIn(doc) /\ buffer' \in Seq(SpansIn(doc)) /\ BufferFull'
    BY <2>1, BufferHead DEF BufferFull
  <2>3. Size(p) = SizeIn(doc, p) /\ Total(Kept) = TotalIn(doc, Kept)
    BY OfDocument
  <2>4. Kept \in Seq(SpansIn(doc))
    BY <1>1, ChunkingAssumption, KeptParts
  <2> HIDE DEF p
  <2>5. \A parts \in Seq(SpansIn(doc)) :
            /\ Append(parts, p) \in Seq(SpansIn(doc))
            /\ TotalIn(doc, Append(parts, p)) = TotalIn(doc, parts) + SizeIn(doc, p)
    BY <1>1, <2>2, TotalOfMore
  <2>6. current' \in Seq(SpansIn(doc)) /\ tokens' = TotalIn(doc, current')
    BY <1>1, <2>1, <2>3, <2>4, <2>5
  <2> QED
    BY <1>1, <1>3, <1>10, <2>1, <2>2, <2>6
<1>15. CASE EndSplit
  <2>1. /\ pc = "split" /\ pc' = "merge" /\ UNCHANGED <<doc, at, blocks, section, buffer, sentences>>
        /\ sentences = <<>> /\ current' = <<>> /\ tokens' = 0
        /\ Emit("text", current) \/ UNCHANGED chunks
    BY <1>15 DEF EndSplit, Splitting, Build, parsed
  <2>2. BufferFull'
    BY <1>2, <2>1 DEF BufferFull
  <2> QED
    BY <1>1, <1>3, <1>10, <1>11, <2>1, <2>2
<1>16. CASE UNCHANGED vars
  <2>1. UNCHANGED <<doc, pc, at, blocks, section, buffer, sentences, current, tokens, chunks>>
    BY <1>16 DEF vars
  <2> QED
    BY <1>1, <1>2, <2>1 DEF ReadInv, Typed, Phases, StandsOutside, BlocksFit, BufferFull
<1> QED
  BY <1>4, <1>5, <1>6, <1>7, <1>8, <1>9, <1>12, <1>13, <1>14, <1>15, <1>16 DEF Next

\* What the running count is
LEMMA SizeFacts ==
  ASSUME ReadInv
  PROVE  /\ doc \in Document /\ Len(doc) \in Nat /\ ChunkSize \in Nat /\ Overlap \in Nat
         /\ current \in Seq(SpansIn(doc)) /\ sentences \in Seq(SpansIn(doc))
         /\ buffer \in Seq(SpansIn(doc)) /\ chunks \in Seq(ChunksIn(doc))
         /\ tokens = TotalIn(doc, current) /\ tokens \in Nat
         /\ \A s : SizeIn(doc, s) \in Nat /\ Size(s) = SizeIn(doc, s)
         /\ current = <<>> => tokens = 0
<1>1. doc \in Document /\ current \in Seq(SpansIn(doc)) /\ tokens = TotalIn(doc, current)
  BY DocsAreDocuments DEF ReadInv, Typed
<1>2. tokens \in Nat
  BY <1>1, TotalTyped
<1>3. \A s : SizeIn(doc, s) \in Nat /\ Size(s) = SizeIn(doc, s)
  BY <1>1, OfDocument, SizeTyped
<1>4. current = <<>> => tokens = 0
  BY <1>1, TotalOfNone
<1> QED
  BY <1>1, <1>2, <1>3, <1>4, ChunkingAssumption, DocumentLines DEF ReadInv, Typed, ChunkingAssumption

------------------------------------------------------------------------------
(* The sections *)

\* Line i stands under the heading of line s, or under none.
Under(d, s, i) == s < i /\ \A h \in HeadingsIn(d) : h < i => h <= s

Stands(d, c) ==
    /\ c.section \in {0} \cup HeadingsIn(d)
    /\ \A i \in LinesOf(c.parts) : Under(d, c.section, i)
    /\ c.type = "text" => LinesOf(c.parts) \subseteq ProseIn(d)

Text == LinesOf(current) \cup LinesOf(sentences) \cup LinesOf(buffer)

\* A heading is passed, waits among the blocks or is not yet read.
HeadingsKept ==
    /\ section \in {0} \cup HeadingsIn(doc)
    /\ \A h \in HeadingsIn(doc) :
          h < at => \/ h <= section
                    \/ \E k \in 1..Len(blocks) :
                          blocks[k].kind = "heading" /\ blocks[k].span.first = h
TextUnder == Text \subseteq ProseIn(doc) /\ \A i \in Text : Under(doc, section, i)
ChunksStand == \A k \in 1..Len(chunks) : Stands(doc, chunks[k])

SectionInv == ReadInv /\ HeadingsKept /\ TextUnder /\ ChunksStand

TextChunk == [type |-> "text", section |-> section, parts |-> current]

LEMMA ChunksMore ==
  ASSUME NEW X, NEW cs \in Seq(X), NEW c
  PROVE  /\ Len(Append(cs, c)) = Len(cs) + 1 /\ Len(cs) \in Nat
         /\ \A k \in 1..Len(cs) : Append(cs, c)[k] = cs[k]
         /\ Append(cs, c)[Len(cs) + 1] = c
         /\ \A k \in 1..(Len(cs) + 1) : k \in 1..Len(cs) \/ k = Len(cs) + 1
         /\ \A k \in 1..Len(cs) : k \in 1..(Len(cs) + 1) /\ k < Len(cs) + 1
         /\ Len(cs) + 1 \in 1..(Len(cs) + 1)
  OBVIOUS

\* _split_text gives out what is being built and takes from what is left.
LEMMA SplitMoves ==
  ASSUME ReadInv, SplitLong \/ AddSentence \/ AddParagraph \/ EndSplit
  PROVE  /\ UNCHANGED <<doc, at, blocks, section>>
         /\ UNCHANGED chunks \/ chunks' = Append(chunks, TextChunk)
         /\ Text' \subseteq Text
<1>1. /\ doc \in Document /\ sentences \in Seq(SpansIn(doc)) /\ buffer \in Seq(SpansIn(doc))
      /\ current \in Seq(SpansIn(doc))
  BY DocsAreDocuments DEF ReadInv, Typed
<1>2. Text' = LinesOf(current') \cup LinesOf(sentences') \cup LinesOf(buffer')
  BY DEF Text
<1>3. Emit("text", current) => chunks' = Append(chunks, TextChunk)
  BY DEF Emit, TextChunk
<1>4. CASE SplitLong
  <2>1. /\ UNCHANGED <<doc, at, blocks, section>> /\ buffer # <<>>
        /\ sentences' = Sentences(Head(buffer)) /\ buffer' = Tail(buffer) /\ current' = <<>>
        /\ Emit("text", current) \/ UNCHANGED chunks
    BY <1>4 DEF SplitLong, Splitting, Build, parsed
  <2>2. /\ LinesOf(buffer) = Lines(Head(buffer)) \cup LinesOf(Tail(buffer))
        /\ LinesOf(Sentences(Head(buffer))) = Lines(Head(buffer))
    BY <1>1, <2>1, HeadFirst, BufferHead, SentencesOf
  <2> QED
    BY <1>2, <1>3, <2>1, <2>2, LinesOfNone DEF Text
<1>5. CASE AddSentence
  <2> DEFINE s == Head(sentences)
  <2>1. /\ UNCHANGED <<doc, at, blocks, section, buffer>>
        /\ sentences # <<>> /\ sentences' = Tail(sentences)
        /\ \/ Emit("text", current) /\ current' = <<s>>
           \/ UNCHANGED chunks /\ current' = Append(current, s)
    BY <1>5 DEF AddSentence, Splitting, Build, parsed
  <2>2. s \in SpansIn(doc) /\ LinesOf(sentences) = Lines(s) \cup LinesOf(sentences')
    BY <1>1, <2>1, HeadFirst
  <2> HIDE DEF s
  <2>3. LinesOf(<<s>>) = Lines(s) /\ LinesOf(Append(current, s)) = LinesOf(current) \cup Lines(s)
    BY <1>1, <2>2, LinesOfOne, LinesOfMore
  <2> QED
    BY <1>2, <1>3, <2>1, <2>2, <2>3 DEF Text
<1>6. CASE AddParagraph
  <2> DEFINE p == Head(buffer)
  <2>1. /\ UNCHANGED <<doc, at, blocks, section, sentences>>
        /\ buffer # <<>> /\ buffer' = Tail(buffer)
        /\ \/ Emit("text", current) /\ current' = Append(Kept, p)
           \/ UNCHANGED chunks /\ current' = Append(current, p)
    BY <1>6 DEF AddParagraph, Splitting, Build, parsed
  <2>2. p \in SpansIn(doc) /\ LinesOf(buffer) = Lines(p) \cup LinesOf(buffer')
    BY <1>1, <2>1, HeadFirst
  <2>3. Kept \in Seq(SpansIn(doc)) /\ LinesOf(Kept) \subseteq LinesOf(current)
    BY <1>1, ChunkingAssumption, KeptParts
  <2> HIDE DEF p
  <2>4. /\ LinesOf(Append(current, p)) = LinesOf(current) \cup Lines(p)
        /\ LinesOf(Append(Kept, p)) = LinesOf(Kept) \cup Lines(p)
    BY <1>1, <2>2, <2>3, LinesOfMore
  <2> QED
    BY <1>2, <1>3, <2>1, <2>2, <2>3, <2>4 DEF Text
<1>7. CASE EndSplit
  <2>1. /\ UNCHANGED <<doc, at, blocks, section, buffer, sentences>> /\ current' = <<>>
        /\ Emit("text", current) \/ UNCHANGED chunks
    BY <1>7 DEF EndSplit, Splitting, Build, parsed
  <2> QED
    BY <1>2, <1>3, <2>1, LinesOfNone DEF Text
<1> QED
  BY <1>4, <1>5, <1>6, <1>7

LEMMA SectionStep == SectionInv /\ [Next]_vars => SectionInv'
<1> SUFFICES ASSUME SectionInv, [Next]_vars PROVE SectionInv'
  OBVIOUS
<1>1. ReadInv /\ ReadInv' /\ HeadingsKept /\ TextUnder /\ ChunksStand
  BY ReadStep DEF SectionInv
<1>2. /\ doc \in Document /\ Len(doc) \in Nat /\ at \in Nat /\ section \in Nat
      /\ blocks \in Seq(BlocksIn(doc)) /\ chunks \in Seq(ChunksIn(doc))
      /\ buffer \in Seq(SpansIn(doc)) /\ Phases
  <2>1. doc \in Document
    BY <1>1, DocsAreDocuments DEF ReadInv, Typed
  <2>2. Len(doc) \in Nat
    BY <2>1, DocumentLines
  <2> QED
    BY <1>1, <2>1, <2>2 DEF ReadInv, Typed
<1>3. \A h \in HeadingsIn(doc) : h \in Nat /\ h \in 1..Len(doc) /\ h \notin BodyIn(doc)
  BY <1>2 DEF HeadingsIn, ProseIn, BodyIn
<1>4. pc = "parse" => section = 0 /\ Text = {} /\ chunks = <<>>
  BY <1>2, LinesOfNone DEF Phases, Text
\* A step that leaves the sections alone
<1>5. ASSUME UNCHANGED <<doc, at, blocks, section, chunks>>, Text' \subseteq Text PROVE SectionInv'
  BY <1>1, <1>5 DEF SectionInv, HeadingsKept, TextUnder, ChunksStand
<1>6. CASE ParseCode \/ ParseHeading \/ ParseTable \/ ParseParagraph
  <2>1. PICK kind, last : Reads(kind, last)
    BY <1>1, <1>6, ReadsBlock
  <2> DEFINE b == [kind |-> kind, span |-> Span(at, last)]
  <2>2. /\ blocks' = Append(blocks, b) /\ at' = last + 1
        /\ UNCHANGED <<doc, pc, section, buffer, sentences, current, tokens, chunks>>
        /\ last \in at..Len(doc) /\ pc = "parse"
        /\ BlockFits(doc, b, 0, last + 1)
    BY <2>1 DEF Reads, Parse, splitting
  <2>3. b.kind = kind /\ b.span.first = at /\ b.span.last = last /\ Lines(b.span) = at..last
    BY DEF Span, Lines
  <2> HIDE DEF b
  <2>4. /\ Len(blocks') = Len(blocks) + 1 /\ blocks'[Len(blocks) + 1] = b
        /\ \A k \in 1..Len(blocks) : blocks'[k] = blocks[k] /\ k \in 1..Len(blocks')
        /\ Len(blocks) + 1 \in 1..Len(blocks')
    BY <1>2, <2>2, ChunksMore
  <2>5. ASSUME NEW h \in HeadingsIn(doc), h < at'
        PROVE  \/ h <= section
               \/ \E k \in 1..Len(blocks') : blocks'[k].kind = "heading" /\ blocks'[k].span.first = h
    <3>1. CASE h < at
      BY <1>1, <2>4, <3>1 DEF HeadingsKept
    <3>2. CASE ~(h < at)
      <4>1. h \in at..last
        BY <1>2, <1>3, <2>2, <2>5, <3>2
      <4>2. b.kind = "heading"
        BY <1>3, <2>2, <2>3, <4>1 DEF BlockFits
      <4>3. b.span.first = h
        BY <1>2, <2>2, <2>3, <4>1, <4>2 DEF BlockFits
      <4> QED
        BY <2>4, <4>2, <4>3
    <3> QED
      BY <3>1, <3>2
  <2>6. HeadingsKept'
    BY <1>1, <2>2, <2>5 DEF HeadingsKept
  <2> QED
    BY <1>1, <2>2, <2>6 DEF SectionInv, TextUnder, Text, ChunksStand
<1>7. CASE SkipBlank
  <2>1. /\ at' = at + 1 /\ at \notin HeadingsIn(doc)
        /\ UNCHANGED <<doc, pc, blocks, section, buffer, sentences, current, tokens, chunks>>
    BY <1>1, <1>7, BlankLine DEF SkipBlank, splitting
  <2>2. \A h \in HeadingsIn(doc) : h < at' => h < at
    BY <1>2, <1>3, <2>1
  <2> QED
    BY <1>1, <2>1, <2>2 DEF SectionInv, HeadingsKept, TextUnder, Text, ChunksStand
<1>8. CASE EndParse \/ FlushParagraphs \/ EndMerge \/ UNCHANGED vars
  <2>1. UNCHANGED <<doc, at, blocks, section, buffer, sentences, current, tokens, chunks>>
    BY <1>8 DEF EndParse, FlushParagraphs, EndMerge, parsed, splitting, vars
  <2>2. Text' = Text
    BY <2>1 DEF Text
  <2> QED
    BY <1>5, <2>1, <2>2
<1>9. CASE MergeHeading \/ MergeWhole \/ MergeParagraph
  <2> DEFINE b == Head(blocks)
  <2>1. /\ pc = "merge" /\ blocks # <<>> /\ blocks' = Tail(blocks) /\ ~MustFlush
        /\ UNCHANGED <<doc, pc, at, sentences, current, tokens>>
    BY <1>9 DEF MergeHeading, MergeWhole, MergeParagraph, Merging, splitting
  <2>2. /\ b \in BlocksIn(doc) /\ BlockFits(doc, b, section, at) /\ b = blocks[1]
        /\ Len(blocks') = Len(blocks) - 1
        /\ \A k \in 1..Len(blocks') : /\ k + 1 \in 1..Len(blocks) /\ blocks'[k] = blocks[k + 1]
                                      /\ blocks'[k] \in BlocksIn(doc)
                                      /\ b.span.last < blocks'[k].span.first
    BY <1>1, <2>1, BlocksHead
  <2> HIDE DEF b
  <2>3. /\ b.span \in SpansIn(doc) /\ b.span.first \in Nat /\ b.span.last \in Nat
        /\ section < b.span.first /\ b.span.first <= b.span.last /\ b.span.last < at
    BY <1>2, <2>2, BlockTyped DEF BlockFits
  <2>4. \A k \in 1..Len(blocks) : k = 1 \/ (k - 1 \in 1..Len(blocks') /\ blocks'[k - 1] = blocks[k])
    <3>1. Len(blocks) \in Nat
      BY <1>2
    <3>2. \A k \in 1..Len(blocks) : k = 1 \/ (k - 1 \in 1..Len(blocks') /\ (k - 1) + 1 = k)
      BY <2>2, <3>1
    <3> QED
      BY <2>2, <3>2
  \* A heading before at is passed, is this block or is among the ones left.
  <2>5. ASSUME NEW h \in HeadingsIn(doc), h < at
        PROVE  \/ h <= section
               \/ b.kind = "heading" /\ b.span.first = h
               \/ \E k \in 1..Len(blocks') : /\ blocks'[k].kind = "heading"
                                             /\ blocks'[k].span.first = h /\ b.span.last < h
    BY <1>1, <2>2, <2>4, <2>5 DEF HeadingsKept
  <2>6. CASE MergeHeading
    <3>1. section' = b.span.first /\ UNCHANGED <<buffer, chunks>> /\ b.kind = "heading"
      BY <2>6 DEF MergeHeading, Merging, b
    <3>2. buffer = <<>> /\ sentences = <<>> /\ current = <<>>
      BY <1>2, <2>1, <3>1 DEF MustFlush, Flushes, b, Phases
    <3>3. Text' = {}
      BY <2>1, <3>1, <3>2, LinesOfNone DEF Text
    <3>4. section' \in HeadingsIn(doc)
      BY <2>2, <3>1 DEF BlockFits
    <3>5. ASSUME NEW h \in HeadingsIn(doc), h < at
          PROVE  \/ h <= section'
                 \/ \E k \in 1..Len(blocks') : blocks'[k].kind = "heading" /\ blocks'[k].span.first = h
      <4>1. h \in Nat /\ (h <= section => h <= b.span.first)
        BY <1>2, <1>3, <2>3
      <4>2. b.span.first = h => h <= b.span.first
        BY <4>1
      <4> QED
        BY <2>5, <3>1, <3>5, <4>1, <4>2
    <3>6. HeadingsKept'
      BY <2>1, <3>4, <3>5 DEF HeadingsKept
    <3>7. ChunksStand'
      BY <1>1, <2>1, <3>1 DEF ChunksStand
    <3> QED
      BY <1>1, <3>3, <3>6, <3>7 DEF SectionInv, TextUnder
  <2>7. ASSUME b.kind # "heading", section' = section
        PROVE  HeadingsKept' /\ \A i \in Lines(b.span) : Under(doc, section, i)
    <3>1. \A h \in HeadingsIn(doc) :
              h < at => \/ h <= section
                        \/ \E k \in 1..Len(blocks') : /\ blocks'[k].kind = "heading"
                                                      /\ blocks'[k].span.first = h /\ b.span.last < h
      BY <2>5, <2>7
    <3>2. HeadingsKept'
      BY <1>1, <2>1, <2>7, <3>1 DEF HeadingsKept
    <3>3. ASSUME NEW i \in Lines(b.span) PROVE Under(doc, section, i)
      <4>1. i \in Nat /\ section < i /\ i <= b.span.last
        BY <1>2, <2>3 DEF Lines
      <4>2. ASSUME NEW h \in HeadingsIn(doc), h < i PROVE h <= section
        <5>1. h < at /\ ~(b.span.last < h)
          BY <1>2, <1>3, <2>3, <4>1, <4>2
        <5> QED
          BY <3>1, <5>1
      <4> QED
        BY <4>1, <4>2 DEF Under
    <3> QED
      BY <3>2, <3>3
  <2>8. CASE MergeWhole
    <3>1. /\ UNCHANGED <<section, buffer>> /\ b.kind \in {"code", "table"}
          /\ chunks' = Append(chunks, [type |-> b.kind, section |-> section, parts |-> <<b.span>>])
      BY <2>8 DEF MergeWhole, Merging, Emit, b
    <3>2. HeadingsKept' /\ \A i \in Lines(b.span) : Under(doc, section, i)
      BY <2>7, <3>1
    <3> DEFINE c == [type |-> b.kind, section |-> section, parts |-> <<b.span>>]
    <3>3. c.section = section /\ LinesOf(c.parts) = Lines(b.span) /\ c.type # "text"
      BY <3>1, LinesOfOne
    <3> HIDE DEF c
    <3>4. Stands(doc, c)
      BY <1>1, <3>2, <3>3 DEF Stands, HeadingsKept
    <3>5. ChunksStand'
      <4>1. chunks' = Append(chunks, c)
        BY <3>1 DEF c
      <4>2. \A k \in 1..Len(chunks') : Stands(doc, chunks'[k])
        BY <1>1, <1>2, <3>4, <4>1, ChunksMore DEF ChunksStand
      <4> QED
        BY <2>1, <4>2 DEF ChunksStand
    <3>6. TextUnder'
      BY <1>1, <2>1, <3>1 DEF TextUnder, Text
    <3> QED
      BY <1>1, <3>2, <3>5, <3>6 DEF SectionInv
  <2>9. CASE MergeParagraph
    <3>1. UNCHANGED <<section, chunks>> /\ buffer' = Append(buffer, b.span) /\ b.kind = "paragraph"
      BY <2>9 DEF MergeParagraph, Merging, b
    <3>2. HeadingsKept' /\ \A i \in Lines(b.span) : Under(doc, section, i)
      BY <2>7, <3>1
    <3>3. LinesOf(buffer') = LinesOf(buffer) \cup Lines(b.span)
      BY <1>2, <2>3, <3>1, LinesOfMore
    <3>4. Text' = Text \cup Lines(b.span)
      BY <2>1, <3>3 DEF Text
    <3>5. Lines(b.span) \subseteq ProseIn(doc)
      BY <2>2, <3>1 DEF BlockFits
    <3>6. TextUnder'
      BY <1>1, <2>1, <3>1, <3>2, <3>4, <3>5 DEF TextUnder
    <3>7. ChunksStand'
      BY <1>1, <2>1, <3>1 DEF ChunksStand
    <3> QED
      BY <1>1, <3>2, <3>6, <3>7 DEF SectionInv
  <2> QED
    BY <1>9, <2>6, <2>8, <2>9
<1>10. CASE SplitLong \/ AddSentence \/ AddParagraph \/ EndSplit
  <2>1. /\ UNCHANGED <<doc, at, blocks, section>> /\ Text' \subseteq Text
        /\ UNCHANGED chunks \/ chunks' = Append(chunks, TextChunk)
    BY <1>1, <1>10, SplitMoves
  <2>2. TextChunk.section = section /\ TextChunk.type = "text" /\ LinesOf(TextChunk.parts) \subseteq Text
    BY DEF TextChunk, Text
  <2>3. Stands(doc, TextChunk)
    BY <1>1, <2>2 DEF Stands, HeadingsKept, TextUnder
  <2>4. \A k \in 1..Len(chunks') : Stands(doc, chunks'[k])
    BY <1>1, <1>2, <2>1, <2>3, ChunksMore DEF ChunksStand
  <2> QED
    BY <1>1, <2>1, <2>4 DEF SectionInv, HeadingsKept, TextUnder, ChunksStand
<1> QED
  BY <1>6, <1>7, <1>8, <1>9, <1>10 DEF Next

LEMMA SectionInit == Init => SectionInv
<1> SUFFICES ASSUME Init PROVE SectionInv
  OBVIOUS
<1>1. ReadInv /\ Text = {}
  BY ReadInit, LinesOfNone DEF Init, Text
<1>2. doc \in Document
  BY DocsAreDocuments DEF Init
<1>3. \A h \in HeadingsIn(doc) : ~(h < at)
  BY <1>2, DocumentLines DEF Init, HeadingsIn, ProseIn
<1> QED
  BY <1>1, <1>3 DEF Init, SectionInv, HeadingsKept, TextUnder, ChunksStand

LEMMA SectionsOfChunks == SectionInv => SectionsHold
<1> SUFFICES ASSUME SectionInv, NEW k \in DOMAIN chunks
             PROVE  /\ \A i \in Content(k) :
                          chunks[k].section =
                              Max({0} \cup {h \in {j \in Prose : doc[j].kind = "heading"} : h < i})
                    /\ chunks[k].type = "text" => Content(k) \subseteq Prose
  BY DEF SectionsHold
<1> DEFINE s == chunks[k].section
<1>1. doc \in Document /\ Len(doc) \in Nat /\ chunks \in Seq(ChunksIn(doc)) /\ ChunksStand
  <2>1. doc \in Document
    BY DocsAreDocuments DEF SectionInv, ReadInv, Typed
  <2> QED
    BY <2>1, DocumentLines DEF SectionInv, ReadInv, Typed
<1>2. Stands(doc, chunks[k]) /\ s \in Nat
  <2>1. k \in 1..Len(chunks) /\ chunks[k] \in ChunksIn(doc)
    BY <1>1
  <2> QED
    BY <1>1, <2>1 DEF ChunksStand, ChunksIn
<1>3. {j \in Prose : doc[j].kind = "heading"} = HeadingsIn(doc) /\ Prose = ProseIn(doc)
  BY OfDocument DEF HeadingsIn
<1>4. \A h \in HeadingsIn(doc) : h \in 1..Len(doc)
  BY DEF HeadingsIn, ProseIn
<1>5. ASSUME NEW i \in Content(k) PROVE s = Max({0} \cup {h \in HeadingsIn(doc) : h < i})
  <2> DEFINE M == {0} \cup {h \in HeadingsIn(doc) : h < i}
  <2>1. M \subseteq Nat /\ 0 \in M /\ \A x \in M : x <= Len(doc)
    BY <1>1, <1>4
  <2>2. s < i /\ (\A h \in HeadingsIn(doc) : h < i => h <= s) /\ s \in {0} \cup HeadingsIn(doc)
    BY <1>2 DEF Stands, Under, Content
  <2>3. s \in M /\ \A x \in M : x <= s
    BY <1>2, <2>2
  <2> HIDE DEF M
  <2>4. Max(M) \in M /\ \A x \in M : x <= Max(M)
    BY <1>1, <2>1, MaxOf
  <2>5. Max(M) <= s /\ s <= Max(M) /\ Max(M) \in Nat
    BY <2>1, <2>3, <2>4
  <2> QED
    BY <1>2, <2>5 DEF M
<1>6. chunks[k].type = "text" => Content(k) \subseteq Prose
  BY <1>2, <1>3 DEF Stands, Content
<1> QED
  BY <1>3, <1>5, <1>6

------------------------------------------------------------------------------
(* The lines *)

AllOf(bs) == UNION {Lines(bs[k].span) : k \in 1..Len(bs)}
TextOf(bs) == UNION {Lines(bs[k].span) : k \in {l \in 1..Len(bs) : bs[l].kind # "heading"}}
Done == UNION {LinesOf(chunks[k].parts) : k \in 1..Len(chunks)}

\* What is done, what is being built, the sentences left, the buffer and the
\* blocks follow one another in the document ...
Queue ==
    /\ Before(Done \cup LinesOf(current), LinesOf(sentences) \cup LinesOf(buffer) \cup AllOf(blocks))
    /\ Before(LinesOf(sentences), LinesOf(buffer) \cup AllOf(blocks))
    /\ Before(LinesOf(buffer), AllOf(blocks))
    /\ Ordered(sentences) /\ Ordered(buffer)

\* ... and hold the lines of the body that were read, all of them.
Cover == BodyIn(doc) \cap (1..(at - 1)) = Done \cup Text \cup TextOf(blocks)

\* Lines L go further than the chunks, and share little with each of them.
Follows(d, cs, L) ==
    /\ L # {} => \E m \in L : \A k \in 1..Len(cs) : \A j \in LinesOf(cs[k].parts) : j < m
    /\ \A k \in 1..Len(cs) : TokensIn(d, LinesOf(cs[k].parts) \cap L) <= Overlap

CurrentApart == Follows(doc, chunks, LinesOf(current))
ChunksApart ==
    \A k, l \in 1..Len(chunks) :
        k < l /\ LinesOf(chunks[k].parts) # {} /\ LinesOf(chunks[l].parts) # {} =>
            /\ Max(LinesOf(chunks[k].parts)) < Max(LinesOf(chunks[l].parts))
            /\ TokensIn(doc, LinesOf(chunks[k].parts) \cap LinesOf(chunks[l].parts)) <= Overlap

LineInv == ReadInv /\ Queue /\ Cover /\ CurrentApart /\ ChunksApart

LEMMA InDone ==
  \A i : i \in Done <=> \E k \in 1..Len(chunks) : i \in LinesOf(chunks[k].parts)
  BY DEF Done

LEMMA LinesBounded ==
  ASSUME NEW d \in Document, NEW parts \in Seq(SpansIn(d))
  PROVE  LinesOf(parts) \subseteq 1..Len(d)
<1> DEFINE S == SpansIn(d)
<1>1. Len(d) \in Nat /\ \A s \in S : Lines(s) \subseteq 1..Len(d)
  BY DocumentLines DEF SpansIn, Lines
<1> HIDE DEF S
<1>2. \A k \in DOMAIN parts : parts[k] \in S
  BY DEF S
<1> QED
  BY <1>1, <1>2, InLinesOf

LEMMA ChunkLines ==
  ASSUME ReadInv
  PROVE  /\ Len(doc) \in Nat /\ doc \in Document
         /\ LinesOf(current) \subseteq 1..Len(doc) /\ Done \subseteq 1..Len(doc)
         /\ \A k \in 1..Len(chunks) :
               LinesOf(chunks[k].parts) \subseteq Done /\ LinesOf(chunks[k].parts) \subseteq 1..Len(doc)
<1>1. doc \in Document /\ chunks \in Seq(ChunksIn(doc)) /\ current \in Seq(SpansIn(doc))
  BY DocsAreDocuments DEF ReadInv, Typed
<1>2. \A k \in 1..Len(chunks) : chunks[k].parts \in Seq(SpansIn(doc))
  <2>1. \A k \in 1..Len(chunks) : chunks[k] \in ChunksIn(doc)
    BY <1>1
  <2> QED
    BY <2>1 DEF ChunksIn
<1>3. \A k \in 1..Len(chunks) :
          LinesOf(chunks[k].parts) \subseteq Done /\ LinesOf(chunks[k].parts) \subseteq 1..Len(doc)
  BY <1>1, <1>2, LinesBounded, InDone
<1> QED
  BY <1>1, <1>3, LinesBounded, DocumentLines, InDone

\* One more chunk that follows the others
LEMMA OneMoreApart ==
  ASSUME ReadInv, ChunksApart, NEW c, chunks' = Append(chunks, c), doc' = doc,
         Follows(doc, chunks, LinesOf(c.parts)), LinesOf(c.parts) \subseteq 1..Len(doc)
  PROVE  ChunksApart' /\ Done' = Done \cup LinesOf(c.parts)
<1> DEFINE N == Len(chunks)
           L == LinesOf(c.parts)
<1>1. /\ Len(chunks') = N + 1 /\ N \in Nat
      /\ \A k \in 1..N : chunks'[k] = chunks[k] /\ k \in 1..(N + 1)
      /\ chunks'[N + 1] = c /\ N + 1 \in 1..(N + 1)
      /\ \A k \in 1..(N + 1) : k \in 1..N \/ k = N + 1
  <2>1. chunks \in Seq(ChunksIn(doc))
    BY SizeFacts
  <2> QED
    BY <2>1, ChunksMore
<1>2. Done' = Done \cup L
  <2>1. \A i : i \in Done' <=> \E k \in 1..(N + 1) : i \in LinesOf(chunks'[k].parts)
    BY <1>1 DEF Done
  <2>2. \A i : i \in Done' <=> i \in Done \/ i \in L
    BY <1>1, <2>1, InDone
  <2> QED
    BY <2>2
<1>3. /\ Len(doc) \in Nat /\ L \subseteq 1..Len(doc)
      /\ \A k \in 1..N : LinesOf(chunks[k].parts) \subseteq 1..Len(doc)
  BY ChunkLines
<1> HIDE DEF N
<1>4. ASSUME NEW k \in 1..(N + 1), NEW l \in 1..(N + 1), k < l,
             LinesOf(chunks'[k].parts) # {}, LinesOf(chunks'[l].parts) # {}
      PROVE  /\ Max(LinesOf(chunks'[k].parts)) < Max(LinesOf(chunks'[l].parts))
             /\ TokensIn(doc, LinesOf(chunks'[k].parts) \cap LinesOf(chunks'[l].parts)) <= Overlap
  <2>1. k \in 1..N
    BY <1>1, <1>4
  <2>2. CASE l \in 1..N
    BY <1>1, <1>4, <2>1, <2>2 DEF ChunksApart, N
  <2>3. CASE l = N + 1
    <3> DEFINE K == LinesOf(chunks[k].parts)
    <3>1. K = LinesOf(chunks'[k].parts) /\ L = LinesOf(chunks'[l].parts) /\ K \subseteq 1..Len(doc)
      BY <1>1, <1>3, <2>1, <2>3
    <3>2. PICK m \in L : \A j \in K : j < m
      BY <1>4, <2>1, <3>1 DEF Follows, N
    <3>3. TokensIn(doc, K \cap L) <= Overlap
      BY <2>1 DEF Follows, N
    <3> HIDE DEF K, L
    <3>4. Max(K) \in K /\ Max(K) \in Nat
      <4>0. K \subseteq 1..Len(doc) /\ Len(doc) \in Nat
        BY <1>3, <3>1
      <4>1. K \subseteq Nat /\ \A x \in K : x <= Len(doc)
        BY <4>0
      <4>2. Max(K) \in K
        BY <1>3, <1>4, <3>1, <4>1, MaxOf
      <4> QED
        BY <4>1, <4>2
    <3>5. m <= Max(L) /\ Max(L) \in Nat /\ m \in Nat
      <4>1. L \subseteq Nat /\ \A x \in L : x <= Len(doc)
        BY <1>3
      <4>2. Max(L) \in L /\ \A x \in L : x <= Max(L)
        BY <1>3, <3>2, <4>1, MaxOf
      <4> QED
        BY <3>2, <4>1, <4>2
    <3>6. Max(K) < Max(L)
      BY <3>2, <3>4, <3>5
    <3> QED
      BY <3>1, <3>3, <3>6
  <2> QED
    BY <1>1, <2>2, <2>3
<1>5. ChunksApart'
  BY <1>1, <1>4 DEF ChunksApart
<1> QED
  BY <1>2, <1>5

\* Lines behind all the chunks follow them.
LEMMA BehindFollows ==
  ASSUME ReadInv, NEW L, Before(Done, L)
  PROVE  Follows(doc, chunks, L)
<1>1. /\ doc \in Document /\ Len(doc) \in Nat /\ Overlap \in Nat /\ Done \subseteq 1..Len(doc)
      /\ \A k \in 1..Len(chunks) : LinesOf(chunks[k].parts) \subseteq Done
  BY ChunkLines, SizeFacts
<1>2. ASSUME NEW k \in 1..Len(chunks) PROVE LinesOf(chunks[k].parts) \cap L = {}
  <2> SUFFICES ASSUME NEW i \in LinesOf(chunks[k].parts), i \in L PROVE FALSE
    OBVIOUS
  <2>1. i \in Done
    BY <1>1
  <2>2. i \in 1..Len(doc)
    BY <1>1, <2>1
  <2>3. i < i
    BY <2>1 DEF Before
  <2> QED
    BY <1>1, <2>2, <2>3
<1>3. TokensIn(doc, {}) <= Overlap
  BY <1>1, TokensOfNone
<1> QED
  BY <1>1, <1>2, <1>3 DEF Follows, Before

\* A chunk of text is given out; K is kept of it, and lines L are added.
LEMMA EmitAndKeep ==
  ASSUME ReadInv, ChunksApart, CurrentApart, Emit("text", current), doc' = doc,
         NEW K, K \subseteq LinesOf(current), TokensIn(doc, K) <= Overlap,
         NEW L, Before(Done \cup LinesOf(current), L), L # {} \/ K = {},
         LinesOf(current') = K \cup L
  PROVE  ChunksApart' /\ CurrentApart' /\ Done' = Done \cup LinesOf(current)
<1> DEFINE N == Len(chunks)
           C == LinesOf(current)
<1>1. TextChunk.parts = current /\ chunks' = Append(chunks, TextChunk)
  BY DEF Emit, TextChunk
<1>2. /\ doc \in Document /\ Len(doc) \in Nat /\ Done \subseteq 1..Len(doc) /\ C \subseteq 1..Len(doc)
      /\ \A k \in 1..N : LinesOf(chunks[k].parts) \subseteq Done
  BY ChunkLines
<1>3. ChunksApart' /\ Done' = Done \cup C
  BY <1>1, <1>2, OneMoreApart DEF CurrentApart
<1>4. /\ Len(chunks') = N + 1 /\ \A k \in 1..N : chunks'[k] = chunks[k]
      /\ chunks'[N + 1].parts = current
      /\ \A k \in 1..(N + 1) : k \in 1..N \/ k = N + 1
  BY <1>1, SizeFacts, ChunksMore
<1> HIDE DEF N
<1>5. \A i \in Done \cup C : i \notin L
  <2> SUFFICES ASSUME NEW i \in Done \cup C, i \in L PROVE FALSE
    OBVIOUS
  <2>1. i < i /\ i \in Nat
    BY <1>2 DEF Before
  <2> QED
    BY <2>1
<1>6. ASSUME NEW k \in 1..(N + 1) PROVE TokensIn(doc, LinesOf(chunks'[k].parts) \cap (K \cup L)) <= Overlap
  <2> DEFINE A == LinesOf(chunks'[k].parts) \cap (K \cup L)
  <2>1. TokensIn(doc, A) \in Nat /\ Overlap \in Nat /\ TokensIn(doc, K) \in Nat
    BY <1>2, TokensTyped, SizeFacts
  <2>2. A \subseteq K
    BY <1>2, <1>4, <1>5
  <2> HIDE DEF A
  <2>3. TokensIn(doc, A) <= TokensIn(doc, K)
    BY <1>2, <2>2, TokensOfFewer
  <2>4. TokensIn(doc, A) <= Overlap
    BY <2>1, <2>3
  <2> QED
    BY <2>4 DEF A
<1>7. ASSUME K \cup L # {}
      PROVE  \E m \in K \cup L : \A k \in 1..(N + 1) : \A j \in LinesOf(chunks'[k].parts) : j < m
  <2>1. PICK m \in L : TRUE
    BY <1>7
  <2>2. ASSUME NEW k \in 1..(N + 1), NEW j \in LinesOf(chunks'[k].parts) PROVE j < m
    <3>1. j \in Done \cup C
      BY <1>2, <1>4
    <3> QED
      BY <2>1, <3>1 DEF Before
  <2> QED
    BY <2>1, <2>2
<1>8. Follows(doc, chunks', K \cup L)
  BY <1>4, <1>6, <1>7 DEF Follows
<1> QED
  BY <1>3, <1>8 DEF CurrentApart

\* Lines L are added to what is being built.
LEMMA BuildMore ==
  ASSUME ReadInv, ChunksApart, CurrentApart, UNCHANGED <<doc, chunks>>,
         NEW L, Before(Done \cup LinesOf(current), L), LinesOf(current') = LinesOf(current) \cup L
  PROVE  ChunksApart' /\ CurrentApart' /\ Done' = Done
<1> DEFINE C == LinesOf(current)
<1>1. /\ doc \in Document /\ Len(doc) \in Nat /\ Done \subseteq 1..Len(doc)
      /\ \A k \in 1..Len(chunks) : LinesOf(chunks[k].parts) \subseteq Done
  BY ChunkLines
<1>2. \A i \in Done : i \notin L
  <2> SUFFICES ASSUME NEW i \in Done, i \in L PROVE FALSE
    OBVIOUS
  <2>1. i < i /\ i \in Nat
    BY <1>1 DEF Before
  <2> QED
    BY <2>1
<1>3. \A k \in 1..Len(chunks) : TokensIn(doc, LinesOf(chunks[k].parts) \cap (C \cup L)) <= Overlap
  <2>1. \A k \in 1..Len(chunks) : LinesOf(chunks[k].parts) \cap (C \cup L) = LinesOf(chunks[k].parts) \cap C
    BY <1>1, <1>2
  <2> QED
    BY <2>1 DEF CurrentApart, Follows
<1>4. ASSUME C \cup L # {}
      PROVE  \E m \in C \cup L : \A k \in 1..Len(chunks) : \A j \in LinesOf(chunks[k].parts) : j < m
  <2>1. CASE L = {}
    BY <1>4, <2>1 DEF CurrentApart, Follows
  <2>2. CASE L # {}
    BY <1>1, <2>2 DEF Before
  <2> QED
    BY <2>1, <2>2
<1>5. Follows(doc, chunks, C \cup L)
  BY <1>3, <1>4 DEF Follows
<1> QED
  BY <1>5 DEF CurrentApart, ChunksApart, Done

LEMMA InBlocks ==
  \A bs, i : /\ i \in AllOf(bs) <=> \E k \in 1..Len(bs) : i \in Lines(bs[k].span)
             /\ i \in TextOf(bs) <=>
                   \E k \in 1..Len(bs) : bs[k].kind # "heading" /\ i \in Lines(bs[k].span)
  BY DEF AllOf, TextOf

LEMMA BlocksMore ==
  ASSUME NEW X, NEW bs \in Seq(X), NEW b
  PROVE  /\ AllOf(Append(bs, b)) = AllOf(bs) \cup Lines(b.span)
         /\ TextOf(Append(bs, b)) =
               TextOf(bs) \cup (IF b.kind # "heading" THEN Lines(b.span) ELSE {})
<1> DEFINE more == Append(bs, b)
           n == Len(bs)
<1>1. /\ n \in Nat /\ Len(more) = n + 1 /\ more[n + 1] = b
      /\ \A k \in 1..n : more[k] = bs[k] /\ k \in 1..(n + 1)
      /\ n + 1 \in 1..(n + 1)
      /\ \A k \in 1..(n + 1) : k \in 1..n \/ k = n + 1
  BY ChunksMore
<1> HIDE DEF more, n
<1>2. \A i : i \in AllOf(more) <=> i \in AllOf(bs) \/ i \in Lines(b.span)
  BY <1>1, InBlocks DEF n
<1>3. \A i : i \in TextOf(more) <=> i \in TextOf(bs) \/ (b.kind # "heading" /\ i \in Lines(b.span))
  BY <1>1, InBlocks DEF n
<1> QED
  BY <1>2, <1>3 DEF more

LEMMA BlocksFewer ==
  ASSUME ReadInv, blocks # <<>>
  PROVE  /\ AllOf(blocks) = Lines(Head(blocks).span) \cup AllOf(Tail(blocks))
         /\ TextOf(blocks) = (IF Head(blocks).kind # "heading" THEN Lines(Head(blocks).span) ELSE {})
                                \cup TextOf(Tail(blocks))
         /\ Before(Lines(Head(blocks).span), AllOf(Tail(blocks)))
<1> DEFINE b == Head(blocks)
           rest == Tail(blocks)
<1>1. /\ b = blocks[1] /\ 1 \in 1..Len(blocks) /\ Len(rest) = Len(blocks) - 1 /\ Len(blocks) \in Nat
      /\ \A k \in 1..Len(rest) : /\ k + 1 \in 1..Len(blocks) /\ rest[k] = blocks[k + 1]
                                 /\ rest[k] \in BlocksIn(doc) /\ b.span.last < rest[k].span.first
      /\ b \in BlocksIn(doc) /\ doc \in Document
  BY BlocksHead, DocsAreDocuments DEF ReadInv, Typed
<1> HIDE DEF b, rest
<1>2. \A k \in 1..Len(blocks) : k = 1 \/ (k - 1 \in 1..Len(rest) /\ rest[k - 1] = blocks[k])
  <2>1. \A k \in 1..Len(blocks) : k = 1 \/ (k - 1 \in 1..Len(rest) /\ (k - 1) + 1 = k)
    BY <1>1
  <2> QED
    BY <1>1, <2>1
<1>3. \A P : (\E k \in 1..Len(blocks) : blocks[k] \in P)
                <=> b \in P \/ \E k \in 1..Len(rest) : rest[k] \in P
  <2> SUFFICES ASSUME NEW P
               PROVE  (\E k \in 1..Len(blocks) : blocks[k] \in P)
                          <=> b \in P \/ \E k \in 1..Len(rest) : rest[k] \in P
    OBVIOUS
  <2>1. ASSUME NEW k \in 1..Len(blocks), blocks[k] \in P
        PROVE  b \in P \/ \E l \in 1..Len(rest) : rest[l] \in P
    BY <1>1, <1>2, <2>1
  <2>2. ASSUME NEW k \in 1..Len(rest), rest[k] \in P PROVE \E l \in 1..Len(blocks) : blocks[l] \in P
    BY <1>1, <2>2
  <2>3. b \in P => \E l \in 1..Len(blocks) : blocks[l] \in P
    BY <1>1
  <2> QED
    BY <2>1, <2>2, <2>3
<1>4. blocks \in Seq(BlocksIn(doc))
  BY DEF ReadInv, Typed
<1>6. \A i : i \in AllOf(blocks) <=> i \in Lines(b.span) \/ i \in AllOf(rest)
  <2> SUFFICES ASSUME NEW i
               PROVE  i \in AllOf(blocks) <=> i \in Lines(b.span) \/ i \in AllOf(rest)
    OBVIOUS
  <2> DEFINE P == {c \in BlocksIn(doc) : i \in Lines(c.span)}
  <2>1. \A c \in BlocksIn(doc) : c \in P <=> i \in Lines(c.span)
    OBVIOUS
  <2> HIDE DEF P
  <2>2. \A k \in 1..Len(blocks) : blocks[k] \in P <=> i \in Lines(blocks[k].span)
    BY <1>4, <2>1
  <2>3. \A k \in 1..Len(rest) : rest[k] \in P <=> i \in Lines(rest[k].span)
    BY <1>1, <2>1
  <2>4. b \in P <=> i \in Lines(b.span)
    BY <1>1, <2>1
  <2>5. i \in AllOf(blocks) <=> \E k \in 1..Len(blocks) : blocks[k] \in P
    BY <2>2, InBlocks
  <2>6. i \in AllOf(rest) <=> \E k \in 1..Len(rest) : rest[k] \in P
    BY <2>3, InBlocks
  <2> QED
    BY <1>3, <2>4, <2>5, <2>6
<1>7. \A i : i \in TextOf(blocks) <=> (b.kind # "heading" /\ i \in Lines(b.span)) \/ i \in TextOf(rest)
  <2> SUFFICES ASSUME NEW i
               PROVE  i \in TextOf(blocks)
                          <=> (b.kind # "heading" /\ i \in Lines(b.span)) \/ i \in TextOf(rest)
    OBVIOUS
  <2> DEFINE P == {c \in BlocksIn(doc) : c.kind # "heading" /\ i \in Lines(c.span)}
  <2>1. \A c \in BlocksIn(doc) : c \in P <=> c.kind # "heading" /\ i \in Lines(c.span)
    OBVIOUS
  <2> HIDE DEF P
  <2>2. \A k \in 1..Len(blocks) :
            blocks[k] \in P <=> blocks[k].kind # "heading" /\ i \in Lines(blocks[k].span)
    BY <1>4, <2>1
  <2>3. \A k \in 1..Len(rest) : rest[k] \in P <=> rest[k].kind # "heading" /\ i \in Lines(rest[k].span)
    BY <1>1, <2>1
  <2>4. b \in P <=> b.kind # "heading" /\ i \in Lines(b.span)
    BY <1>1, <2>1
  <2>5. i \in TextOf(blocks) <=> \E k \in 1..Len(blocks) : blocks[k] \in P
    BY <2>2, InBlocks
  <2>6. i \in TextOf(rest) <=> \E k \in 1..Len(rest) : rest[k] \in P
    BY <2>3, InBlocks
  <2> QED
    BY <1>3, <2>4, <2>5, <2>6
<1>5. ASSUME NEW i \in Lines(b.span), NEW j \in AllOf(rest) PROVE i < j
  <2>1. PICK k \in 1..Len(rest) : j \in Lines(rest[k].span)
    BY InBlocks
  <2>2. b.span.last < rest[k].span.first
    BY <1>1
  <2>3. /\ b.span.first \in Nat /\ b.span.last \in Nat
        /\ rest[k].span.first \in Nat /\ rest[k].span.last \in Nat
    BY <1>1, BlockTyped
  <2> QED
    BY <2>1, <2>2, <2>3 DEF Lines
<1> QED
  BY <1>5, <1>6, <1>7 DEF b, rest, Before

LEMMA LineStep == LineInv /\ [Next]_vars => LineInv'
<1> SUFFICES ASSUME LineInv, [Next]_vars PROVE LineInv'
  OBVIOUS
<1> DEFINE C == LinesOf(current)
           R == LinesOf(sentences)
           B == LinesOf(buffer)
           W == AllOf(blocks)
           X == TextOf(blocks)
<1>1. ReadInv /\ ReadInv' /\ Queue /\ Cover /\ CurrentApart /\ ChunksApart /\ Phases
  BY ReadStep DEF LineInv, ReadInv
<1>2. /\ doc \in Document /\ Len(doc) \in Nat /\ at \in Nat /\ Overlap \in Nat
      /\ blocks \in Seq(BlocksIn(doc)) /\ buffer \in Seq(SpansIn(doc))
      /\ sentences \in Seq(SpansIn(doc)) /\ current \in Seq(SpansIn(doc))
      /\ TokensIn(doc, {}) = 0
  <2>1. doc \in Document
    BY <1>1, DocsAreDocuments DEF ReadInv, Typed
  <2>2. Len(doc) \in Nat
    BY <2>1, DocumentLines
  <2> QED
    BY <1>1, <2>1, <2>2, SizeFacts, TokensOfNone DEF ReadInv, Typed
<1>3. /\ Before(Done \cup C, R \cup B \cup W) /\ Before(R, B \cup W) /\ Before(B, W)
      /\ Ordered(sentences) /\ Ordered(buffer)
      /\ BodyIn(doc) \cap (1..(at - 1)) = Done \cup Text \cup X /\ Text = C \cup R \cup B
  BY <1>1 DEF Queue, Cover, Text
<1>4. LinesOf(<<>>) = {} /\ Ordered(<<>>)
  BY LinesOfNone
\* Where nothing is built and no chunk given out
<1>5. ASSUME UNCHANGED <<doc, chunks, current>>
      PROVE  CurrentApart' /\ ChunksApart' /\ Done' = Done
  BY <1>1, <1>5 DEF CurrentApart, ChunksApart, Done
<1>6. CASE ParseCode \/ ParseHeading \/ ParseTable \/ ParseParagraph
  <2>1. PICK kind, last : Reads(kind, last)
    BY <1>1, <1>6, ReadsBlock
  <2> DEFINE b == [kind |-> kind, span |-> Span(at, last)]
  <2>2. /\ blocks' = Append(blocks, b) /\ at' = last + 1
        /\ UNCHANGED <<doc, pc, section, buffer, sentences, current, tokens, chunks>>
        /\ last \in at..Len(doc) /\ pc = "parse"
        /\ BlockFits(doc, b, 0, last + 1)
    BY <2>1 DEF Reads, Parse, splitting
  <2>3. b.kind = kind /\ b.span.first = at /\ b.span.last = last /\ Lines(b.span) = at..last
    BY DEF Span, Lines
  <2> HIDE DEF b
  <2>4. C = {} /\ R = {} /\ B = {} /\ Done = {} /\ Text' = {} /\ Done' = {}
    <3>1. current = <<>> /\ sentences = <<>> /\ buffer = <<>> /\ chunks = <<>>
      BY <1>1, <2>2 DEF Phases
    <3> QED
      BY <1>4, <2>2, <3>1 DEF Done, Text
  <2>5. Queue'
    BY <1>3, <2>2, <2>4 DEF Queue, Before
  <2>6. BodyIn(doc) \cap (at..last) = IF b.kind # "heading" THEN Lines(b.span) ELSE {}
    <3>1. CASE b.kind # "heading"
      BY <2>2, <2>3, <3>1 DEF BlockFits
    <3>2. CASE b.kind = "heading"
      <4>1. last = at /\ at \in HeadingsIn(doc)
        BY <2>2, <2>3, <3>2 DEF BlockFits
      <4>2. at \notin BodyIn(doc) /\ \A j \in at..last : j = at
        BY <1>2, <4>1 DEF HeadingsIn, BodyIn
      <4> QED
        BY <3>2, <4>2
    <3> QED
      BY <3>1, <3>2
  <2>7. 1..(at' - 1) = (1..(at - 1)) \cup (at..last)
    <3>1. at' - 1 = last /\ at \in 1..Len(doc)
      BY <1>1, <1>2, <2>2 DEF ReadInv, Typed
    <3> QED
      BY <1>2, <2>2, <3>1
  <2>8. TextOf(blocks') = X \cup (IF b.kind # "heading" THEN Lines(b.span) ELSE {})
    BY <1>2, <2>2, BlocksMore
  <2>9. BodyIn(doc) \cap (1..(at' - 1)) = TextOf(blocks')
    BY <1>3, <2>4, <2>6, <2>7, <2>8
  <2>10. Cover'
    BY <2>2, <2>4, <2>9 DEF Cover
  <2> QED
    BY <1>1, <1>5, <2>2, <2>5, <2>10 DEF LineInv
<1>7. CASE SkipBlank
  <2>1. /\ at' = at + 1 /\ at \notin BodyIn(doc)
        /\ UNCHANGED <<doc, pc, blocks, section, buffer, sentences, current, tokens, chunks>>
    BY <1>1, <1>7, BlankLine DEF SkipBlank, splitting
  <2>2. BodyIn(doc) \cap (1..(at' - 1)) = BodyIn(doc) \cap (1..(at - 1))
    <3>1. \A j \in 1..(at' - 1) : j \in 1..(at - 1) \/ j = at
      BY <1>2, <2>1
    <3>2. \A j \in 1..(at - 1) : j \in 1..(at' - 1)
      BY <1>2, <2>1
    <3> QED
      BY <2>1, <3>1, <3>2
  <2>3. Done' = Done /\ CurrentApart' /\ ChunksApart' /\ Text' = Text
    BY <1>5, <2>1 DEF Text
  <2>4. Cover'
    BY <1>1, <2>1, <2>2, <2>3 DEF Cover
  <2>5. Queue'
    BY <1>1, <2>1, <2>3 DEF Queue
  <2> QED
    BY <1>1, <2>3, <2>4, <2>5 DEF LineInv
<1>8. CASE EndParse \/ FlushParagraphs \/ EndMerge \/ UNCHANGED vars
  <2>1. UNCHANGED <<doc, at, blocks, section, buffer, sentences, current, tokens, chunks>>
    BY <1>8 DEF EndParse, FlushParagraphs, EndMerge, parsed, splitting, vars
  <2>2. Done' = Done /\ CurrentApart' /\ ChunksApart' /\ Text' = Text
    BY <1>5, <2>1 DEF Text
  <2>3. Queue' /\ Cover'
    BY <1>1, <2>1, <2>2 DEF Queue, Cover
  <2> QED
    BY <1>1, <2>2, <2>3 DEF LineInv
<1>9. CASE MergeHeading \/ MergeWhole \/ MergeParagraph
  <2> DEFINE b == Head(blocks)
             Lb == Lines(b.span)
             W2 == AllOf(blocks')
             X2 == TextOf(blocks')
  <2>1. /\ pc = "merge" /\ blocks # <<>> /\ blocks' = Tail(blocks) /\ ~MustFlush
        /\ UNCHANGED <<doc, pc, at, sentences, current, tokens>>
    BY <1>9 DEF MergeHeading, MergeWhole, MergeParagraph, Merging, splitting
  <2>2. b \in BlocksIn(doc)
    BY <1>1, <2>1, BlocksHead
  <2>3. W = Lb \cup W2 /\ X = (IF b.kind # "heading" THEN Lb ELSE {}) \cup X2 /\ Before(Lb, W2)
    BY <1>1, <2>1, BlocksFewer
  <2>4. current = <<>> /\ sentences = <<>> /\ C = {} /\ R = {}
    BY <1>1, <1>4, <2>1 DEF Phases
  <2>5. b.span \in SpansIn(doc)
    BY <1>2, <2>2, BlockTyped
  <2> HIDE DEF b, Lb, W2, X2
  <2>6. Text' = LinesOf(buffer')
    BY <1>4, <2>1, <2>4 DEF Text
  <2>7. CASE MergeHeading
    <3>1. UNCHANGED <<buffer, chunks>> /\ b.kind = "heading"
      BY <2>7 DEF MergeHeading, Merging, b
    <3>2. Done' = Done /\ CurrentApart' /\ ChunksApart'
      BY <1>5, <2>1, <3>1
    <3>3. Queue'
      BY <1>3, <2>1, <2>3, <3>1, <3>2 DEF Queue, Before, W2
    <3>4. Cover'
      BY <1>3, <2>1, <2>3, <2>4, <2>6, <3>1, <3>2 DEF Cover, X2
    <3> QED
      BY <1>1, <3>2, <3>3, <3>4 DEF LineInv
  <2>8. CASE MergeWhole
    <3> DEFINE c == [type |-> b.kind, section |-> section, parts |-> <<b.span>>]
    <3>1. /\ UNCHANGED <<section, buffer>> /\ b.kind \in {"code", "table"} /\ chunks' = Append(chunks, c)
          /\ MustFlush \/ buffer = <<>>
      BY <2>1, <2>8 DEF MergeWhole, Merging, Emit, b, MustFlush, Flushes
    <3>2. LinesOf(c.parts) = Lb
      BY LinesOfOne DEF Lb
    <3> HIDE DEF c
    <3>3. Before(Done, Lb)
      BY <1>3, <2>3 DEF Before
    <3>4. Follows(doc, chunks, Lb)
      BY <1>1, <3>3, BehindFollows
    <3>5. Lb \subseteq 1..Len(doc)
      BY <1>2, <2>5, LinesBounded, LinesOfOne DEF Lb, SpansIn, Lines
    <3>6. ChunksApart' /\ Done' = Done \cup Lb
      BY <1>1, <2>1, <3>1, <3>2, <3>4, <3>5, OneMoreApart
    <3>7. CurrentApart'
      <4>1. doc' = doc /\ LinesOf(current') = {} /\ \A S : S \cap {} = {}
        BY <1>4, <2>1, <2>4
      <4>2. TokensIn(doc, {}) <= Overlap
        BY <1>2
      <4>3. Follows(doc', chunks', LinesOf(current'))
        BY <4>1, <4>2 DEF Follows
      <4> QED
        BY <4>3 DEF CurrentApart
    <3>8. buffer = <<>> /\ B = {}
      BY <1>4, <2>1, <3>1
    <3>9. Queue'
      BY <1>3, <1>4, <2>1, <2>3, <2>4, <3>1, <3>6, <3>8 DEF Queue, Before, W2
    <3>10. Cover'
      BY <1>3, <1>4, <2>1, <2>3, <2>4, <2>6, <3>1, <3>6, <3>8 DEF Cover, X2
    <3> QED
      BY <1>1, <3>6, <3>7, <3>9, <3>10 DEF LineInv
  <2>9. CASE MergeParagraph
    <3>1. UNCHANGED <<section, chunks>> /\ buffer' = Append(buffer, b.span) /\ b.kind = "paragraph"
      BY <2>9 DEF MergeParagraph, Merging, b
    <3>2. Done' = Done /\ CurrentApart' /\ ChunksApart'
      BY <1>5, <2>1, <3>1
    <3>3. Before(B, Lb)
      BY <1>3, <2>3 DEF Before
    <3>4. LinesOf(buffer') = B \cup Lb /\ Ordered(buffer')
      BY <1>2, <1>3, <2>5, <3>1, <3>3, LinesOfMore DEF Lb
    <3>5. Queue'
      BY <1>3, <1>4, <2>1, <2>3, <2>4, <3>2, <3>4 DEF Queue, Before, W2
    <3>6. Cover'
      BY <1>3, <2>1, <2>3, <2>4, <2>6, <3>1, <3>2, <3>4 DEF Cover, X2
    <3> QED
      BY <1>1, <3>2, <3>5, <3>6 DEF LineInv
  <2> QED
    BY <1>9, <2>7, <2>8, <2>9
\* Steps of _split_text give out what is being built, or leave the chunks.
<1>10. ASSUME doc' = doc, current' = <<>>, IF current # <<>> THEN Emit("text", current) ELSE UNCHANGED chunks
       PROVE  ChunksApart' /\ CurrentApart' /\ Done' = Done \cup C
  <2>1. CASE current # <<>>
    <3>1. Before(Done \cup C, {}) /\ TokensIn(doc, {}) <= Overlap
      BY <1>2 DEF Before
    <3>2. LinesOf(current') = {} \cup {}
      BY <1>4, <1>10
    <3> QED
      BY <1>1, <1>10, <2>1, <3>1, <3>2, EmitAndKeep
  <2>2. CASE current = <<>>
    BY <1>1, <1>4, <1>5, <1>10, <2>2
  <2> QED
    BY <2>1, <2>2
<1>11. CASE SplitLong
  <2> DEFINE p == Head(buffer)
  <2>1. /\ UNCHANGED <<doc, at, blocks, section>> /\ buffer # <<>> /\ sentences = <<>>
        /\ sentences' = Sentences(p) /\ buffer' = Tail(buffer) /\ current' = <<>>
        /\ IF current # <<>> THEN Emit("text", current) ELSE UNCHANGED chunks
    BY <1>11 DEF SplitLong, Splitting, Build, parsed
  <2>2. /\ B = Lines(p) \cup LinesOf(buffer') /\ Before(Lines(p), LinesOf(buffer')) /\ Ordered(buffer')
        /\ LinesOf(sentences') = Lines(p) /\ Ordered(sentences')
    BY <1>1, <1>2, <1>3, <2>1, HeadFirst, BufferHead, SentencesOf
  <2> HIDE DEF p
  <2>3. ChunksApart' /\ CurrentApart' /\ Done' = Done \cup C
    BY <1>10, <2>1
  <2>4. LinesOf(current') = {} /\ R = {}
    BY <1>4, <2>1
  <2>5. Queue'
    BY <1>3, <2>1, <2>2, <2>3, <2>4 DEF Queue, Before
  <2>6. Cover'
    BY <1>3, <2>1, <2>2, <2>3, <2>4 DEF Cover, Text
  <2> QED
    BY <1>1, <2>3, <2>5, <2>6 DEF LineInv
<1>12. CASE AddSentence
  <2> DEFINE s == Head(sentences)
  <2>1. /\ UNCHANGED <<doc, at, blocks, section, buffer>>
        /\ sentences # <<>> /\ sentences' = Tail(sentences)
        /\ \/ Emit("text", current) /\ current' = <<s>>
           \/ UNCHANGED chunks /\ current' = Append(current, s)
    BY <1>12 DEF AddSentence, Splitting, Build, parsed
  <2>2. /\ s \in SpansIn(doc) /\ R = Lines(s) \cup LinesOf(sentences')
        /\ Before(Lines(s), LinesOf(sentences')) /\ Ordered(sentences')
    BY <1>2, <1>3, <2>1, HeadFirst
  <2> HIDE DEF s
  <2>3. Before(Done \cup C, Lines(s)) /\ TokensIn(doc, {}) <= Overlap
    BY <1>2, <1>3, <2>2 DEF Before
  <2>4. CASE Emit("text", current) /\ current' = <<s>>
    <3>1. LinesOf(current') = Lines(s) /\ LinesOf(current') = {} \cup Lines(s)
      BY <2>4, LinesOfOne
    <3>2. ChunksApart' /\ CurrentApart' /\ Done' = Done \cup C
      BY <1>1, <2>1, <2>3, <2>4, <3>1, EmitAndKeep
    <3>3. Queue'
      BY <1>3, <2>1, <2>2, <3>1, <3>2 DEF Queue, Before
    <3>4. Cover'
      BY <1>3, <2>1, <2>2, <3>1, <3>2 DEF Cover, Text
    <3> QED
      BY <1>1, <3>2, <3>3, <3>4 DEF LineInv
  <2>5. CASE UNCHANGED chunks /\ current' = Append(current, s)
    <3>1. LinesOf(current') = C \cup Lines(s)
      BY <1>2, <2>2, <2>5, LinesOfMore
    <3>2. ChunksApart' /\ CurrentApart' /\ Done' = Done
      BY <1>1, <2>1, <2>3, <2>5, <3>1, BuildMore
    <3>3. Queue'
      BY <1>3, <2>1, <2>2, <3>1, <3>2 DEF Queue, Before
    <3>4. Cover'
      BY <1>3, <2>1, <2>2, <3>1, <3>2 DEF Cover, Text
    <3> QED
      BY <1>1, <3>2, <3>3, <3>4 DEF LineInv
  <2> QED
    BY <2>1, <2>4, <2>5
<1>13. CASE AddParagraph
  <2> DEFINE p == Head(buffer)
  <2>1. /\ UNCHANGED <<doc, at, blocks, section, sentences>> /\ sentences = <<>>
        /\ buffer # <<>> /\ buffer' = Tail(buffer)
        /\ \/ Emit("text", current) /\ current' = Append(Kept, p)
           \/ UNCHANGED chunks /\ current' = Append(current, p)
    BY <1>13 DEF AddParagraph, Splitting, Build, parsed
  <2>2. /\ p \in SpansIn(doc) /\ B = Lines(p) \cup LinesOf(buffer') /\ Lines(p) # {}
        /\ Before(Lines(p), LinesOf(buffer')) /\ Ordered(buffer')
    BY <1>1, <1>2, <1>3, <2>1, HeadFirst, BufferHead
  <2> HIDE DEF p
  <2>3. Before(Done \cup C, Lines(p)) /\ R = {}
    BY <1>3, <1>4, <2>1, <2>2 DEF Before
  <2>4. CASE Emit("text", current) /\ current' = Append(Kept, p)
    <3> DEFINE K == LinesOf(Kept)
    <3>1. /\ Kept \in Seq(SpansIn(doc)) /\ K \subseteq C /\ TotalIn(doc, Kept) <= Overlap
      BY <1>2, ChunkingAssumption, KeptParts
    <3>2. TokensIn(doc, K) <= Overlap
      <4>1. TokensIn(doc, K) <= TotalIn(doc, Kept)
        BY <1>2, <3>1, TokensOfParts
      <4>2. TokensIn(doc, K) \in Nat /\ TotalIn(doc, Kept) \in Nat
        BY <1>2, <3>1, TokensTyped, TotalTyped
      <4> QED
        BY <1>2, <3>1, <4>1, <4>2
    <3>3. LinesOf(current') = K \cup Lines(p)
      BY <2>2, <2>4, <3>1, LinesOfMore
    <3> HIDE DEF K
    <3>4. ChunksApart' /\ CurrentApart' /\ Done' = Done \cup C
      BY <1>1, <2>1, <2>2, <2>3, <2>4, <3>1, <3>2, <3>3, EmitAndKeep
    <3>5. Queue'
      BY <1>3, <2>1, <2>2, <2>3, <3>1, <3>3, <3>4 DEF Queue, Before
    <3>6. Cover'
      BY <1>3, <2>1, <2>2, <2>3, <3>1, <3>3, <3>4 DEF Cover, Text
    <3> QED
      BY <1>1, <3>4, <3>5, <3>6 DEF LineInv
  <2>5. CASE UNCHANGED chunks /\ current' = Append(current, p)
    <3>1. LinesOf(current') = C \cup Lines(p)
      BY <1>2, <2>2, <2>5, LinesOfMore
    <3>2. ChunksApart' /\ CurrentApart' /\ Done' = Done
      BY <1>1, <2>1, <2>3, <2>5, <3>1, BuildMore
    <3>3. Queue'
      BY <1>3, <2>1, <2>2, <2>3, <3>1, <3>2 DEF Queue, Before
    <3>4. Cover'
      BY <1>3, <2>1, <2>2, <2>3, <3>1, <3>2 DEF Cover, Text
    <3> QED
      BY <1>1, <3>2, <3>3, <3>4 DEF LineInv
  <2> QED
    BY <2>1, <2>4, <2>5
<1>14. CASE EndSplit
  <2>1. /\ UNCHANGED <<doc, at, blocks, section, buffer, sentences>> /\ current' = <<>>
        /\ IF current # <<>> THEN Emit("text", current) ELSE UNCHANGED chunks
    BY <1>14 DEF EndSplit, Splitting, Build, parsed
  <2>2. ChunksApart' /\ CurrentApart' /\ Done' = Done \cup C /\ LinesOf(current') = {}
    BY <1>4, <1>10, <2>1
  <2>3. Queue'
    BY <1>3, <2>1, <2>2 DEF Queue, Before
  <2>4. Cover'
    BY <1>3, <2>1, <2>2 DEF Cover, Text
  <2> QED
    BY <1>1, <2>2, <2>3, <2>4 DEF LineInv
<1> QED
  BY <1>6, <1>7, <1>8, <1>9, <1>11, <1>12, <1>13, <1>14 DEF Next

LEMMA LineInit == Init => LineInv
<1> SUFFICES ASSUME Init PROVE LineInv
  OBVIOUS
<1>1. ReadInv /\ doc \in Document
  BY ReadInit, DocsAreDocuments DEF Init
<1>2. /\ current = <<>> /\ sentences = <<>> /\ buffer = <<>> /\ chunks = <<>> /\ blocks = <<>> /\ at = 1
  BY DEF Init
<1>3. LinesOf(<<>>) = {} /\ Ordered(<<>>) /\ Len(<<>>) = 0
  BY LinesOfNone
<1>4. Done = {} /\ Text = {} /\ AllOf(blocks) = {} /\ TextOf(blocks) = {}
  BY <1>2, <1>3 DEF Done, Text, AllOf, TextOf
<1>5. Queue
  BY <1>2, <1>3, <1>4 DEF Queue, Before
<1>6. 1..(at - 1) = {}
  BY <1>2
<1> QED
  BY <1>1, <1>2, <1>3, <1>4, <1>5, <1>6 DEF LineInv, Cover, CurrentApart, Follows, ChunksApart

LEMMA LinesOfChunks == LineInv => EveryLineOnce
<1> SUFFICES ASSUME LineInv, pc = "done"
             PROVE  /\ UNION {Content(k) : k \in DOMAIN chunks} = Body
                    /\ \A k, l \in DOMAIN chunks :
                          k < l /\ Content(k) # {} /\ Content(l) # {} =>
                              /\ Max(Content(k)) < Max(Content(l))
                              /\ Tokens(Content(k) \cap Content(l)) <= Overlap
  BY DEF EveryLineOnce
<1>1. /\ DOMAIN chunks = 1..Len(chunks) /\ Len(doc) \in Nat
      /\ Body = BodyIn(doc) /\ \A S : Tokens(S) = TokensIn(doc, S)
      /\ \A k : Content(k) = LinesOf(chunks[k].parts)
  <2>1. chunks \in Seq(ChunksIn(doc)) /\ Len(doc) \in Nat
    BY SizeFacts DEF LineInv
  <2> QED
    BY <2>1, OfDocument DEF Content
<1>2. /\ at = Len(doc) + 1 /\ current = <<>> /\ sentences = <<>> /\ buffer = <<>> /\ blocks = <<>>
  BY DEF LineInv, ReadInv, Phases
<1>3. Text = {} /\ TextOf(blocks) = {}
  BY <1>2, LinesOfNone DEF Text, TextOf
<1>4. BodyIn(doc) = Done
  <2>1. 1..(at - 1) = 1..Len(doc)
    BY <1>1, <1>2
  <2> QED
    BY <1>3, <2>1 DEF LineInv, Cover, BodyIn
<1>5. UNION {Content(k) : k \in DOMAIN chunks} = Done
  BY <1>1 DEF Done
<1> QED
  BY <1>1, <1>4, <1>5 DEF LineInv, ChunksApart

------------------------------------------------------------------------------
(* The sizes *)

OneIn(d, parts) == Len(parts) = 1 /\ SizeIn(d, parts[1]) > ChunkSize
\* Parts that end with a sentence and leave no room for the empty string
FullStop(d, parts) ==
    /\ TotalIn(d, parts) + EmptySize > ChunkSize
    /\ LinesOf(parts) # {} /\ d[Max(LinesOf(parts))].stop
EndsSentence(d, s) == Lines(s) # {} /\ d[s.last].stop

\* All the sentences left but the last end as sentences do.  What is being built
\* meanwhile ends with a sentence and fits a chunk, or is one sentence.
SentencesFit ==
    /\ \A k \in 1..(Len(sentences) - 1) : EndsSentence(doc, sentences[k])
    /\ sentences # <<>> /\ current = <<>> => Lines(Head(sentences)) # {}
    /\ sentences # <<>> /\ current # <<>> =>
          /\ EndsSentence(doc, current[Len(current)])
          /\ \A i \in LinesOf(current) : i <= current[Len(current)].last
          /\ tokens <= ChunkSize \/ OneIn(doc, current)
CurrentFits == current # <<>> => tokens <= ChunkSize + Overlap \/ OneIn(doc, current)
\* What is being built is empty only after such a chunk.
CurrentEmpty ==
    current # <<>> /\ LinesOf(current) = {} =>
        chunks # <<>> /\ FullStop(doc, chunks[Len(chunks)].parts)

ChunkFits(d, cs, k) ==
    cs[k].type = "text" =>
        /\ TotalIn(d, cs[k].parts) <= ChunkSize + Overlap \/ OneIn(d, cs[k].parts)
        /\ LinesOf(cs[k].parts) = {} => k > 1 /\ FullStop(d, cs[k - 1].parts)
ChunksFit == \A k \in 1..Len(chunks) : ChunkFits(doc, chunks, k)

SizeInv == ReadInv /\ SentencesFit /\ CurrentFits /\ CurrentEmpty /\ ChunksFit

\* One more chunk, with text that fits or with something else
LEMMA OneMoreFits ==
  ASSUME ReadInv, ChunksFit, NEW c, chunks' = Append(chunks, c), doc' = doc,
         c.type = "text" =>
            /\ TotalIn(doc, c.parts) <= ChunkSize + Overlap \/ OneIn(doc, c.parts)
            /\ LinesOf(c.parts) = {} => chunks # <<>> /\ FullStop(doc, chunks[Len(chunks)].parts)
  PROVE  ChunksFit'
<1> DEFINE N == Len(chunks)
<1>1. /\ Len(chunks') = N + 1 /\ N \in Nat
      /\ \A k \in 1..N : chunks'[k] = chunks[k]
      /\ chunks'[N + 1] = c
      /\ \A k \in 1..(N + 1) : k \in 1..N \/ k = N + 1
      /\ chunks # <<>> => N # 0
  BY SizeFacts, ChunksMore
<1> HIDE DEF N
<1>2. ASSUME NEW k \in 1..N PROVE ChunkFits(doc, chunks', k)
  <2>1. ChunkFits(doc, chunks, k) /\ chunks'[k] = chunks[k] /\ k \in Nat
    BY <1>1 DEF ChunksFit, N
  <2>2. k > 1 => chunks'[k - 1] = chunks[k - 1]
    <3>1. k > 1 => k - 1 \in 1..N
      BY <1>1
    <3> QED
      BY <1>1, <3>1
  <2> QED
    BY <2>1, <2>2 DEF ChunkFits
<1>3. ChunkFits(doc, chunks', N + 1)
  <2>1. chunks # <<>> => /\ N + 1 > 1 /\ (N + 1) - 1 = N /\ N \in 1..N
    BY <1>1
  <2>2. chunks # <<>> => chunks'[(N + 1) - 1] = chunks[N]
    BY <1>1, <2>1
  <2> QED
    BY <1>1, <2>1, <2>2 DEF ChunkFits, N
<1> QED
  BY <1>1, <1>2, <1>3 DEF ChunksFit

LEMMA TextFits ==
  ASSUME SizeInv, current # <<>>, Emit("text", current), doc' = doc
  PROVE  ChunksFit'
<1>1. /\ TextChunk.parts = current /\ chunks' = Append(chunks, TextChunk)
      /\ tokens = TotalIn(doc, current)
  BY SizeFacts DEF Emit, TextChunk, SizeInv
<1> QED
  BY <1>1, OneMoreFits DEF SizeInv, CurrentFits, CurrentEmpty

LEMMA SizeStep == SizeInv /\ LineInv /\ [Next]_vars => SizeInv'
<1> SUFFICES ASSUME SizeInv, LineInv, [Next]_vars PROVE SizeInv'
  OBVIOUS
<1>1. ReadInv /\ ReadInv' /\ SentencesFit /\ CurrentFits /\ CurrentEmpty /\ ChunksFit /\ Phases
  BY ReadStep DEF SizeInv, ReadInv
<1>2. /\ doc \in Document /\ Len(doc) \in Nat /\ ChunkSize \in Nat /\ Overlap \in Nat
      /\ current \in Seq(SpansIn(doc)) /\ sentences \in Seq(SpansIn(doc))
      /\ buffer \in Seq(SpansIn(doc)) /\ chunks \in Seq(ChunksIn(doc))
      /\ tokens = TotalIn(doc, current) /\ tokens \in Nat
      /\ \A s : SizeIn(doc, s) \in Nat /\ Size(s) = SizeIn(doc, s)
      /\ current = <<>> => tokens = 0
  BY <1>1, SizeFacts
<1>3. ASSUME UNCHANGED <<doc, sentences, current, tokens, chunks>> PROVE SizeInv'
  BY <1>1, <1>3 DEF SizeInv, SentencesFit, CurrentFits, CurrentEmpty, ChunksFit
<1>4. ASSUME sentences' = <<>>, current' = <<>>, ChunksFit' PROVE SizeInv'
  <2>1. Len(sentences') = 0
    BY <1>4
  <2> QED
    BY <1>1, <1>4, <2>1 DEF SizeInv, SentencesFit, CurrentFits, CurrentEmpty
<1>5. CASE ParseCode \/ ParseHeading \/ ParseTable \/ ParseParagraph
  <2>1. UNCHANGED <<doc, sentences, current, tokens, chunks>>
    BY <1>5 DEF ParseCode, ParseHeading, ParseTable, ParseParagraph, Parse, splitting
  <2> QED
    BY <1>3, <2>1
<1>6. CASE SkipBlank \/ EndParse \/ FlushParagraphs \/ MergeHeading \/ MergeParagraph \/ EndMerge
           \/ UNCHANGED vars
  <2>1. UNCHANGED <<doc, sentences, current, tokens, chunks>>
    BY <1>6 DEF SkipBlank, EndParse, FlushParagraphs, MergeHeading, MergeParagraph, Merging,
                EndMerge, splitting, vars
  <2> QED
    BY <1>3, <2>1
<1>7. CASE MergeWhole
  <2> DEFINE c == [type |-> Head(blocks).kind, section |-> section, parts |-> <<Head(blocks).span>>]
  <2>1. /\ pc = "merge" /\ UNCHANGED <<doc, sentences, current>>
        /\ Head(blocks).kind \in {"code", "table"} /\ chunks' = Append(chunks, c)
    BY <1>7 DEF MergeWhole, Merging, Emit, splitting
  <2>2. c.type # "text"
    BY <2>1
  <2> HIDE DEF c
  <2>3. ChunksFit'
    BY <1>1, <2>1, <2>2, OneMoreFits
  <2> QED
    BY <1>1, <1>4, <2>1, <2>3 DEF Phases
<1>8. CASE SplitLong
  <2> DEFINE p == Head(buffer)
  <2>1. /\ doc' = doc /\ buffer # <<>> /\ sentences' = Sentences(p) /\ current' = <<>>
        /\ IF current # <<>> THEN Emit("text", current) ELSE UNCHANGED chunks
    BY <1>8 DEF SplitLong, Splitting, Build
  <2>2. /\ Lines(Head(Sentences(p))) # {}
        /\ \A k \in 1..(Len(Sentences(p)) - 1) :
              Lines(Sentences(p)[k]) # {} /\ doc[Sentences(p)[k].last].stop
    BY <1>1, <1>2, <2>1, BufferHead, SentencesOf
  <2> HIDE DEF p
  <2>3. SentencesFit'
    BY <2>1, <2>2 DEF SentencesFit, EndsSentence
  <2>4. ChunksFit'
    BY <1>1, <2>1, TextFits DEF ChunksFit
  <2> QED
    BY <1>1, <2>1, <2>3, <2>4 DEF SizeInv, CurrentFits, CurrentEmpty
<1>9. CASE AddSentence
  <2> DEFINE s == Head(sentences)
             rest == Tail(sentences)
  <2>1. /\ doc' = doc /\ sentences # <<>> /\ sentences' = rest
        /\ IF tokens + Size(s) > ChunkSize /\ current # <<>>
           THEN Emit("text", current) /\ current' = <<s>> /\ tokens' = Size(s)
           ELSE current' = Append(current, s) /\ tokens' = tokens + Size(s) /\ UNCHANGED chunks
    BY <1>9 DEF AddSentence, Splitting, Build, Full
  <2>2. /\ s \in SpansIn(doc) /\ rest \in Seq(SpansIn(doc)) /\ s = sentences[1]
        /\ Len(sentences) \in Nat /\ Len(rest) = Len(sentences) - 1
        /\ \A k \in 1..Len(rest) : rest[k] = sentences[k + 1]
        /\ rest # <<>> => Len(rest) # 0
    <3> DEFINE S == SpansIn(doc)
    <3>1. sentences \in Seq(S)
      BY <1>2
    <3> HIDE DEF S
    <3>2. /\ s \in S /\ rest \in Seq(S) /\ s = sentences[1]
          /\ Len(sentences) \in Nat /\ Len(rest) = Len(sentences) - 1
          /\ \A k \in 1..Len(rest) : rest[k] = sentences[k + 1]
      BY <2>1, <3>1
    <3> HIDE DEF s, rest
    <3>3. rest # <<>> => Len(rest) # 0
      BY <3>2
    <3> QED
      BY <3>2, <3>3 DEF S
  <2> HIDE DEF s, rest
  <2>3. SizeIn(doc, s) \in Nat /\ Size(s) = SizeIn(doc, s)
    BY <1>2
  <2>4. \A k \in 1..(Len(rest) - 1) : EndsSentence(doc, rest[k])
    <3>1. \A k \in 1..(Len(rest) - 1) : k + 1 \in 1..(Len(sentences) - 1) /\ k \in 1..Len(rest)
      BY <2>2
    <3> QED
      BY <1>1, <2>2, <3>1 DEF SentencesFit
  <2>5. rest # <<>> => EndsSentence(doc, s)
    <3>1. rest # <<>> => 1 \in 1..(Len(sentences) - 1)
      BY <2>2
    <3> QED
      BY <1>1, <2>2, <3>1 DEF SentencesFit
  <2>6. Len(<<s>>) = 1 /\ <<s>>[1] = s /\ <<s>> # <<>> /\ <<s>> = Append(<<>>, s)
    OBVIOUS
  <2>7. SizeIn(doc, s) <= ChunkSize \/ OneIn(doc, <<s>>)
    BY <1>2, <2>3, <2>6 DEF OneIn
  <2>8. CASE tokens + Size(s) > ChunkSize /\ current # <<>>
    <3>1. Emit("text", current) /\ current' = <<s>> /\ tokens' = SizeIn(doc, s)
      BY <2>1, <2>3, <2>8
    <3>2. ChunksFit'
      BY <2>1, <2>8, <3>1, TextFits
    <3>3. SentencesFit'
      <4>1. rest # <<>> => \A i \in LinesOf(<<s>>) : i <= s.last
        BY <2>2, LinesOfOne DEF Lines, SpansIn
      <4> QED
        BY <2>1, <2>4, <2>5, <2>6, <2>7, <3>1, <4>1 DEF SentencesFit
    <3>4. CurrentFits'
      BY <1>2, <2>1, <2>3, <2>7, <3>1 DEF CurrentFits
    <3>5. CurrentEmpty'
      <4> SUFFICES ASSUME Lines(s) = {} PROVE chunks' # <<>> /\ FullStop(doc, chunks'[Len(chunks')].parts)
        BY <2>1, <3>1, LinesOfOne DEF CurrentEmpty
      <4> DEFINE c == current[Len(current)]
      <4>1. SizeIn(doc, s) = EmptySize
        BY DEF SizeIn
      <4>2. /\ EndsSentence(doc, c) /\ \A i \in LinesOf(current) : i <= c.last
            /\ TotalIn(doc, current) + EmptySize > ChunkSize
        BY <1>1, <1>2, <2>1, <2>3, <2>8, <4>1 DEF SentencesFit
      <4>3. c \in SpansIn(doc) /\ Len(current) \in DOMAIN current
        <5> DEFINE S == SpansIn(doc)
        <5>1. current \in Seq(S) /\ current # <<>>
          BY <1>2, <2>8
        <5> HIDE DEF S
        <5>2. Len(current) \in DOMAIN current /\ current[Len(current)] \in S
          BY <5>1
        <5> QED
          BY <5>2 DEF S
      <4> HIDE DEF c
      <4>4. c.last \in Lines(c) /\ c.last \in Nat
        BY <1>2, <4>2, <4>3 DEF EndsSentence, Lines, SpansIn
      <4>5. c.last \in LinesOf(current) /\ LinesOf(current) \subseteq Nat
        <5>1. c.last \in LinesOf(current)
          BY <4>3, <4>4, InLinesOf DEF c
        <5>2. LinesOf(current) \subseteq 1..Len(doc)
          BY <1>2, LinesBounded
        <5> QED
          BY <1>2, <5>1, <5>2
      <4>6. Max(LinesOf(current)) = c.last
        <5>1. Max(LinesOf(current)) \in LinesOf(current) /\ c.last <= Max(LinesOf(current))
          BY <4>2, <4>4, <4>5, MaxOf
        <5> QED
          BY <4>2, <4>4, <4>5, <5>1
      <4>7. FullStop(doc, current)
        BY <4>2, <4>5, <4>6 DEF FullStop, EndsSentence
      <4>8. /\ chunks' = Append(chunks, TextChunk) /\ TextChunk.parts = current
        BY <3>1 DEF Emit, TextChunk
      <4>9. Len(chunks') = Len(chunks) + 1 /\ chunks'[Len(chunks) + 1] = TextChunk /\ chunks' # <<>>
        BY <1>2, <4>8
      <4> QED
        BY <4>7, <4>8, <4>9
    <3> QED
      BY <1>1, <3>2, <3>3, <3>4, <3>5 DEF SizeInv
  <2>9. CASE ~(tokens + Size(s) > ChunkSize /\ current # <<>>)
    <3>1. current' = Append(current, s) /\ tokens' = tokens + SizeIn(doc, s) /\ UNCHANGED chunks
      BY <2>1, <2>3, <2>9
    <3>2. /\ current' # <<>> /\ current'[Len(current')] = s
          /\ LinesOf(current') = LinesOf(current) \cup Lines(s)
      <4>1. LinesOf(current') = LinesOf(current) \cup Lines(s)
        <5>1. current \in Seq(SpansIn(doc))
          BY <1>2
        <5> QED
          BY <2>2, <3>1, <5>1, LinesOfMore
      <4>2. Len(current') = Len(current) + 1 /\ Len(current) \in Nat /\ current'[Len(current) + 1] = s
        BY <1>2, <3>1, ChunksMore
      <4>3. Len(current') # 0
        BY <4>2
      <4>4. current' # <<>>
        BY <4>3
      <4> QED
        BY <4>1, <4>2, <4>4
    <3>3. tokens' <= ChunkSize \/ OneIn(doc, current')
      <4>1. CASE current = <<>>
        <5>1. tokens' = SizeIn(doc, s) /\ current' = <<s>>
          BY <1>2, <2>3, <2>6, <3>1, <4>1
        <5> QED
          BY <2>7, <5>1
      <4>2. CASE current # <<>>
        <5>1. ~(tokens + SizeIn(doc, s) > ChunkSize)
          BY <2>3, <2>9, <4>2
        <5> QED
          BY <1>2, <2>3, <3>1, <5>1
      <4> QED
        BY <4>1, <4>2
    <3>4. SentencesFit'
      <4>1. ASSUME rest # <<>> PROVE \A i \in LinesOf(current') : i <= s.last
        <5>1. Lines(s) # {} /\ s.last \in Lines(s) /\ s.last \in Nat /\ Lines(s) \subseteq Nat
          <6>1. Lines(s) # {}
            BY <2>5, <4>1 DEF EndsSentence
          <6>2. s.first \in Nat /\ s.last \in Nat
            <7>1. s \in SpansIn(doc) /\ Len(doc) \in Nat
              BY <1>2, <2>2
            <7> QED
              BY <7>1 DEF SpansIn
          <6> QED
            BY <6>1, <6>2 DEF Lines
        <5>2. s.last \in LinesOf(sentences)
          <6>1. 1 \in DOMAIN sentences
            BY <1>2, <2>1
          <6> QED
            BY <2>2, <5>1, <6>1, InLinesOf
        <5>3. ASSUME NEW i \in LinesOf(current) PROVE i <= s.last
          <6>1. i < s.last
            BY <5>2 DEF LineInv, Queue, Before
          <6>2. i \in Nat
            BY <1>2, LinesBounded
          <6> QED
            BY <5>1, <6>1, <6>2
        <5>4. \A i \in Lines(s) : i <= s.last
          BY <5>1 DEF Lines
        <5> QED
          BY <3>2, <5>3, <5>4
      <4> QED
        BY <2>1, <2>4, <2>5, <3>2, <3>3, <4>1 DEF SentencesFit
    <3>5. CurrentFits'
      <4>1. tokens' \in Nat
        BY <1>2, <2>3, <3>1
      <4>2. tokens' <= ChunkSize => tokens' <= ChunkSize + Overlap
        BY <1>2, <4>1
      <4> QED
        BY <2>1, <3>3, <4>2 DEF CurrentFits
    <3>6. LinesOf(current') # {}
      <4>1. CASE current = <<>>
        BY <1>1, <2>1, <3>2, <4>1 DEF SentencesFit, s
      <4>2. CASE current # <<>>
        <5>1. Lines(current[Len(current)]) # {}
          BY <1>1, <2>1, <4>2 DEF SentencesFit, EndsSentence
        <5>2. Len(current) \in DOMAIN current
          BY <1>2, <4>2
        <5>3. LinesOf(current) # {}
          BY <5>1, <5>2, InLinesOf
        <5> QED
          BY <3>2, <5>3
      <4> QED
        BY <4>1, <4>2
    <3>7. ChunksFit' /\ CurrentEmpty'
      BY <1>1, <2>1, <3>1, <3>6 DEF ChunksFit, CurrentEmpty
    <3> QED
      BY <1>1, <3>4, <3>5, <3>7 DEF SizeInv
  <2> QED
    BY <2>8, <2>9
<1>10. CASE AddParagraph
  <2> DEFINE p == Head(buffer)
  <2>1. /\ doc' = doc /\ sentences = <<>> /\ sentences' = sentences /\ buffer # <<>>
        /\ Size(p) <= ChunkSize
        /\ IF tokens + Size(p) > ChunkSize /\ current # <<>>
           THEN Emit("text", current) /\ current' = Append(Kept, p) /\ tokens' = Total(Kept) + Size(p)
           ELSE current' = Append(current, p) /\ tokens' = tokens + Size(p) /\ UNCHANGED chunks
    BY <1>10 DEF AddParagraph, Splitting, Build, Full
  <2>2. p \in SpansIn(doc) /\ Lines(p) # {}
    BY <1>1, <2>1, BufferHead
  <2> HIDE DEF p
  <2>3. SizeIn(doc, p) \in Nat /\ Size(p) = SizeIn(doc, p)
    BY <1>2
  <2>4. /\ Kept \in Seq(SpansIn(doc)) /\ Total(Kept) <= Overlap /\ Total(Kept) \in Nat
    <3>1. Kept \in Seq(SpansIn(doc)) /\ TotalIn(doc, Kept) <= Overlap /\ Total(Kept) = TotalIn(doc, Kept)
      BY <1>2, ChunkingAssumption, KeptParts, OfDocument
    <3>2. TotalIn(doc, Kept) \in Nat
      BY <1>2, <3>1, TotalTyped
    <3> QED
      BY <3>1, <3>2
  <2>5. Len(sentences') = 0
    BY <2>1
  <2>6. SentencesFit'
    BY <2>1, <2>5 DEF SentencesFit
  <2>7. CASE tokens + Size(p) > ChunkSize /\ current # <<>>
    <3>1. Emit("text", current) /\ current' = Append(Kept, p) /\ tokens' = Total(Kept) + SizeIn(doc, p)
      BY <2>1, <2>3, <2>7
    <3>2. ChunksFit'
      BY <2>1, <2>7, <3>1, TextFits
    <3>3. tokens' <= ChunkSize + Overlap
      BY <1>2, <2>1, <2>3, <2>4, <3>1
    <3>4. LinesOf(current') = LinesOf(Kept) \cup Lines(p)
      BY <2>2, <2>4, <3>1, LinesOfMore
    <3> QED
      BY <1>1, <2>2, <2>6, <3>2, <3>3, <3>4 DEF SizeInv, CurrentFits, CurrentEmpty
  <2>8. CASE ~(tokens + Size(p) > ChunkSize /\ current # <<>>)
    <3>1. current' = Append(current, p) /\ tokens' = tokens + SizeIn(doc, p) /\ UNCHANGED chunks
      BY <2>1, <2>3, <2>8
    <3>2. tokens' <= ChunkSize + Overlap
      <4>1. tokens + SizeIn(doc, p) <= ChunkSize
        <5>1. CASE current = <<>>
          BY <1>2, <2>1, <2>3, <5>1
        <5>2. CASE current # <<>>
          BY <1>2, <2>3, <2>8, <5>2
        <5> QED
          BY <5>1, <5>2
      <4> QED
        BY <1>2, <2>3, <3>1, <4>1
    <3>3. LinesOf(current') = LinesOf(current) \cup Lines(p)
      BY <1>2, <2>2, <3>1, LinesOfMore
    <3>4. ChunksFit'
      BY <1>1, <2>1, <3>1 DEF ChunksFit
    <3> QED
      BY <1>1, <2>2, <2>6, <3>2, <3>3, <3>4 DEF SizeInv, CurrentFits, CurrentEmpty
  <2> QED
    BY <2>7, <2>8
<1>11. CASE EndSplit
  <2>1. /\ doc' = doc /\ sentences' = <<>> /\ current' = <<>>
        /\ IF current # <<>> THEN Emit("text", current) ELSE UNCHANGED chunks
    BY <1>11 DEF EndSplit, Splitting, Build
  <2>2. ChunksFit'
    BY <1>1, <2>1, TextFits DEF ChunksFit
  <2> QED
    BY <1>4, <2>1, <2>2
<1> QED
  BY <1>5, <1>6, <1>7, <1>8, <1>9, <1>10, <1>11 DEF Next

LEMMA SizeInit == Init => SizeInv
<1> SUFFICES ASSUME Init PROVE SizeInv
  OBVIOUS
<1>1. Len(sentences) = 0 /\ Len(chunks) = 0
  BY DEF Init
<1> QED
  BY <1>1, ReadInit DEF Init, SizeInv, SentencesFit, CurrentFits, CurrentEmpty, ChunksFit

LEMMA SizesOfChunks == SizeInv => ChunkSizes
<1> SUFFICES ASSUME SizeInv PROVE ChunkSizes
  OBVIOUS
<1>1. chunks \in Seq(ChunksIn(doc)) /\ ChunksFit
  BY SizeFacts DEF SizeInv
<1>2. \A parts : /\ OneSentence(parts) <=> OneIn(doc, parts)
                 /\ Total(parts) = TotalIn(doc, parts)
  BY OfDocument DEF OneSentence, OneIn
<1>3. \A k \in DOMAIN chunks : ChunkFits(doc, chunks, k)
  BY <1>1 DEF ChunksFit
<1> QED
  BY <1>2, <1>3 DEF ChunkSizes, ChunkFits, FullStop, Content

LEMMA TypesOk == ReadInv => TypeOK
<1>1. Spans = SpansIn(doc)
  BY DEF Spans, SpansIn
<1>2. Total(current) = TotalIn(doc, current)
  BY OfDocument
<1> QED
  BY <1>1, <1>2 DEF ReadInv, Typed, TypeOK, BlocksIn, BlockKinds, ChunksIn

------------------------------------------------------------------------------
\* In every loop the variables hold what they should, and the running count of
\* tokens is that of the chunk being built.
THEOREM TypeCorrect == Spec => []TypeOK
  BY ReadInit, ReadStep, TypesOk, PTL DEF Spec

\* Whatever fences and tables a document has, every chunk carries the heading it
\* stands under, and no chunk of text reaches into code or a table.
THEOREM SectionsAreHeld == Spec => []SectionsHold
  BY SectionInit, SectionStep, SectionsOfChunks, PTL DEF Spec

\* For any chunk size and overlap, and whether or not the empty string counts, a
\* chunk of text exceeds the size by its overlap at most or is one long sentence,
\* and is empty only after one that ends with a sentence and has no room for it.
THEOREM ChunksHaveSize == Spec => []ChunkSizes
  BY SizeInit, SizeStep, SizesOfChunks, LineInit, LineStep, PTL DEF Spec

\* The chunks of any document hold every line but blank ones and headings, in
\* order, and two of them share no more than the overlap.
THEOREM LinesAreKept == Spec => []EveryLineOnce
  BY LineInit, LineStep, LinesOfChunks, PTL DEF Spec
=============================================================================
