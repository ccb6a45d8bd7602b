-------------------------- MODULE RateLimitProofs --------------------------
(***************************************************************************)
(* Theorems about RateLimit, for any number of requests, any limit and any *)
(* window.  A ticket is a request whose INCR has answered; the answers of  *)
(* one bucket are all different, because the key cannot expire as long as  *)
(* a request of its bucket may still count.                                *)
(***************************************************************************)
EXTENDS RateLimit, FiniteSetTheorems, TLAPS

Waiting == {"timed", "first", "counted"}
Ticket == {"first", "counted", "admitted"}

\* A request at work arrived in this bucket or the one before.
ArrivalsRecent ==
    \A r \in Requests :
        /\ req[r].pc # "idle" => req[r].at.bucket \in Buckets /\ req[r].at.bucket <= now.bucket
        /\ req[r].pc \in Waiting => now.bucket <= req[r].at.bucket + 1

\* A key lives for two buckets at least.
KeysLive == \A b \in Buckets : expiry[b] # Never => expiry[b].bucket >= b + 2

\* While its bucket can still count, no ticket is beyond the counter.
TicketsCounted ==
    \A r \in Requests :
        req[r].pc \in Ticket =>
            /\ req[r].count \in Nat \ {0}
            /\ now.bucket < req[r].at.bucket + 2 => req[r].count <= count[req[r].at.bucket]

\* Two tickets of one bucket are different.
TicketsDiffer ==
    \A r, q \in Requests :
        /\ req[r].pc \in Ticket /\ req[q].pc \in Ticket
        /\ req[r].at.bucket = req[q].at.bucket
        /\ req[r].count = req[q].count
        => r = q

\* Who was admitted drew a ticket up to Limit.
AdmittedLow == \A r \in Requests : req[r].pc = "admitted" => req[r].count <= Limit

\* BucketBound with what it needs to be inductive.
TicketInv ==
    TypeOK /\ ArrivalsRecent /\ KeysLive /\ TicketsCounted /\ TicketsDiffer /\ AdmittedLow

InTime(r) == req[r].pc = "admitted" /\ ~req[r].late

\* Who was admitted in time after somebody of the bucket before, has felt it.
EstimatesFelt ==
    \A p, r \in Requests :
        InTime(p) /\ InTime(r) /\ req[p].at.bucket + 1 = req[r].at.bucket
        => req[r].count < Limit

\* WindowBound with what it needs to be inductive.
WindowInv == TicketInv /\ EstimatesFelt

------------------------------------------------------------------------------
\* The clock moves on by a second, into the next bucket at most.
LEMMA LaterTime ==
  ASSUME NEW t \in Time
  PROVE  /\ Later(t) \in Time
         /\ t.bucket <= Later(t).bucket
  BY RateAssumption DEF Time, Later

\* No time is the mark of a key without expiry.
LEMMA NeverIsNoTime == Never \notin Time
<1> SUFFICES ASSUME Never \in Time PROVE FALSE
  OBVIOUS
<1>1. Never \in [bucket : Nat, elapsed : Nat]
  BY RateAssumption DEF Time
<1> QED
  BY <1>1, RateAssumption

\* Before anybody has come, everything is typed and there is no ticket.
LEMMA TicketInit == Init => TicketInv
<1> SUFFICES ASSUME Init PROVE TicketInv
  OBVIOUS
<1>1. now \in [bucket : Buckets, elapsed : 0..(Window - 1)] /\ now \in Time
  BY RateAssumption DEF Init, Buckets, Time
<1>2. TypeOK
  BY <1>1 DEF Init, TypeOK, Pc
<1> QED
  BY <1>2 DEF Init, TicketInv, ArrivalsRecent, KeysLive, TicketsCounted, TicketsDiffer,
              AdmittedLow, Waiting, Ticket

\* The current counter alone decides: however little the last bucket weighs,
\* an estimate within the limit means a ticket within it.
LEMMA EstimateBoundsTicket ==
  ASSUME NEW n \in Nat, NEW p \in Nat, NEW e \in 0..(Window - 1), ~Exceeds(n, p, e)
  PROVE  n <= Limit
<1>1. Window \in Nat /\ Window > 0 /\ Limit \in Nat
  BY RateAssumption
<1>2. p * (Window - e) >= 0
  BY <1>1, p >= 0, Window - e >= 0
<1>3. Window * n <= Limit * Window
  BY <1>1, <1>2 DEF Exceeds
<1> QED
  BY <1>1, <1>3

\* And when the last bucket was not empty, the ticket is below the limit.
LEMMA EstimateFeelsLast ==
  ASSUME NEW n \in Nat, NEW p \in Nat, p >= 1, NEW e \in 0..(Window - 1), ~Exceeds(n, p, e)
  PROVE  n < Limit
<1>1. Window \in Nat /\ Window > 0 /\ Limit \in Nat
  BY RateAssumption
<1>2. p * (Window - e) > 0
  BY <1>1, p > 0, Window - e > 0
<1>3. Window * n < Limit * Window
  BY <1>1, <1>2 DEF Exceeds
<1> QED
  BY <1>1, <1>3

------------------------------------------------------------------------------
\* The clock: a key is dropped only when nobody of its bucket can count any more.
LEMMA TickStep ==
  ASSUME TicketInv, Tick
  PROVE  TicketInv'
<1> USE DEF TicketInv
<1>1. now \in Time /\ Later(now) \in Time /\ now.bucket <= Later(now).bucket
  BY LaterTime DEF TypeOK, Time, Buckets
<1>2. TypeOK'
  <2>1. now' \in [bucket : Buckets, elapsed : 0..(Window - 1)]
    BY <1>1 DEF Tick, Time
  <2> QED
    BY <2>1 DEF Tick, TypeOK
<1>3. ArrivalsRecent'
  <2> SUFFICES ASSUME NEW r \in Requests
      PROVE  /\ req[r].pc # "idle" => req[r].at.bucket \in Buckets /\ req[r].at.bucket <= now'.bucket
             /\ req[r].pc \in Waiting => now'.bucket <= req[r].at.bucket + 1
    BY DEF Tick, ArrivalsRecent, Buckets
  <2>1. req[r].at \in Time
    BY DEF TypeOK
  <2>2. CASE req[r].pc \in Waiting
    <3>1. ~Reached(Later(now), [req[r].at EXCEPT !.bucket = @ + 1])
      BY <2>2 DEF Tick, Waiting
    <3>2. Later(now).bucket <= req[r].at.bucket + 1
      BY <3>1, <2>1, <1>1 DEF Reached, Time
    <3> QED
      BY <3>2, <2>1, <1>1, <2>2 DEF Tick, ArrivalsRecent, Time, Waiting
  <2> QED
    BY <2>1, <2>2, <1>1 DEF Tick, ArrivalsRecent, Time
<1>4. KeysLive'
  BY DEF Tick, KeysLive, TypeOK, Buckets
<1>5. TicketsCounted'
  <2> SUFFICES ASSUME NEW r \in Requests, req[r].pc \in Ticket
      PROVE  /\ req[r].count \in Nat \ {0}
             /\ now'.bucket < req[r].at.bucket + 2 => req[r].count <= count'[req[r].at.bucket]
    BY DEF Tick, TicketsCounted
  <2> DEFINE b == req[r].at.bucket
  <2>1. b \in Buckets /\ b \in Nat /\ now' = Later(now)
    BY DEF ArrivalsRecent, Ticket, Buckets, Tick
  <2>2. ASSUME now'.bucket < b + 2 PROVE req[r].count <= count'[b]
    <3>1. req[r].count <= count[b]
      BY <1>1, <2>1, <2>2 DEF TicketsCounted, Time
    <3>2. ~Expired(b, Later(now))
      <4> SUFFICES ASSUME Expired(b, Later(now)) PROVE FALSE
        OBVIOUS
      <4>1. expiry[b] # Never /\ expiry[b] \in Time /\ expiry[b].bucket <= Later(now).bucket
        BY <2>1, <1>1 DEF Expired, Reached, TypeOK, Time
      <4> QED
        BY <4>1, <2>1, <2>2, <1>1 DEF KeysLive, Time
    <3> QED
      BY <3>1, <3>2, <2>1 DEF Tick
  <2> QED
    BY <2>2 DEF TicketsCounted
<1>6. TicketsDiffer' /\ AdmittedLow'
  BY DEF Tick, TicketsDiffer, AdmittedLow
<1> QED
  BY <1>2, <1>3, <1>4, <1>5, <1>6

\* A request arrives.
LEMMA ArriveStep ==
  ASSUME TicketInv, NEW r \in Requests, Arrive(r)
  PROVE  TicketInv'
<1> USE DEF TicketInv
<1>1. now \in Time /\ now.bucket \in Buckets /\ now.bucket \in Nat
  BY DEF TypeOK, Time, Buckets
<1>2. TypeOK'
  BY <1>1, ZenonT(40) DEF Arrive, TypeOK, Pc
<1>3. ArrivalsRecent'
  BY <1>1 DEF Arrive, ArrivalsRecent, TypeOK, Waiting
<1>4. KeysLive'
  BY DEF Arrive, KeysLive
<1>5. TicketsCounted' /\ TicketsDiffer' /\ AdmittedLow'
  BY DEF Arrive, TicketsCounted, TicketsDiffer, AdmittedLow, TypeOK, Ticket
<1> QED
  BY <1>2, <1>3, <1>4, <1>5

\* INCR: the new ticket is beyond all others of its bucket.
LEMMA IncrStep ==
  ASSUME TicketInv, NEW r \in Requests, Incr(r)
  PROVE  TicketInv'
<1> USE DEF TicketInv
<1> DEFINE b == req[r].at.bucket
           n == count[b] + 1
<1>1. b \in Buckets /\ b \in Nat /\ now.bucket <= b + 1 /\ now.bucket \in Nat /\ n \in Nat \ {0}
  BY DEF Incr, ArrivalsRecent, Waiting, TypeOK, Buckets
<1>2. AfterIncr(n) \in {"first", "counted"}
  BY DEF AfterIncr
<1>3. /\ count' = [count EXCEPT ![b] = n]
      /\ req' = [req EXCEPT ![r].pc = AfterIncr(n), ![r].count = n]
      /\ now' = now /\ expiry' = expiry /\ req[r].pc = "timed"
  BY DEF Incr
<1> HIDE DEF n
<1>4. TypeOK'
  BY <1>1, <1>2, <1>3, ZenonT(40) DEF TypeOK, Pc
<1>5. ArrivalsRecent' /\ KeysLive'
  BY <1>2, <1>3 DEF ArrivalsRecent, KeysLive, TypeOK, Waiting
<1>6. ASSUME NEW q \in Requests, q # r, req[q].pc \in Ticket, req[q].at.bucket = b
      PROVE  req[q].count < n
  BY <1>6, <1>1 DEF TicketsCounted, TypeOK, n
<1>7. TicketsCounted'
  <2> SUFFICES ASSUME NEW q \in Requests, req'[q].pc \in Ticket
      PROVE  /\ req'[q].count \in Nat \ {0}
             /\ now.bucket < req'[q].at.bucket + 2 => req'[q].count <= count'[req'[q].at.bucket]
    BY <1>3 DEF TicketsCounted
  <2>1. CASE q = r
    BY <2>1, <1>1, <1>3 DEF TypeOK
  <2>2. CASE q # r
    <3>1. req'[q] = req[q] /\ req[q].at.bucket \in Buckets
      BY <2>2, <1>3 DEF TypeOK, ArrivalsRecent, Ticket
    <3>2. count'[req[q].at.bucket] >= count[req[q].at.bucket] /\ req[q].count \in Nat
      BY <3>1, <1>1, <1>3 DEF TypeOK, n
    <3>3. count'[req[q].at.bucket] \in Nat /\ count[req[q].at.bucket] \in Nat
      BY <3>1, <1>4 DEF TypeOK
    <3> QED
      BY <3>1, <3>2, <3>3 DEF TicketsCounted
  <2> QED
    BY <2>1, <2>2
<1>8. TicketsDiffer'
  <2> SUFFICES ASSUME NEW p \in Requests, NEW q \in Requests, p # q,
                      req'[p].pc \in Ticket, req'[q].pc \in Ticket,
                      req'[p].at.bucket = req'[q].at.bucket, req'[p].count = req'[q].count
      PROVE  FALSE
    BY DEF TicketsDiffer
  <2>1. CASE p # r /\ q # r
    BY <2>1, <1>3 DEF TicketsDiffer, TypeOK
  <2>2. ASSUME NEW u \in Requests, u # r, req'[u].pc \in Ticket,
               req'[u].at.bucket = req'[r].at.bucket, req'[u].count = req'[r].count
        PROVE  FALSE
    <3>1. req'[u] = req[u] /\ req'[r].count = n /\ req'[r].at.bucket = b
      BY <2>2, <1>3 DEF TypeOK
    <3>2. req[u].count < n /\ req[u].count \in Nat
      BY <3>1, <2>2, <1>6 DEF TypeOK
    <3> QED
      BY <3>1, <3>2, <2>2, <1>1
  <2> QED
    BY <2>1, <2>2
<1>9. AdmittedLow'
  <2> SUFFICES ASSUME NEW q \in Requests, req'[q].pc = "admitted" PROVE req'[q].count <= Limit
    BY DEF AdmittedLow
  <2>1. req'[q] = req[q]
    BY <1>2, <1>3 DEF TypeOK
  <2> QED
    BY <2>1 DEF AdmittedLow
<1> QED
  BY <1>4, <1>5, <1>7, <1>8, <1>9

\* EXPIRE: the key outlives the next bucket.
LEMMA ExpireStep ==
  ASSUME TicketInv, NEW r \in Requests, Expire(r)
  PROVE  TicketInv'
<1> USE DEF TicketInv
<1> DEFINE b == req[r].at.bucket
<1>1. b \in Buckets /\ b \in Nat /\ b <= now.bucket /\ now.bucket \in Nat
  BY DEF Expire, ArrivalsRecent, TypeOK, Buckets
<1>2. Ttl(now) \in Time /\ Ttl(now).bucket >= b + 2
  <2>1. now \in Time
    BY DEF TypeOK, Time, Buckets
  <2>2. Ttl(now) = [bucket |-> now.bucket + 2, elapsed |-> now.elapsed]
    BY <2>1 DEF Ttl, Time
  <2> QED
    BY <2>1, <2>2, <1>1 DEF Time
<1>3. TypeOK'
  BY <1>1, <1>2 DEF Expire, TypeOK, Pc
<1>4. ArrivalsRecent'
  BY DEF Expire, ArrivalsRecent, TypeOK, Waiting
<1>5. KeysLive'
  BY <1>1, <1>2 DEF Expire, KeysLive, TypeOK
<1>6. TicketsCounted' /\ TicketsDiffer' /\ AdmittedLow'
  BY DEF Expire, TicketsCounted, TicketsDiffer, AdmittedLow, TypeOK, Ticket
<1> QED
  BY <1>3, <1>4, <1>5, <1>6

\* The decision: who is admitted has a ticket up to Limit.
LEMMA DecideStep ==
  ASSUME TicketInv, NEW r \in Requests, Decide(r)
  PROVE  TicketInv'
<1> USE DEF TicketInv
<1> DEFINE b == req[r].at.bucket
           l == now.bucket # req[r].at.bucket
<1>1. b \in Buckets /\ b \in Nat /\ req[r].pc = "counted" /\ req[r].count \in Nat
  BY DEF Decide, ArrivalsRecent, Buckets, TypeOK
<1>2. Previous(b) \in Nat
  BY <1>1, RateAssumption, SMTT(30) DEF Previous, TypeOK, Buckets
<1>3. Decision(r) \in {"refused", "admitted"} /\ l \in BOOLEAN
  BY DEF Decision
<1>4. Decision(r) = "admitted" => req[r].count <= Limit
  <2> SUFFICES ASSUME Decision(r) = "admitted" PROVE req[r].count <= Limit
    OBVIOUS
  <2>1. ~Exceeds(req[r].count, Previous(b), req[r].at.elapsed)
    BY DEF Decision
  <2>2. req[r].at.elapsed \in 0..(Window - 1)
    BY DEF TypeOK, Time
  <2> QED
    BY <2>1, <2>2, <1>1, <1>2, EstimateBoundsTicket
<1>5. req' = [req EXCEPT ![r].pc = Decision(r), ![r].late = l]
      /\ now' = now /\ count' = count /\ expiry' = expiry
  BY DEF Decide
<1> HIDE DEF l
<1>6. TypeOK'
  BY <1>3, <1>5, ZenonT(40) DEF TypeOK, Pc
<1>7. ArrivalsRecent' /\ KeysLive'
  BY <1>1, <1>3, <1>5 DEF ArrivalsRecent, KeysLive, TypeOK, Waiting
<1>8. TicketsCounted' /\ TicketsDiffer'
  BY <1>1, <1>3, <1>5 DEF TicketsCounted, TicketsDiffer, TypeOK, Ticket
<1>9. AdmittedLow'
  BY <1>4, <1>5 DEF AdmittedLow, TypeOK
<1> QED
  BY <1>6, <1>7, <1>8, <1>9

\* Redis raises: the request is let through without a ticket.
LEMMA RaiseStep ==
  ASSUME TicketInv, NEW r \in Requests, RedisRaises(r)
  PROVE  TicketInv'
<1> USE DEF TicketInv
<1>1. req' = [req EXCEPT ![r].pc = "open", ![r].count = 0] /\ now' = now /\ expiry' = expiry
  BY DEF RedisRaises
<1>2. req[r].at.bucket \in Buckets
  BY DEF RedisRaises, ArrivalsRecent
<1>3. count' \in [Buckets -> Nat] /\ \A b \in Buckets : count'[b] >= count[b]
  BY <1>2 DEF RedisRaises, TypeOK
<1>4. TypeOK'
  BY <1>1, <1>3, ZenonT(40) DEF TypeOK, Pc
<1>5. ArrivalsRecent' /\ KeysLive'
  BY <1>1, <1>2 DEF RedisRaises, ArrivalsRecent, KeysLive, TypeOK, Waiting
<1>6. TicketsCounted'
  <2> SUFFICES ASSUME NEW q \in Requests, req'[q].pc \in Ticket
      PROVE  /\ req'[q].count \in Nat \ {0}
             /\ now.bucket < req'[q].at.bucket + 2 => req'[q].count <= count'[req'[q].at.bucket]
    BY <1>1 DEF TicketsCounted
  <2>1. req'[q] = req[q] /\ req[q].at.bucket \in Buckets
    BY <1>1 DEF TypeOK, Ticket, ArrivalsRecent
  <2>2. count'[req[q].at.bucket] \in Nat /\ count[req[q].at.bucket] \in Nat /\ req[q].count \in Nat
    BY <2>1, <1>3 DEF TypeOK
  <2> QED
    BY <2>1, <2>2, <1>3 DEF TicketsCounted
<1>7. TicketsDiffer' /\ AdmittedLow'
  BY <1>1 DEF TicketsDiffer, AdmittedLow, TypeOK, Ticket
<1> QED
  BY <1>4, <1>5, <1>6, <1>7

\* Every step keeps the tickets in order.
LEMMA TicketStep == TicketInv /\ [Next]_vars => TicketInv'
<1> SUFFICES ASSUME TicketInv, [Next]_vars PROVE TicketInv'
  OBVIOUS
<1>1. CASE Tick
  BY <1>1, TickStep
<1>2. ASSUME NEW r \in Requests, RequestStep(r) PROVE TicketInv'
  BY <1>2, ArriveStep, IncrStep, ExpireStep, DecideStep, RaiseStep DEF RequestStep
<1>3. CASE UNCHANGED vars
  BY <1>3 DEF vars, TicketInv, TypeOK, ArrivalsRecent, KeysLive, TicketsCounted, TicketsDiffer,
              AdmittedLow
<1> QED
  BY <1>1, <1>2, <1>3 DEF Next

\* Some of the requests admitted in a bucket have tickets up to n.
LEMMA TicketsUpTo ==
  ASSUME TicketInv, NEW b \in Buckets, NEW S \in SUBSET Admitted(b), NEW n \in Nat,
         \A r \in S : req[r].count <= n
  PROVE  IsFiniteSet(S) /\ Cardinality(S) <= n
<1> DEFINE f == [r \in S |-> req[r].count]
<1>1. \A r \in S : req[r].count \in 1..n
  BY DEF TicketInv, TypeOK, TicketsCounted, Admitted, Ticket
<1>2. \A r, q \in S : f[r] = f[q] => r = q
  BY DEF TicketInv, TicketsDiffer, Admitted, Ticket
<1>3. f \in Injection(S, 1..n)
  BY <1>1, <1>2 DEF Injection, IsInjective
<1>4. IsFiniteSet(1..n) /\ Cardinality(1..n) = n
  BY FS_Interval
<1> HIDE DEF f
<1> QED
  BY <1>3, <1>4, FS_Injection

\* Different tickets up to Limit are Limit at most.
LEMMA TicketsBound == TicketInv => BucketBound
  BY TicketsUpTo, RateAssumption DEF BucketBound, TicketInv, AdmittedLow, Admitted

\* A decision in time sees every decision that was taken in time one bucket
\* before it, and comes before every one of the bucket after.
LEMMA DecideFelt ==
  ASSUME WindowInv, NEW r \in Requests, Decide(r)
  PROVE  EstimatesFelt'
<1> USE DEF WindowInv, TicketInv
<1> SUFFICES ASSUME NEW p \in Requests, NEW q \in Requests, InTime(p)', InTime(q)',
                    req'[p].at.bucket + 1 = req'[q].at.bucket
             PROVE  req'[q].count < Limit
  BY DEF EstimatesFelt
<1> DEFINE l == now.bucket # req[r].at.bucket
<1>1. req' = [req EXCEPT ![r].pc = Decision(r), ![r].late = l] /\ req[r].pc = "counted"
  BY DEF Decide
<1>2. \A u \in Requests : req'[u].at = req[u].at /\ req'[u].count = req[u].count
  BY <1>1 DEF TypeOK
<1>3. req[p].at.bucket \in Nat /\ req[q].at.bucket \in Nat /\ now.bucket \in Nat /\ p # q
  BY <1>2 DEF TypeOK, Time, Buckets
<1>4. CASE p # r /\ q # r
  BY <1>1, <1>2, <1>4 DEF EstimatesFelt, InTime, TypeOK
<1>5. CASE p = r
  <2>1. now.bucket = req[p].at.bucket
    BY <1>1, <1>5 DEF InTime, TypeOK
  <2>2. req[q].pc = "admitted"
    BY <1>1, <1>3, <1>5 DEF InTime, TypeOK
  <2>3. req[q].at.bucket <= now.bucket
    BY <2>2 DEF ArrivalsRecent
  <2> QED
    BY <2>1, <2>3, <1>2, <1>3
<1>6. CASE q = r
  <2> DEFINE b == req[q].at.bucket
  <2>1. now.bucket = b /\ Decision(q) = "admitted"
    BY <1>1, <1>6 DEF InTime, TypeOK
  <2>2. req[p].pc = "admitted" /\ req[p].at.bucket = b - 1 /\ req[p].at.bucket \in Buckets
    BY <1>1, <1>2, <1>3, <1>6 DEF InTime, TypeOK, ArrivalsRecent
  <2>3. req[p].count \in Nat \ {0} /\ req[p].count <= count[b - 1]
    BY <2>1, <2>2, <1>3 DEF TicketsCounted, Ticket
  <2>4. Previous(b) = count[b - 1] /\ count[b - 1] \in Nat /\ count[b - 1] >= 1
    BY <2>2, <2>3, <1>3 DEF Previous, TypeOK
  <2>5. ~Exceeds(req[q].count, Previous(b), req[q].at.elapsed)
    BY <2>1 DEF Decision
  <2>6. req[q].at.elapsed \in 0..(Window - 1) /\ req[q].count \in Nat
    BY DEF TypeOK, Time
  <2> HIDE DEF b
  <2>7. req[q].count < Limit
    BY <2>4, <2>5, <2>6, EstimateFeelsLast
  <2> QED
    BY <2>7, <1>2
<1> QED
  BY <1>4, <1>5, <1>6

\* Every step keeps the estimates felt.
LEMMA WindowStep == WindowInv /\ [Next]_vars => WindowInv'
<1> SUFFICES ASSUME WindowInv, [Next]_vars PROVE EstimatesFelt'
  BY TicketStep DEF WindowInv
<1> USE DEF WindowInv, TicketInv
<1>1. CASE Tick \/ UNCHANGED vars
  BY <1>1 DEF Tick, vars, EstimatesFelt, InTime
<1>2. ASSUME NEW r \in Requests, Arrive(r) \/ Incr(r) \/ Expire(r) \/ RedisRaises(r)
      PROVE  EstimatesFelt'
  <2>1. \A u \in Requests : InTime(u)' => req'[u] = req[u]
    BY <1>2 DEF Arrive, Incr, Expire, RedisRaises, InTime, AfterIncr, TypeOK
  <2> QED
    BY <2>1 DEF EstimatesFelt, InTime
<1> QED
  BY <1>1, <1>2, DecideFelt DEF Next, RequestStep

\* Who feels the bucket before leaves a place; so the two together, or the one
\* alone, stay below twice Limit.
LEMMA WindowsBound == WindowInv => WindowBound
<1> SUFFICES ASSUME WindowInv, Limit > 0, NEW b \in Buckets, NEW e \in 0..(Window - 1),
                    \A r \in Passed([bucket |-> b, elapsed |-> e]) : ~req[r].late
             PROVE  Cardinality(Passed([bucket |-> b, elapsed |-> e])) < 2 * Limit
  BY DEF WindowBound
<1> USE DEF WindowInv
<1> DEFINE passed == Passed([bucket |-> b, elapsed |-> e])
           here == {r \in passed : req[r].at.bucket = b}
           before == {r \in passed : req[r].at.bucket + 1 = b}
<1>1. passed = here \cup before /\ Limit \in Nat
  BY RateAssumption DEF Passed, InWindow
<1>2. \A r \in passed : r \in Requests /\ InTime(r) /\ req[r].count <= Limit
  BY DEF Passed, InTime, TicketInv, AdmittedLow
<1>3. here \in SUBSET Admitted(b)
  BY DEF Passed, Admitted
<1> HIDE DEF passed, here, before
<1>4. CASE before = {}
  <2>1. passed = here
    BY <1>1, <1>4
  <2>2. Cardinality(here) <= Limit /\ IsFiniteSet(here)
    BY <1>1, <1>2, <1>3, <2>1, TicketsUpTo
  <2>3. Cardinality(here) \in Nat
    BY <2>2, FS_CardinalityType
  <2> QED
    BY <2>1, <2>2, <2>3, <1>1 DEF passed
<1>5. CASE before # {}
  <2>1. PICK p \in before : TRUE
    BY <1>5
  <2>2. p \in Requests /\ req[p].pc = "admitted" /\ req[p].at.bucket + 1 = b
    BY <2>1, <1>2 DEF InTime, before
  <2>3. req[p].at.bucket \in Buckets /\ before \in SUBSET Admitted(req[p].at.bucket)
    <3>1. req[p].at.bucket \in Buckets
      BY <2>2 DEF TicketInv, ArrivalsRecent
    <3>2. \A r \in before : req[r].at.bucket = req[p].at.bucket
      <4>1. \A r \in before : r \in Requests /\ req[r].at.bucket + 1 = b
        BY <1>2 DEF before
      <4>2. \A r \in Requests : req[r].at.bucket \in Nat
        BY DEF TicketInv, TypeOK, Time
      <4> QED
        BY <4>1, <4>2, <2>2
    <3> QED
      BY <3>1, <3>2, <1>2 DEF InTime, Admitted, before
  <2>4. \A r \in here : req[r].count <= Limit - 1
    <3> SUFFICES ASSUME NEW r \in here PROVE req[r].count <= Limit - 1
      OBVIOUS
    <3>1. r \in passed /\ p \in passed /\ req[r].at.bucket = b
      BY <2>1 DEF here, before
    <3>2. r \in Requests /\ p \in Requests /\ InTime(r) /\ InTime(p)
      BY <3>1, <1>2
    <3>3. req[r].count < Limit /\ req[r].count \in Nat
      BY <3>1, <3>2, <2>2 DEF EstimatesFelt, TicketInv, TypeOK
    <3> QED
      BY <3>3, <1>1
  <2>5. IsFiniteSet(here) /\ Cardinality(here) <= Limit - 1
    <3>1. Limit - 1 \in Nat
      BY <1>1
    <3> QED
      BY <3>1, <2>4, <1>3, TicketsUpTo
  <2>6. IsFiniteSet(before) /\ Cardinality(before) <= Limit
    BY <2>3, <1>1, <1>2, TicketsUpTo DEF before
  <2>7. /\ Cardinality(here) \in Nat /\ Cardinality(before) \in Nat
        /\ IsFiniteSet(here \cap before) /\ Cardinality(here \cap before) \in Nat
    BY <2>5, <2>6, FS_CardinalityType, FS_Intersection
  <2>8. Cardinality(here \cup before)
          = Cardinality(here) + Cardinality(before) - Cardinality(here \cap before)
    BY <2>5, <2>6, FS_Union
  <2>9. Cardinality(passed) < 2 * Limit
    BY <2>5, <2>6, <2>7, <2>8, <1>1
  <2> QED
    BY <2>9 DEF passed
<1> QED
  BY <1>4, <1>5

------------------------------------------------------------------------------
\* The clock, the keys and the requests keep their types.
THEOREM Typing == Spec => []TypeOK
<1>1. TicketInv => TypeOK
  BY DEF TicketInv
<1> QED
  BY <1>1, TicketInit, TicketStep, PTL DEF Spec

\* No more than Limit requests that arrived in one bucket pass the check.
THEOREM AtMostLimit == Spec => []BucketBound
  BY TicketInit, TicketStep, TicketsBound, PTL DEF Spec

\* Over any window, requests decided in time and passed are fewer than twice Limit.
THEOREM FewerThanTwice == Spec => []WindowBound
<1>1. Init => WindowInv
  BY TicketInit DEF Init, WindowInv, EstimatesFelt, InTime
<1> QED
  BY <1>1, WindowStep, WindowsBound, PTL DEF Spec
=============================================================================
