----------------------------- MODULE RateLimit -----------------------------
(***************************************************************************)
(* RateLimitMiddleware for one tenant: a counter per window ("bucket") in  *)
(* Redis, and a decision on the current counter plus the previous one,     *)
(* weighted by the share of the previous window that a sliding window      *)
(* would still see.  The three calls to Redis are awaited one by one, so   *)
(* requests interleave between them, the clock moves, and each may raise,  *)
(* in which case the request is let through.                               *)
(*                                                                         *)
(* A time is a record [bucket, elapsed], which is what the code computes   *)
(* from time.time().  Paths and methods that skip the limit, and requests  *)
(* without a tenant, never reach the counter and are left out.             *)
(***************************************************************************)
EXTENDS Integers, FiniteSets

CONSTANTS
    Requests,     \* the requests of the tenant, each made once
    Limit,        \* rate_limit_per_minute
    Window,       \* seconds in a bucket (60)
    LastBucket,   \* bound: the buckets are 0 .. LastBucket
    Never         \* the key has no expiry

ASSUME RateAssumption ==
    /\ IsFiniteSet(Requests)
    /\ Limit \in Nat /\ Window \in Nat \ {0} /\ LastBucket \in Nat
    /\ Never \notin [bucket : Nat, elapsed : Nat]

VARIABLES
    now,      \* the clock, in whole seconds
    count,    \* count[b]: the key rate:<tenant>:<b>; 0 is no key
    expiry,   \* expiry[b]: when Redis drops the key
    req       \* req[r]: how far a request is, when it arrived, what INCR returned,
              \* and (history) whether it was decided after its bucket had ended

vars == <<now, count, expiry, req>>

Buckets == 0..LastBucket
Time == [bucket : Nat, elapsed : 0..(Window - 1)]
Pc == {"idle", "timed", "first", "counted", "admitted", "refused", "open"}

TypeOK ==
    /\ now \in [bucket : Buckets, elapsed : 0..(Window - 1)]
    /\ count \in [Buckets -> Nat]
    /\ expiry \in [Buckets -> Time \cup {Never}]
    /\ req \in [Requests -> [pc : Pc, at : Time, count : Nat, late : BOOLEAN]]

Init ==
    /\ now = [bucket |-> 0, elapsed |-> 0]
    /\ count = [b \in Buckets |-> 0]
    /\ expiry = [b \in Buckets |-> Never]
    /\ req = [r \in Requests |-> [pc |-> "idle", at |-> now, count |-> 0, late |-> FALSE]]

------------------------------------------------------------------------------
(* the clock *)

\* A mistake that TypeOK excludes: the second within the bucket never restarts.
Later_NoWrap(t) == [t EXCEPT !.elapsed = @ + 1]
Later(t) ==
    IF t.elapsed + 1 < Window THEN [t EXCEPT !.elapsed = @ + 1]
    ELSE [bucket |-> t.bucket + 1, elapsed |-> 0]

Reached(t, s) == t.bucket > s.bucket \/ (t.bucket = s.bucket /\ t.elapsed >= s.elapsed)

Expired(b, t) == expiry[b] # Never /\ Reached(t, expiry[b])

\* A mistake that BucketBound excludes: the key expires within its own bucket.
Ttl_Short(t) == [t EXCEPT !.elapsed = @ + 1]
\* A mistake that WindowBound excludes: the key lives for one window only.
Ttl_One(t) == [t EXCEPT !.bucket = @ + 1]
\* EXPIRE key 120: two windows, so the same second two buckets on.
Ttl(t) == [t EXCEPT !.bucket = @ + 2]

\* Bound: a request's three calls to Redis take less than a window in all.
Tick ==
    /\ Later(now).bucket \in Buckets
    /\ \A r \in Requests :
          req[r].pc \in {"timed", "first", "counted"} =>
              ~Reached(Later(now), [req[r].at EXCEPT !.bucket = @ + 1])
    /\ now' = Later(now)
    /\ count' = [b \in Buckets |-> IF Expired(b, Later(now)) THEN 0 ELSE count[b]]
    /\ expiry' = [b \in Buckets |-> IF Expired(b, Later(now)) THEN Never ELSE expiry[b]]
    /\ UNCHANGED req

------------------------------------------------------------------------------
(* one request *)

\* now_ts, from which both buckets and elapsed are taken
Arrive(r) ==
    /\ req[r].pc = "idle"
    /\ req' = [req EXCEPT ![r].pc = "timed", ![r].at = now]
    /\ UNCHANGED <<now, count, expiry>>

AfterIncr(n) == IF n = 1 THEN "first" ELSE "counted"

Incr(r) ==
    LET b == req[r].at.bucket
        n == count[b] + 1
    IN  /\ req[r].pc = "timed"
        /\ count' = [count EXCEPT ![b] = n]
        /\ req' = [req EXCEPT ![r].pc = AfterIncr(n), ![r].count = n]
        /\ UNCHANGED <<now, expiry>>

\* Whoever has created the key gives it its time to live.
Expire(r) ==
    /\ req[r].pc = "first"
    /\ expiry' = [expiry EXCEPT ![req[r].at.bucket] = Ttl(now)]
    /\ req' = [req EXCEPT ![r].pc = "counted"]
    /\ UNCHANGED <<now, count>>

Previous(b) == IF b = 0 THEN 0 ELSE count[b - 1]

\* estimated > limit, both multiplied by Window:
\* cur_count + prev_count * (1 - elapsed / 60)
Exceeds(n, prev, elapsed) == Window * n + prev * (Window - elapsed) > Limit * Window

Decision(r) ==
    IF Exceeds(req[r].count, Previous(req[r].at.bucket), req[r].at.elapsed)
    THEN "refused" ELSE "admitted"

\* GET of the previous bucket; what follows it has no await.
Decide(r) ==
    /\ req[r].pc = "counted"
    /\ req' = [req EXCEPT ![r].pc = Decision(r), ![r].late = now.bucket # req[r].at.bucket]
    /\ UNCHANGED <<now, count, expiry>>

\* INCR, EXPIRE or GET raises: the request is let through.  An INCR that has
\* raised may have counted or not; an EXPIRE that has raised set nothing.
RedisRaises(r) ==
    /\ req[r].pc \in {"timed", "first", "counted"}
    /\ req' = [req EXCEPT ![r].pc = "open", ![r].count = 0]
    /\ \/ UNCHANGED count
       \/ /\ req[r].pc = "timed"
          /\ count' = [count EXCEPT ![req[r].at.bucket] = @ + 1]
    /\ UNCHANGED <<now, expiry>>

RequestStep(r) == Arrive(r) \/ Incr(r) \/ Expire(r) \/ Decide(r) \/ RedisRaises(r)

Next == Tick \/ \E r \in Requests : RequestStep(r)

Spec == Init /\ [][Next]_vars

------------------------------------------------------------------------------
(* properties *)

Admitted(b) == {r \in Requests : req[r].pc = "admitted" /\ req[r].at.bucket = b}

\* However many requests race, and whatever keys expire meanwhile, the requests
\* that have arrived in one bucket and passed the check are at most Limit
\* (requests let through because Redis raised are not counted against it).
BucketBound == \A b \in Buckets : Cardinality(Admitted(b)) <= Limit

\* The requests that arrived in the Window seconds up to and including t
InWindow(s, t) ==
    \/ s.bucket = t.bucket /\ s.elapsed <= t.elapsed
    \/ s.bucket + 1 = t.bucket /\ s.elapsed > t.elapsed

Passed(t) == {r \in Requests : req[r].pc = "admitted" /\ InWindow(req[r].at, t)}

\* What the weighted estimate buys over two independent buckets: over any Window
\* consecutive seconds, whatever two buckets they lie in, fewer than twice Limit
\* requests pass.  This needs every one of them to be decided before its bucket
\* ends: one counted late is in no estimate made before, one that decides late
\* may find the previous key expired, and the buckets are independent after all.
WindowBound ==
    Limit > 0 =>
        \A b \in Buckets, e \in 0..(Window - 1) :
            LET passed == Passed([bucket |-> b, elapsed |-> e])
            IN  (\A r \in passed : ~req[r].late) => Cardinality(passed) < 2 * Limit

=============================================================================
