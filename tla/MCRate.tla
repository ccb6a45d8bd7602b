------------------------------- MODULE MCRate -------------------------------
(***************************************************************************)
(* RateLimit on a small instance: three buckets of two seconds, so that    *)
(* the keys of the first expire, and twice Limit requests.                 *)
(***************************************************************************)
EXTENDS RateLimit, TLC

Interchangeable == Permutations(Requests)
=============================================================================
