------------------------------ MODULE MCCache ------------------------------
(***************************************************************************)
(* SemanticCache on a small instance: two documents in one space, none in  *)
(* the other; one of the documents is deleted.                             *)
(***************************************************************************)
EXTENDS SemanticCache, TLC

CONSTANTS d1, d2, s1, s2

Placement == d1 :> s1 @@ d2 :> s1
Interchangeable == Permutations(Requests)
=============================================================================
