------------------------------ MODULE MCAccess ------------------------------
(***************************************************************************)
(* AccessControl with a founder, another member and two groups.            *)
(***************************************************************************)
EXTENDS AccessControl, TLC

Interchangeable == Permutations(Groups) \cup Permutations(Handlers)
=============================================================================
