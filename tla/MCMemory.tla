------------------------------ MODULE MCMemory ------------------------------
(***************************************************************************)
(* SessionMemory on a small instance: one session, two requests at a time, *)
(* a window of one message and compression from the fourth on; two facts   *)
(* and two memories of them.                                               *)
(***************************************************************************)
EXTENDS SessionMemory, TLC

Interchangeable == Permutations(Chats) \cup Permutations(Facts) \cup Permutations(Ids)
=============================================================================
