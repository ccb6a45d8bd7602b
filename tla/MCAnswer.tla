------------------------------ MODULE MCAnswer ------------------------------
(***************************************************************************)
(* AnswerPath on a small instance: four chunks of two documents.          *)
(***************************************************************************)
EXTENDS AnswerPath

CONSTANTS c1, c2, c3, c4, d1, d2

MCDocOf == (c1 :> d1) @@ (c2 :> d1) @@ (c3 :> d2) @@ (c4 :> d2)
=============================================================================
