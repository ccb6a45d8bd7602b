----------------------------- MODULE MCDocument -----------------------------
(***************************************************************************)
(* DocumentLifecycle on a small instance: the workflow of the upload, at   *)
(* most one of a retry, and up to two requests of each kind.               *)
(***************************************************************************)
EXTENDS DocumentLifecycle
=============================================================================
