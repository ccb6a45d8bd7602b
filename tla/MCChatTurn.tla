---------------------------- MODULE MCChatTurn ----------------------------
(***************************************************************************)
(* Finite instances of ChatTurn for TLC.                                   *)
(***************************************************************************)
EXTENDS ChatTurn, TLC

\* Uuids, streams and requests are interchangeable, and so are the slots; the
\* turn stays apart.  Not used with liveness properties.
Interchangeable ==
    Permutations(Docs) \cup Permutations(Streams) \cup Permutations(Requests)
        \cup Permutations(Slots)
=============================================================================
