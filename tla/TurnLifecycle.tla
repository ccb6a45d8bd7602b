--------------------------- MODULE TurnLifecycle ---------------------------
(***************************************************************************)
(* What an attachment-type chat turn promises, whatever the requests,      *)
(* uploads and answer streams do behind it: it is answered at most once,   *)
(* by the one worker that claimed it, and a completed or cancelled turn    *)
(* never comes back.  Module ChatTurn implements this specification.       *)
(***************************************************************************)
EXTENDS Naturals

CONSTANTS
    Turns,      \* client_request_ids of the turns of one session
    Workers,    \* answer streams
    None        \* "no worker"

VARIABLES
    status,     \* status[t]: messages.processing_status, absent or gone
    owner,      \* owner[t]: the worker that is answering t, or None
    answers     \* answers[t]: assistant messages stored for t

vars == <<status, owner, answers>>

Status == {"absent", "waiting_files", "answering", "completed",
           "answer_failed", "cancelled", "gone"}

Init ==
    /\ status = [t \in Turns |-> "absent"]
    /\ owner = [t \in Turns |-> None]
    /\ answers = [t \in Turns |-> 0]

Submit(t) ==
    /\ status[t] = "absent"
    /\ status' = [status EXCEPT ![t] = "waiting_files"]
    /\ UNCHANGED <<owner, answers>>

Claim(t, w) ==
    /\ status[t] \in {"waiting_files", "answer_failed"}
    /\ status' = [status EXCEPT ![t] = "answering"]
    /\ owner' = [owner EXCEPT ![t] = w]
    /\ UNCHANGED answers

Complete(t, w) ==
    /\ status[t] = "answering" /\ owner[t] = w
    /\ status' = [status EXCEPT ![t] = "completed"]
    /\ owner' = [owner EXCEPT ![t] = None]
    /\ answers' = [answers EXCEPT ![t] = @ + 1]

Fail(t, w) ==
    /\ status[t] = "answering" /\ owner[t] = w
    /\ status' = [status EXCEPT ![t] = "answer_failed"]
    /\ owner' = [owner EXCEPT ![t] = None]
    /\ UNCHANGED answers

\* The owner dies: nobody answers t any more, and t still says answering.
Abandon(t) ==
    /\ status[t] = "answering" /\ owner[t] # None
    /\ owner' = [owner EXCEPT ![t] = None]
    /\ UNCHANGED <<status, answers>>

Cancel(t) ==
    /\ status[t] \in {"waiting_files", "answer_failed"}
    /\ status' = [status EXCEPT ![t] = "cancelled"]
    /\ UNCHANGED <<owner, answers>>

\* The session and all its messages are deleted.
Discard ==
    /\ status' = [t \in Turns |-> "gone"]
    /\ owner' = [t \in Turns |-> None]
    /\ answers' = [t \in Turns |-> 0]

Next ==
    \/ \E t \in Turns : Submit(t) \/ Cancel(t) \/ Abandon(t)
    \/ \E t \in Turns, w \in Workers : Claim(t, w) \/ Complete(t, w) \/ Fail(t, w)
    \/ Discard

Spec == Init /\ [][Next]_vars
=============================================================================
