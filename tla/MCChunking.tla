----------------------------- MODULE MCChunking -----------------------------
(***************************************************************************)
(* Chunking on all documents of up to five lines of ten kinds, and on five *)
(* paragraphs of every mixture of short, full and overlong sentences.      *)
(***************************************************************************)
EXTENDS Chunking

Text(size, stop) == [kind |-> "text", pipe |-> FALSE, size |-> size, stop |-> stop]
Mark(kind, pipe) == [kind |-> kind, pipe |-> pipe, size |-> 1, stop |-> FALSE]
Blank == [kind |-> "blank", pipe |-> FALSE, size |-> 0, stop |-> FALSE]

Short == Text(1, FALSE)
Half == Text(2, TRUE)
Long == Text(4, TRUE)

Marks == {Mark("separator", TRUE), Mark("text", TRUE)}
         \cup {Mark(kind, pipe) : kind \in {"heading", "backticks"}, pipe \in BOOLEAN}
Mixed == UNION {[1..n -> {Short, Long, Blank, Mark("tildes", FALSE)} \cup Marks] : n \in 1..5}

Paragraphs == {<<Short>>, <<Short, Half>>, <<Half, Short, Half>>, <<Long>>, <<Long, Short>>}
Spaced ==
    {p[1] \o <<Blank>> \o p[2] \o <<Blank>> \o p[3] \o <<Blank>> \o p[4] \o <<Blank>> \o p[5]
        : p \in [1..5 -> Paragraphs]}

MCDocs == Mixed \cup Spaced
=============================================================================
