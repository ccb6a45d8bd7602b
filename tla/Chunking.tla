------------------------------ MODULE Chunking ------------------------------
(***************************************************************************)
(* MarkdownChunkerStage: a document is parsed line by line into blocks;    *)
(* the blocks are merged, code and tables each into one chunk, paragraphs  *)
(* into a buffer; and a buffer is split by _split_text into chunks of      *)
(* ChunkSize tokens that overlap by up to Overlap tokens.  An action is    *)
(* one turn of a loop of the code.                                         *)
(*                                                                         *)
(* A line is what the loops ask about it: its kind, whether it has a "|",  *)
(* its number of tokens and whether it ends a sentence; a line that holds  *)
(* several sentences counts as that many lines.  The tokens of the lines   *)
(* of a part add up.                                                       *)
(***************************************************************************)
EXTENDS Naturals, Sequences, FiniteSets, FiniteSetsExt

CONSTANTS
    Docs,        \* the documents to chunk, sequences of lines
    ChunkSize,   \* ctx.config.chunk_size
    Overlap,     \* ctx.config.chunk_overlap
    EmptySize    \* count_tokens(""): 0 of the tokenizer, 1 of the estimate
                 \* that replaces it when it cannot be loaded

Fences == {"backticks", "tildes"}
Plain == {"text", "separator"}     \* "separator": the line |---| of a table
Kinds == Fences \cup Plain \cup {"blank", "heading"}

\* A heading or a fence may have a "|" too, and then the tests' order decides.
Line == {l \in [kind : Kinds, pipe : BOOLEAN, size : Nat, stop : BOOLEAN] :
            (l.kind = "separator" => l.pipe) /\ (l.kind = "blank" => ~l.pipe)}

ASSUME ChunkingAssumption ==
    /\ Docs \subseteq Seq(Line)
    /\ ChunkSize \in Nat \ {0} /\ Overlap \in Nat /\ EmptySize \in {0, 1}

VARIABLES
    doc,         \* the lines of the document
    pc,          \* which loop is at work
    at,          \* parse_blocks: the line it is at
    blocks,      \* the blocks parsed and not yet merged
    section,     \* the line of the last heading merged, or 0
    buffer,      \* para_buf, then the paragraphs not yet split
    sentences,   \* the sentences left of a paragraph that is too long
    current,     \* the parts of the chunk being built
    tokens,      \* current_tokens
    chunks       \* the chunks so far

parsed == <<at, blocks>>
splitting == <<sentences, current, tokens>>
vars == <<doc, pc, at, blocks, section, buffer, sentences, current, tokens, chunks>>

\* A part of a document is a run of lines; the empty string has none.
Span(i, j) == [first |-> i, last |-> j]
Spans == [first : 1..(Len(doc) + 1), last : 0..Len(doc)]

SumOf(numbers) ==
    LET sum[n \in 0..Len(numbers)] == IF n = 0 THEN 0 ELSE sum[n - 1] + numbers[n]
    IN sum[Len(numbers)]

Tokens(lines) == SumOf([i \in 1..Len(doc) |-> IF i \in lines THEN doc[i].size ELSE 0])
Size(s) == IF s.first..s.last = {} THEN EmptySize ELSE Tokens(s.first..s.last)
Total(parts) == SumOf([k \in 1..Len(parts) |-> Size(parts[k])])

TypeOK ==
    /\ doc \in Docs
    /\ pc \in {"parse", "merge", "split", "done"}
    /\ at \in 1..(Len(doc) + 1) /\ section \in 0..Len(doc)
    /\ blocks \in Seq([kind : {"code", "table", "heading", "paragraph"}, span : Spans])
    /\ buffer \in Seq(Spans) /\ sentences \in Seq(Spans) /\ current \in Seq(Spans)
    /\ tokens = Total(current)
    /\ chunks \in Seq([type : {"text", "code", "table"}, section : 0..Len(doc),
                       parts : Seq(Spans)])

Init ==
    /\ doc \in Docs
    /\ pc = "parse" /\ at = 1 /\ section = 0
    /\ blocks = <<>> /\ buffer = <<>> /\ sentences = <<>>
    /\ current = <<>> /\ tokens = 0 /\ chunks = <<>>

------------------------------------------------------------------------------
(* parse_blocks *)

After(i) == (i + 1)..Len(doc)
FirstOf(lines, otherwise) == IF lines = {} THEN otherwise ELSE Min(lines)

\* The fence that closes a block of code is one like the fence that opened it.
CodeEnd(i) == FirstOf({j \in After(i) : doc[j].kind = doc[i].kind}, Len(doc))

TableStart(i) ==
    /\ doc[i].pipe
    /\ i < Len(doc) /\ doc[i + 1].kind = "separator"
\* Every line with a "|" goes on with the table, be it a heading or a fence.
TableEnd(i) == FirstOf({j \in After(i) : ~doc[j].pipe}, Len(doc) + 1) - 1

EndsParagraph(j) == doc[j].kind \in Fences \cup {"blank", "heading"} \/ TableStart(j)
ParagraphEnd(i) == FirstOf({j \in After(i) : EndsParagraph(j)}, Len(doc) + 1) - 1

Parse(kind, last) ==
    /\ blocks' = Append(blocks, [kind |-> kind, span |-> Span(at, last)])
    /\ at' = last + 1
    /\ UNCHANGED <<doc, pc, section, buffer, splitting, chunks>>

Parsing(kinds) == pc = "parse" /\ at <= Len(doc) /\ doc[at].kind \in kinds

ParseCode == Parsing(Fences) /\ Parse("code", CodeEnd(at))
ParseHeading == Parsing({"heading"}) /\ Parse("heading", at)
ParseTable == Parsing(Plain) /\ TableStart(at) /\ Parse("table", TableEnd(at))
ParseParagraph ==
    Parsing(Plain) /\ ~TableStart(at) /\ Parse("paragraph", ParagraphEnd(at))

SkipBlank ==
    /\ Parsing({"blank"}) /\ at' = at + 1
    /\ UNCHANGED <<doc, pc, blocks, section, buffer, splitting, chunks>>

EndParse ==
    /\ pc = "parse" /\ at > Len(doc) /\ pc' = "merge"
    /\ UNCHANGED <<doc, parsed, section, buffer, splitting, chunks>>

------------------------------------------------------------------------------
(* blocks_to_chunks *)

\* A mistake that SectionsHold excludes: a heading leaves the buffer alone.
Flushes_Whole(kind) == kind \in {"code", "table"}
Flushes(kind) == kind # "paragraph"

MustFlush == buffer # <<>> /\ (blocks # <<>> => Flushes(Head(blocks).kind))

FlushParagraphs ==
    /\ pc = "merge" /\ MustFlush
    /\ pc' = "split"
    /\ UNCHANGED <<doc, parsed, section, buffer, splitting, chunks>>

Merging(kinds) ==
    /\ pc = "merge" /\ ~MustFlush
    /\ blocks # <<>> /\ Head(blocks).kind \in kinds
    /\ blocks' = Tail(blocks)
    /\ UNCHANGED <<doc, pc, at, splitting>>

MergeHeading ==
    /\ Merging({"heading"})
    /\ section' = Head(blocks).span.first
    /\ UNCHANGED <<buffer, chunks>>

Emit(type, parts) ==
    chunks' = Append(chunks, [type |-> type, section |-> section, parts |-> parts])

\* Code and tables stay whole, however many tokens they have.
MergeWhole ==
    /\ Merging({"code", "table"})
    /\ Emit(Head(blocks).kind, <<Head(blocks).span>>)
    /\ UNCHANGED <<section, buffer>>

MergeParagraph ==
    /\ Merging({"paragraph"})
    /\ buffer' = Append(buffer, Head(blocks).span)
    /\ UNCHANGED <<section, chunks>>

EndMerge ==
    /\ pc = "merge" /\ blocks = <<>> /\ buffer = <<>> /\ pc' = "done"
    /\ UNCHANGED <<doc, parsed, section, buffer, splitting, chunks>>

------------------------------------------------------------------------------
(* _split_text *)

Splitting ==
    /\ pc = "split"
    /\ UNCHANGED <<doc, parsed, section>>

\* A mistake that TypeOK excludes: the count of the last chunk is added to.
Build_Adds(parts, n) == current' = parts /\ tokens' = tokens + n
Build(parts, n) == current' = parts /\ tokens' = n

\* re.split after every sentence: a paragraph that ends with one leaves "".
Sentences(p) ==
    LET stops == {i \in p.first..p.last : doc[i].stop}
        n == Cardinality(stops)
        end == [k \in 0..(n + 1) |->
                  IF k = 0 THEN p.first - 1
                  ELSE IF k = n + 1 THEN p.last
                  ELSE CHOOSE i \in stops : Cardinality({j \in stops : j <= i}) = k]
    IN  [k \in 1..(n + 1) |-> Span(end[k - 1] + 1, end[k])]

\* A paragraph that is too long: what was being built is a chunk.
SplitLong ==
    /\ Splitting /\ sentences = <<>> /\ buffer # <<>>
    /\ Size(Head(buffer)) > ChunkSize
    /\ sentences' = Sentences(Head(buffer)) /\ buffer' = Tail(buffer)
    /\ IF current # <<>> THEN Emit("text", current) ELSE UNCHANGED chunks
    /\ Build(<<>>, 0) /\ UNCHANGED pc

\* A mistake that ChunkSizes excludes: the part to be added is not counted.
Full_Before(n) == tokens > ChunkSize /\ current # <<>>
Full(n) == tokens + n > ChunkSize /\ current # <<>>

\* Between sentences nothing overlaps.
AddSentence ==
    LET s == Head(sentences)
    IN  /\ Splitting /\ sentences # <<>>
        /\ IF Full(Size(s))
           THEN Emit("text", current) /\ Build(<<s>>, Size(s))
           ELSE Build(Append(current, s), tokens + Size(s)) /\ UNCHANGED chunks
        /\ sentences' = Tail(sentences)
        /\ UNCHANGED <<pc, buffer>>

\* A mistake that EveryLineOnce excludes: the overlap is everything that fits
\* a chunk, not an overlap.
Kept_All == current
\* The last parts of a chunk, of at most Overlap tokens
Kept ==
    LET from(k) == SubSeq(current, k, Len(current))
    IN  from(Min({k \in 1..(Len(current) + 1) : Total(from(k)) <= Overlap}))

AddParagraph ==
    LET p == Head(buffer)
    IN  /\ Splitting /\ sentences = <<>> /\ buffer # <<>>
        /\ Size(p) <= ChunkSize
        /\ IF Full(Size(p))
           THEN Emit("text", current) /\ Build(Append(Kept, p), Total(Kept) + Size(p))
           ELSE Build(Append(current, p), tokens + Size(p)) /\ UNCHANGED chunks
        /\ buffer' = Tail(buffer)
        /\ UNCHANGED <<pc, sentences>>

EndSplit ==
    /\ Splitting /\ sentences = <<>> /\ buffer = <<>>
    /\ IF current # <<>> THEN Emit("text", current) ELSE UNCHANGED chunks
    /\ Build(<<>>, 0) /\ pc' = "merge"
    /\ UNCHANGED <<buffer, sentences>>

------------------------------------------------------------------------------
Next ==
    \/ ParseCode \/ ParseHeading \/ ParseTable \/ ParseParagraph \/ SkipBlank \/ EndParse
    \/ FlushParagraphs \/ MergeHeading \/ MergeWhole \/ MergeParagraph \/ EndMerge
    \/ SplitLong \/ AddSentence \/ AddParagraph \/ EndSplit

Spec == Init /\ [][Next]_vars

------------------------------------------------------------------------------
(* Properties *)

LinesOf(parts) == UNION {parts[k].first..parts[k].last : k \in DOMAIN parts}
Content(k) == LinesOf(chunks[k].parts)

\* The fence or the table that is open after line i, by what is open before it
OpenAfter(i, before) ==
    IF before \in Fences THEN IF doc[i].kind = before THEN "none" ELSE before
    ELSE IF before = "table" /\ doc[i].pipe THEN "table"
    ELSE IF doc[i].kind \in Fences THEN doc[i].kind
    ELSE IF doc[i].kind # "heading" /\ TableStart(i) THEN "table" ELSE "none"

\* The lines that belong to no block of code and to no table
Prose ==
    LET open[i \in 0..Len(doc)] == IF i = 0 THEN "none" ELSE OpenAfter(i, open[i - 1])
    IN  {i \in 1..Len(doc) : open[i] = "none" /\ open[i - 1] \notin Fences}
Body == {i \in 1..Len(doc) : i \in Prose => doc[i].kind \notin {"blank", "heading"}}

\* Nothing of the document is lost or out of place: the chunks hold every line
\* but blank ones and headings, each chunk goes further than those before it,
\* and two chunks share no more than the overlap.
EveryLineOnce ==
    pc = "done" =>
        /\ UNION {Content(k) : k \in DOMAIN chunks} = Body
        /\ \A k, l \in DOMAIN chunks :
              k < l /\ Content(k) # {} /\ Content(l) # {} =>
                  /\ Max(Content(k)) < Max(Content(l))
                  /\ Tokens(Content(k) \cap Content(l)) <= Overlap

OneSentence(parts) == Len(parts) = 1 /\ Size(parts[1]) > ChunkSize

\* A chunk of text exceeds ChunkSize by its overlap at most (a paragraph after
\* an overlap is not measured again) unless it is one sentence that is longer;
\* and it is empty only where re.split leaves an empty string behind the last
\* sentence of a paragraph and the chunk before has no room for that.
ChunkSizes ==
    \A k \in DOMAIN chunks :
        chunks[k].type = "text" =>
            /\ Total(chunks[k].parts) <= ChunkSize + Overlap \/ OneSentence(chunks[k].parts)
            /\ Content(k) = {} =>
                  /\ k > 1 /\ Total(chunks[k - 1].parts) + EmptySize > ChunkSize
                  /\ Content(k - 1) # {} /\ doc[Max(Content(k - 1))].stop

\* Every chunk carries the heading it stands under, which is never a line of
\* code or of a table, and no chunk of text reaches into either.
SectionsHold ==
    \A k \in DOMAIN chunks :
        LET headings == {i \in Prose : doc[i].kind = "heading"}
        IN  /\ \A i \in Content(k) :
                  chunks[k].section = Max({0} \cup {h \in headings : h < i})
            /\ chunks[k].type = "text" => Content(k) \subseteq Prose
=============================================================================
