------------------------------ MODULE Chunking ------------------------------
(***************************************************************************)
(* The three chunking strategies, as the loops they are: RecursiveChunker  *)
(* over paragraphs, which hands a paragraph that is too large to           *)
(* SentenceChunker, whose chunks that are still too large it hands to      *)
(* FixedSizeChunker.                                                       *)
(*                                                                         *)
(* A text is its tokens 0 .. n - 1, with the positions where a sentence    *)
(* and where a paragraph ends, and the seams: the positions where no       *)
(* character has some of its bytes in the token before and some in the     *)
(* token after.  A piece of it is an interval [lo, hi), and its token      *)
(* count the length, so counts of neighbours add up; only the blank line   *)
(* put between joined paragraphs may cost tokens of its own.  A piece that *)
(* is cut off elsewhere than at a seam has lost the character there.       *)
(***************************************************************************)
EXTENDS Naturals, Sequences

CONSTANTS
    MaxTokens,   \* bound: length of a text
    Limits,      \* the sizes and overlaps a chunker may be built with
    Glue         \* tokens a blank line between two paragraphs costs at most

Limit == [size : Nat \ {0}, overlap : Nat]

\* ChunkingStrategy.__init__ rejects every other combination.
ASSUME LimitsAssumption ==
    /\ Limits \subseteq Limit
    /\ \A l \in Limits : l.overlap < l.size
ASSUME BoundAssumption == MaxTokens \in Nat /\ Glue \in Nat

VARIABLES
    text,      \* the text: its length, seams, sentence and paragraph ends
    limit,     \* chunk_size_tokens and chunk_overlap_tokens
    strategy,  \* the strategy that was asked for
    level,     \* the loop that is running
    para,      \* RecursiveChunker: the paragraphs being gathered
    sent,      \* SentenceChunker: the sentences being gathered, and its text
    win,       \* FixedSizeChunker: position and end of its text
    chunks     \* the chunks so far

vars == <<text, limit, strategy, level, para, sent, win, chunks>>
input == <<text, limit, strategy>>

Strategies == {"recursive", "sentence", "fixed"}
Levels == {"paragraphs", "sentences", "windows", "done"}

Text == {t \in [n : 0..MaxTokens, seams : SUBSET (0..MaxTokens),
                ends : SUBSET (0..MaxTokens), breaks : SUBSET (0..MaxTokens)] :
            /\ t.seams \subseteq 1..t.n
            /\ t.n \in t.breaks \cup {0}
            /\ t.breaks \subseteq t.ends /\ t.ends \subseteq t.seams}

Chunk == [lo : 0..MaxTokens, hi : 0..MaxTokens, tokens : Nat, parts : Nat]

TypeOK ==
    /\ text \in Text /\ limit \in Limits
    /\ strategy \in Strategies /\ level \in Levels
    /\ para \in [lo : 0..text.n, hi : 0..text.n, parts : Nat]
    /\ sent \in [lo : 0..text.n, hi : 0..text.n, end : 0..text.n]
    /\ win \in [pos : Nat, end : 0..text.n]
    /\ chunks \in Seq(Chunk)
    /\ \A i \in 1..Len(chunks) : chunks[i].lo < chunks[i].hi

Init ==
    /\ \E n \in 0..MaxTokens : \E seams \in SUBSET (1..n) :
          \E ends \in SUBSET seams : \E breaks \in SUBSET ends :
             /\ n \in breaks \cup {0}
             /\ text = [n |-> n, seams |-> seams, ends |-> ends, breaks |-> breaks]
    /\ limit \in Limits /\ strategy \in Strategies
    /\ level = CASE strategy = "recursive" -> "paragraphs"
                 [] strategy = "sentence" -> "sentences"
                 [] strategy = "fixed" -> "windows"
    /\ para = [lo |-> 0, hi |-> 0, parts |-> 0]
    /\ sent = [lo |-> 0, hi |-> 0, end |-> text.n]
    /\ win = [pos |-> 0, end |-> text.n]
    /\ chunks = <<>>

\* e is the first position after p in S.
NextIn(S, p, e) == e \in S /\ p < e /\ \A f \in S : p < f => e <= f

Whole(lo, hi) == [lo |-> lo, hi |-> hi, tokens |-> hi - lo, parts |-> 1]

-----------------------------------------------------------------------------
(* RecursiveChunker.chunk: one action per way through the loop's body *)

\* What _build_chunk may measure for the joined paragraphs.
Joined(p) ==
    {[lo |-> p.lo, hi |-> p.hi, tokens |-> p.hi - p.lo + g, parts |-> p.parts] :
        g \in 0..(p.parts - 1) * Glue}

Fits(p, e) == p.parts = 0 \/ e - p.lo <= limit.size

\* The open paragraphs, if any, become a chunk.
FlushOpen(p) ==
    IF p.parts = 0 THEN UNCHANGED chunks
    ELSE \E c \in Joined(p) : chunks' = Append(chunks, c)

Gather(e) ==
    /\ level = "paragraphs" /\ NextIn(text.breaks, para.hi, e)
    /\ e - para.hi <= limit.size /\ Fits(para, e)
    /\ para' = [lo |-> para.lo, hi |-> e, parts |-> para.parts + 1]
    /\ UNCHANGED <<input, level, sent, win, chunks>>

\* Mutant: the open paragraphs are reset but not appended.
FlushForgets(e) ==
    /\ level = "paragraphs" /\ NextIn(text.breaks, para.hi, e)
    /\ e - para.hi <= limit.size /\ ~Fits(para, e)
    /\ para' = [lo |-> para.hi, hi |-> e, parts |-> 1]
    /\ UNCHANGED <<input, level, sent, win, chunks>>

Flush(e) ==
    /\ level = "paragraphs" /\ NextIn(text.breaks, para.hi, e)
    /\ e - para.hi <= limit.size /\ ~Fits(para, e)
    /\ FlushOpen(para)
    /\ para' = [lo |-> para.hi, hi |-> e, parts |-> 1]
    /\ UNCHANGED <<input, level, sent, win>>

\* A paragraph that is too large goes to _split_oversized_paragraph.
Split(e) ==
    /\ level = "paragraphs" /\ NextIn(text.breaks, para.hi, e)
    /\ e - para.hi > limit.size
    /\ FlushOpen(para)
    /\ para' = [lo |-> e, hi |-> e, parts |-> 0]
    /\ sent' = [lo |-> para.hi, hi |-> para.hi, end |-> e]
    /\ level' = "sentences"
    /\ UNCHANGED <<input, win>>

EndParagraphs ==
    /\ level = "paragraphs" /\ para.hi = text.n
    /\ FlushOpen(para)
    /\ level' = "done"
    /\ UNCHANGED <<input, para, sent, win>>

-----------------------------------------------------------------------------
(* SentenceChunker.chunk, and _split_oversized_paragraph on its chunks *)

\* The recursive strategy cuts a sentence chunk that is too large into
\* windows.  It does so once all of them are there; as nothing else reads
\* them, here each is cut at once.
Emit(lo, hi) ==
    IF strategy = "recursive" /\ hi - lo > limit.size
    THEN /\ level' = "windows"
         /\ win' = [pos |-> lo, end |-> hi]
         /\ UNCHANGED chunks
    ELSE /\ chunks' = Append(chunks, Whole(lo, hi))
         /\ UNCHANGED <<level, win>>

\* Mutant: the overlap is measured in tokens, not in whole sentences.
CarriedTokens(c, lo, hi) == c = IF hi - lo > limit.overlap
                                THEN hi - limit.overlap ELSE lo
\* Mutant: nothing is carried over.
CarriedNone(c, lo, hi) == c = hi

\* _carry_over_for_overlap: the next chunk starts at c, where a sentence of
\* the last one does: as many trailing sentences as the overlap holds, but
\* one at least, however long.
Carried(c, lo, hi) ==
    /\ c \in {lo} \cup text.ends /\ lo <= c /\ c < hi
    /\ \A d \in {lo} \cup text.ends :
          /\ lo <= d /\ d < c => hi - d > limit.overlap
          /\ c < d /\ d < hi => hi - c <= limit.overlap

\* Mutant: not even the first sentence of a chunk may exceed the budget.
AddSentenceStrict(e) ==
    /\ level = "sentences" /\ NextIn(text.ends, sent.hi, e)
    /\ sent.hi < sent.end
    /\ e - sent.lo <= limit.size
    /\ sent' = [sent EXCEPT !.hi = e]
    /\ UNCHANGED <<input, level, para, win, chunks>>

AddSentence(e) ==
    /\ level = "sentences" /\ NextIn(text.ends, sent.hi, e)
    /\ sent.hi < sent.end
    /\ sent.lo = sent.hi \/ e - sent.lo <= limit.size
    /\ sent' = [sent EXCEPT !.hi = e]
    /\ UNCHANGED <<input, level, para, win, chunks>>

CloseSentences(e) ==
    /\ level = "sentences" /\ NextIn(text.ends, sent.hi, e)
    /\ sent.hi < sent.end
    /\ sent.lo < sent.hi /\ e - sent.lo > limit.size
    /\ Emit(sent.lo, sent.hi)
    /\ \E c \in sent.lo..sent.hi :
          /\ Carried(c, sent.lo, sent.hi)
          /\ sent' = [lo |-> c, hi |-> e, end |-> sent.end]
    /\ UNCHANGED <<input, para>>

LastSentences ==
    /\ level = "sentences" /\ sent.lo < sent.hi /\ sent.hi = sent.end
    /\ Emit(sent.lo, sent.hi)
    /\ sent' = [sent EXCEPT !.lo = sent.end]
    /\ UNCHANGED <<input, para>>

EndSentences ==
    /\ level = "sentences" /\ sent.lo = sent.end
    /\ level' = IF strategy = "recursive" THEN "paragraphs" ELSE "done"
    /\ UNCHANGED <<input, para, sent, win, chunks>>

-----------------------------------------------------------------------------
(* FixedSizeChunker.chunk *)

\* Mutant: the last window is not cut off at the end of the text.
WindowEndUncut == win.pos + limit.size
WindowEnd == IF win.pos + limit.size < win.end THEN win.pos + limit.size
             ELSE win.end

\* Mutant: the windows do not overlap.
StepWithoutOverlap == limit.size
Step == limit.size - limit.overlap

\* The window's tokens are decoded without their neighbours: see Decodes.
Window ==
    /\ level = "windows" /\ win.pos < win.end
    /\ chunks' = Append(chunks, Whole(win.pos, WindowEnd))
    /\ win' = [win EXCEPT !.pos = @ + Step]
    /\ UNCHANGED <<input, level, para, sent>>

EndWindows ==
    /\ level = "windows" /\ win.end <= win.pos
    /\ level' = IF strategy = "recursive" THEN "sentences" ELSE "done"
    /\ UNCHANGED <<input, para, sent, win, chunks>>

-----------------------------------------------------------------------------
Next ==
    \/ \E e \in 0..MaxTokens :
          \/ Gather(e) \/ Flush(e) \/ Split(e)
          \/ AddSentence(e) \/ CloseSentences(e)
    \/ EndParagraphs \/ LastSentences \/ EndSentences
    \/ Window \/ EndWindows

Spec == Init /\ [][Next]_vars
FairSpec == Spec /\ WF_vars(Next)

-----------------------------------------------------------------------------
(* Properties *)

\* Decoding the tokens of c gives the characters of the piece k back: it holds
\* all their tokens.  A character it holds only some of becomes U+FFFD
\* (errors="replace").
Decodes(c, k) == c.lo <= k.lo /\ k.hi <= c.hi

Marks == text.ends \cup {0}

\* Sentences of one paragraph that are too large together.
Unbroken(lo, hi) == \A b \in text.breaks : b <= lo \/ hi <= b
TooLarge(lo, hi) ==
    {lo, hi} \subseteq Marks /\ Unbroken(lo, hi) /\ hi - lo > limit.size

\* The token at a may get into a window.
Exposed(a) ==
    \/ strategy = "fixed"
    \/ /\ strategy = "recursive"
       /\ \E lo, hi \in 0..MaxTokens : TooLarge(lo, hi) /\ lo <= a /\ a < hi

\* What must not be lost: every token, and what lies between two neighbouring
\* seams; but where windows are cut, only if it takes at most one token more
\* than they overlap, for windows may all cut through what is longer.
Kept ==
    {k \in [lo : 0..MaxTokens, hi : 0..MaxTokens] :
        \/ k.hi = k.lo + 1
        \/ /\ k.lo \in text.seams \cup {0} /\ NextIn(text.seams, k.lo, k.hi)
           /\ Exposed(k.lo) => k.hi - k.lo <= limit.overlap + 1}

\* The chunks s contain the pieces in K that start in the first p tokens.
Covers(s, K, p) ==
    \A k \in K : k.lo < p => \E i \in 1..Len(s) : Decodes(s[i], k)

\* No text is lost: "An ordered list of Chunk objects covering the input
\* text."  No token falls between two chunks, however the strategies call
\* one another, and every character in Kept is whole in one of them.
NothingLost == level = "done" => Covers(chunks, Kept, text.n)

\* What a chunk that starts at p repeats of the chunk c before it: a window
\* exactly the overlap, or what is left of the text; otherwise the last
\* sentences of c, at least one, more only if they are within the overlap,
\* and as many as are.
Repeats(p, c) ==
    /\ strategy = "fixed" =>
          c.hi = IF p + limit.overlap < text.n THEN p + limit.overlap
                 ELSE text.n
    /\ strategy = "sentence" =>
          /\ p \in Marks /\ p < c.hi
          /\ c.hi - p <= limit.overlap \/ NextIn(text.ends, p, c.hi)
          /\ \A d \in Marks : c.lo <= d /\ d < p => c.hi - d > limit.overlap

\* Neighbours of the sentence and the fixed strategy overlap as configured,
\* no less and no more, and follow the text.
OverlapKept ==
    strategy # "recursive" => \A i \in 1..(Len(chunks) - 1) :
        /\ Repeats(chunks[i + 1].lo, chunks[i])
        /\ chunks[i].hi <= chunks[i + 1].hi

\* How far the code misses "guarantees every chunk fits the token budget": a
\* recursive chunk has at most the tokens that join its paragraphs too many,
\* a window none.
BudgetKept ==
    strategy # "sentence" => \A i \in 1..Len(chunks) :
        chunks[i].tokens <= limit.size + (chunks[i].parts - 1) * Glue

\* No sentence is cut, but by the fixed strategy, and where the recursive
\* one had to cut a piece of one paragraph that was too large.
SentencesWhole ==
    strategy # "fixed" => \A i \in 1..Len(chunks) :
        \/ {chunks[i].lo, chunks[i].hi} \subseteq Marks
        \/ /\ strategy = "recursive"
           /\ \E lo, hi \in 0..MaxTokens :
                 TooLarge(lo, hi) /\ lo <= chunks[i].lo /\ chunks[i].hi <= hi

\* Every chunker comes to an end.
Terminates == <>(level = "done")

\* The inductive invariant: how far each loop has got, and that all before
\* that is in the chunks.
SentencesAt(lo, hi, end) ==
    /\ lo <= hi /\ hi <= end
    /\ end \in Marks
    /\ strategy = "sentence" => end = text.n
    /\ strategy = "recursive" => /\ para = [lo |-> end, hi |-> end, parts |-> 0]

Cursors ==
    /\ level = "paragraphs" =>
          /\ strategy = "recursive" /\ Covers(chunks, Kept, para.lo)
          /\ para.lo <= para.hi /\ (para.parts = 0 => para.lo = para.hi)
          /\ para.parts > 0 => para.lo < para.hi /\ para.hi - para.lo <= limit.size
    /\ level = "sentences" =>
          /\ strategy # "fixed" /\ Covers(chunks, Kept, sent.lo)
          /\ SentencesAt(sent.lo, sent.hi, sent.end)
    /\ level = "windows" =>
          /\ strategy # "sentence"
          /\ \A p \in 0..MaxTokens :
                p <= win.pos /\ p <= win.end => Covers(chunks, Kept, p)
          /\ strategy = "fixed" => win.end = text.n
          /\ strategy = "recursive" =>
                SentencesAt(sent.lo, sent.hi, sent.end) /\ sent.lo <= win.end

CursorInv == TypeOK /\ Cursors /\ NothingLost /\ BudgetKept

\* The two outer loops only stop where a sentence ends, and windows are cut
\* only from a piece that is too large.
Marked ==
    strategy # "fixed" =>
        /\ {para.lo, para.hi, sent.lo, sent.hi} \subseteq Marks
        /\ strategy = "recursive" /\ level \in {"sentences", "windows"} =>
              Unbroken(sent.lo, sent.end)
        /\ level = "windows" =>
              \E lo \in 0..MaxTokens : TooLarge(lo, win.end) /\ lo <= win.pos

\* What the next chunk of the running loop repeats of the last one.
Last == chunks[Len(chunks)]
Adjacent ==
    chunks # <<>> =>
        /\ strategy = "fixed" => Last.hi <= win.end /\ Repeats(win.pos, Last)
        /\ strategy = "sentence" =>
              /\ Last.hi <= sent.hi
              /\ sent.lo < sent.end => Repeats(sent.lo, Last)

IInv == CursorInv /\ Marked /\ SentencesWhole /\ Adjacent /\ OverlapKept
=============================================================================
