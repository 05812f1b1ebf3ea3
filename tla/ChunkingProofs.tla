--------------------------- MODULE ChunkingProofs ---------------------------
(***************************************************************************)
(* Proofs about Chunking, for texts of any length, any limits the          *)
(* constructor accepts and any cost of a blank line: every strategy covers *)
(* the whole text but for characters longer than a window has room for,    *)
(* what the recursive and the fixed strategy produce exceeds the budget by *)
(* blank lines only, neighbours overlap as they should, and sentences are  *)
(* cut only where a piece is too large.                                    *)
(***************************************************************************)
EXTENDS Chunking, TLAPS

\* Appending a chunk keeps the chunks there are.
LEMMA AppendChunk ==
    ASSUME NEW s \in Seq(Chunk), NEW c \in Chunk
    PROVE  /\ Append(s, c) \in Seq(Chunk)
           /\ Len(Append(s, c)) = Len(s) + 1
           /\ \A i \in 1..Len(s) : Append(s, c)[i] = s[i]
           /\ Append(s, c)[Len(s) + 1] = c
           /\ \A i \in 1..Len(Append(s, c)) : i \in 1..Len(s) \/ i = Len(s) + 1
  OBVIOUS

\* A chunk that starts within what is covered, and does not cut the pieces
\* after that, extends it.
LEMMA AppendCovers ==
    ASSUME NEW s \in Seq(Chunk), NEW c \in Chunk,
           NEW p \in Nat, NEW q \in Nat, Covers(s, Kept, p), c.lo <= p,
           \A k \in Kept : p <= k.lo /\ k.lo < q => k.hi <= c.hi
    PROVE  Covers(Append(s, c), Kept, q)
  <1> SUFFICES ASSUME NEW k \in Kept, k.lo < q
               PROVE  \E i \in 1..Len(Append(s, c)) :
                         Decodes(Append(s, c)[i], k)
    BY DEF Covers
  <1>1. /\ Len(s) \in Nat /\ c.lo \in Nat /\ c.hi \in Nat /\ k.lo \in Nat
    BY BoundAssumption DEF Chunk, Kept
  <1>2. CASE k.lo < p
    <2>1. PICK i \in 1..Len(s) : Decodes(s[i], k)
      BY <1>2 DEF Covers
    <2>2. i \in 1..Len(Append(s, c)) /\ Append(s, c)[i] = s[i]
      BY <1>1, AppendChunk
    <2> QED BY <2>1, <2>2
  <1>3. CASE ~(k.lo < p)
    <2>1. c.lo <= k.lo /\ k.hi <= c.hi
      BY <1>1, <1>3
    <2>2. Len(s) + 1 \in 1..Len(Append(s, c)) /\ Append(s, c)[Len(s) + 1] = c
      BY <1>1, AppendChunk
    <2> QED BY <2>1, <2>2 DEF Decodes
  <1> QED BY <1>2, <1>3

\* What covers more covers less.
LEMMA CoversLess ==
    ASSUME NEW s, NEW p \in Nat, NEW q \in Nat, q <= p, Covers(s, Kept, p)
    PROVE  Covers(s, Kept, q)
  <1>1. \A k \in Kept : k.lo \in Nat
    BY BoundAssumption DEF Kept
  <1> QED BY <1>1 DEF Covers

\* Before the first token there is nothing to cover.
LEMMA CoversNothing ==
    ASSUME NEW s PROVE Covers(s, Kept, 0)
  <1>1. \A k \in Kept : k.lo \in Nat
    BY BoundAssumption DEF Kept
  <1> QED BY <1>1 DEF Covers

\* The budget, as a statement about one chunk.
InBudget(c, l) == c.tokens <= l.size + (c.parts - 1) * Glue

Sizes == /\ limit.size \in Nat /\ limit.overlap \in Nat
         /\ limit.overlap < limit.size /\ limit.size > 0

\* The facts about text and limits that every step starts from.
LEMMA Facts ==
    ASSUME TypeOK
    PROVE  /\ Sizes
           /\ MaxTokens \in Nat /\ Glue \in Nat
           /\ text.n \in Nat /\ text.n <= MaxTokens
           /\ text.ends \subseteq 1..text.n /\ text.breaks \subseteq text.ends
           /\ text.n \in text.breaks \cup {0}
           /\ para.lo \in Nat /\ para.hi \in Nat /\ para.parts \in Nat
           /\ para.lo <= text.n /\ para.hi <= text.n
           /\ sent.lo \in Nat /\ sent.hi \in Nat /\ sent.end \in Nat
           /\ sent.lo <= text.n /\ sent.hi <= text.n /\ sent.end <= text.n
           /\ win.pos \in Nat /\ win.end \in Nat /\ win.end <= text.n
           /\ chunks \in Seq(Chunk)
  <1>1. limit \in Limit /\ limit.overlap < limit.size
    BY LimitsAssumption DEF TypeOK
  <1>2. Sizes
    BY <1>1 DEF Limit, Sizes
  <1>3. /\ text.n \in 0..MaxTokens
        /\ text.ends \subseteq 1..text.n /\ text.breaks \subseteq text.ends
        /\ text.n \in text.breaks \cup {0}
    BY DEF TypeOK, Text
  <1> QED BY <1>2, <1>3, BoundAssumption DEF TypeOK

\* Sentences and paragraphs end at positions of the text.
LEMMA EndsAreNumbers ==
    ASSUME TypeOK PROVE text.ends \subseteq Nat /\ text.breaks \subseteq Nat
  <1>1. text.ends \subseteq 1..text.n /\ text.breaks \subseteq text.ends
    BY DEF TypeOK, Text
  <1> QED BY <1>1

\* A piece does not reach beyond the end of a sentence it starts before.
LEMMA MarkEnds ==
    ASSUME TypeOK, NEW q \in Marks, NEW k \in Kept, k.lo < q
    PROVE  k.hi <= q
  <1>1. /\ q \in Nat /\ k.lo \in Nat /\ k.hi \in Nat
        /\ text.ends \subseteq text.seams
    BY BoundAssumption, Facts DEF Marks, Kept, TypeOK, Text
  <1>2. CASE k.hi = k.lo + 1
    BY <1>1, <1>2
  <1>3. CASE NextIn(text.seams, k.lo, k.hi)
    <2>1. q \in text.seams
      BY <1>1 DEF Marks
    <2> QED BY <1>3, <2>1 DEF NextIn
  <1> QED BY <1>2, <1>3 DEF Kept

\* What must be kept depends on the input only.
LEMMA SameKept == UNCHANGED input => Kept' = Kept /\ Marks' = Marks
  BY DEF input, Kept, Exposed, TooLarge, Unbroken, Marks

\* An interval of the text, as a chunk of its own.
LEMMA WholeChunk ==
    ASSUME NEW lo \in Nat, NEW hi \in Nat, lo < hi, hi <= MaxTokens
    PROVE  /\ Whole(lo, hi) \in Chunk
           /\ Whole(lo, hi).lo = lo /\ Whole(lo, hi).hi = hi
           /\ Whole(lo, hi).tokens = hi - lo /\ Whole(lo, hi).parts = 1
  BY BoundAssumption DEF Whole, Chunk

\* The invariant of the list of chunks, whatever the loops do.
ChunksOK(s) ==
    /\ s \in Seq(Chunk)
    /\ \A i \in 1..Len(s) : s[i].lo < s[i].hi
    /\ strategy # "sentence" => \A i \in 1..Len(s) : InBudget(s[i], limit)

\* One more chunk that is not empty and within the budget.
LEMMA AppendOK ==
    ASSUME ChunksOK(chunks), NEW c \in Chunk, c.lo < c.hi,
           strategy # "sentence" => InBudget(c, limit),
           UNCHANGED input, chunks' = Append(chunks, c)
    PROVE  ChunksOK(chunks)'
  <1>1. chunks \in Seq(Chunk) BY DEF ChunksOK
  <1>2. \A i \in 1..Len(chunks') :
           \/ i \in 1..Len(chunks) /\ chunks'[i] = chunks[i]
           \/ chunks'[i] = c
    BY <1>1, AppendChunk
  <1>3. chunks' \in Seq(Chunk) BY <1>1, AppendChunk
  <1>4. strategy' = strategy /\ limit' = limit BY DEF input
  <1> QED BY <1>2, <1>3, <1>4 DEF ChunksOK

-----------------------------------------------------------------------------
(* Types *)

LoopsOK ==
    /\ text \in Text /\ limit \in Limits
    /\ strategy \in Strategies /\ level \in Levels
    /\ para \in [lo : 0..text.n, hi : 0..text.n, parts : Nat]
    /\ sent \in [lo : 0..text.n, hi : 0..text.n, end : 0..text.n]
    /\ win \in [pos : Nat, end : 0..text.n]

LEMMA Parts == CursorInv <=> LoopsOK /\ ChunksOK(chunks) /\ Cursors /\ NothingLost
  BY DEF CursorInv, TypeOK, BudgetKept, LoopsOK, ChunksOK, InBudget

LEMMA InitInvariant == Init => CursorInv
  <1> SUFFICES ASSUME Init PROVE CursorInv
    OBVIOUS
  <1>0. text \in Text
    <2>1. PICK n \in 0..MaxTokens : \E seams \in SUBSET (1..n) :
             \E ends \in SUBSET seams : \E breaks \in SUBSET ends :
                /\ n \in breaks \cup {0}
                /\ text = [n |-> n, seams |-> seams, ends |-> ends,
                            breaks |-> breaks]
      BY DEF Init
    <2>2. PICK seams \in SUBSET (1..n) :
             \E ends \in SUBSET seams : \E breaks \in SUBSET ends :
                /\ n \in breaks \cup {0}
                /\ text = [n |-> n, seams |-> seams, ends |-> ends,
                            breaks |-> breaks]
      BY <2>1
    <2>3. PICK ends \in SUBSET seams, breaks \in SUBSET seams :
             /\ breaks \subseteq ends /\ n \in breaks \cup {0}
             /\ text = [n |-> n, seams |-> seams, ends |-> ends,
                         breaks |-> breaks]
      BY <2>2
    <2>4. /\ seams \in SUBSET (0..MaxTokens) /\ ends \in SUBSET (0..MaxTokens)
          /\ breaks \in SUBSET (0..MaxTokens)
      BY <2>1, <2>2, <2>3, BoundAssumption
    <2>5. text \in [n : 0..MaxTokens, seams : SUBSET (0..MaxTokens),
                    ends : SUBSET (0..MaxTokens),
                    breaks : SUBSET (0..MaxTokens)]
      BY <2>1, <2>3, <2>4
    <2>6. /\ text.n = n /\ text.seams = seams /\ text.ends = ends
          /\ text.breaks = breaks
      BY <2>3
    <2> QED BY <2>2, <2>3, <2>5, <2>6 DEF Text
  <1> USE <1>0 DEF Init
  <1>1. /\ text.n \in Nat /\ text.n <= MaxTokens /\ MaxTokens \in Nat
        /\ text.n \in text.ends \cup {0}
    BY BoundAssumption DEF Text
  <1>2. LoopsOK
    BY <1>1 DEF LoopsOK, Strategies, Levels
  <1>3. ChunksOK(chunks)
    <2>1. chunks \in Seq(Chunk) /\ Len(chunks) = 0
      OBVIOUS
    <2> QED BY <2>1 DEF ChunksOK
  <1>4. Covers(chunks, Kept, 0)
    BY CoversNothing
  <1>5. \A p \in 0..MaxTokens : p <= win.pos => Covers(chunks, Kept, p)
    BY <1>1, <1>4
  <1>6. level # "done" /\ (level = "paragraphs" <=> strategy = "recursive")
        /\ (level = "sentences" <=> strategy = "sentence")
        /\ (level = "windows" <=> strategy = "fixed")
    BY DEF Strategies
  <1>7. Cursors
    <2>1. CASE strategy = "recursive"
      BY <1>4, <1>6, <2>1 DEF Cursors
    <2>2. CASE strategy = "sentence"
      BY <1>1, <1>4, <1>6, <2>2 DEF Cursors, SentencesAt, Marks
    <2>3. CASE strategy = "fixed"
      <3>1. \A p \in 0..MaxTokens :
               p <= win.pos /\ p <= win.end => Covers(chunks, Kept, p)
        BY <1>5
      <3> QED BY <1>1, <1>6, <2>3, <3>1 DEF Cursors
    <2> QED BY <2>1, <2>2, <2>3 DEF Strategies
  <1> QED BY <1>2, <1>3, <1>6, <1>7, Parts DEF NothingLost

-----------------------------------------------------------------------------
(* The two ways chunks are appended by the outer loops *)

LEMMA FlushStep ==
    ASSUME CursorInv, Marked, level = "paragraphs", FlushOpen(para),
           UNCHANGED input
    PROVE  ChunksOK(chunks)' /\ Covers(chunks', Kept, para.hi)
  <1>1. /\ ChunksOK(chunks) /\ Covers(chunks, Kept, para.lo)
        /\ para.parts = 0 => para.lo = para.hi
        /\ para.parts > 0 => para.lo < para.hi /\ para.hi - para.lo <= limit.size
    BY Parts DEF Cursors
  <1>2. TypeOK
    BY DEF CursorInv
  <1> USE Facts, <1>2
  <1>3. CASE para.parts = 0
    <2>1. chunks' = chunks BY <1>3 DEF FlushOpen
    <2>2. ChunksOK(chunks)' BY <1>1, <2>1 DEF ChunksOK, input
    <2> QED BY <1>1, <1>3, <2>1, <2>2
  <1>4. CASE para.parts # 0
    <2>1. (para.parts - 1) * Glue \in Nat
      <3>1. para.parts - 1 \in Nat /\ Glue \in Nat BY <1>4
      <3> QED BY <3>1
    <2>2. PICK m \in Nat : m = (para.parts - 1) * Glue
      BY <2>1
    <2>3. PICK c : c \in Joined(para) /\ chunks' = Append(chunks, c)
      BY <1>4 DEF FlushOpen
    <2>4. PICK g \in 0..m :
             c = [lo |-> para.lo, hi |-> para.hi,
                  tokens |-> para.hi - para.lo + g, parts |-> para.parts]
      BY <2>2, <2>3 DEF Joined
    <2>5. /\ c \in Chunk /\ c.lo = para.lo /\ c.hi = para.hi /\ c.lo < c.hi
          /\ InBudget(c, limit)
      <3>1. /\ para.hi <= MaxTokens /\ para.lo < para.hi
            /\ para.hi \in Nat /\ para.lo \in Nat /\ para.parts \in Nat
            /\ para.hi - para.lo <= limit.size /\ limit.size \in Nat
        BY <1>1, <1>4 DEF Sizes
      <3> HIDE Facts, <1>2
      <3>a. /\ c.lo = para.lo /\ c.hi = para.hi /\ c.parts = para.parts
            /\ c.tokens = para.hi - para.lo + g
        BY <2>4
      <3>b. /\ para.hi - para.lo + g \in Nat
            /\ para.hi - para.lo + g <= para.hi - para.lo + m
        BY <3>1
      <3>c. para.lo \in 0..MaxTokens /\ para.hi \in 0..MaxTokens
        BY <3>1, BoundAssumption
      <3>d. c \in Chunk
        BY <2>4, <3>1, <3>b, <3>c DEF Chunk
      <3>2. /\ c \in Chunk /\ c.lo = para.lo /\ c.hi = para.hi
            /\ c.parts = para.parts /\ c.tokens <= para.hi - para.lo + m
        BY <3>a, <3>b, <3>d
      <3>3. (c.parts - 1) * Glue = m
        BY <2>2, <3>2
      <3>4. c.tokens \in Nat
        BY <3>2 DEF Chunk
      <3>5. c.tokens <= limit.size + m
        BY <3>1, <3>2, <3>4
      <3> QED BY <3>1, <3>2, <3>3, <3>5 DEF InBudget
    <2>6. ChunksOK(chunks)'
      BY <1>1, <2>3, <2>5, AppendOK
    <2>7. Covers(chunks', Kept, para.hi)
      <3>1. para.lo \in Nat /\ para.hi \in Nat /\ chunks \in Seq(Chunk)
        OBVIOUS
      <3> HIDE Facts, <1>2
      <3>2. c.lo <= para.lo
        BY <2>5, <3>1
      <3>3. para.hi \in Marks
        BY DEF Marked, CursorInv, Cursors
      <3>4. \A k \in Kept : k.lo < para.hi => k.hi <= c.hi
        BY <1>2, <2>5, <3>3, MarkEnds
      <3>5. Covers(Append(chunks, c), Kept, para.hi)
        BY <1>1, <2>5, <3>1, <3>2, <3>4, AppendCovers
      <3> QED BY <3>5, <2>3
    <2> QED BY <2>6, <2>7
  <1> QED BY <1>3, <1>4

LEMMA EmitStep ==
    ASSUME CursorInv, Marked, level = "sentences", sent.lo < sent.hi,
           Emit(sent.lo, sent.hi), UNCHANGED input
    PROVE  /\ ChunksOK(chunks)'
           /\ \/ /\ level' = "sentences" /\ win' = win
                 /\ Covers(chunks', Kept, sent.hi)
              \/ /\ level' = "windows" /\ strategy = "recursive"
                 /\ win' = [pos |-> sent.lo, end |-> sent.hi]
                 /\ Covers(chunks', Kept, sent.lo)
  <1>1. /\ ChunksOK(chunks) /\ Covers(chunks, Kept, sent.lo) /\ strategy # "fixed"
        /\ strategy \in Strategies
    BY Parts DEF Cursors, LoopsOK
  <1>2. TypeOK
    BY DEF CursorInv
  <1> USE Facts, <1>2
  <1>3. CASE strategy = "recursive" /\ sent.hi - sent.lo > limit.size
    <2>1. /\ level' = "windows" /\ chunks' = chunks
          /\ win' = [pos |-> sent.lo, end |-> sent.hi]
      BY <1>3 DEF Emit
    <2>2. ChunksOK(chunks)' BY <1>1, <2>1 DEF ChunksOK, input
    <2> QED BY <1>1, <1>3, <2>1, <2>2
  <1>4. CASE ~(strategy = "recursive" /\ sent.hi - sent.lo > limit.size)
    <2> DEFINE c == Whole(sent.lo, sent.hi)
    <2>1. /\ level' = "sentences" /\ chunks' = Append(chunks, c) /\ win' = win
      BY <1>4 DEF Emit
    <2>2. /\ c \in Chunk /\ c.lo = sent.lo /\ c.hi = sent.hi
          /\ c.tokens = sent.hi - sent.lo /\ c.parts = 1
      <3>1. sent.lo \in Nat /\ sent.hi \in Nat /\ sent.hi <= MaxTokens
        OBVIOUS
      <3> HIDE Facts, <1>2
      <3> QED BY <3>1, WholeChunk
    <2> HIDE DEF c
    <2>3. strategy # "sentence" => InBudget(c, limit)
      <3> SUFFICES ASSUME strategy # "sentence" PROVE InBudget(c, limit)
        OBVIOUS
      <3>a. strategy = "recursive"
        BY <1>1 DEF Strategies
      <3>b. ~(sent.hi - sent.lo > limit.size)
        BY <1>4, <3>a
      <3>1. sent.hi - sent.lo <= limit.size
        BY <3>b DEF Sizes
      <3>2. (c.parts - 1) * Glue = 0 BY <2>2
      <3>3. limit.size \in Nat /\ sent.lo \in Nat /\ sent.hi \in Nat
        BY DEF Sizes
      <3> HIDE Facts, <1>2
      <3> QED BY <2>2, <3>1, <3>2, <3>3 DEF InBudget
    <2>4. ChunksOK(chunks)'
      BY <1>1, <2>1, <2>2, <2>3, AppendOK
    <2>5. Covers(Append(chunks, c), Kept, sent.hi)
      <3>1. sent.lo \in Nat /\ sent.hi \in Nat /\ chunks \in Seq(Chunk)
        OBVIOUS
      <3> HIDE Facts, <1>2
      <3>2. c.lo <= sent.lo
        BY <2>2, <3>1
      <3>3. sent.hi \in Marks
        BY <1>1 DEF Marked
      <3>4. \A k \in Kept : k.lo < sent.hi => k.hi <= c.hi
        BY <1>2, <2>2, <3>3, MarkEnds
      <3> QED BY <1>1, <2>2, <3>1, <3>2, <3>4, AppendCovers
    <2> QED BY <2>1, <2>4, <2>5
  <1> QED BY <1>3, <1>4

-----------------------------------------------------------------------------
(* Every step of the paragraph loop *)

LEMMA PartsNext ==
    CursorInv' <=> LoopsOK' /\ ChunksOK(chunks)' /\ Cursors' /\ NothingLost'
  BY DEF CursorInv, TypeOK, BudgetKept, LoopsOK, ChunksOK, InBudget

\* What the loops share: no step changes its input.
LEMMA SameInput ==
    ASSUME CursorInv, UNCHANGED input
    PROVE  /\ text' = text /\ limit' = limit /\ strategy' = strategy
           /\ Kept' = Kept /\ Marks' = Marks
           /\ LoopsOK /\ ChunksOK(chunks) /\ Cursors /\ NothingLost /\ TypeOK
           /\ chunks' = chunks => ChunksOK(chunks)'
  BY Parts, SameKept DEF CursorInv, input, ChunksOK

LEMMA GatherStep ==
    ASSUME CursorInv, NEW e \in 0..MaxTokens, Gather(e)
    PROVE  CursorInv'
  <1> USE DEF Gather
  <1>1. /\ text' = text /\ limit' = limit /\ strategy' = strategy
        /\ Kept' = Kept /\ LoopsOK /\ Cursors /\ TypeOK /\ ChunksOK(chunks)'
    BY SameInput
  <1> USE Facts, <1>1
  <1>2. e \in 1..text.n /\ para.hi < e
    BY DEF NextIn
  <1>3. LoopsOK'
    BY <1>2 DEF LoopsOK
  <1>4. Cursors'
    <2>1. /\ Covers(chunks, Kept, para.lo) /\ para.lo <= para.hi
          /\ para.parts = 0 => para.lo = para.hi
          /\ para.parts > 0 => para.lo < para.hi /\ para.hi - para.lo <= limit.size
      BY DEF Cursors
    <2>2. /\ para'.lo = para.lo /\ para'.hi = e /\ para'.parts = para.parts + 1
      OBVIOUS
    <2>3. e - para.lo <= limit.size
      BY <2>1 DEF Fits, Sizes
    <2>4. para'.lo < para'.hi /\ para'.parts > 0
      BY <1>2, <2>1, <2>2
    <2>5. Covers(chunks', Kept, para'.lo)
      BY <2>1, <2>2
    <2> QED BY <2>2, <2>3, <2>4, <2>5 DEF Cursors
  <1> QED BY <1>3, <1>4, PartsNext DEF NothingLost

LEMMA FlushKeeps ==
    ASSUME CursorInv, Marked, NEW e \in 0..MaxTokens, Flush(e)
    PROVE  CursorInv'
  <1> USE DEF Flush
  <1>1. /\ text' = text /\ limit' = limit /\ strategy' = strategy
        /\ Kept' = Kept /\ LoopsOK /\ Cursors /\ TypeOK
    BY SameInput
  <1>2. ChunksOK(chunks)' /\ Covers(chunks', Kept, para.hi)
    BY FlushStep
  <1> USE Facts, <1>1
  <1>3. e \in 1..text.n /\ para.hi < e
    BY DEF NextIn
  <1>4. LoopsOK'
    BY <1>3 DEF LoopsOK
  <1>5. Cursors'
    <2>1. /\ para'.lo = para.hi /\ para'.hi = e /\ para'.parts = 1
      OBVIOUS
    <2> QED BY <1>2, <1>3, <2>1 DEF Cursors
  <1> QED BY <1>2, <1>4, <1>5, PartsNext DEF NothingLost

LEMMA SplitKeeps ==
    ASSUME CursorInv, Marked, NEW e \in 0..MaxTokens, Split(e)
    PROVE  CursorInv'
  <1> USE DEF Split
  <1>1. /\ text' = text /\ limit' = limit /\ strategy' = strategy
        /\ Kept' = Kept /\ LoopsOK /\ Cursors /\ TypeOK
    BY SameInput
  <1>2. ChunksOK(chunks)' /\ Covers(chunks', Kept, para.hi)
    BY FlushStep
  <1> USE Facts, <1>1
  <1>3. e \in 1..text.n /\ para.hi < e /\ e \in text.ends
    BY DEF NextIn
  <1>4. LoopsOK'
    BY <1>3 DEF LoopsOK, Levels
  <1>5. Cursors'
    <2>1. /\ sent'.lo = para.hi /\ sent'.hi = para.hi /\ sent'.end = e
          /\ strategy = "recursive"
      BY DEF Cursors
    <2>2. SentencesAt(sent.lo, sent.hi, sent.end)'
      BY <1>3, <2>1 DEF SentencesAt, Marks
    <2> QED BY <1>2, <2>1, <2>2 DEF Cursors
  <1> QED BY <1>2, <1>4, <1>5, PartsNext DEF NothingLost

LEMMA EndParagraphsKeeps ==
    ASSUME CursorInv, Marked, EndParagraphs
    PROVE  CursorInv'
  <1> USE DEF EndParagraphs
  <1>1. /\ text' = text /\ limit' = limit /\ strategy' = strategy
        /\ Kept' = Kept /\ LoopsOK
    BY SameInput
  <1>2. ChunksOK(chunks)' /\ Covers(chunks', Kept, para.hi)
    BY FlushStep
  <1>3. LoopsOK'
    BY <1>1 DEF LoopsOK, Levels
  <1>4. Cursors' /\ NothingLost'
    BY <1>1, <1>2 DEF Cursors, NothingLost
  <1> QED BY <1>2, <1>3, <1>4, PartsNext

-----------------------------------------------------------------------------
(* Every step of the sentence loop *)

LEMMA SentenceFacts ==
    ASSUME CursorInv, level = "sentences"
    PROVE  /\ strategy # "fixed" /\ Covers(chunks, Kept, sent.lo)
           /\ SentencesAt(sent.lo, sent.hi, sent.end)
           /\ sent.lo <= sent.hi /\ sent.hi <= sent.end
           /\ \A e : sent.hi < sent.end /\ NextIn(text.ends, sent.hi, e) =>
                      e \in 1..text.n /\ sent.hi < e /\ e <= sent.end
  <1>1. /\ strategy # "fixed" /\ Covers(chunks, Kept, sent.lo)
        /\ SentencesAt(sent.lo, sent.hi, sent.end) /\ TypeOK
    BY DEF CursorInv, Cursors
  <1> USE Facts, <1>1
  <1>2. /\ sent.lo <= sent.hi /\ sent.hi <= sent.end
        /\ sent.end \in text.ends \cup {0}
    BY DEF SentencesAt, Marks
  <1>3. ASSUME NEW e, sent.hi < sent.end, NextIn(text.ends, sent.hi, e)
        PROVE  e \in 1..text.n /\ sent.hi < e /\ e <= sent.end
    BY <1>2, <1>3 DEF NextIn
  <1> QED BY <1>2, <1>3

LEMMA AddSentenceKeeps ==
    ASSUME CursorInv, NEW e \in 0..MaxTokens, AddSentence(e)
    PROVE  CursorInv'
  <1> USE DEF AddSentence
  <1>1. /\ text' = text /\ limit' = limit /\ strategy' = strategy
        /\ Kept' = Kept /\ LoopsOK /\ TypeOK /\ ChunksOK(chunks)'
    BY SameInput
  <1>2. /\ strategy # "fixed" /\ Covers(chunks, Kept, sent.lo)
        /\ SentencesAt(sent.lo, sent.hi, sent.end)
        /\ sent.lo <= sent.hi
        /\ e \in 1..text.n /\ sent.hi < e /\ e <= sent.end
    BY SentenceFacts
  <1> USE Facts, <1>1
  <1>3. sent' = [lo |-> sent.lo, hi |-> e, end |-> sent.end]
    BY DEF LoopsOK
  <1>4. LoopsOK'
    BY <1>2, <1>3 DEF LoopsOK
  <1>5. SentencesAt(sent.lo, sent.hi, sent.end)'
    BY <1>2, <1>3 DEF SentencesAt, Marks
  <1>6. Covers(chunks', Kept, sent'.lo)
    BY <1>2, <1>3
  <1>7. Cursors'
    BY <1>2, <1>5, <1>6 DEF Cursors
  <1> QED BY <1>4, <1>7, PartsNext DEF NothingLost

\* After the open sentences were emitted the next chunk starts at c, within
\* them or at their end, and they reach to h.
LEMMA AfterEmit ==
    ASSUME CursorInv, Marked, level = "sentences", sent.lo < sent.hi,
           Emit(sent.lo, sent.hi), UNCHANGED <<input, para>>,
           NEW c \in Nat, NEW h \in Nat,
           c <= sent.hi, sent.hi <= h, h <= sent.end,
           sent' = [lo |-> c, hi |-> h, end |-> sent.end]
    PROVE  CursorInv'
  <1>1. /\ text' = text /\ limit' = limit /\ strategy' = strategy
        /\ Kept' = Kept /\ LoopsOK /\ TypeOK
    BY SameInput
  <1>2. /\ strategy # "fixed"
        /\ SentencesAt(sent.lo, sent.hi, sent.end)
        /\ sent.lo <= sent.hi /\ sent.hi <= sent.end
    BY SentenceFacts
  <1>3. /\ ChunksOK(chunks)'
        /\ \/ /\ level' = "sentences" /\ win' = win
              /\ Covers(chunks', Kept, sent.hi)
           \/ /\ level' = "windows" /\ strategy = "recursive"
              /\ win' = [pos |-> sent.lo, end |-> sent.hi]
              /\ Covers(chunks', Kept, sent.lo)
    BY EmitStep
  <1> USE Facts, <1>1
  <1>4. sent'.lo = c /\ sent'.hi = h /\ sent'.end = sent.end
    OBVIOUS
  <1>5. SentencesAt(sent.lo, sent.hi, sent.end)'
    BY <1>2, <1>4 DEF SentencesAt, Marks
  <1>6. CASE level' = "sentences"
    <2>1. win' = win /\ Covers(chunks', Kept, sent.hi)
      BY <1>3, <1>6
    <2>2. Covers(chunks', Kept, c)
      BY <2>1, CoversLess
    <2>3. LoopsOK'
      BY <1>2, <1>6, <2>1 DEF LoopsOK
    <2>4. Cursors'
      BY <1>2, <1>4, <1>5, <1>6, <2>2 DEF Cursors
    <2> QED BY <1>3, <1>6, <2>3, <2>4, PartsNext DEF NothingLost
  <1>7. CASE level' = "windows"
    <2>1. /\ win' = [pos |-> sent.lo, end |-> sent.hi]
          /\ Covers(chunks', Kept, sent.lo) /\ strategy = "recursive"
      BY <1>3, <1>7
    <2>2. \A p \in 0..MaxTokens : p <= sent.lo => Covers(chunks', Kept, p)
      BY <2>1, CoversLess
    <2>3. LoopsOK'
      BY <1>2, <1>7, <2>1 DEF LoopsOK, Levels
    <2>4. win'.pos = sent.lo /\ win'.end = sent.hi /\ sent'.lo <= win'.end
      BY <1>4, <2>1
    <2>5. Cursors'
      BY <1>5, <1>7, <2>1, <2>2, <2>4 DEF Cursors
    <2> QED BY <1>3, <1>7, <2>3, <2>5, PartsNext DEF NothingLost
  <1> QED BY <1>3, <1>6, <1>7

LEMMA CloseSentencesKeeps ==
    ASSUME CursorInv, Marked, NEW e \in 0..MaxTokens, CloseSentences(e)
    PROVE  CursorInv'
  <1> USE DEF CloseSentences
  <1>1. TypeOK /\ e \in 1..text.n /\ sent.hi < e /\ e <= sent.end
    BY SentenceFacts DEF CursorInv
  <1> USE Facts, <1>1
  <1>2. PICK c \in sent.lo..sent.hi :
           sent' = [lo |-> c, hi |-> e, end |-> sent.end]
    OBVIOUS
  <1>3. c \in Nat /\ c <= sent.hi
    OBVIOUS
  <1> QED BY <1>2, <1>3, AfterEmit

LEMMA LastSentencesKeeps ==
    ASSUME CursorInv, Marked, LastSentences
    PROVE  CursorInv'
  <1> USE DEF LastSentences
  <1>1. TypeOK
    BY DEF CursorInv
  <1>2. sent' = [lo |-> sent.end, hi |-> sent.hi, end |-> sent.end]
    BY <1>1 DEF TypeOK
  <1>3. /\ sent.end \in Nat /\ sent.hi \in Nat /\ sent.end <= sent.hi
        /\ sent.hi <= sent.hi /\ sent.hi <= sent.end
    BY <1>1, Facts
  <1>4. UNCHANGED <<input, para>> /\ sent.lo < sent.hi
    OBVIOUS
  <1> QED BY <1>2, <1>3, <1>4, AfterEmit

LEMMA EndSentencesKeeps ==
    ASSUME CursorInv, EndSentences
    PROVE  CursorInv'
  <1> USE DEF EndSentences
  <1>1. /\ text' = text /\ limit' = limit /\ strategy' = strategy
        /\ Kept' = Kept /\ LoopsOK /\ TypeOK /\ ChunksOK(chunks)'
    BY SameInput
  <1>2. /\ strategy # "fixed" /\ Covers(chunks, Kept, sent.end)
        /\ SentencesAt(sent.lo, sent.hi, sent.end)
    BY SentenceFacts
  <1> USE Facts, <1>1
  <1>3. LoopsOK'
    BY DEF LoopsOK, Levels
  <1>4. CASE strategy = "recursive"
    <2>1. para' = [lo |-> sent.end, hi |-> sent.end, parts |-> 0]
      BY <1>2, <1>4 DEF SentencesAt, Marks
    <2>2. Cursors'
      BY <1>2, <1>4, <2>1 DEF Cursors
    <2> QED BY <1>3, <1>4, <2>2, PartsNext DEF NothingLost
  <1>5. CASE strategy = "sentence"
    <2>1. Covers(chunks', Kept, text.n)
      BY <1>2, <1>5 DEF SentencesAt, Marks
    <2>2. Cursors' /\ NothingLost'
      BY <1>5, <2>1 DEF Cursors, NothingLost
    <2> QED BY <1>3, <2>2, PartsNext
  <1> QED BY <1>2, <1>4, <1>5 DEF LoopsOK, Strategies

-----------------------------------------------------------------------------
(* Every step of the window loop *)

LEMMA WindowFacts ==
    ASSUME CursorInv, level = "windows"
    PROVE  /\ strategy # "sentence"
           /\ \A p \in 0..MaxTokens :
                 p <= win.pos /\ p <= win.end => Covers(chunks, Kept, p)
           /\ strategy = "fixed" => win.end = text.n
           /\ strategy = "recursive" =>
                 SentencesAt(sent.lo, sent.hi, sent.end) /\ sent.lo <= win.end
  BY DEF CursorInv, Cursors

\* What the next window is, in plain numbers.
LEMMA WindowNumbers ==
    ASSUME TypeOK, win.pos < win.end
    PROVE  /\ win.pos \in Nat /\ win.end \in Nat /\ win.end <= MaxTokens
           /\ MaxTokens \in Nat /\ limit.size \in Nat /\ limit.overlap \in Nat
           /\ limit.overlap < limit.size
           /\ WindowEnd \in Nat /\ win.pos < WindowEnd /\ WindowEnd <= win.end
           /\ WindowEnd <= win.pos + limit.size
           /\ WindowEnd = win.pos + limit.size \/ WindowEnd = win.end
           /\ Step \in Nat /\ 0 < Step /\ Step + limit.overlap = limit.size
  <1>1. /\ win.pos \in Nat /\ win.end \in Nat /\ win.end <= MaxTokens
        /\ MaxTokens \in Nat /\ Sizes
    BY Facts
  <1> QED BY <1>1 DEF WindowEnd, Step, Sizes

\* A window has room for every piece that starts in its first Step tokens.
LEMMA WindowRoom ==
    ASSUME CursorInv, Marked, level = "windows", win.pos < win.end,
           NEW k \in Kept, win.pos <= k.lo, k.lo < win.pos + Step,
           k.lo < win.end
    PROVE  k.hi <= WindowEnd
  <1>1. /\ TypeOK /\ strategy \in Strategies /\ strategy # "sentence"
        /\ strategy = "fixed" => win.end = text.n
    BY WindowFacts DEF CursorInv, TypeOK
  <1>2. /\ win.pos \in Nat /\ win.end \in Nat /\ win.end <= MaxTokens
        /\ MaxTokens \in Nat /\ limit.size \in Nat /\ limit.overlap \in Nat
        /\ WindowEnd = win.pos + limit.size \/ WindowEnd = win.end
        /\ Step \in Nat /\ Step + limit.overlap = limit.size
    BY <1>1, WindowNumbers
  <1>3. /\ k.lo \in Nat /\ k.hi \in Nat
    BY BoundAssumption DEF Kept
  <1>4. win.end \in Marks /\ Exposed(k.lo)
    <2>1. CASE strategy = "fixed"
      BY <1>1, <2>1, Facts DEF Exposed, Marks
    <2>2. CASE strategy = "recursive"
      <3>1. PICK lo \in 0..MaxTokens : TooLarge(lo, win.end) /\ lo <= win.pos
        BY <2>2 DEF Marked
      <3>2. lo <= k.lo /\ win.end \in 0..MaxTokens
        BY <1>2, <1>3, <3>1
      <3> QED BY <2>2, <3>1, <3>2 DEF Exposed, TooLarge
    <2> QED BY <1>1, <2>1, <2>2 DEF Strategies
  <1>5. k.hi <= win.end
    BY <1>1, <1>4, MarkEnds
  <1>6. k.hi - k.lo <= limit.overlap + 1
    BY <1>2, <1>3, <1>4 DEF Kept
  <1>7. k.hi <= win.pos + limit.size
    <2>1. PICK q \in Nat : q = Step
      BY <1>2
    <2> QED BY <1>2, <1>3, <1>6, <2>1
  <1> QED BY <1>2, <1>5, <1>7

LEMMA WindowKeeps ==
    ASSUME CursorInv, Marked, Window
    PROVE  CursorInv'
  <1>1. /\ level = "windows" /\ win.pos < win.end
        /\ chunks' = Append(chunks, Whole(win.pos, WindowEnd))
        /\ win' = [win EXCEPT !.pos = win.pos + Step]
        /\ UNCHANGED <<input, level, para, sent>>
    BY DEF Window
  <1>2. /\ text' = text /\ limit' = limit /\ strategy' = strategy
        /\ Kept' = Kept /\ LoopsOK /\ TypeOK /\ ChunksOK(chunks)
    BY <1>1, SameInput
  <1>3. /\ strategy # "sentence"
        /\ \A p \in 0..MaxTokens :
              p <= win.pos /\ p <= win.end => Covers(chunks, Kept, p)
        /\ strategy = "fixed" => win.end = text.n
        /\ strategy = "recursive" =>
              SentencesAt(sent.lo, sent.hi, sent.end) /\ sent.lo <= win.end
    BY <1>1, WindowFacts
  <1>4. /\ win.pos \in Nat /\ win.end \in Nat /\ win.end <= MaxTokens
        /\ MaxTokens \in Nat /\ limit.size \in Nat
    BY <1>1, <1>2, WindowNumbers
  <1>5. PICK w \in Nat : w = WindowEnd
    BY <1>1, <1>2, WindowNumbers
  <1>6. /\ win.pos < w /\ w <= win.end /\ w <= win.pos + limit.size
        /\ w = win.pos + limit.size \/ w = win.end
    BY <1>1, <1>2, <1>5, WindowNumbers
  <1>7. PICK q \in Nat : q = win.pos + Step /\ q <= win.pos + limit.size
    <2>1. /\ Step \in Nat /\ limit.overlap \in Nat
          /\ Step + limit.overlap = limit.size
      BY <1>1, <1>2, WindowNumbers
    <2> QED BY <1>4, <2>1
  <1>8. PICK c : c = Whole(win.pos, w)
    OBVIOUS
  <1>9. /\ c \in Chunk /\ c.lo = win.pos /\ c.hi = w
        /\ c.tokens = w - win.pos /\ c.parts = 1
    <2>1. w <= MaxTokens
      BY <1>4, <1>6
    <2> QED BY <1>4, <1>6, <1>8, <2>1, WholeChunk
  <1>10. chunks' = Append(chunks, c)
    BY <1>1, <1>5, <1>8
  <1>11. ChunksOK(chunks)'
    <2>1. (c.parts - 1) * Glue = 0
      BY <1>9, BoundAssumption
    <2>2. c.tokens <= limit.size
      BY <1>4, <1>6, <1>9
    <2>3. InBudget(c, limit)
      BY <1>4, <1>9, <2>1, <2>2 DEF InBudget
    <2>4. c.lo < c.hi
      BY <1>6, <1>9
    <2> QED BY <1>1, <1>2, <1>9, <1>10, <2>3, <2>4, AppendOK
  <1>12. win' = [pos |-> q, end |-> win.end]
    <2>1. win \in [pos : Nat, end : 0..text.n]
      BY <1>2 DEF LoopsOK
    <2> QED BY <1>1, <1>7, <2>1
  <1>13. LoopsOK'
    <2>1. win' \in [pos : Nat, end : 0..text'.n]
      BY <1>2, <1>12 DEF LoopsOK
    <2> QED BY <1>1, <1>2, <2>1 DEF LoopsOK
  <1>14. ASSUME NEW p \in 0..MaxTokens, p <= q, p <= win.end
         PROVE  Covers(chunks', Kept, p)
    <2>1. win.pos \in 0..MaxTokens /\ win.pos <= win.pos /\ win.pos <= win.end
      BY <1>4, <1>6
    <2>2. Covers(chunks, Kept, win.pos)
      BY <1>3, <2>1
    <2>3. p <= w /\ p \in Nat
      BY <1>4, <1>6, <1>7, <1>14
    <2>4. chunks \in Seq(Chunk)
      BY <1>2 DEF ChunksOK
    <2>5. c.lo <= win.pos
      BY <1>4, <1>9
    <2>6. ASSUME NEW k \in Kept, win.pos <= k.lo, k.lo < p
          PROVE  k.hi <= c.hi
      <3>1. k.lo \in Nat
        BY BoundAssumption DEF Kept
      <3>2. k.lo < q /\ k.lo < win.end
        BY <1>4, <1>14, <2>3, <2>6, <3>1
      <3>3. k.hi <= WindowEnd
        BY <1>1, <1>7, <2>6, <3>2, WindowRoom
      <3> QED BY <1>5, <1>9, <3>3
    <2>7. Covers(Append(chunks, c), Kept, p)
      BY <1>4, <1>9, <2>2, <2>3, <2>4, <2>5, <2>6, AppendCovers
    <2> QED BY <1>10, <2>7
  <1>15. strategy = "recursive" =>
            SentencesAt(sent.lo, sent.hi, sent.end)' /\ sent'.lo <= win'.end
    BY <1>1, <1>2, <1>3, <1>12 DEF SentencesAt, Marks
  <1>16. Cursors'
    <2>1. win'.pos = q /\ win'.end = win.end /\ level' = "windows"
      BY <1>1, <1>12
    <2>2. \A p \in 0..MaxTokens :
             p <= win'.pos /\ p <= win'.end => Covers(chunks', Kept, p)
      BY <1>14, <2>1
    <2> QED BY <1>2, <1>3, <1>15, <2>1, <2>2 DEF Cursors
  <1>17. NothingLost'
    BY <1>1 DEF NothingLost
  <1> QED BY <1>11, <1>13, <1>16, <1>17, PartsNext

LEMMA EndWindowsKeeps ==
    ASSUME CursorInv, EndWindows
    PROVE  CursorInv'
  <1> USE DEF EndWindows
  <1>1. /\ text' = text /\ limit' = limit /\ strategy' = strategy
        /\ Kept' = Kept /\ LoopsOK /\ TypeOK /\ ChunksOK(chunks)'
    BY SameInput
  <1>2. /\ strategy # "sentence"
        /\ \A p \in 0..MaxTokens :
              p <= win.pos /\ p <= win.end => Covers(chunks, Kept, p)
        /\ strategy = "fixed" => win.end = text.n
        /\ strategy = "recursive" =>
              SentencesAt(sent.lo, sent.hi, sent.end) /\ sent.lo <= win.end
    BY WindowFacts
  <1> USE Facts, <1>1
  <1>3. LoopsOK'
    BY DEF LoopsOK, Levels
  <1>4. CASE strategy = "recursive"
    <2>1. Covers(chunks', Kept, sent'.lo)
      <3>1. sent.lo <= win.end /\ win.end <= win.pos
        BY <1>2, <1>4
      <3>a. /\ sent.lo \in Nat /\ win.pos \in Nat /\ win.end \in Nat
            /\ win.end <= MaxTokens
        OBVIOUS
      <3> HIDE Facts, <1>1 DEF EndWindows
      <3>2. sent.lo \in 0..MaxTokens /\ sent.lo <= win.pos
        BY <3>1, <3>a, BoundAssumption
      <3>3. Covers(chunks, Kept, sent.lo)
        BY <1>2, <3>1, <3>2
      <3> QED BY <3>3 DEF EndWindows
    <2>2. SentencesAt(sent.lo, sent.hi, sent.end)'
      BY <1>2, <1>4 DEF SentencesAt, Marks
    <2>3. Cursors'
      BY <1>4, <2>1, <2>2 DEF Cursors
    <2> QED BY <1>3, <1>4, <2>3, PartsNext DEF NothingLost
  <1>5. CASE strategy = "fixed"
    <2>1. Covers(chunks', Kept, text.n)
      BY <1>2, <1>5
    <2>2. Cursors' /\ NothingLost'
      BY <1>5, <2>1 DEF Cursors, NothingLost
    <2> QED BY <1>3, <2>2, PartsNext
  <1> QED BY <1>2, <1>4, <1>5 DEF LoopsOK, Strategies

-----------------------------------------------------------------------------
(* Sentences stay whole *)

\* What SentencesWhole says of one chunk.
Unsplit(c) ==
    \/ {c.lo, c.hi} \subseteq Marks
    \/ /\ strategy = "recursive"
       /\ \E lo, hi \in 0..MaxTokens :
             TooLarge(lo, hi) /\ lo <= c.lo /\ c.hi <= hi

LEMMA AppendUnsplit ==
    ASSUME chunks \in Seq(Chunk), SentencesWhole, NEW c \in Chunk,
           strategy # "fixed" => Unsplit(c),
           UNCHANGED input, chunks' = Append(chunks, c)
    PROVE  SentencesWhole'
  <1>1. \A i \in 1..Len(chunks') :
           \/ i \in 1..Len(chunks) /\ chunks'[i] = chunks[i]
           \/ chunks'[i] = c
    BY AppendChunk
  <1>2. text' = text /\ strategy' = strategy /\ limit' = limit
    BY DEF input
  <1>3. SUFFICES ASSUME strategy # "fixed", NEW i \in 1..Len(chunks')
                 PROVE  Unsplit(chunks'[i])
    BY <1>2 DEF SentencesWhole, Unsplit, TooLarge, Unbroken, Marks
  <1>4. \A j \in 1..Len(chunks) : Unsplit(chunks[j])
    BY <1>3 DEF SentencesWhole, Unsplit
  <1> QED BY <1>1, <1>3, <1>4

LEMMA SameChunksUnsplit ==
    ASSUME SentencesWhole, UNCHANGED <<input, chunks>>
    PROVE  SentencesWhole'
  BY DEF SentencesWhole, TooLarge, Unbroken, Marks, input

\* What FlushOpen appends are whole paragraphs.
LEMMA FlushWhole ==
    ASSUME CursorInv, level = "paragraphs", Marked, SentencesWhole,
           FlushOpen(para), UNCHANGED input
    PROVE  SentencesWhole'
  <1>1. /\ TypeOK /\ strategy = "recursive"
        /\ para.parts > 0 => para.lo < para.hi
    BY DEF CursorInv, Cursors
  <1>2. para.lo \in Marks /\ para.hi \in Marks
    BY <1>1 DEF Marked
  <1>3. CASE para.parts = 0
    BY <1>3, SameChunksUnsplit DEF FlushOpen
  <1>4. CASE para.parts # 0
    <2>1. PICK c \in Joined(para) : chunks' = Append(chunks, c)
      BY <1>4 DEF FlushOpen
    <2>2. PICK g \in 0..(para.parts - 1) * Glue :
             c = [lo |-> para.lo, hi |-> para.hi,
                  tokens |-> para.hi - para.lo + g, parts |-> para.parts]
      BY <2>1 DEF Joined
    <2>3. c.lo = para.lo /\ c.hi = para.hi
      BY <2>2
    <2>4. c \in Chunk
      <3>1. /\ para.lo \in Nat /\ para.hi \in Nat /\ para.parts \in Nat
            /\ para.lo <= MaxTokens /\ para.hi <= MaxTokens
            /\ MaxTokens \in Nat /\ para.lo < para.hi
        <4>1. /\ para.lo \in Nat /\ para.hi \in Nat /\ para.parts \in Nat
              /\ para.lo <= text.n /\ para.hi <= text.n
              /\ text.n \in Nat /\ text.n <= MaxTokens /\ MaxTokens \in Nat
          BY <1>1, Facts
        <4>2. para.lo < para.hi
          BY <1>1, <1>4, <4>1
        <4> QED BY <4>1, <4>2
      <3>2. (para.parts - 1) * Glue \in Nat
        <4>1. para.parts - 1 \in Nat /\ Glue \in Nat
          BY <1>4, <3>1, BoundAssumption
        <4> QED BY <4>1
      <3>3. PICK m \in Nat : m = (para.parts - 1) * Glue
        BY <3>2
      <3>4. g \in Nat
        BY <3>3
      <3>5. para.hi - para.lo + g \in Nat
        BY <3>1, <3>4
      <3> QED BY <2>2, <3>1, <3>5 DEF Chunk
    <2>5. Unsplit(c)
      BY <1>2, <2>3 DEF Unsplit
    <2>6. chunks \in Seq(Chunk)
      BY <1>1 DEF TypeOK
    <2> QED BY <2>1, <2>4, <2>5, <2>6, AppendUnsplit
  <1> QED BY <1>3, <1>4

\* What Emit appends are whole sentences, and what it passes on to the
\* windows is a piece between two marks that is too large.
LEMMA EmitWhole ==
    ASSUME CursorInv, level = "sentences", sent.lo < sent.hi, Marked,
           SentencesWhole, Emit(sent.lo, sent.hi), UNCHANGED <<input, para>>,
           {sent'.lo, sent'.hi} \subseteq Marks, sent'.end = sent.end,
           sent'.lo \in Nat, sent.lo <= sent'.lo
    PROVE  Marked' /\ SentencesWhole'
  <1>1. /\ TypeOK /\ strategy # "fixed" /\ sent.hi <= sent.end
        /\ text' = text /\ limit' = limit /\ strategy' = strategy /\ para' = para
    BY SentenceFacts DEF CursorInv, input
  <1>2. {para.lo, para.hi, sent.lo, sent.hi} \subseteq Marks
    BY <1>1 DEF Marked
  <1>3. Marks' = Marks
    BY <1>1 DEF Marks
  <1>4. /\ sent.lo \in Nat /\ sent.hi \in Nat /\ sent.hi <= MaxTokens
        /\ sent.end \in Nat /\ chunks \in Seq(Chunk) /\ MaxTokens \in Nat
        /\ text.breaks \subseteq Nat
    <2>1. text.breaks \subseteq Nat
      BY <1>1, EndsAreNumbers
    <2> QED BY <1>1, <2>1, Facts
  <1>5. strategy = "recursive" => Unbroken(sent.lo, sent.end)
    BY <1>1 DEF Marked
  <1>6. strategy = "recursive" => Unbroken(sent.lo, sent.end)'
    BY <1>1, <1>4, <1>5 DEF Unbroken
  <1>7. CASE strategy = "recursive" /\ sent.hi - sent.lo > limit.size
    <2>1. /\ win' = [pos |-> sent.lo, end |-> sent.hi] /\ chunks' = chunks
      BY <1>7 DEF Emit
    <2>2. win'.pos = sent.lo /\ win'.end = sent.hi
      BY <2>1
    <2>3. Unbroken(sent.lo, sent.hi)
      BY <1>1, <1>4, <1>5, <1>7 DEF Unbroken
    <2>4. \E lo \in 0..MaxTokens : TooLarge(lo, win.end)' /\ lo <= win'.pos
      <3>1. TooLarge(sent.lo, sent.hi)
        BY <1>2, <1>7, <2>3 DEF TooLarge
      <3>2. sent.lo \in 0..MaxTokens /\ sent.lo <= win'.pos
        BY <1>4, <2>2
      <3>3. TooLarge(sent.lo, win'.end)
        BY <2>2, <3>1
      <3> QED BY <1>1, <1>3, <3>2, <3>3 DEF TooLarge, Unbroken
    <2>5. Marked'
      BY <1>1, <1>2, <1>3, <1>6, <2>4 DEF Marked
    <2> QED BY <2>1, <2>5, SameChunksUnsplit
  <1>8. CASE ~(strategy = "recursive" /\ sent.hi - sent.lo > limit.size)
    <2>1. /\ chunks' = Append(chunks, Whole(sent.lo, sent.hi))
          /\ level' = "sentences"
      BY <1>8 DEF Emit
    <2>2. /\ Whole(sent.lo, sent.hi) \in Chunk
          /\ Whole(sent.lo, sent.hi).lo = sent.lo
          /\ Whole(sent.lo, sent.hi).hi = sent.hi
      BY <1>4, WholeChunk
    <2>3. Unsplit(Whole(sent.lo, sent.hi))
      BY <1>2, <2>2 DEF Unsplit
    <2>4. SentencesWhole'
      BY <1>4, <2>1, <2>2, <2>3, AppendUnsplit
    <2>5. Marked'
      BY <1>1, <1>2, <1>3, <1>6, <2>1 DEF Marked
    <2> QED BY <2>4, <2>5
  <1> QED BY <1>7, <1>8

LEMMA ParagraphWhole ==
    ASSUME CursorInv, Marked, SentencesWhole, NEW e \in 0..MaxTokens,
           Gather(e) \/ Flush(e) \/ Split(e)
    PROVE  Marked' /\ SentencesWhole'
  <1>1. /\ UNCHANGED input /\ level = "paragraphs" /\ TypeOK
        /\ NextIn(text.breaks, para.hi, e)
    BY DEF Gather, Flush, Split, CursorInv
  <1>2. text' = text /\ strategy' = strategy /\ strategy = "recursive"
    BY <1>1 DEF input, CursorInv, Cursors
  <1>3. Marks' = Marks /\ {para.lo, para.hi, sent.lo, sent.hi} \subseteq Marks
    BY <1>2 DEF Marks, Marked
  <1>4. e \in Marks
    BY <1>1, Facts DEF NextIn, Marks
  <1>5. CASE Gather(e)
    <2>1. Marked'
      BY <1>2, <1>3, <1>4, <1>5 DEF Gather, Marked
    <2> QED BY <1>1, <1>5, <2>1, SameChunksUnsplit DEF Gather
  <1>6. CASE Flush(e)
    <2>1. Marked'
      BY <1>2, <1>3, <1>4, <1>6 DEF Flush, Marked
    <2> QED BY <1>1, <1>6, <2>1, FlushWhole DEF Flush
  <1>7. CASE Split(e)
    <2>1. sent'.lo = para.hi /\ sent'.hi = para.hi /\ sent'.end = e
      BY <1>7 DEF Split
    <2>2. Unbroken(sent.lo, sent.end)'
      <3>1. text.breaks \subseteq Nat /\ para.hi \in Nat
        BY <1>1, EndsAreNumbers, Facts
      <3> QED BY <1>1, <1>2, <2>1, <3>1 DEF Unbroken, NextIn
    <2>3. Marked'
      BY <1>2, <1>3, <1>4, <1>7, <2>1, <2>2 DEF Split, Marked
    <2> QED BY <1>1, <1>7, <2>3, FlushWhole DEF Split
  <1> QED BY <1>5, <1>6, <1>7

LEMMA EndParagraphsWhole ==
    ASSUME CursorInv, Marked, SentencesWhole, EndParagraphs
    PROVE  Marked' /\ SentencesWhole'
  <1>1. Marked'
    BY DEF EndParagraphs, input, Marked, Marks
  <1>2. SentencesWhole'
    BY FlushWhole DEF EndParagraphs
  <1> QED BY <1>1, <1>2

LEMMA SentenceWhole ==
    ASSUME CursorInv, Marked, SentencesWhole, NEW e \in 0..MaxTokens,
           AddSentence(e) \/ CloseSentences(e)
    PROVE  Marked' /\ SentencesWhole'
  <1>1. /\ UNCHANGED <<input, para>> /\ level = "sentences" /\ TypeOK
        /\ NextIn(text.ends, sent.hi, e)
    BY DEF AddSentence, CloseSentences, CursorInv
  <1>2. /\ text' = text /\ strategy' = strategy /\ strategy # "fixed"
        /\ sent \in [lo : 0..text.n, hi : 0..text.n, end : 0..text.n]
    BY <1>1 DEF input, CursorInv, Cursors, TypeOK
  <1>3. Marks' = Marks /\ {para.lo, para.hi, sent.lo, sent.hi} \subseteq Marks
    BY <1>2 DEF Marks, Marked
  <1>4. e \in Marks
    BY <1>1 DEF NextIn, Marks
  <1>5. CASE AddSentence(e)
    <2>1. /\ sent'.lo = sent.lo /\ sent'.hi = e /\ sent'.end = sent.end
          /\ level' = level /\ para' = para
      BY <1>2, <1>5 DEF AddSentence
    <2>2. Marked'
      BY <1>1, <1>2, <1>3, <1>4, <2>1 DEF Marked, Unbroken
    <2> QED BY <1>1, <1>5, <2>2, SameChunksUnsplit DEF AddSentence
  <1>6. CASE CloseSentences(e)
    <2>1. PICK c \in sent.lo..sent.hi :
             /\ Carried(c, sent.lo, sent.hi)
             /\ sent' = [lo |-> c, hi |-> e, end |-> sent.end]
      BY <1>6 DEF CloseSentences
    <2>2. c \in Marks
      BY <1>3, <2>1 DEF Carried, Marks
    <2>3. /\ {sent'.lo, sent'.hi} \subseteq Marks /\ sent'.end = sent.end
          /\ sent'.lo \in Nat /\ sent.lo <= sent'.lo
      BY <1>1, <1>4, <2>1, <2>2, Facts
    <2> QED BY <1>1, <1>6, <2>3, EmitWhole DEF CloseSentences
  <1> QED BY <1>5, <1>6

LEMMA LastSentencesWhole ==
    ASSUME CursorInv, Marked, SentencesWhole, LastSentences
    PROVE  Marked' /\ SentencesWhole'
  <1>1. /\ level = "sentences" /\ sent.lo < sent.hi /\ sent.hi = sent.end
        /\ Emit(sent.lo, sent.hi) /\ UNCHANGED <<input, para>>
        /\ sent' = [sent EXCEPT !.lo = sent.end]
    BY DEF LastSentences
  <1>2. /\ sent \in [lo : 0..text.n, hi : 0..text.n, end : 0..text.n]
        /\ strategy # "fixed"
    BY <1>1 DEF CursorInv, Cursors, TypeOK
  <1>3. sent.hi \in Marks
    BY <1>2 DEF Marked
  <1>4. sent'.lo = sent.hi /\ sent'.hi = sent.hi
    BY <1>1, <1>2
  <1>5. /\ {sent'.lo, sent'.hi} \subseteq Marks /\ sent'.end = sent.end
        /\ sent'.lo \in Nat /\ sent.lo <= sent'.lo
    BY <1>1, <1>2, <1>3, <1>4, Facts DEF CursorInv
  <1> QED BY <1>1, <1>5, EmitWhole

LEMMA WindowWhole ==
    ASSUME CursorInv, Marked, SentencesWhole, Window
    PROVE  Marked' /\ SentencesWhole'
  <1>1. /\ level = "windows" /\ win.pos < win.end
        /\ chunks' = Append(chunks, Whole(win.pos, WindowEnd))
        /\ win' = [win EXCEPT !.pos = win.pos + Step]
        /\ UNCHANGED <<input, level, para, sent>>
    BY DEF Window
  <1>2. /\ TypeOK /\ chunks \in Seq(Chunk) /\ strategy # "sentence"
        /\ strategy \in Strategies /\ win \in [pos : Nat, end : 0..text.n]
    BY <1>1, WindowFacts DEF CursorInv, TypeOK
  <1>3. /\ text' = text /\ strategy' = strategy /\ limit' = limit
        /\ Marks' = Marks /\ level' = level /\ para' = para /\ sent' = sent
    BY <1>1 DEF input, Marks
  <1>4. /\ win.pos \in Nat /\ win.end \in Nat /\ win.end <= MaxTokens
        /\ WindowEnd \in Nat /\ win.pos < WindowEnd /\ WindowEnd <= win.end
        /\ Step \in Nat /\ MaxTokens \in Nat
    BY <1>1, <1>2, WindowNumbers
  <1>5. PICK w \in Nat : w = WindowEnd
    BY <1>4
  <1>6. /\ Whole(win.pos, w) \in Chunk /\ Whole(win.pos, w).lo = win.pos
        /\ Whole(win.pos, w).hi = w
    <2>1. win.pos < w /\ w <= MaxTokens
      BY <1>4, <1>5
    <2> QED BY <1>4, <2>1, WholeChunk
  <1>7. PICK p \in Nat : p = win.pos + Step /\ win.pos <= p
    BY <1>4
  <1>8. win'.pos = p /\ win'.end = win.end
    BY <1>1, <1>2, <1>7
  <1>9. CASE strategy = "fixed"
    BY <1>1, <1>2, <1>3, <1>5, <1>6, <1>9, AppendUnsplit DEF Marked
  <1>10. CASE strategy = "recursive"
    <2>1. PICK lo \in 0..MaxTokens : TooLarge(lo, win.end) /\ lo <= win.pos
      BY <1>1, <1>10 DEF Marked
    <2>2. Unsplit(Whole(win.pos, w))
      <3>1. w <= win.end /\ win.end \in 0..MaxTokens
        BY <1>4, <1>5
      <3> QED BY <1>6, <1>10, <2>1, <3>1 DEF Unsplit
    <2>3. SentencesWhole'
      BY <1>1, <1>2, <1>5, <1>6, <2>2, AppendUnsplit
    <2>4. TooLarge(lo, win.end)' /\ lo <= win'.pos
      BY <1>3, <1>4, <1>7, <1>8, <2>1 DEF TooLarge, Unbroken
    <2>5. Unbroken(sent.lo, sent.end)'
      BY <1>1, <1>3, <1>10 DEF Marked, Unbroken
    <2>6. Marked'
      BY <1>1, <1>3, <1>10, <2>4, <2>5 DEF Marked
    <2> QED BY <2>3, <2>6
  <1> QED BY <1>2, <1>9, <1>10 DEF Strategies

LEMMA EndWhole ==
    ASSUME CursorInv, Marked, SentencesWhole, EndSentences \/ EndWindows
    PROVE  Marked' /\ SentencesWhole'
  <1>1. /\ UNCHANGED <<input, para, sent, win, chunks>> /\ level' # "windows"
        /\ level' = "sentences" => level = "windows"
    BY DEF EndSentences, EndWindows
  <1>2. SentencesWhole'
    BY <1>1, SameChunksUnsplit
  <1>3. Marked'
    BY <1>1 DEF input, Marked, Marks, Unbroken
  <1> QED BY <1>2, <1>3

LEMMA WholeKept ==
    CursorInv /\ Marked /\ SentencesWhole /\ [Next]_vars
        => Marked' /\ SentencesWhole'
  <1> SUFFICES ASSUME CursorInv, Marked, SentencesWhole, [Next]_vars
               PROVE  Marked' /\ SentencesWhole'
    OBVIOUS
  <1>1. CASE UNCHANGED vars
    BY <1>1 DEF vars, Marked, Marks, TooLarge, Unbroken, SentencesWhole
  <1>2. CASE \E e \in 0..MaxTokens :
                \/ Gather(e) \/ Flush(e) \/ Split(e)
                \/ AddSentence(e) \/ CloseSentences(e)
    BY <1>2, ParagraphWhole, SentenceWhole
  <1>3. CASE EndParagraphs BY <1>3, EndParagraphsWhole
  <1>4. CASE LastSentences BY <1>4, LastSentencesWhole
  <1>5. CASE Window BY <1>5, WindowWhole
  <1>6. CASE EndSentences \/ EndWindows BY <1>6, EndWhole
  <1> QED BY <1>1, <1>2, <1>3, <1>4, <1>5, <1>6 DEF Next

-----------------------------------------------------------------------------
(* Neighbours overlap as they should *)

\* What OverlapKept says of the chunk c after the chunk d.
Follows(c, d) == Repeats(c.lo, d) /\ d.hi <= c.hi

LEMMA AppendFollows ==
    ASSUME chunks \in Seq(Chunk), OverlapKept, NEW c \in Chunk,
           chunks # <<>> => Follows(c, Last),
           UNCHANGED input, chunks' = Append(chunks, c)
    PROVE  OverlapKept' /\ Last' = c
  <1>1. text' = text /\ strategy' = strategy /\ limit' = limit
    BY DEF input
  <1>2. PICK n \in Nat : n = Len(chunks)
    OBVIOUS
  <1>3. /\ Len(chunks') = n + 1 /\ chunks'[n + 1] = c
        /\ \A i \in 1..n : chunks'[i] = chunks[i]
    BY <1>2, AppendChunk
  <1>4. ASSUME strategy # "recursive", NEW i \in 1..n
        PROVE  Follows(chunks'[i + 1], chunks'[i])
    <2>1. CASE i = n
      <3>1. chunks # <<>>
        BY <1>2, <2>1
      <3>2. Last = chunks'[i]
        BY <1>2, <1>3, <2>1 DEF Last
      <3> QED BY <1>3, <2>1, <3>1, <3>2
    <2>2. CASE i # n
      <3>1. /\ i \in 1..(n - 1)
            /\ chunks'[i] = chunks[i] /\ chunks'[i + 1] = chunks[i + 1]
        BY <1>3, <2>2
      <3>2. Follows(chunks[i + 1], chunks[i])
        BY <1>2, <1>4, <3>1 DEF OverlapKept, Follows
      <3> QED BY <3>1, <3>2
    <2> QED BY <2>1, <2>2
  <1>5. OverlapKept'
    <2>1. Len(chunks') - 1 = n
      BY <1>3
    <2> QED BY <1>1, <1>4, <2>1 DEF OverlapKept, Follows, Repeats, Marks
  <1>6. Last' = c
    BY <1>3 DEF Last
  <1> QED BY <1>5, <1>6

\* A step that appends nothing.
LEMMA SameChunksFollow ==
    ASSUME OverlapKept, UNCHANGED <<input, chunks>>
    PROVE  OverlapKept' /\ Last' = Last
  BY DEF OverlapKept, Repeats, Marks, Last, input

\* The recursive strategy makes no promise about neighbours.
LEMMA RecursiveFollows ==
    ASSUME strategy' = "recursive"
    PROVE  Adjacent' /\ OverlapKept'
  BY DEF Adjacent, OverlapKept

\* What SentenceChunker appends follows the chunk before it, and what is
\* open then repeats what it should.
LEMMA EmitFollows ==
    ASSUME CursorInv, Marked, Adjacent, OverlapKept, level = "sentences",
           strategy = "sentence", sent.lo < sent.hi,
           Emit(sent.lo, sent.hi), UNCHANGED input,
           sent.hi <= sent'.hi, sent'.end = sent.end,
           sent'.lo < sent.end => Repeats(sent'.lo, Whole(sent.lo, sent.hi))
    PROVE  Adjacent' /\ OverlapKept'
  <1>1. TypeOK /\ sent.hi <= sent.end
    BY SentenceFacts DEF CursorInv
  <1>2. /\ sent.lo \in Nat /\ sent.hi \in Nat /\ sent.hi <= MaxTokens
        /\ sent.end \in Nat /\ chunks \in Seq(Chunk)
    BY <1>1, Facts
  <1>3. text' = text /\ strategy' = strategy /\ limit' = limit
    BY DEF input
  <1>4. PICK c : c = Whole(sent.lo, sent.hi)
    OBVIOUS
  <1>5. c \in Chunk /\ c.lo = sent.lo /\ c.hi = sent.hi
    BY <1>2, <1>4, WholeChunk
  <1>6. chunks' = Append(chunks, c)
    BY <1>4 DEF Emit
  <1>7. sent.lo < sent.end
    BY <1>1, <1>2
  <1>8. chunks # <<>> => Follows(c, Last)
    BY <1>5, <1>7 DEF Adjacent, Follows
  <1>9. OverlapKept' /\ Last' = c
    BY <1>2, <1>5, <1>6, <1>8, AppendFollows
  <1>10. sent'.lo < sent'.end => Repeats(sent.lo, Last)'
    BY <1>3, <1>4, <1>9 DEF Repeats, Marks
  <1>11. Adjacent'
    BY <1>3, <1>5, <1>9, <1>10 DEF Adjacent
  <1> QED BY <1>9, <1>11

\* Carrying over repeats what it should.
LEMMA CarriedRepeats ==
    ASSUME TypeOK, Marked, strategy = "sentence", sent.lo < sent.hi,
           NEW c \in sent.lo..sent.hi, Carried(c, sent.lo, sent.hi)
    PROVE  Repeats(c, Whole(sent.lo, sent.hi))
  <1>1. /\ sent.lo \in Nat /\ sent.hi \in Nat /\ limit.overlap \in Nat
        /\ text.ends \subseteq Nat /\ c \in Nat /\ c < sent.hi
    <2>1. text.ends \subseteq Nat
      BY EndsAreNumbers
    <2>2. sent.lo \in Nat /\ sent.hi \in Nat /\ limit.overlap \in Nat
      BY Facts DEF Sizes
    <2> QED BY <2>1, <2>2 DEF Carried
  <1>2. sent.lo \in Marks /\ sent.hi \in Marks
    BY DEF Marked
  <1>3. c \in Marks
    BY <1>2 DEF Carried, Marks
  <1>4. sent.hi - c <= limit.overlap \/ NextIn(text.ends, c, sent.hi)
    <2>1. CASE \E d \in text.ends : c < d /\ d < sent.hi
      BY <2>1 DEF Carried
    <2>2. CASE \A d \in text.ends : ~(c < d /\ d < sent.hi)
      <3>1. \A f \in text.ends : c < f => sent.hi <= f
        BY <1>1, <2>2
      <3>2. sent.hi \in text.ends
        BY <1>1, <1>2 DEF Marks
      <3> QED BY <1>1, <3>1, <3>2 DEF NextIn
    <2> QED BY <2>1, <2>2
  <1>5. ASSUME NEW d \in Marks, sent.lo <= d, d < c
        PROVE  sent.hi - d > limit.overlap
    <2>1. d \in {sent.lo} \cup text.ends
      BY <1>1, <1>5 DEF Marks
    <2> QED BY <1>5, <2>1 DEF Carried
  <1>6. Whole(sent.lo, sent.hi).lo = sent.lo /\ Whole(sent.lo, sent.hi).hi = sent.hi
    BY DEF Whole
  <1> QED BY <1>1, <1>3, <1>4, <1>5, <1>6 DEF Repeats

LEMMA SentenceFollows ==
    ASSUME CursorInv, Marked, Adjacent, OverlapKept, NEW e \in 0..MaxTokens,
           AddSentence(e) \/ CloseSentences(e)
    PROVE  Adjacent' /\ OverlapKept'
  <1>1. /\ UNCHANGED input /\ level = "sentences" /\ TypeOK
        /\ NextIn(text.ends, sent.hi, e)
    BY DEF AddSentence, CloseSentences, CursorInv
  <1>2. /\ text' = text /\ strategy' = strategy /\ limit' = limit
        /\ strategy # "fixed" /\ strategy \in Strategies
        /\ sent \in [lo : 0..text.n, hi : 0..text.n, end : 0..text.n]
    BY <1>1 DEF input, CursorInv, Cursors, TypeOK
  <1>3. CASE strategy = "recursive"
    BY <1>2, <1>3, RecursiveFollows
  <1>4. CASE strategy = "sentence"
    <2>1. /\ sent.lo \in Nat /\ sent.hi \in Nat /\ e \in Nat /\ sent.hi < e
      BY <1>1, Facts DEF NextIn
    <2>2. CASE AddSentence(e)
      <3>1. /\ sent'.lo = sent.lo /\ sent'.hi = e /\ sent'.end = sent.end
            /\ chunks' = chunks
        BY <1>2, <2>2 DEF AddSentence
      <3>2. OverlapKept' /\ Last' = Last
        BY <1>1, <3>1, SameChunksFollow
      <3>3. chunks # <<>> => Last.hi \in Nat
        <4>1. chunks \in Seq(Chunk)
          BY <1>1, Facts
        <4>2. chunks # <<>> => chunks[Len(chunks)] \in Chunk
          BY <4>1
        <4> QED BY <4>2 DEF Last, Chunk
      <3>4. chunks # <<>> => Last.hi <= e
        BY <1>4, <2>1, <3>3 DEF Adjacent
      <3>5. /\ chunks # <<>> /\ sent.lo < sent.end => Repeats(sent.lo, Last)
            /\ Repeats(sent.lo, Last) => Repeats(sent.lo, Last)'
        BY <1>2, <1>4, <3>1, <3>2 DEF Adjacent, Repeats, Marks
      <3>6. Adjacent'
        BY <1>2, <1>4, <3>1, <3>2, <3>4, <3>5 DEF Adjacent
      <3> QED BY <3>2, <3>6
    <2>3. CASE CloseSentences(e)
      <3>1. PICK c \in sent.lo..sent.hi :
               /\ Carried(c, sent.lo, sent.hi)
               /\ sent' = [lo |-> c, hi |-> e, end |-> sent.end]
        BY <2>3 DEF CloseSentences
      <3>2. sent.lo < sent.hi /\ Emit(sent.lo, sent.hi)
        BY <2>3 DEF CloseSentences
      <3>3. sent'.lo = c /\ sent'.hi = e /\ sent'.end = sent.end
        BY <3>1
      <3>4. Repeats(sent'.lo, Whole(sent.lo, sent.hi))
        BY <1>1, <1>4, <3>1, <3>2, <3>3, CarriedRepeats
      <3>5. sent.hi <= sent'.hi
        BY <2>1, <3>3
      <3> QED BY <1>1, <1>4, <3>2, <3>3, <3>4, <3>5, EmitFollows
    <2> QED BY <2>2, <2>3
  <1> QED BY <1>2, <1>3, <1>4 DEF Strategies

LEMMA LastSentencesFollow ==
    ASSUME CursorInv, Marked, Adjacent, OverlapKept, LastSentences
    PROVE  Adjacent' /\ OverlapKept'
  <1>1. /\ level = "sentences" /\ sent.lo < sent.hi /\ sent.hi = sent.end
        /\ Emit(sent.lo, sent.hi) /\ UNCHANGED input
        /\ sent' = [sent EXCEPT !.lo = sent.end] /\ TypeOK
    BY DEF LastSentences, CursorInv
  <1>2. /\ sent \in [lo : 0..text.n, hi : 0..text.n, end : 0..text.n]
        /\ strategy # "fixed" /\ strategy \in Strategies /\ strategy' = strategy
    BY <1>1 DEF CursorInv, Cursors, TypeOK, input
  <1>3. sent'.lo = sent.end /\ sent'.hi = sent.hi /\ sent'.end = sent.end
    BY <1>1, <1>2
  <1>4. CASE strategy = "recursive"
    BY <1>2, <1>4, RecursiveFollows
  <1>5. CASE strategy = "sentence"
    <2>1. sent.hi <= sent'.hi /\ ~(sent'.lo < sent.end)
      BY <1>1, <1>3, Facts
    <2> QED BY <1>1, <1>3, <1>5, <2>1, EmitFollows
  <1> QED BY <1>2, <1>4, <1>5 DEF Strategies

LEMMA WindowFollows ==
    ASSUME CursorInv, Adjacent, OverlapKept, Window
    PROVE  Adjacent' /\ OverlapKept'
  <1>1. /\ level = "windows" /\ win.pos < win.end
        /\ chunks' = Append(chunks, Whole(win.pos, WindowEnd))
        /\ win' = [win EXCEPT !.pos = win.pos + Step]
        /\ UNCHANGED input
    BY DEF Window
  <1>2. /\ TypeOK /\ chunks \in Seq(Chunk) /\ strategy # "sentence"
        /\ strategy = "fixed" => win.end = text.n
        /\ strategy \in Strategies /\ win \in [pos : Nat, end : 0..text.n]
        /\ text' = text /\ strategy' = strategy /\ limit' = limit
    BY <1>1, WindowFacts DEF CursorInv, TypeOK, input
  <1>3. CASE strategy = "recursive"
    BY <1>2, <1>3, RecursiveFollows
  <1>4. CASE strategy = "fixed"
    <2>1. /\ win.pos \in Nat /\ win.end \in Nat /\ win.end <= MaxTokens
          /\ MaxTokens \in Nat /\ limit.size \in Nat /\ limit.overlap \in Nat
          /\ limit.overlap < limit.size
      BY <1>1, <1>2, WindowNumbers
    <2>2. PICK w \in Nat : w = WindowEnd
      BY <1>1, <1>2, WindowNumbers
    <2>3. /\ win.pos < w /\ w <= win.end /\ w <= win.pos + limit.size
          /\ w = win.pos + limit.size \/ w = win.end
      BY <1>1, <1>2, <2>2, WindowNumbers
    <2>4. PICK q \in Nat : q = Step /\ q + limit.overlap = limit.size
      BY <1>1, <1>2, WindowNumbers
    <2>5. win'.pos = win.pos + q /\ win'.end = win.end /\ win.end = text.n
      BY <1>1, <1>2, <1>4, <2>4
    <2>6. PICK c : c = Whole(win.pos, w)
      OBVIOUS
    <2>7. c \in Chunk /\ c.lo = win.pos /\ c.hi = w
      <3>1. w <= MaxTokens
        BY <2>1, <2>3
      <3> QED BY <2>1, <2>3, <2>6, <3>1, WholeChunk
    <2>8. chunks # <<>> => Follows(c, Last)
      <3> SUFFICES ASSUME chunks # <<>> PROVE Follows(c, Last)
        OBVIOUS
      <3>1. Last.hi <= win.end /\ Repeats(win.pos, Last)
        BY <1>4 DEF Adjacent
      <3>2. PICK h \in Nat : h = Last.hi
        <4>1. chunks[Len(chunks)] \in Chunk
          BY <1>2
        <4> QED BY <4>1 DEF Last, Chunk
      <3>3. h <= win.pos + limit.overlap /\ h <= win.end
        BY <1>4, <2>1, <2>5, <3>1, <3>2 DEF Repeats
      <3>4. h <= w
        BY <2>1, <2>3, <3>3
      <3> QED BY <2>7, <3>1, <3>2, <3>4 DEF Follows
    <2>9. OverlapKept' /\ Last' = c
      BY <1>1, <1>2, <2>2, <2>6, <2>7, <2>8, AppendFollows
    <2>10. w = IF win'.pos + limit.overlap < text.n
               THEN win'.pos + limit.overlap ELSE text.n
      <3>1. win'.pos + limit.overlap = win.pos + limit.size
        BY <2>1, <2>4, <2>5
      <3> QED BY <2>1, <2>3, <2>5, <3>1
    <2>11. Repeats(win.pos, Last)'
      BY <1>2, <1>4, <2>7, <2>9, <2>10 DEF Repeats
    <2>12. Last'.hi <= win'.end
      BY <2>3, <2>5, <2>7, <2>9
    <2>13. Adjacent'
      BY <1>2, <1>4, <2>11, <2>12 DEF Adjacent
    <2> QED BY <2>9, <2>13
  <1> QED BY <1>2, <1>3, <1>4 DEF Strategies

LEMMA EndFollows ==
    ASSUME Adjacent, OverlapKept, EndSentences \/ EndWindows
    PROVE  Adjacent' /\ OverlapKept'
  BY DEF EndSentences, EndWindows, input, Adjacent, Last, Repeats, Marks,
         OverlapKept

LEMMA FollowsKept ==
    CursorInv /\ Marked /\ Adjacent /\ OverlapKept /\ [Next]_vars
        => Adjacent' /\ OverlapKept'
  <1> SUFFICES ASSUME CursorInv, Marked, Adjacent, OverlapKept, [Next]_vars
               PROVE  Adjacent' /\ OverlapKept'
    OBVIOUS
  <1>1. CASE UNCHANGED vars
    BY <1>1 DEF vars, Adjacent, Last, Repeats, Marks, OverlapKept
  <1>2. CASE level = "paragraphs" /\ UNCHANGED input
    <2>1. strategy' = "recursive"
      BY <1>2 DEF CursorInv, Cursors, input
    <2> QED BY <2>1, RecursiveFollows
  <1>3. CASE \E e \in 0..MaxTokens : AddSentence(e) \/ CloseSentences(e)
    BY <1>3, SentenceFollows
  <1>4. CASE LastSentences BY <1>4, LastSentencesFollow
  <1>5. CASE Window BY <1>5, WindowFollows
  <1>6. CASE EndSentences \/ EndWindows BY <1>6, EndFollows
  <1>7. CASE \/ \E e \in 0..MaxTokens : Gather(e) \/ Flush(e) \/ Split(e)
             \/ EndParagraphs
    BY <1>2, <1>7 DEF Gather, Flush, Split, EndParagraphs
  <1> QED BY <1>1, <1>3, <1>4, <1>5, <1>6, <1>7 DEF Next

-----------------------------------------------------------------------------
(* The theorems *)

LEMMA CursorsKept == CursorInv /\ Marked /\ [Next]_vars => CursorInv'
  <1> SUFFICES ASSUME CursorInv, Marked, [Next]_vars PROVE CursorInv'
    OBVIOUS
  <1>1. CASE UNCHANGED vars
    BY <1>1, SameKept DEF vars, input, CursorInv, TypeOK, Cursors,
                          SentencesAt, NothingLost, BudgetKept
  <1>2. CASE \E e \in 0..MaxTokens :
                \/ Gather(e) \/ Flush(e) \/ Split(e)
                \/ AddSentence(e) \/ CloseSentences(e)
    BY <1>2, GatherStep, FlushKeeps, SplitKeeps, AddSentenceKeeps,
       CloseSentencesKeeps
  <1>3. CASE EndParagraphs BY <1>3, EndParagraphsKeeps
  <1>4. CASE LastSentences BY <1>4, LastSentencesKeeps
  <1>5. CASE EndSentences BY <1>5, EndSentencesKeeps
  <1>6. CASE Window BY <1>6, WindowKeeps
  <1>7. CASE EndWindows BY <1>7, EndWindowsKeeps
  <1> QED BY <1>1, <1>2, <1>3, <1>4, <1>5, <1>6, <1>7 DEF Next

LEMMA InitWhole == Init => Marked /\ SentencesWhole /\ Adjacent /\ OverlapKept
  <1> SUFFICES ASSUME Init
               PROVE  Marked /\ SentencesWhole /\ Adjacent /\ OverlapKept
    OBVIOUS
  <1>1. chunks = <<>> /\ (level = "windows" => strategy = "fixed")
    BY DEF Init, Strategies
  <1>2. Marked
    BY <1>1 DEF Init, Marked, Marks
  <1> QED BY <1>1, <1>2 DEF SentencesWhole, Adjacent, OverlapKept

LEMMA NextKeeps == IInv /\ [Next]_vars => IInv'
  BY CursorsKept, WholeKept, FollowsKept DEF IInv

\* The inductive invariant of the three loops, whichever of them called the
\* one that runs: what lies before its cursor is in the chunks, the outer
\* loops stop only where a sentence ends, and the next chunk will overlap the
\* last one as it should.
THEOREM ChunkingInvariant == Spec => []IInv
  <1>1. Init => IInv
    BY InitInvariant, InitWhole DEF IInv
  <1> QED BY <1>1, NextKeeps, PTL DEF Spec

\* The chunks of every strategy hold every token of the text and, whole, every
\* character (chunk() of RecursiveChunker, SentenceChunker and
\* FixedSizeChunker), whatever the limits: but a character that gets into a
\* window and takes two or more tokens more than windows overlap may be left whole in
\* none, as each is decoded on its own.
THEOREM AllTextCovered == Spec => []NothingLost
  <1>1. IInv => NothingLost BY DEF IInv, CursorInv
  <1> QED BY <1>1, ChunkingInvariant, PTL

\* A recursive chunk exceeds chunk_size_tokens by the blank lines between
\* its paragraphs at most, a window by nothing.
THEOREM BudgetOverrun == Spec => []BudgetKept
  <1>1. IInv => BudgetKept BY DEF IInv, CursorInv
  <1> QED BY <1>1, ChunkingInvariant, PTL

\* No chunk is empty, and every cursor stays within the text.
THEOREM ChunkingTypes == Spec => []TypeOK
  <1>1. IInv => TypeOK BY DEF IInv, CursorInv
  <1> QED BY <1>1, ChunkingInvariant, PTL

\* Neighbours of FixedSizeChunker share chunk_overlap_tokens exactly, or what
\* is left of the text; those of SentenceChunker share at least a sentence,
\* and as many as chunk_overlap_tokens holds (_carry_over_for_overlap).
THEOREM NeighboursOverlap == Spec => []OverlapKept
  <1>1. IInv => OverlapKept BY DEF IInv
  <1> QED BY <1>1, ChunkingInvariant, PTL

\* SentenceChunker cuts no sentence, and RecursiveChunker only where
\* sentences of one paragraph are together larger than chunk_size_tokens.
THEOREM SentencesUncut == Spec => []SentencesWhole
  <1>1. IInv => SentencesWhole BY DEF IInv
  <1> QED BY <1>1, ChunkingInvariant, PTL
=============================================================================
