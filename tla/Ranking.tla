------------------------------ MODULE Ranking ------------------------------
(***************************************************************************)
(* The operators of the retrieval pipeline that only look at lists: fusion *)
(* of the two searches, reranking, removal of near duplicates and the      *)
(* token budget of the context.                                            *)
(*                                                                         *)
(* A hit is one chunk in a list.  Lists hold the best hit first.           *)
(***************************************************************************)
EXTENDS Naturals, FiniteSets, Sequences, SequencesExt

CONSTANTS
    Texts,      \* the chunk texts there are
    Tokens,     \* the number of tokens of each
    Similar,    \* the pairs whose similarity reaches the threshold
    Damping,    \* HYBRID_DENSE_WEIGHT_RRF_K
    Scale,      \* fused scores are multiples of 1 / Scale
    PerMethod,  \* HYBRID_TOP_K_PER_METHOD, the retrieval's top_k too
    RerankK,    \* rerank_top_k
    MaxContextTokens  \* MAX_CONTEXT_TOKENS

ASSUME TokensAssumption == Tokens \in [Texts -> Nat]
ASSUME SimilarAssumption ==
    /\ Similar \subseteq Texts \X Texts
    /\ \A s \in Texts : <<s, s>> \in Similar
    /\ \A s, t \in Texts : <<s, t>> \in Similar => <<t, s>> \in Similar
ASSUME LimitAssumption ==
    /\ PerMethod \in Nat \ {0} /\ RerankK \in Nat \ {0}
    /\ MaxContextTokens \in Nat
    /\ Damping \in Nat /\ PerMethod <= Damping + 1
ASSUME ScaleAssumption ==
    /\ Scale \in Nat \ {0}
    /\ \A r \in 1..PerMethod : Scale % (Damping + r) = 0

Cut(s, n) == SubSeq(s, 1, IF Len(s) < n THEN Len(s) ELSE n)

\* The sums of the first i numbers.
Sums(numbers) ==
    LET sum[i \in 0..Len(numbers)] ==
          IF i = 0 THEN 0 ELSE sum[i - 1] + numbers[i]
    IN sum

\* Python's sort: by falling score, equal scores in their present order.
\* Place(s, score, i): how many hits come no later than the ith.
Place(s, score, i) ==
    LET own == score[s[i]] IN
    Cardinality({j \in DOMAIN s : LET other == score[s[j]] IN
                                  other > own \/ (other = own /\ j <= i)})

Sorted(s, score) ==
    LET places == {<<i, Place(s, score, i)>> : i \in DOMAIN s}
    IN [k \in DOMAIN s |-> s[CHOOSE i \in DOMAIN s : <<i, k>> \in places]]

-----------------------------------------------------------------------------
(* reciprocal_rank_fusion *)

Weight(r) == Scale \div (Damping + r)

\* What one ranked list adds to the score of h.
Share(s, h) ==
    LET ranks == {r \in DOMAIN s : s[r] = h}
    IN IF ranks = {} THEN 0 ELSE Weight(CHOOSE r \in ranks : TRUE)

\* Mutant: the second list replaces what the first has given.
Overwritten(dense, keyword, h) ==
    IF h \in ToSet(keyword) THEN Share(keyword, h) ELSE Share(dense, h)
FusedScore(dense, keyword, h) == Share(dense, h) + Share(keyword, h)

\* The keys of the scores' dict after r of the keyword hits: the dense hits
\* come first.
Merged(dense, keyword) ==
    LET keys[r \in 0..Len(keyword)] ==
          IF r = 0 THEN dense
          ELSE IF keyword[r] \in ToSet(keys[r - 1]) THEN keys[r - 1]
          ELSE Append(keys[r - 1], keyword[r])
    IN keys

\* HybridRetriever.retrieve after both searches.
Fused(dense, keyword) ==
    LET found == Merged(dense, keyword)[Len(keyword)]
        score == [h \in ToSet(found) |-> FusedScore(dense, keyword, h)]
    IN Cut(Sorted(found, score), PerMethod)

-----------------------------------------------------------------------------
(* RerankingService.rerank *)

\* The cross-encoder scores the query against each text.
Reranked(s, score) ==
    Cut(Sorted(s, [h \in ToSet(s) |-> score[h.text]]), RerankK)

\* When it fails, the order of the fusion is kept.
FallbackWithoutScores(s) == Cut(s, RerankK)

-----------------------------------------------------------------------------
(* Deduplicator.deduplicate and ContextCompressor.compress *)

Near(h, g) == <<h.text, g.text>> \in Similar

DuplicateOfKept(kept, h) == \E k \in ToSet(kept) : Near(k, h)

\* What is kept of the first i.
Kept(s) ==
    LET kept[i \in 0..Len(s)] ==
          IF i = 0 THEN <<>>
          ELSE IF DuplicateOfKept(kept[i - 1], s[i]) THEN kept[i - 1]
          ELSE Append(kept[i - 1], s[i])
    IN kept
Deduplicated(s) == Kept(s)[Len(s)]

\* The tokens of the first i.
Totals(s) == Sums([i \in DOMAIN s |-> Tokens[s[i].text]])
Total(s) == Totals(s)[Len(s)]

\* Mutant: the budget is checked before the chunk is added.
OverflowsLate(total, h) == total > MaxContextTokens
Overflows(total, h) == total + Tokens[h.text] > MaxContextTokens

\* Assembly stops at the first chunk that does not fit.
FitsNext(s, i) == ~Overflows(Totals(s)[i - 1], s[i])
Assembled(s) ==
    SubSeq(s, 1, CHOOSE n \in 0..Len(s) :
                     /\ \A i \in 1..n : FitsNext(s, i)
                     /\ n < Len(s) => ~FitsNext(s, n + 1))

Compressed(s) == Assembled(Deduplicated(s))

-----------------------------------------------------------------------------
(* What these lists promise, stated without the way they are computed *)

InBoth(dense, keyword, h) == h \in ToSet(dense) /\ h \in ToSet(keyword)

\* h is at least as good as g for a method that returned list s.
NoWorse(s, h, g) ==
    \A r \in DOMAIN s : s[r] = g => \E q \in 1..r : s[q] = h

\* What both methods found comes before what one found alone, and nothing
\* comes after a hit that is worse in no list.
FusionSound(dense, keyword, fused) ==
    LET found == ToSet(dense) \cup ToSet(keyword) IN
    /\ IsInjective(fused) /\ ToSet(fused) \subseteq found
    /\ Len(fused) = PerMethod \/ ToSet(fused) = found
    /\ \A i \in DOMAIN fused : \A h \in found \ ToSet(SubSeq(fused, 1, i)) :
         /\ InBoth(dense, keyword, h) => InBoth(dense, keyword, fused[i])
         /\ ~(NoWorse(dense, h, fused[i]) /\ NoWorse(keyword, h, fused[i]))

\* The context is the ranking without near duplicates, as far as the budget
\* goes: whatever is left out repeats a better chunk of the context, or comes
\* no earlier than one that does not fit any more.
ContextSound(ranked, context) ==
    LET At(h) == CHOOSE i \in DOMAIN ranked : ranked[i] = h IN
    /\ \A i, j \in DOMAIN context :
         i < j => At(context[i]) < At(context[j]) /\ ~Near(context[i], context[j])
    /\ ToSet(context) \subseteq ToSet(ranked)
    /\ Total(context) <= MaxContextTokens
    /\ \A i \in DOMAIN ranked :
         \/ ranked[i] \in ToSet(context)
         \/ \E k \in ToSet(context) : At(k) < i /\ Near(k, ranked[i])
         \/ \E j \in 1..i :
               /\ \A k \in ToSet(context) : At(k) < j /\ ~Near(k, ranked[j])
               /\ Total(context) + Tokens[ranked[j].text] > MaxContextTokens
=============================================================================
