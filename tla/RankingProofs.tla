--------------------------- MODULE RankingProofs ---------------------------
(***************************************************************************)
(* What the lists of the retrieval pipeline promise, for lists of any      *)
(* length: fusion prefers what both searches found, and the context is the *)
(* best of a ranking without near duplicates within the token budget.      *)
(*                                                                         *)
(* The loops over a list are recursive functions on its positions.  Facts  *)
(* about them are proved by induction on the position, with the set of the *)
(* positions up to which a fact holds.                                     *)
(***************************************************************************)
EXTENDS Ranking, FiniteSetTheorems, TLAPS

-----------------------------------------------------------------------------
(* Induction and recursion on positions *)

LEMMA Least ==
  ASSUME NEW S, S \subseteq Nat, S # {}
  PROVE  \E m \in S : \A k \in S : m <= k
<1> DEFINE R == {ss \in Nat \X Nat : ss[1] < ss[2]}
<1>1. IsWellFoundedOn(R, Nat)
  BY NatLessThanWellFounded DEF OpToRel
<1>2. \A k, m \in Nat : <<k, m>> \in R <=> k < m
  OBVIOUS
<1> HIDE DEF R
<1>3. PICK m \in S : \A k \in S : ~(<<k, m>> \in R)
  BY <1>1, WFMin
<1>4. \A k \in S : ~(k < m)
  BY <1>2, <1>3
<1> QED
  BY <1>3, <1>4

\* Induction from 0 to n.
LEMMA UpTo ==
  ASSUME NEW n \in Nat, NEW G, 0 \in G,
         \A k \in Nat : k < n /\ k \in G => k + 1 \in G
  PROVE  \A k \in 0..n : k \in G
<1> SUFFICES ASSUME NEW b \in 0..n, b \notin G PROVE FALSE
  OBVIOUS
<1>1. b \in Nat
  OBVIOUS
<1>2. PICK m \in {k \in 0..n : k \notin G} : \A k \in {k \in 0..n : k \notin G} : m <= k
  <2> DEFINE B == {k \in 0..n : k \notin G}
  <2>1. B \subseteq Nat /\ B # {}
    OBVIOUS
  <2> HIDE DEF B
  <2>2. \E m \in B : \A k \in B : m <= k
    BY <2>1, Least
  <2> QED
    BY <2>2 DEF B
<1>3. m # 0 /\ m - 1 \in Nat /\ m - 1 < n /\ m - 1 \in 0..n
  BY <1>2
<1>4. m - 1 \in G
  BY <1>2, <1>3
<1>5. m - 1 + 1 \in G
  BY <1>3, <1>4
<1> QED
  BY <1>2, <1>5

\* A loop over n positions: the state before it, and what a pass makes of it.
IsLoop(n, S, base, step) ==
    n \in Nat /\ base \in S /\ step \in [1..n -> [S -> S]]
RunOf(f, n, S, base, step) ==
    /\ f \in [0..n -> S]
    /\ f[0] = base /\ \A i \in 1..n : f[i] = step[i][f[i - 1]]

\* A function can be defined by recursion on the positions up to n.
LEMMA Recursion ==
  ASSUME NEW n, NEW S, NEW base, NEW step, IsLoop(n, S, base, step)
  PROVE  \E f : RunOf(f, n, S, base, step)
<1> USE DEF IsLoop, RunOf
<1> DEFINE Good(k) == \E f \in [0..k -> S] :
                         f[0] = base /\ \A i \in 1..k : f[i] = step[i][f[i - 1]]
           G == {k \in 0..n : Good(k)}
<1>1. 0 \in G
  <2>1. PICK f : f = [i \in 0..0 |-> base]
    OBVIOUS
  <2>2. f \in [0..0 -> S] /\ f[0] = base /\ \A i \in 1..0 : f[i] = step[i][f[i - 1]]
    BY <2>1
  <2>3. Good(0)
    BY <2>2
  <2> QED
    BY <2>3
<1>2. ASSUME NEW k \in Nat, k < n, k \in G PROVE k + 1 \in G
  <2>1. PICK f \in [0..k -> S] :
          f[0] = base /\ \A i \in 1..k : f[i] = step[i][f[i - 1]]
    BY <1>2
  <2>2. PICK v \in S : v = step[k + 1][f[k]]
    <3>1. step[k + 1] \in [S -> S] /\ f[k] \in S
      BY <1>2
    <3> QED
      BY <3>1
  <2> DEFINE g == [i \in 0..(k + 1) |-> IF i = k + 1 THEN v ELSE f[i]]
  <2>3. g \in [0..(k + 1) -> S]
    OBVIOUS
  <2>4. g[0] = base /\ g[k + 1] = v /\ \A i \in 0..k : g[i] = f[i]
    BY <2>1
  <2> HIDE DEF g
  <2>5. ASSUME NEW i \in 1..(k + 1) PROVE g[i] = step[i][g[i - 1]]
    <3>1. i - 1 \in 0..k /\ g[i - 1] = f[i - 1]
      BY <2>4
    <3>2. CASE i = k + 1
      BY <3>1, <3>2, <2>2, <2>4
    <3>3. CASE i # k + 1
      <4>1. i \in 1..k
        BY <3>3
      <4> QED
        BY <4>1, <3>1, <2>1, <2>4
    <3> QED
      BY <3>2, <3>3
  <2>6. Good(k + 1) /\ k + 1 \in 0..n
    BY <1>2, <2>3, <2>4, <2>5
  <2> QED
    BY <2>6
<1> HIDE DEF G
<1>3. \A k \in 0..n : k \in G
  BY <1>1, <1>2, UpTo
<1>4. n \in G
  BY <1>3
<1> QED
  BY <1>4 DEF G

\* A function that obeys the recursion wherever it is defined takes its
\* values in S.
LEMMA RecursionStays ==
  ASSUME NEW n \in Nat, NEW S, NEW f, f[0] \in S,
         \A i \in 1..n : f[i - 1] \in S => f[i] \in S
  PROVE  \A i \in 0..n : f[i] \in S
<1> DEFINE G == {k \in 0..n : f[k] \in S}
<1>1. 0 \in G
  OBVIOUS
<1>2. ASSUME NEW k \in Nat, k < n, k \in G PROVE k + 1 \in G
  <2>1. k + 1 \in 1..n /\ (k + 1) - 1 = k /\ f[k] \in S
    BY <1>2
  <2>2. f[k + 1] \in S
    BY <2>1
  <2> QED
    BY <2>1, <2>2
<1> HIDE DEF G
<1>3. \A k \in 0..n : k \in G
  BY <1>1, <1>2, UpTo
<1> QED
  BY <1>3 DEF G

-----------------------------------------------------------------------------
(* The loops *)

LEMMA MergedSteps ==
  ASSUME NEW H, NEW dense \in Seq(H), NEW keyword \in Seq(H)
  PROVE  /\ Merged(dense, keyword) \in [0..Len(keyword) -> Seq(H)]
         /\ Merged(dense, keyword)[0] = dense
         /\ \A r \in 1..Len(keyword) :
              Merged(dense, keyword)[r] =
                IF keyword[r] \in ToSet(Merged(dense, keyword)[r - 1])
                THEN Merged(dense, keyword)[r - 1]
                ELSE Append(Merged(dense, keyword)[r - 1], keyword[r])
<1> DEFINE n == Len(keyword)
           S == Seq(H)
           Next(k, r) == IF keyword[r] \in ToSet(k) THEN k ELSE Append(k, keyword[r])
           step == [r \in 1..n |-> [k \in S |-> Next(k, r)]]
           Keys(g) == [r \in 0..n |-> IF r = 0 THEN dense ELSE Next(g[r - 1], r)]
<1>1. n \in Nat /\ dense \in S
  OBVIOUS
<1>2. \A r \in 1..n : \A k \in S : Next(k, r) \in S
  OBVIOUS
<1>3. PICK m : m = Merged(dense, keyword) /\ m = CHOOSE g : g = Keys(g)
  BY DEF Merged
<1>4. /\ m \in [0..n -> S] /\ m[0] = dense
      /\ \A r \in 1..n : m[r] = Next(m[r - 1], r)
  <2> HIDE DEF n, S, Next
  <2>1. step \in [1..n -> [S -> S]]
    BY <1>2
  <2>s. \A r \in 1..n : \A k \in S : step[r][k] = Next(k, r)
    OBVIOUS
  <2> HIDE DEF step
  <2>2. PICK f : RunOf(f, n, S, dense, step)
    <3>1. IsLoop(n, S, dense, step)
      BY <1>1, <2>1 DEF IsLoop
    <3> QED
      BY <3>1, Recursion
  <2>3. f \in [0..n -> S] /\ f[0] = dense /\ \A i \in 1..n : f[i] = step[i][f[i - 1]]
    BY <2>2 DEF RunOf
  <2>4. \A r \in 1..n : f[r] = Next(f[r - 1], r)
    <3> TAKE r \in 1..n
    <3>1. r - 1 \in 0..n /\ f[r - 1] \in S
      BY <1>1, <2>3
    <3> QED
      BY <2>s, <2>3, <3>1
  <2>5. f = Keys(f)
    <3>1. \A i \in 0..n : f[i] = Keys(f)[i]
      BY <1>1, <2>3, <2>4
    <3>2. f = [i \in 0..n |-> f[i]] /\ Keys(f) = [i \in 0..n |-> Keys(f)[i]]
      BY <1>1, <2>3
    <3> QED
      BY <3>1, <3>2
  <2>6. m = Keys(m)
    BY <1>3, <2>5
  <2>7. \A g : /\ DOMAIN Keys(g) = 0..n /\ Keys(g)[0] = dense
               /\ Keys(g) = [i \in 0..n |-> Keys(g)[i]]
               /\ \A r \in 1..n : Keys(g)[r] = Next(g[r - 1], r)
    BY <1>1
  <2> HIDE DEF Keys
  <2>8. /\ m[0] = dense /\ m = [i \in 0..n |-> m[i]]
        /\ \A r \in 1..n : m[r] = Next(m[r - 1], r)
    BY <2>6, <2>7
  <2>9. \A i \in 1..n : m[i - 1] \in S => m[i] \in S
    BY <1>2, <2>8
  <2>10. \A i \in 0..n : m[i] \in S
    <3>1. n \in Nat /\ m[0] \in S
      BY <1>1, <2>8
    <3> QED
      BY <2>9, <3>1, RecursionStays
  <2>11. m \in [0..n -> S]
    BY <2>8, <2>10
  <2> QED
    BY <2>8, <2>11
<1> QED
  BY <1>3, <1>4
LEMMA KeptSteps ==
  ASSUME NEW H, NEW s \in Seq(H)
  PROVE  /\ Kept(s) \in [0..Len(s) -> Seq(H)]
         /\ Kept(s)[0] = <<>>
         /\ \A i \in 1..Len(s) :
              Kept(s)[i] = IF DuplicateOfKept(Kept(s)[i - 1], s[i])
                           THEN Kept(s)[i - 1] ELSE Append(Kept(s)[i - 1], s[i])
<1> DEFINE n == Len(s)
           S == Seq(H)
           Next(k, r) == IF DuplicateOfKept(k, s[r]) THEN k ELSE Append(k, s[r])
           step == [r \in 1..n |-> [k \in S |-> Next(k, r)]]
           Keys(g) == [r \in 0..n |-> IF r = 0 THEN <<>> ELSE Next(g[r - 1], r)]
<1>1. n \in Nat /\ <<>> \in S
  OBVIOUS
<1>2. \A r \in 1..n : \A k \in S : Next(k, r) \in S
  OBVIOUS
<1>3. PICK m : m = Kept(s) /\ m = CHOOSE g : g = Keys(g)
  BY DEF Kept
<1>4. /\ m \in [0..n -> S] /\ m[0] = <<>>
      /\ \A r \in 1..n : m[r] = Next(m[r - 1], r)
  <2> HIDE DEF n, S, Next
  <2>1. step \in [1..n -> [S -> S]]
    BY <1>2
  <2>s. \A r \in 1..n : \A k \in S : step[r][k] = Next(k, r)
    OBVIOUS
  <2> HIDE DEF step
  <2>2. PICK f : RunOf(f, n, S, <<>>, step)
    <3>1. IsLoop(n, S, <<>>, step)
      BY <1>1, <2>1 DEF IsLoop
    <3> QED
      BY <3>1, Recursion
  <2>3. f \in [0..n -> S] /\ f[0] = <<>> /\ \A i \in 1..n : f[i] = step[i][f[i - 1]]
    BY <2>2 DEF RunOf
  <2>4. \A r \in 1..n : f[r] = Next(f[r - 1], r)
    <3> TAKE r \in 1..n
    <3>1. r - 1 \in 0..n /\ f[r - 1] \in S
      BY <1>1, <2>3
    <3> QED
      BY <2>s, <2>3, <3>1
  <2>5. f = Keys(f)
    <3>1. \A i \in 0..n : f[i] = Keys(f)[i]
      BY <1>1, <2>3, <2>4
    <3>2. f = [i \in 0..n |-> f[i]] /\ Keys(f) = [i \in 0..n |-> Keys(f)[i]]
      BY <1>1, <2>3
    <3> QED
      BY <3>1, <3>2
  <2>6. m = Keys(m)
    BY <1>3, <2>5
  <2>7. \A g : /\ DOMAIN Keys(g) = 0..n /\ Keys(g)[0] = <<>>
               /\ Keys(g) = [i \in 0..n |-> Keys(g)[i]]
               /\ \A r \in 1..n : Keys(g)[r] = Next(g[r - 1], r)
    BY <1>1
  <2> HIDE DEF Keys
  <2>8. /\ m[0] = <<>> /\ m = [i \in 0..n |-> m[i]]
        /\ \A r \in 1..n : m[r] = Next(m[r - 1], r)
    BY <2>6, <2>7
  <2>9. \A i \in 1..n : m[i - 1] \in S => m[i] \in S
    BY <1>2, <2>8
  <2>10. \A i \in 0..n : m[i] \in S
    <3>1. n \in Nat /\ m[0] \in S
      BY <1>1, <2>8
    <3> QED
      BY <2>9, <3>1, RecursionStays
  <2>11. m \in [0..n -> S]
    BY <2>8, <2>10
  <2> QED
    BY <2>8, <2>11
<1> QED
  BY <1>3, <1>4
LEMMA SumsSteps ==
  ASSUME NEW s \in Seq(Nat)
  PROVE  /\ Sums(s) \in [0..Len(s) -> Nat]
         /\ Sums(s)[0] = 0
         /\ \A i \in 1..Len(s) : Sums(s)[i] = Sums(s)[i - 1] + s[i]
<1> DEFINE n == Len(s)
           S == Nat
           Next(k, r) == k + s[r]
           step == [r \in 1..n |-> [k \in S |-> Next(k, r)]]
           Keys(g) == [r \in 0..n |-> IF r = 0 THEN 0 ELSE Next(g[r - 1], r)]
<1>1. n \in Nat /\ 0 \in S
  OBVIOUS
<1>2. \A r \in 1..n : \A k \in S : Next(k, r) \in S
  OBVIOUS
<1>3. PICK m : m = Sums(s) /\ m = CHOOSE g : g = Keys(g)
  BY DEF Sums
<1>4. /\ m \in [0..n -> S] /\ m[0] = 0
      /\ \A r \in 1..n : m[r] = Next(m[r - 1], r)
  <2> HIDE DEF n, S, Next
  <2>1. step \in [1..n -> [S -> S]]
    BY <1>2
  <2>s. \A r \in 1..n : \A k \in S : step[r][k] = Next(k, r)
    OBVIOUS
  <2> HIDE DEF step
  <2>2. PICK f : RunOf(f, n, S, 0, step)
    <3>1. IsLoop(n, S, 0, step)
      BY <1>1, <2>1 DEF IsLoop
    <3> QED
      BY <3>1, Recursion
  <2>3. f \in [0..n -> S] /\ f[0] = 0 /\ \A i \in 1..n : f[i] = step[i][f[i - 1]]
    BY <2>2 DEF RunOf
  <2>4. \A r \in 1..n : f[r] = Next(f[r - 1], r)
    <3> TAKE r \in 1..n
    <3>1. r - 1 \in 0..n /\ f[r - 1] \in S
      BY <1>1, <2>3
    <3> QED
      BY <2>s, <2>3, <3>1
  <2>5. f = Keys(f)
    <3>1. \A i \in 0..n : f[i] = Keys(f)[i]
      BY <1>1, <2>3, <2>4
    <3>2. f = [i \in 0..n |-> f[i]] /\ Keys(f) = [i \in 0..n |-> Keys(f)[i]]
      BY <1>1, <2>3
    <3> QED
      BY <3>1, <3>2
  <2>6. m = Keys(m)
    BY <1>3, <2>5
  <2>7. \A g : /\ DOMAIN Keys(g) = 0..n /\ Keys(g)[0] = 0
               /\ Keys(g) = [i \in 0..n |-> Keys(g)[i]]
               /\ \A r \in 1..n : Keys(g)[r] = Next(g[r - 1], r)
    BY <1>1
  <2> HIDE DEF Keys
  <2>8. /\ m[0] = 0 /\ m = [i \in 0..n |-> m[i]]
        /\ \A r \in 1..n : m[r] = Next(m[r - 1], r)
    BY <2>6, <2>7
  <2>9. \A i \in 1..n : m[i - 1] \in S => m[i] \in S
    BY <1>2, <2>8
  <2>10. \A i \in 0..n : m[i] \in S
    <3>1. n \in Nat /\ m[0] \in S
      BY <1>1, <2>8
    <3> QED
      BY <2>9, <3>1, RecursionStays
  <2>11. m \in [0..n -> S]
    BY <2>8, <2>10
  <2> QED
    BY <2>8, <2>11
<1> QED
  BY <1>3, <1>4

-----------------------------------------------------------------------------
(* Sorting and cutting *)

LEMMA CutIs ==
  ASSUME NEW H, NEW s \in Seq(H), NEW n \in Nat
  PROVE  /\ Cut(s, n) \in Seq(H)
         /\ Len(Cut(s, n)) = IF Len(s) < n THEN Len(s) ELSE n
         /\ \A i \in 1..Len(Cut(s, n)) : i \in 1..Len(s) /\ Cut(s, n)[i] = s[i]
<1> DEFINE m == IF Len(s) < n THEN Len(s) ELSE n
<1>1. m \in 0..Len(s) /\ Cut(s, n) = SubSeq(s, 1, m)
  BY DEF Cut
<1> HIDE DEF m
<1>2. SubSeq(s, 1, m) = [i \in 1..m |-> s[i]]
  BY <1>1
<1>3. \A i \in 1..m : i \in 1..Len(s) /\ s[i] \in H
  BY <1>1
<1>4. Cut(s, n) \in Seq(H) /\ Len(Cut(s, n)) = m
  BY <1>1, <1>2, <1>3
<1>5. \A i \in 1..m : Cut(s, n)[i] = s[i]
  BY <1>1, <1>2
<1> QED
  BY <1>3, <1>4, <1>5 DEF m

\* The hits that come no later than the ith.
NoLater(s, score, i) ==
    {j \in DOMAIN s : \/ score[s[j]] > score[s[i]]
                      \/ score[s[j]] = score[s[i]] /\ j <= i}

LEMMA PlaceIs ==
  ASSUME NEW s, NEW score, NEW i
  PROVE  Place(s, score, i) = Cardinality(NoLater(s, score, i))
BY DEF Place, NoLater

LEMMA PlaceType ==
  ASSUME NEW H, NEW s \in Seq(H), NEW score, NEW i \in 1..Len(s),
         \A k \in 1..Len(s) : score[s[k]] \in Nat
  PROVE  /\ IsFiniteSet(NoLater(s, score, i))
         /\ Place(s, score, i) \in 1..Len(s)
<1>0. 1 \in Int /\ Len(s) \in Int /\ Len(s) \in Nat
  OBVIOUS
<1>1. IsFiniteSet(1..Len(s)) /\ Cardinality(1..Len(s)) = Len(s)
  BY <1>0, FS_Interval
<1>2. NoLater(s, score, i) \subseteq 1..Len(s) /\ i \in NoLater(s, score, i)
  BY DEF NoLater
<1>3. /\ IsFiniteSet(NoLater(s, score, i))
      /\ Cardinality(NoLater(s, score, i)) <= Len(s)
  BY <1>1, <1>2, FS_Subset
<1>4. Cardinality(NoLater(s, score, i)) \in Nat
  BY <1>3, FS_CardinalityType
<1>5. Cardinality(NoLater(s, score, i)) # 0
  BY <1>2, <1>3, FS_EmptySet
<1> QED
  BY <1>3, <1>4, <1>5, PlaceIs

LEMMA BetterIsEarlier ==
  ASSUME NEW H, NEW s \in Seq(H), NEW score,
         \A k \in 1..Len(s) : score[s[k]] \in Nat,
         NEW i \in 1..Len(s), NEW j \in 1..Len(s),
         score[s[i]] > score[s[j]] \/ (score[s[i]] = score[s[j]] /\ i < j)
  PROVE  Place(s, score, i) < Place(s, score, j)
<1>1. NoLater(s, score, i) \subseteq NoLater(s, score, j)
  BY DEF NoLater
<1>2. j \in NoLater(s, score, j) /\ j \notin NoLater(s, score, i)
  BY DEF NoLater
<1>3. IsFiniteSet(NoLater(s, score, j))
  BY PlaceType
<1>4. /\ Cardinality(NoLater(s, score, i)) <= Cardinality(NoLater(s, score, j))
      /\ Cardinality(NoLater(s, score, i)) # Cardinality(NoLater(s, score, j))
  BY <1>1, <1>2, <1>3, FS_Subset
<1>5. Place(s, score, i) \in Nat /\ Place(s, score, j) \in Nat
  BY PlaceType
<1> QED
  BY <1>4, <1>5, PlaceIs

\* Sorting reorders: every hit has one place, and scores fall.
LEMMA SortedIs ==
  ASSUME NEW H, NEW s \in Seq(H), NEW score,
         \A k \in 1..Len(s) : score[s[k]] \in Nat
  PROVE  \E p \in [1..Len(s) -> 1..Len(s)] :
           /\ Sorted(s, score) = [k \in 1..Len(s) |-> s[p[k]]]
           /\ \A k, l \in 1..Len(s) : p[k] = p[l] => k = l
           /\ \A i \in 1..Len(s) : \E k \in 1..Len(s) : p[k] = i
           /\ \A k, l \in 1..Len(s) : k < l => score[s[p[l]]] <= score[s[p[k]]]
<1> DEFINE n == Len(s)
           place == [i \in 1..n |-> Place(s, score, i)]
           p == [k \in 1..n |-> CHOOSE i \in 1..n : place[i] = k]
<1>1. n \in Nat /\ DOMAIN s = 1..n
  OBVIOUS
<1>2. place \in [1..n -> 1..n] /\ \A i \in 1..n : place[i] = Place(s, score, i)
  BY PlaceType
<1>3. \A i, j \in 1..n :
        score[s[i]] > score[s[j]] \/ (score[s[i]] = score[s[j]] /\ i < j)
          => place[i] < place[j]
  BY <1>2, BetterIsEarlier
<1>s. \A i \in 1..n : score[s[i]] \in Nat
  OBVIOUS
<1>d. Sorted(s, score) = [k \in 1..n |-> s[p[k]]]
  <2> DEFINE at(k) == CHOOSE i \in 1..n :
                        <<i, k>> \in {<<j, Place(s, score, j)>> : j \in 1..n}
  <2>1. Sorted(s, score) = [k \in 1..n |-> s[at(k)]]
    BY <1>1 DEF Sorted
  <2>2. \A i, k \in 1..n :
          <<i, k>> \in {<<j, Place(s, score, j)>> : j \in 1..n} <=> place[i] = k
    BY <1>2
  <2> HIDE DEF place
  <2>3. \A k \in 1..n : at(k) = p[k]
    BY <2>2
  <2> HIDE DEF at, p
  <2> QED
    BY <2>1, <2>3
<1> HIDE DEF n, place
<1>4. ASSUME NEW i \in 1..n, NEW j \in 1..n, place[i] = place[j]
      PROVE  i = j
  <2>1. score[s[i]] \in Nat /\ score[s[j]] \in Nat
    BY <1>s
  <2>2. i \in Nat /\ j \in Nat /\ place[i] \in Nat /\ ~(place[i] < place[j])
        /\ ~(place[j] < place[i])
    BY <1>1, <1>2, <1>4
  <2>3. /\ ~(score[s[i]] > score[s[j]]) /\ ~(score[s[i]] = score[s[j]] /\ i < j)
        /\ ~(score[s[j]] > score[s[i]]) /\ ~(score[s[j]] = score[s[i]] /\ j < i)
    BY <1>3, <2>2
  <2> QED
    BY <2>1, <2>2, <2>3
<1>5. \A k \in 1..n : \E i \in 1..n : place[i] = k
  <2>1. place \in Injection(1..n, 1..n)
    BY <1>2, <1>4 DEF Injection, IsInjective
  <2>2. IsFiniteSet(1..n)
    BY <1>1, FS_Interval
  <2>3. place \in Surjection(1..n, 1..n)
    BY <2>1, <2>2, FS_Injection
  <2> QED
    BY <2>3 DEF Surjection
<1>6. p \in [1..n -> 1..n] /\ \A k \in 1..n : place[p[k]] = k
  BY <1>5
<1> HIDE DEF p
<1>7. \A k, l \in 1..n : p[k] = p[l] => k = l
  BY <1>6
<1>8. ASSUME NEW i \in 1..n PROVE \E k \in 1..n : p[k] = i
  <2>1. place[i] \in 1..n /\ place[p[place[i]]] = place[i] /\ p[place[i]] \in 1..n
    BY <1>2, <1>6
  <2>2. p[place[i]] = i
    BY <1>4, <2>1
  <2> QED
    BY <2>1, <2>2
<1>9. ASSUME NEW k \in 1..n, NEW l \in 1..n, k < l
      PROVE  score[s[p[l]]] <= score[s[p[k]]]
  <2>1. p[k] \in 1..n /\ p[l] \in 1..n /\ place[p[k]] = k /\ place[p[l]] = l
    BY <1>6
  <2>2. ~(place[p[l]] < place[p[k]])
    BY <1>1, <1>9, <2>1
  <2>3. ~(score[s[p[l]]] > score[s[p[k]]])
    BY <1>3, <2>1, <2>2
  <2>4. score[s[p[k]]] \in Nat /\ score[s[p[l]]] \in Nat
    BY <1>s, <2>1
  <2> QED
    BY <2>3, <2>4
<1> QED
  BY <1>d, <1>6, <1>7, <1>8, <1>9 DEF n

-----------------------------------------------------------------------------
(* Reciprocal rank fusion *)

LEMMA AppendHit ==
  ASSUME NEW H, NEW s \in Seq(H), NEW h \in H
  PROVE  /\ Append(s, h) \in Seq(H)
         /\ ToSet(Append(s, h)) = ToSet(s) \cup {h}
         /\ IsInjective(s) /\ h \notin ToSet(s) => IsInjective(Append(s, h))
<1> DEFINE a == Append(s, h)
           n == Len(s)
<1>1. /\ a \in Seq(H) /\ n \in Nat /\ DOMAIN a = 1..(n + 1) /\ DOMAIN s = 1..n
      /\ a[n + 1] = h /\ \A i \in 1..n : a[i] = s[i]
  OBVIOUS
<1> HIDE DEF a, n
<1>2. ToSet(a) = ToSet(s) \cup {h}
  <2>1. \A i \in 1..(n + 1) : i = n + 1 \/ i \in 1..n
    BY <1>1
  <2> QED
    BY <1>1, <2>1 DEF ToSet
<1>3. ASSUME IsInjective(s), h \notin ToSet(s) PROVE IsInjective(a)
  <2>1. \A i \in 1..n : s[i] # h
    BY <1>1, <1>3 DEF ToSet
  <2>2. \A i \in 1..(n + 1) : i = n + 1 \/ i \in 1..n
    BY <1>1
  <2> QED
    BY <1>1, <1>3, <2>1, <2>2 DEF IsInjective
<1> QED
  BY <1>1, <1>2, <1>3 DEF a

\* The dict's keys are the hits of both lists, each once.
LEMMA MergedIs ==
  ASSUME NEW H, NEW dense \in Seq(H), NEW keyword \in Seq(H), IsInjective(dense)
  PROVE  LET found == Merged(dense, keyword)[Len(keyword)] IN
         /\ found \in Seq(H) /\ IsInjective(found)
         /\ ToSet(found) = ToSet(dense) \cup ToSet(keyword)
<1> DEFINE n == Len(keyword)
           M == Merged(dense, keyword)
           Good(r) == /\ IsInjective(M[r])
                      /\ ToSet(M[r]) = ToSet(dense) \cup {keyword[q] : q \in 1..r}
           G == {r \in 0..n : Good(r)}
<1>1. /\ n \in Nat /\ DOMAIN keyword = 1..n /\ \A r \in 1..n : keyword[r] \in H
  OBVIOUS
<1>2. /\ M \in [0..n -> Seq(H)] /\ M[0] = dense
      /\ \A r \in 1..n : M[r] = IF keyword[r] \in ToSet(M[r - 1]) THEN M[r - 1]
                                ELSE Append(M[r - 1], keyword[r])
  BY MergedSteps
<1> HIDE DEF n, M
<1>3. 0 \in G
  <2>1. {keyword[q] : q \in 1..0} = {}
    OBVIOUS
  <2> QED
    BY <1>1, <1>2, <2>1
<1>4. ASSUME NEW r \in Nat, r < n, r \in G PROVE r + 1 \in G
  <2>1. /\ r + 1 \in 1..n /\ (r + 1) - 1 = r /\ r \in 0..n /\ r + 1 \in 0..n
    BY <1>1, <1>4
  <2>2. /\ M[r] \in Seq(H) /\ IsInjective(M[r])
        /\ ToSet(M[r]) = ToSet(dense) \cup {keyword[q] : q \in 1..r}
    BY <1>2, <1>4, <2>1
  <2>3. {keyword[q] : q \in 1..(r + 1)} = {keyword[q] : q \in 1..r} \cup {keyword[r + 1]}
    <3>1. \A q : q \in 1..(r + 1) <=> q \in 1..r \/ q = r + 1
      BY <1>4
    <3> QED
      BY <3>1
  <2>4. CASE keyword[r + 1] \in ToSet(M[r])
    <3>1. M[r + 1] = M[r]
      BY <1>2, <2>1, <2>4
    <3> QED
      BY <2>1, <2>2, <2>3, <2>4, <3>1
  <2>5. CASE keyword[r + 1] \notin ToSet(M[r])
    <3>1. M[r + 1] = Append(M[r], keyword[r + 1]) /\ keyword[r + 1] \in H
      BY <1>1, <1>2, <2>1, <2>5
    <3>2. IsInjective(M[r + 1]) /\ ToSet(M[r + 1]) = ToSet(M[r]) \cup {keyword[r + 1]}
      <4>1. PICK keys, h : keys = M[r] /\ h = keyword[r + 1] /\ keys \in Seq(H) /\ h \in H
        BY <2>2, <3>1
      <4>2. IsInjective(keys) /\ h \notin ToSet(keys)
        BY <2>2, <2>5, <4>1
      <4>3. IsInjective(Append(keys, h)) /\ ToSet(Append(keys, h)) = ToSet(keys) \cup {h}
        BY <4>1, <4>2, AppendHit
      <4> QED
        BY <3>1, <4>1, <4>3
    <3> QED
      BY <2>1, <2>2, <2>3, <3>2
  <2> QED
    BY <2>4, <2>5
<1> HIDE DEF G
<1>5. \A r \in 0..n : r \in G
  BY <1>1, <1>3, <1>4, UpTo
<1>6. n \in 0..n /\ n \in G
  BY <1>1, <1>5
<1>7. IsInjective(M[n]) /\ ToSet(M[n]) = ToSet(dense) \cup {keyword[q] : q \in 1..n}
  BY <1>6 DEF G
<1>8. {keyword[q] : q \in 1..n} = ToSet(keyword)
  BY <1>1 DEF ToSet
<1>9. M[n] \in Seq(H)
  BY <1>2, <1>6
<1> QED
  BY <1>7, <1>8, <1>9 DEF n, M

\* Weights are exact, fall with the rank, and any two weigh more than one.
LEMMA WeightIs ==
  ASSUME NEW r \in 1..PerMethod
  PROVE  Weight(r) \in Nat \ {0} /\ Weight(r) * (Damping + r) = Scale
<1>1. Damping + r \in Nat \ {0} /\ Scale \in Nat \ {0} /\ Scale % (Damping + r) = 0
  BY LimitAssumption, ScaleAssumption
<1>2. \A a \in Nat : \A b \in Nat \ {0} :
        a % b = 0 => a \div b \in Nat /\ (a \div b) * b = a
  OBVIOUS
<1>3. Weight(r) \in Nat /\ Weight(r) * (Damping + r) = Scale
  BY <1>1, <1>2 DEF Weight
<1>4. Weight(r) # 0
  <2>1. 0 * (Damping + r) = 0
    BY <1>1
  <2> QED
    BY <1>1, <1>3, <2>1
<1> QED
  BY <1>3, <1>4

LEMMA WeightFalls ==
  ASSUME NEW q \in 1..PerMethod, NEW r \in 1..PerMethod, q < r
  PROVE  Weight(r) < Weight(q)
<1>1. \A a, b, c \in Nat \ {0} : \A x, y \in Nat :
        x * b = a /\ y * c = a /\ b < c => y < x
  OBVIOUS
<1>2. Damping + q \in Nat \ {0} /\ Damping + r \in Nat \ {0} /\ Damping + q < Damping + r
  BY LimitAssumption
<1>3. Scale \in Nat \ {0}
  BY ScaleAssumption
<1> QED
  BY <1>1, <1>2, <1>3, WeightIs

LEMMA TwoOutweighOne ==
  ASSUME NEW q \in 1..PerMethod, NEW r \in 1..PerMethod, NEW t \in 1..PerMethod
  PROVE  Weight(t) < Weight(q) + Weight(r)
<1>1. 1 \in 1..PerMethod /\ PerMethod \in 1..PerMethod
  BY LimitAssumption
<1>2. \A s \in 1..PerMethod : /\ Weight(s) \in Nat
                             /\ Weight(s) <= Weight(1) /\ Weight(PerMethod) <= Weight(s)
  <2> TAKE s \in 1..PerMethod
  <2>1. Weight(s) \in Nat /\ Weight(1) \in Nat /\ Weight(PerMethod) \in Nat
    BY <1>1, WeightIs
  <2>2. s = 1 \/ 1 < s
    OBVIOUS
  <2>3. s = PerMethod \/ s < PerMethod
    BY LimitAssumption
  <2>4. Weight(s) <= Weight(1)
    BY <1>1, <2>1, <2>2, WeightFalls
  <2>5. Weight(PerMethod) <= Weight(s)
    BY <1>1, <2>1, <2>3, WeightFalls
  <2> QED
    BY <2>1, <2>4, <2>5
<1>3. \A a, P \in Nat \ {0} : \A D, x, y \in Nat :
        P <= D + 1 /\ x * (D + P) = a /\ y * (D + 1) = a => y < 2 * x
  OBVIOUS
<1>4. Weight(1) < 2 * Weight(PerMethod)
  BY <1>1, <1>2, <1>3, WeightIs, LimitAssumption, ScaleAssumption
<1> QED
  BY <1>1, <1>2, <1>4

\* What a search returns: each hit once, PerMethod of them at most.
IsRanking(s, H) == s \in Seq(H) /\ IsInjective(s) /\ Len(s) <= PerMethod

LEMMA ShareIs ==
  ASSUME NEW H, NEW s, IsRanking(s, H)
  PROVE  /\ \A r \in 1..Len(s) : r \in 1..PerMethod /\ Share(s, s[r]) = Weight(r)
         /\ \A h : h \notin ToSet(s) => Share(s, h) = 0
<1>1. s \in Seq(H) /\ DOMAIN s = 1..Len(s) /\ Len(s) \in Nat /\ Len(s) <= PerMethod
  BY DEF IsRanking
<1>2. ASSUME NEW r \in 1..Len(s) PROVE r \in 1..PerMethod /\ Share(s, s[r]) = Weight(r)
  <2>1. {q \in DOMAIN s : s[q] = s[r]} = {r}
    BY <1>1 DEF IsRanking, IsInjective
  <2>2. (CHOOSE q \in {r} : TRUE) = r
    OBVIOUS
  <2>3. Share(s, s[r]) = Weight(r)
    BY <2>1, <2>2 DEF Share
  <2>4. r \in 1..PerMethod
    BY <1>1, LimitAssumption
  <2> QED
    BY <2>3, <2>4
<1>3. ASSUME NEW h, h \notin ToSet(s) PROVE Share(s, h) = 0
  <2>1. {q \in DOMAIN s : s[q] = h} = {}
    BY <1>3 DEF ToSet
  <2> QED
    BY <2>1 DEF Share
<1> QED
  BY <1>2, <1>3

LEMMA ShareOfFound ==
  ASSUME NEW H, NEW s, IsRanking(s, H), NEW h
  PROVE  /\ Share(s, h) \in Nat
         /\ h \in ToSet(s) => \E r \in 1..PerMethod : Share(s, h) = Weight(r)
<1>1. CASE h \in ToSet(s)
  <2>1. PICK r \in 1..Len(s) : s[r] = h
    BY <1>1 DEF ToSet, IsRanking
  <2>2. r \in 1..PerMethod /\ Share(s, h) = Weight(r)
    BY <2>1, ShareIs
  <2> QED
    BY <2>2, WeightIs
<1>2. CASE h \notin ToSet(s)
  BY <1>2, ShareIs
<1> QED
  BY <1>1, <1>2

\* A list gives more to a hit it ranks higher.
LEMMA ShareOfBetter ==
  ASSUME NEW H, NEW s, IsRanking(s, H), NEW h, NEW g, h # g, NoWorse(s, h, g)
  PROVE  /\ Share(s, g) <= Share(s, h)
         /\ g \in ToSet(s) => Share(s, g) < Share(s, h)
<1>1. CASE g \notin ToSet(s)
  <2>1. Share(s, g) = 0 /\ Share(s, h) \in Nat
    BY <1>1, ShareIs, ShareOfFound
  <2> QED
    BY <1>1, <2>1
<1>2. CASE g \in ToSet(s)
  <2>1. PICK r \in 1..Len(s) : s[r] = g
    BY <1>2 DEF ToSet, IsRanking
  <2>2. PICK q \in 1..r : s[q] = h
    BY <2>1 DEF NoWorse, IsRanking
  <2>3. q \in 1..Len(s) /\ q < r
    BY <2>1, <2>2 DEF IsRanking
  <2>4. /\ Share(s, g) = Weight(r) /\ Share(s, h) = Weight(q)
        /\ r \in 1..PerMethod /\ q \in 1..PerMethod
    BY <2>1, <2>2, <2>3, ShareIs
  <2>5. Weight(r) < Weight(q) /\ Weight(r) \in Nat /\ Weight(q) \in Nat
    BY <2>3, <2>4, WeightFalls, WeightIs
  <2> QED
    BY <2>4, <2>5
<1> QED
  BY <1>1, <1>2

LEMMA BothOutscoreOne ==
  ASSUME NEW H, NEW dense, NEW keyword, IsRanking(dense, H), IsRanking(keyword, H),
         NEW h, NEW g, InBoth(dense, keyword, h), ~InBoth(dense, keyword, g)
  PROVE  FusedScore(dense, keyword, g) < FusedScore(dense, keyword, h)
<1>1. PICK q \in 1..PerMethod : Share(dense, h) = Weight(q)
  BY ShareOfFound DEF InBoth
<1>2. PICK r \in 1..PerMethod : Share(keyword, h) = Weight(r)
  BY ShareOfFound DEF InBoth
<1>3. Weight(q) \in Nat \ {0} /\ Weight(r) \in Nat \ {0}
  BY WeightIs
<1>4. CASE g \notin ToSet(dense)
  <2>1. Share(dense, g) = 0 /\ Share(keyword, g) \in Nat
    BY <1>4, ShareIs, ShareOfFound
  <2>2. CASE g \in ToSet(keyword)
    <3>1. PICK t \in 1..PerMethod : Share(keyword, g) = Weight(t)
      BY <2>2, ShareOfFound
    <3>2. Weight(t) < Weight(q) + Weight(r) /\ Weight(t) \in Nat
      BY TwoOutweighOne, WeightIs
    <3> QED
      BY <1>1, <1>2, <2>1, <3>1, <3>2 DEF FusedScore
  <2>3. CASE g \notin ToSet(keyword)
    <3>1. Share(keyword, g) = 0
      BY <2>3, ShareIs
    <3> QED
      BY <1>1, <1>2, <1>3, <2>1, <3>1 DEF FusedScore
  <2> QED
    BY <2>2, <2>3
<1>5. CASE g \in ToSet(dense) /\ g \notin ToSet(keyword)
  <2>1. Share(keyword, g) = 0
    BY <1>5, ShareIs
  <2>2. PICK t \in 1..PerMethod : Share(dense, g) = Weight(t)
    BY <1>5, ShareOfFound
  <2>3. Weight(t) < Weight(q) + Weight(r) /\ Weight(t) \in Nat
    BY TwoOutweighOne, WeightIs
  <2> QED
    BY <1>1, <1>2, <2>1, <2>2, <2>3 DEF FusedScore
<1> QED
  BY <1>4, <1>5 DEF InBoth

LEMMA FusedIs ==
  ASSUME NEW H, NEW dense, NEW keyword, IsRanking(dense, H), IsRanking(keyword, H)
  PROVE  /\ IsRanking(Fused(dense, keyword), H)
         /\ ToSet(Fused(dense, keyword)) \subseteq ToSet(dense) \cup ToSet(keyword)
         /\ \/ Len(Fused(dense, keyword)) = PerMethod
            \/ ToSet(Fused(dense, keyword)) = ToSet(dense) \cup ToSet(keyword)
         /\ \A i \in 1..Len(Fused(dense, keyword)) :
              \A h \in (ToSet(dense) \cup ToSet(keyword))
                         \ ToSet(SubSeq(Fused(dense, keyword), 1, i)) :
                FusedScore(dense, keyword, h)
                  <= FusedScore(dense, keyword, Fused(dense, keyword)[i])
<1> DEFINE found == Merged(dense, keyword)[Len(keyword)]
           n == Len(found)
           score == [h \in ToSet(found) |-> FusedScore(dense, keyword, h)]
           all == Sorted(found, score)
           fused == Cut(all, PerMethod)
<1>1. /\ found \in Seq(H) /\ IsInjective(found)
      /\ ToSet(found) = ToSet(dense) \cup ToSet(keyword)
  BY MergedIs DEF IsRanking
<1>2. Fused(dense, keyword) = fused
  BY DEF Fused
<1> HIDE DEF found
<1>3. n \in Nat /\ DOMAIN found = 1..n /\ \A k \in 1..n : found[k] \in ToSet(found)
  BY <1>1 DEF ToSet
<1>4. \A h : FusedScore(dense, keyword, h) \in Nat
  BY ShareOfFound DEF FusedScore
<1>5. \A k \in 1..n : /\ score[found[k]] = FusedScore(dense, keyword, found[k])
                     /\ score[found[k]] \in Nat
  BY <1>3, <1>4
<1> HIDE DEF score
<1>6. PICK p \in [1..n -> 1..n] :
           /\ all = [k \in 1..n |-> found[p[k]]]
           /\ \A k, l \in 1..n : p[k] = p[l] => k = l
           /\ \A i \in 1..n : \E k \in 1..n : p[k] = i
           /\ \A k, l \in 1..n : k < l => score[found[p[l]]] <= score[found[p[k]]]
  BY <1>1, <1>5, SortedIs
<1> HIDE DEF n, all
<1>7. /\ all \in Seq(H) /\ Len(all) = n
      /\ \A k \in 1..n : p[k] \in 1..n /\ all[k] = found[p[k]]
  <2>1. \A k \in 1..n : p[k] \in 1..n /\ found[p[k]] \in H
    BY <1>1, <1>3, <1>6 DEF n
  <2> QED
    BY <1>3, <1>6, <2>1
<1>8. /\ fused \in Seq(H) /\ Len(fused) = IF n < PerMethod THEN n ELSE PerMethod
      /\ \A i \in 1..Len(fused) : i \in 1..n /\ fused[i] = found[p[i]]
  <2>1. PerMethod \in Nat
    BY LimitAssumption
  <2> QED
    BY <1>7, <2>1, CutIs
<1> HIDE DEF fused
<1>9. DOMAIN fused = 1..Len(fused) /\ Len(fused) \in Nat /\ Len(fused) <= PerMethod
  BY <1>3, <1>8, LimitAssumption
<1>10. IsInjective(fused)
  <2>1. \A i, j \in 1..Len(fused) : fused[i] = fused[j] => p[i] = p[j]
    BY <1>1, <1>3, <1>7, <1>8 DEF IsInjective
  <2> QED
    BY <1>6, <1>8, <1>9, <2>1 DEF IsInjective
<1>11. ToSet(fused) \subseteq ToSet(found)
  BY <1>3, <1>7, <1>8, <1>9 DEF ToSet
<1>12. ASSUME Len(fused) # PerMethod PROVE ToSet(found) \subseteq ToSet(fused)
  <2>1. Len(fused) = n
    BY <1>3, <1>8, <1>12
  <2>2. ASSUME NEW i \in 1..n PROVE found[i] \in ToSet(fused)
    <3>1. PICK k \in 1..n : p[k] = i
      BY <1>6
    <3>2. fused[k] = found[i] /\ k \in DOMAIN fused
      BY <1>8, <1>9, <2>1, <3>1
    <3> QED
      BY <3>2 DEF ToSet
  <2> QED
    BY <1>3, <2>2 DEF ToSet
<1>13. ASSUME NEW i \in 1..Len(fused),
              NEW h \in ToSet(found) \ ToSet(SubSeq(fused, 1, i))
       PROVE  FusedScore(dense, keyword, h) <= FusedScore(dense, keyword, fused[i])
  <2>1. PICK a \in 1..n : found[a] = h
    BY <1>3 DEF ToSet
  <2>2. PICK l \in 1..n : p[l] = a
    BY <1>6
  <2>3. ~(l <= i)
    <3>1. ASSUME l <= i PROVE FALSE
      <4>1. l \in 1..i /\ l \in 1..Len(fused) /\ fused[l] = h
        <5>1. l \in 1..i /\ l \in 1..Len(fused)
          BY <1>3, <1>9, <3>1
        <5> QED
          BY <1>8, <2>1, <2>2, <5>1
      <4>2. DOMAIN SubSeq(fused, 1, i) = 1..i /\ SubSeq(fused, 1, i)[l] = fused[l]
        <5>1. i \in 1..Len(fused) /\ fused \in Seq(H)
          BY <1>8
        <5>2. SubSeq(fused, 1, i) = [k \in 1..i |-> fused[k]]
          BY <5>1
        <5> QED
          BY <4>1, <5>2
      <4> QED
        BY <4>1, <4>2 DEF ToSet
    <3> QED
      BY <3>1
  <2>4. i \in 1..n /\ i < l
    BY <1>3, <1>8, <2>3
  <2>5. score[found[p[l]]] <= score[found[p[i]]] /\ p[i] \in 1..n
    BY <1>6, <2>4
  <2> QED
    BY <1>5, <1>8, <2>1, <2>2, <2>5
<1> QED
  BY <1>1, <1>2, <1>8, <1>9, <1>10, <1>11, <1>12, <1>13 DEF IsRanking

\* Hybrid search boosts what both methods agree on, whatever they returned.
THEOREM FusionIsSound ==
  ASSUME NEW H, NEW dense, NEW keyword, IsRanking(dense, H), IsRanking(keyword, H)
  PROVE  FusionSound(dense, keyword, Fused(dense, keyword))
<1> DEFINE found == ToSet(dense) \cup ToSet(keyword)
           fused == Fused(dense, keyword)
<1>1. /\ IsRanking(fused, H) /\ ToSet(fused) \subseteq found
      /\ Len(fused) = PerMethod \/ ToSet(fused) = found
      /\ \A i \in 1..Len(fused) : \A h \in found \ ToSet(SubSeq(fused, 1, i)) :
           FusedScore(dense, keyword, h) <= FusedScore(dense, keyword, fused[i])
  BY FusedIs
<1> HIDE DEF fused
<1>2. DOMAIN fused = 1..Len(fused) /\ IsInjective(fused)
  BY <1>1 DEF IsRanking
<1>3. \A h : Share(dense, h) \in Nat /\ Share(keyword, h) \in Nat
  BY ShareOfFound
<1>4. ASSUME NEW i \in DOMAIN fused, NEW h \in found \ ToSet(SubSeq(fused, 1, i))
      PROVE  /\ InBoth(dense, keyword, h) => InBoth(dense, keyword, fused[i])
             /\ ~(NoWorse(dense, h, fused[i]) /\ NoWorse(keyword, h, fused[i]))
  <2>1. FusedScore(dense, keyword, h) <= FusedScore(dense, keyword, fused[i])
    BY <1>1, <1>2
  <2>2. fused[i] \in found /\ fused[i] # h
    <3>1. fused[i] \in ToSet(fused)
      BY DEF ToSet
    <3>2. fused[i] \in ToSet(SubSeq(fused, 1, i))
      <4>1. i \in 1..Len(fused) /\ fused \in Seq(H)
        BY <1>1, <1>2 DEF IsRanking
      <4>2. i \in DOMAIN SubSeq(fused, 1, i) /\ SubSeq(fused, 1, i)[i] = fused[i]
        BY <4>1
      <4> QED
        BY <4>2 DEF ToSet
    <3> QED
      BY <1>1, <3>1, <3>2
  <2>3. FusedScore(dense, keyword, h) \in Nat /\ FusedScore(dense, keyword, fused[i]) \in Nat
    BY <1>3 DEF FusedScore
  <2>4. ASSUME InBoth(dense, keyword, h), ~InBoth(dense, keyword, fused[i]) PROVE FALSE
    BY <2>1, <2>3, <2>4, BothOutscoreOne
  <2>5. ASSUME NoWorse(dense, h, fused[i]), NoWorse(keyword, h, fused[i]) PROVE FALSE
    <3>1. /\ Share(dense, fused[i]) <= Share(dense, h)
          /\ Share(keyword, fused[i]) <= Share(keyword, h)
          /\ \/ Share(dense, fused[i]) < Share(dense, h)
             \/ Share(keyword, fused[i]) < Share(keyword, h)
      BY <2>2, <2>5, ShareOfBetter
    <3> QED
      BY <1>3, <2>1, <3>1 DEF FusedScore
  <2> QED
    BY <2>4, <2>5
<1> QED
  BY <1>1, <1>2, <1>4 DEF FusionSound, fused

-----------------------------------------------------------------------------
(* Reranking *)

\* What reaches the prompt's context: each hit once, RerankK of them at most.
IsShortlist(s, H) == s \in Seq(H) /\ IsInjective(s) /\ Len(s) <= RerankK

LEMMA CutToShortlist ==
  ASSUME NEW H, NEW s \in Seq(H), IsInjective(s)
  PROVE  IsShortlist(Cut(s, RerankK), H)
<1>1. RerankK \in Nat /\ Len(s) \in Nat
  BY LimitAssumption
<1>2. /\ Cut(s, RerankK) \in Seq(H) /\ Len(Cut(s, RerankK)) <= RerankK
      /\ \A i \in 1..Len(Cut(s, RerankK)) : i \in 1..Len(s) /\ Cut(s, RerankK)[i] = s[i]
  BY <1>1, CutIs
<1> QED
  BY <1>2 DEF IsShortlist, IsInjective

LEMMA RerankedIs ==
  ASSUME NEW H, NEW s \in Seq(H), IsInjective(s), NEW score,
         \A h \in H : score[h.text] \in Nat
  PROVE  IsShortlist(Reranked(s, score), H)
<1> DEFINE own == [h \in ToSet(s) |-> score[h.text]]
           all == Sorted(s, own)
<1>1. \A k \in 1..Len(s) : own[s[k]] \in Nat
  <2> TAKE k \in 1..Len(s)
  <2>1. s[k] \in H /\ s[k] \in ToSet(s)
    BY DEF ToSet
  <2> QED
    BY <2>1
<1> HIDE DEF own
<1>2. PICK p \in [1..Len(s) -> 1..Len(s)] :
           /\ Sorted(s, own) = [k \in 1..Len(s) |-> s[p[k]]]
           /\ \A k, l \in 1..Len(s) : p[k] = p[l] => k = l
           /\ \A i \in 1..Len(s) : \E k \in 1..Len(s) : p[k] = i
           /\ \A k, l \in 1..Len(s) : k < l => own[s[p[l]]] <= own[s[p[k]]]
  BY <1>1, SortedIs
<1>3. \A k \in 1..Len(s) : p[k] \in 1..Len(s) /\ s[p[k]] \in H
  OBVIOUS
<1> HIDE DEF all
<1>a. all = [k \in 1..Len(s) |-> s[p[k]]]
  BY <1>2 DEF all
<1>4. all \in Seq(H) /\ DOMAIN all = 1..Len(s) /\ \A k \in 1..Len(s) : all[k] = s[p[k]]
  BY <1>a, <1>3
<1>5. IsInjective(all)
  <2>1. \A i, j \in 1..Len(s) : s[i] = s[j] => i = j
    BY DEF IsInjective
  <2>2. ASSUME NEW k \in 1..Len(s), NEW l \in 1..Len(s), all[k] = all[l]
        PROVE  p[k] = p[l]
    <3>1. p[k] \in 1..Len(s) /\ p[l] \in 1..Len(s)
      BY <1>3
    <3>2. s[p[k]] = s[p[l]]
      BY <1>4, <2>2
    <3> QED
      BY <2>1, <3>1, <3>2
  <2> QED
    BY <1>2, <1>4, <2>2 DEF IsInjective
<1>6. IsShortlist(Cut(all, RerankK), H)
  BY <1>4, <1>5, CutToShortlist
<1> QED
  BY <1>6 DEF Reranked, all, own

-----------------------------------------------------------------------------
(* Near duplicates *)

\* e[k] is the position in s of the kth chunk that was kept of the first n.
KeepsBest(s, n, kept, e) ==
    /\ e \in [1..Len(kept) -> 1..n]
    /\ \A k \in 1..Len(kept) : kept[k] = s[e[k]]
    /\ \A k, l \in 1..Len(kept) : k < l => e[k] < e[l] /\ ~Near(kept[k], kept[l])
    /\ \A i \in 1..n : \E k \in 1..Len(kept) :
         e[k] = i \/ (e[k] < i /\ Near(kept[k], s[i]))

LEMMA KeptIs ==
  ASSUME NEW H, NEW s \in Seq(H)
  PROVE  /\ Deduplicated(s) \in Seq(H)
         /\ \E e : KeepsBest(s, Len(s), Deduplicated(s), e)
<1> DEFINE n == Len(s)
           K == Kept(s)
           G == {i \in 0..n : \E e : KeepsBest(s, i, K[i], e)}
<1>1. /\ n \in Nat /\ \A i \in 1..n : s[i] \in H
  OBVIOUS
<1>2. /\ K \in [0..n -> Seq(H)] /\ K[0] = <<>>
      /\ \A i \in 1..n : K[i] = IF DuplicateOfKept(K[i - 1], s[i]) THEN K[i - 1]
                                ELSE Append(K[i - 1], s[i])
  BY KeptSteps
<1> HIDE DEF n, K
<1>3. 0 \in G
  <2>1. KeepsBest(s, 0, <<>>, <<>>)
    BY DEF KeepsBest
  <2> QED
    BY <1>1, <1>2, <2>1
<1>4. ASSUME NEW i \in Nat, i < n, i \in G PROVE i + 1 \in G
  <2>1. i + 1 \in 1..n /\ (i + 1) - 1 = i /\ i \in 0..n /\ i + 1 \in 0..n
    BY <1>1, <1>4
  <2>2. PICK e : KeepsBest(s, i, K[i], e)
    BY <1>4
  <2>3. PICK kept : kept = K[i] /\ kept \in Seq(H)
    BY <1>2, <2>1
  <2>4. PICK m : m = Len(kept) /\ m \in Nat /\ DOMAIN kept = 1..m
    BY <2>3
  <2>5. /\ e \in [1..m -> 1..i]
        /\ \A k \in 1..m : kept[k] = s[e[k]]
        /\ \A k, l \in 1..m : k < l => e[k] < e[l] /\ ~Near(kept[k], kept[l])
        /\ \A j \in 1..i : \E k \in 1..m :
             e[k] = j \/ (e[k] < j /\ Near(kept[k], s[j]))
    BY <2>2, <2>3, <2>4 DEF KeepsBest
  <2>6. \A j \in 1..(i + 1) : j = i + 1 \/ j \in 1..i
    BY <1>4
  <2>7. \A k \in 1..m : e[k] \in 1..i /\ e[k] \in 1..(i + 1) /\ e[k] < i + 1
    <3>1. e \in [1..m -> 1..i]
      BY <2>5
    <3>2. \A x \in 1..i : x \in 1..(i + 1) /\ x < i + 1
      OBVIOUS
    <3> QED
      BY <3>1, <3>2
  <2>8. CASE DuplicateOfKept(kept, s[i + 1])
    <3>1. K[i + 1] = kept
      BY <1>2, <2>1, <2>3, <2>8
    <3>2. PICK k \in 1..m : Near(kept[k], s[i + 1])
      BY <2>4, <2>8 DEF DuplicateOfKept, ToSet
    <3>3. e \in [1..m -> 1..(i + 1)]
      BY <2>5, <2>7
    <3>4. \A j \in 1..(i + 1) : \E l \in 1..m :
             e[l] = j \/ (e[l] < j /\ Near(kept[l], s[j]))
      BY <2>5, <2>6, <2>7, <3>2
    <3>5. KeepsBest(s, i + 1, kept, e)
      BY <2>4, <2>5, <3>3, <3>4 DEF KeepsBest
    <3> QED
      BY <2>1, <3>1, <3>5
  <2>9. CASE ~DuplicateOfKept(kept, s[i + 1])
    <3>1. PICK new : new = Append(kept, s[i + 1]) /\ new = K[i + 1]
      BY <1>2, <2>1, <2>3, <2>9
    <3>2. /\ Len(new) = m + 1 /\ new[m + 1] = s[i + 1]
          /\ \A k \in 1..m : new[k] = kept[k]
      <4>1. PICK h \in H : h = s[i + 1]
        BY <1>1, <2>1
      <4>2. new = Append(kept, h) /\ kept \in Seq(H) /\ m = Len(kept)
        BY <2>3, <2>4, <3>1, <4>1
      <4> QED
        BY <4>1, <4>2
    <3>3. \A k \in 1..m : ~Near(kept[k], s[i + 1])
      BY <2>4, <2>9 DEF DuplicateOfKept, ToSet
    <3>4. PICK f : f = [k \in 1..(m + 1) |-> IF k = m + 1 THEN i + 1 ELSE e[k]]
      OBVIOUS
    <3>5. \A k \in 1..(m + 1) : k = m + 1 \/ k \in 1..m
      BY <2>4
    <3>6. m + 1 \in 1..(m + 1) /\ \A k \in 1..m : k \in 1..(m + 1) /\ k # m + 1
      BY <2>4
    <3>7. f[m + 1] = i + 1 /\ \A k \in 1..m : f[k] = e[k]
      BY <3>4, <3>6
    <3>8. f \in [1..(m + 1) -> 1..(i + 1)]
      BY <2>1, <2>7, <3>4, <3>5
    <3>9. \A k \in 1..(m + 1) : new[k] = s[f[k]]
      BY <2>5, <3>2, <3>5, <3>7
    <3>10. ASSUME NEW k \in 1..(m + 1), NEW l \in 1..(m + 1), k < l
           PROVE  f[k] < f[l] /\ ~Near(new[k], new[l])
      <4>1. k \in 1..m
        BY <2>4, <3>10
      <4>2. l = m + 1 \/ l \in 1..m
        BY <3>5
      <4>3. f[k] = e[k] /\ new[k] = kept[k]
        BY <3>2, <3>7, <4>1
      <4>4. CASE l = m + 1
        <5>1. f[l] = i + 1 /\ new[l] = s[i + 1]
          BY <3>2, <3>7, <4>4
        <5> QED
          BY <2>7, <3>3, <4>1, <4>3, <5>1
      <4>5. CASE l \in 1..m
        <5>1. f[l] = e[l] /\ new[l] = kept[l]
          BY <3>2, <3>7, <4>5
        <5> QED
          BY <2>5, <3>10, <4>1, <4>3, <4>5, <5>1
      <4> QED
        BY <4>2, <4>4, <4>5
    <3>11. \A j \in 1..(i + 1) : \E k \in 1..(m + 1) :
             f[k] = j \/ (f[k] < j /\ Near(new[k], s[j]))
      BY <2>5, <2>6, <3>2, <3>6, <3>7
    <3>12. KeepsBest(s, i + 1, new, f)
      BY <3>2, <3>8, <3>9, <3>10, <3>11 DEF KeepsBest
    <3> QED
      BY <2>1, <3>1, <3>12
  <2> QED
    BY <2>8, <2>9
<1> HIDE DEF G
<1>5. \A i \in 0..n : i \in G
  BY <1>1, <1>3, <1>4, UpTo
<1>6. n \in 0..n /\ n \in G /\ K[n] \in Seq(H)
  BY <1>1, <1>2, <1>5
<1>7. \E e : KeepsBest(s, n, K[n], e)
  BY <1>6 DEF G
<1> QED
  BY <1>6, <1>7 DEF Deduplicated, n, K

-----------------------------------------------------------------------------
(* The token budget *)

\* Hits are records of texts.
AreHits(H) == \A h \in H : h.text \in Texts

LEMMA TotalsIs ==
  ASSUME NEW H, AreHits(H), NEW s \in Seq(H)
  PROVE  /\ Totals(s) \in [0..Len(s) -> Nat] /\ Totals(s)[0] = 0
         /\ \A i \in 1..Len(s) : /\ Tokens[s[i].text] \in Nat
                                /\ Totals(s)[i] = Totals(s)[i - 1] + Tokens[s[i].text]
<1> DEFINE lengths == [i \in DOMAIN s |-> Tokens[s[i].text]]
<1>1. \A i \in 1..Len(s) : Tokens[s[i].text] \in Nat
  BY TokensAssumption DEF AreHits
<1>2. /\ lengths \in Seq(Nat) /\ Len(lengths) = Len(s)
      /\ \A i \in 1..Len(s) : lengths[i] = Tokens[s[i].text]
  BY <1>1
<1>3. Totals(s) = Sums(lengths)
  BY DEF Totals
<1> HIDE DEF lengths
<1>4. /\ Sums(lengths) \in [0..Len(lengths) -> Nat] /\ Sums(lengths)[0] = 0
      /\ \A i \in 1..Len(lengths) : Sums(lengths)[i] = Sums(lengths)[i - 1] + lengths[i]
  BY <1>2, SumsSteps
<1> QED
  BY <1>1, <1>2, <1>3, <1>4

LEMMA TotalOfPrefix ==
  ASSUME NEW H, AreHits(H), NEW s \in Seq(H), NEW n \in 0..Len(s)
  PROVE  Total(SubSeq(s, 1, n)) = Totals(s)[n]
<1> DEFINE t == SubSeq(s, 1, n)
           G == {i \in 0..n : Totals(t)[i] = Totals(s)[i]}
<1>1. /\ n \in Nat /\ t \in Seq(H) /\ Len(t) = n
      /\ \A i \in 1..n : i \in 1..Len(s) /\ t[i] = s[i]
  OBVIOUS
<1> HIDE DEF t
<1>2. /\ Totals(t)[0] = 0
      /\ \A i \in 1..n : Totals(t)[i] = Totals(t)[i - 1] + Tokens[t[i].text]
  BY <1>1, TotalsIs
<1>3. /\ Totals(s)[0] = 0
      /\ \A i \in 1..Len(s) : Totals(s)[i] = Totals(s)[i - 1] + Tokens[s[i].text]
  BY TotalsIs
<1>4. 0 \in G
  BY <1>1, <1>2, <1>3
<1>5. ASSUME NEW i \in Nat, i < n, i \in G PROVE i + 1 \in G
  <2>1. i + 1 \in 1..n /\ i + 1 \in 0..n /\ (i + 1) - 1 = i
    BY <1>1, <1>5
  <2>2. i + 1 \in 1..Len(s) /\ t[i + 1] = s[i + 1]
    BY <1>1, <2>1
  <2>3. Totals(t)[i + 1] = Totals(t)[i] + Tokens[t[i + 1].text]
    BY <1>2, <2>1
  <2>4. Totals(s)[i + 1] = Totals(s)[i] + Tokens[s[i + 1].text]
    BY <1>3, <2>1, <2>2
  <2> QED
    BY <1>5, <2>1, <2>2, <2>3, <2>4
<1> HIDE DEF G
<1>6. \A i \in 0..n : i \in G
  BY <1>1, <1>4, <1>5, UpTo
<1>7. n \in G
  BY <1>1, <1>6
<1> QED
  BY <1>1, <1>7 DEF G, Total, t

\* The context is the longest prefix that fits.
LEMMA AssembledIs ==
  ASSUME NEW H, AreHits(H), NEW s \in Seq(H)
  PROVE  \E n \in 0..Len(s) :
           /\ Assembled(s) = SubSeq(s, 1, n)
           /\ Total(Assembled(s)) <= MaxContextTokens
           /\ n < Len(s) =>
                Total(Assembled(s)) + Tokens[s[n + 1].text] > MaxContextTokens
<1> DEFINE len == Len(s)
           Stops(n) == /\ \A i \in 1..n : FitsNext(s, i)
                       /\ n < len => ~FitsNext(s, n + 1)
           Ends == {n \in 0..len : n = len \/ ~FitsNext(s, n + 1)}
<1>1. len \in Nat /\ \A n \in 0..len : n \in Nat
  OBVIOUS
<1>2. \E n \in 0..len : Stops(n)
  <2> HIDE DEF len
  <2>1. Ends \subseteq Nat /\ Ends # {}
    BY <1>1
  <2>2. PICK n \in Ends : \A k \in Ends : n <= k
    BY <2>1, Least
  <2>3. \A i \in 1..n : FitsNext(s, i)
    <3> SUFFICES ASSUME NEW i \in 1..n, ~FitsNext(s, i) PROVE FALSE
      OBVIOUS
    <3>1. i - 1 \in 0..len /\ (i - 1) + 1 = i /\ i - 1 < n
      BY <1>1, <2>2
    <3>2. i - 1 \in Ends /\ n \in Nat
      BY <1>1, <3>1
    <3>3. n <= i - 1
      BY <2>2, <3>2
    <3> QED
      BY <1>1, <3>1, <3>2, <3>3
  <2>4. n \in 0..len /\ (n < len => ~FitsNext(s, n + 1))
    BY <1>1, <2>2
  <2> QED
    BY <2>3, <2>4
<1>3. PICK n : n \in 0..len /\ Stops(n) /\ Assembled(s) = SubSeq(s, 1, n)
  <2>1. Assembled(s) = SubSeq(s, 1, CHOOSE n \in 0..len : Stops(n))
    BY DEF Assembled
  <2> HIDE DEF Stops
  <2> QED
    BY <1>2, <2>1
<1>4. Total(Assembled(s)) = Totals(s)[n]
  BY <1>3, TotalOfPrefix
<1>5. /\ Totals(s) \in [0..len -> Nat] /\ Totals(s)[0] = 0
      /\ \A i \in 1..len : Totals(s)[i] = Totals(s)[i - 1] + Tokens[s[i].text]
      /\ \A i \in 1..len : Tokens[s[i].text] \in Nat
  BY TotalsIs
<1> HIDE DEF len
<1>6. Totals(s)[n] <= MaxContextTokens
  <2>1. CASE n = 0
    BY <1>5, <2>1, LimitAssumption
  <2>2. CASE n # 0
    <3>1. n \in 1..n /\ n \in 1..len /\ n - 1 \in 0..len
      BY <1>1, <1>3, <2>2
    <3>2. ~(Totals(s)[n - 1] + Tokens[s[n].text] > MaxContextTokens)
      BY <1>3, <3>1 DEF FitsNext, Overflows
    <3>3. Totals(s)[n] \in Nat /\ Totals(s)[n] = Totals(s)[n - 1] + Tokens[s[n].text]
      BY <1>3, <1>5, <3>1
    <3> QED
      BY <3>2, <3>3, LimitAssumption
  <2> QED
    BY <2>1, <2>2
<1>7. ASSUME n < len PROVE Totals(s)[n] + Tokens[s[n + 1].text] > MaxContextTokens
  <2>1. ~FitsNext(s, n + 1) /\ (n + 1) - 1 = n
    BY <1>1, <1>3, <1>7
  <2> QED
    BY <2>1 DEF FitsNext, Overflows
<1> QED
  BY <1>3, <1>4, <1>6, <1>7 DEF len

\* The context is the best of the ranking without near duplicates within the
\* token budget, whatever was ranked.
THEOREM ContextIsSound ==
  ASSUME NEW H, AreHits(H), NEW ranked \in Seq(H), IsInjective(ranked)
  PROVE  /\ Compressed(ranked) \in Seq(H) /\ Len(Compressed(ranked)) <= Len(ranked)
         /\ ContextSound(ranked, Compressed(ranked))
<1>1. PICK D, e : /\ D = Deduplicated(ranked) /\ D \in Seq(H)
                  /\ KeepsBest(ranked, Len(ranked), D, e)
  BY KeptIs
<1>2. PICK n \in 0..Len(D) :
        /\ Assembled(D) = SubSeq(D, 1, n)
        /\ Total(Assembled(D)) <= MaxContextTokens
        /\ n < Len(D) =>
             Total(Assembled(D)) + Tokens[D[n + 1].text] > MaxContextTokens
  BY <1>1, AssembledIs
<1>3. PICK context : context = Compressed(ranked) /\ context = Assembled(D)
  BY <1>1 DEF Compressed
<1> DEFINE len == Len(ranked)
           kept == Len(D)
<1>4. len \in Nat /\ kept \in Nat /\ n \in 0..kept /\ DOMAIN ranked = 1..len
  BY <1>1
<1>5. /\ context \in Seq(H) /\ DOMAIN context = 1..n
      /\ \A k \in 1..n : k \in 1..kept /\ context[k] = D[k]
  BY <1>1, <1>2, <1>3, <1>4
<1>6. /\ e \in [1..kept -> 1..len]
      /\ \A k \in 1..kept : D[k] = ranked[e[k]]
      /\ \A k, l \in 1..kept : k < l => e[k] < e[l] /\ ~Near(D[k], D[l])
      /\ \A i \in 1..len : \E k \in 1..kept :
           e[k] = i \/ (e[k] < i /\ Near(D[k], ranked[i]))
  BY <1>1, <1>4 DEF KeepsBest
<1>l. Len(context) <= len
  <2> HIDE DEF len, kept
  <2>1. e \in Injection(1..kept, 1..len)
    <3>1. \A k, l \in 1..kept : e[k] = e[l] => ~(k < l) /\ ~(l < k)
      BY <1>4, <1>6
    <3>2. \A k, l \in 1..kept : ~(k < l) /\ ~(l < k) => k = l
      BY <1>4
    <3> QED
      BY <1>6, <3>1, <3>2 DEF Injection, IsInjective
  <2>2. IsFiniteSet(1..len) /\ Cardinality(1..len) = len /\ Cardinality(1..kept) = kept
    <3>1. 1 \in Int /\ len \in Int /\ kept \in Int
      BY <1>4
    <3> QED
      BY <1>4, <3>1, FS_Interval
  <2>3. kept <= len
    BY <2>1, <2>2, FS_Injection
  <2>4. Len(context) = n
    BY <1>4, <1>5
  <2> QED
    BY <1>4, <2>3, <2>4
<1> HIDE DEF len, kept
<1> DEFINE At(h) == CHOOSE i \in DOMAIN ranked : ranked[i] = h
<1>7. \A k \in 1..kept : e[k] \in 1..len /\ At(D[k]) = e[k]
  <2> TAKE k \in 1..kept
  <2>1. e[k] \in DOMAIN ranked /\ ranked[e[k]] = D[k]
    BY <1>4, <1>6
  <2>2. At(D[k]) \in DOMAIN ranked /\ ranked[At(D[k])] = D[k]
    BY <2>1
  <2> QED
    BY <1>4, <2>1, <2>2 DEF IsInjective
<1> HIDE DEF At
<1>8. \A k \in 1..n : k \in 1..kept /\ At(context[k]) = e[k]
  BY <1>5, <1>7
<1>9. \A h \in ToSet(context) : \E k \in 1..n : h = context[k]
  BY <1>5 DEF ToSet
<1>10. \A k \in 1..n : context[k] \in ToSet(context)
  BY <1>5 DEF ToSet
<1>11. ASSUME NEW i \in DOMAIN context, NEW j \in DOMAIN context, i < j
       PROVE  At(context[i]) < At(context[j]) /\ ~Near(context[i], context[j])
  <2>1. i \in 1..n /\ j \in 1..n
    BY <1>5
  <2> QED
    BY <1>5, <1>6, <1>8, <1>11, <2>1
<1>12. ToSet(context) \subseteq ToSet(ranked)
  <2> SUFFICES ASSUME NEW h \in ToSet(context) PROVE h \in ToSet(ranked)
    OBVIOUS
  <2>1. PICK k \in 1..n : h = context[k]
    BY <1>9
  <2>2. h = ranked[e[k]] /\ e[k] \in DOMAIN ranked
    BY <1>4, <1>5, <1>6, <1>7, <2>1
  <2> QED
    BY <2>2 DEF ToSet
<1>13. ASSUME NEW i \in DOMAIN ranked
       PROVE  \/ ranked[i] \in ToSet(context)
              \/ \E k \in ToSet(context) : At(k) < i /\ Near(k, ranked[i])
              \/ \E j \in 1..i :
                    /\ \A k \in ToSet(context) : At(k) < j /\ ~Near(k, ranked[j])
                    /\ Total(context) + Tokens[ranked[j].text] > MaxContextTokens
  <2>1. PICK k \in 1..kept : e[k] = i \/ (e[k] < i /\ Near(D[k], ranked[i]))
    BY <1>4, <1>6
  <2>2. CASE k \in 1..n
    <3>1. At(context[k]) = e[k] /\ context[k] = D[k] /\ context[k] \in ToSet(context)
      BY <1>5, <1>8, <1>10, <2>2
    <3>2. CASE e[k] = i
      BY <1>6, <3>1, <3>2
    <3>3. CASE e[k] < i /\ Near(D[k], ranked[i])
      BY <3>1, <3>3
    <3> QED
      BY <2>1, <3>2, <3>3
  <2>3. CASE k \notin 1..n
    <3>1. n < kept /\ n + 1 \in 1..kept /\ n + 1 <= k /\ \A l \in 1..n : l < n + 1
      BY <1>4, <2>3
    <3>2. PICK j : j = e[n + 1] /\ ranked[j] = D[n + 1]
      BY <1>6, <3>1
    <3>3. e[n + 1] \in 1..len /\ e[k] \in 1..len /\ i \in Nat
      BY <1>4, <1>7, <3>1
    <3>4. n + 1 = k \/ n + 1 < k
      BY <1>4, <3>1
    <3>5. e[n + 1] = e[k] \/ e[n + 1] < e[k]
      BY <1>6, <3>1, <3>4
    <3>6. j \in 1..i
      BY <1>4, <2>1, <3>2, <3>3, <3>5
    <3>7. \A h \in ToSet(context) : At(h) < j /\ ~Near(h, ranked[j])
      <4> TAKE h \in ToSet(context)
      <4>1. PICK l \in 1..n : h = context[l]
        BY <1>9
      <4>2. h = D[l] /\ At(h) = e[l] /\ l \in 1..kept /\ l < n + 1
        BY <1>5, <1>8, <3>1, <4>1
      <4> QED
        BY <1>6, <3>1, <3>2, <4>2
    <3>8. Total(context) + Tokens[ranked[j].text] > MaxContextTokens
      BY <1>2, <1>3, <1>4, <3>1, <3>2 DEF kept
    <3> QED
      BY <3>6, <3>7, <3>8
  <2> QED
    BY <2>2, <2>3
<1>14. ContextSound(ranked, context)
  BY <1>2, <1>3, <1>11, <1>12, <1>13 DEF ContextSound, At
<1> QED
  BY <1>3, <1>5, <1>l, <1>14 DEF len
=============================================================================
