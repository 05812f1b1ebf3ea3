-------------------------- MODULE RateLimitProofs --------------------------
(***************************************************************************)
(* The sliding window is exact for every limit, window and spacing of      *)
(* requests.  What the deque no longer holds is stale and stays stale, and *)
(* admissions are recorded in order of time: so the deque, once evicted,   *)
(* is the window that ends now.                                            *)
(***************************************************************************)
EXTENDS RateLimit, TLAPS, FiniteSetTheorems

Ordered(b) ==
    \A i, j \in DOMAIN admitted[b] : i <= j => admitted[b][i] <= admitted[b][j]
Past(b) == \A i \in DOMAIN admitted[b] : admitted[b][i] <= now
DroppedStale(b) ==
    \A i \in DOMAIN admitted[b] : i < first[b] => Stale(b, i)

LimiterInv ==
    /\ LimiterTypeOK
    /\ WindowKept
    /\ \A b \in Buckets : Ordered(b) /\ Past(b) /\ DroppedStale(b)

LEMMA LimitNat == ASSUME NEW b \in Buckets PROVE Limit(b[2]) \in Nat
BY QuotaAssumption DEF Limit

LEMMA LimiterInitHolds == LimiterInit => LimiterInv
<1> SUFFICES ASSUME LimiterInit PROVE LimiterInv
  OBVIOUS
<1>1. \A b \in Buckets : admitted[b] = <<>> /\ first[b] = 1
  BY DEF LimiterInit
<1>2. LimiterTypeOK
  BY TimeAssumption DEF LimiterInit, LimiterTypeOK
<1>3. WindowKept
  BY <1>1 DEF WindowKept
<1>4. \A b \in Buckets : Ordered(b) /\ Past(b) /\ DroppedStale(b)
  BY <1>1 DEF Ordered, Past, DroppedStale
<1> QED
  BY <1>2, <1>3, <1>4 DEF LimiterInv

\* Time goes on.
LEMMA TickKeeps == LimiterInv /\ Tick => LimiterInv'
<1> SUFFICES ASSUME LimiterInv, Tick PROVE LimiterInv'
  OBVIOUS
<1> USE DEF LimiterInv, Tick
<1>1. LimiterTypeOK'
  BY TimeAssumption DEF LimiterTypeOK, Buckets
<1>2. WindowKept'
  BY DEF WindowKept
<1>3. ASSUME NEW b \in Buckets
      PROVE (Ordered(b) /\ Past(b) /\ DroppedStale(b))'
  <2>1. admitted[b] \in Seq(Nat) /\ now \in Nat /\ now' = now + 1
    BY DEF LimiterTypeOK
  <2>2. \A i \in DOMAIN admitted[b] : admitted[b][i] \in Nat
    BY <2>1
  <2>3. Ordered(b)'
    BY DEF Ordered
  <2>4. Past(b)'
    BY <2>1, <2>2 DEF Past
  <2>5. DroppedStale(b)'
    BY <2>1, <2>2, WindowAssumption DEF DroppedStale, Stale
  <2> QED
    BY <2>3, <2>4, <2>5
<1>4. \A b \in Buckets : (Ordered(b) /\ Past(b) /\ DroppedStale(b))'
  BY <1>3
<1> QED
  BY <1>1, <1>2, <1>4 DEF Buckets

\* Eviction by itself drops what is stale only.
LEMMA EvictedIsStale ==
  ASSUME LimiterInv, NEW b \in Buckets,
         NEW i \in 1..(Len(admitted[b]) + 1), Evicted(b, i),
         NEW k \in DOMAIN admitted[b], k < i
  PROVE Stale(b, k)
<1>1. first[b] \in Nat /\ k \in Nat /\ i \in Nat
  BY DEF LimiterInv, LimiterTypeOK
<1>2. CASE k < first[b]
  BY <1>2 DEF LimiterInv, DroppedStale
<1>3. CASE k >= first[b]
  <2>1. k \in first[b]..(i - 1)
    BY <1>1, <1>3
  <2> QED
    BY <2>1 DEF Evicted
<1> QED
  BY <1>1, <1>2, <1>3

\* A request is let pass: the (limit + 1)-st admission before the new one, if
\* there is one, is stale.
LEMMA AdmitKeeps ==
  ASSUME LimiterInv, NEW b \in Buckets, Admit(b)
  PROVE  LimiterInv'
<1> DEFINE n == Len(admitted[b])
<1>1. PICK i \in 1..(n + 1) :
        Evicted(b, i) /\ ~Full(b, i) /\ first' = [first EXCEPT ![b] = i]
  BY DEF Admit
<1>2. admitted' = [admitted EXCEPT ![b] = Append(admitted[b], now)] /\ now' = now
  BY DEF Admit
<1>3. LimiterTypeOK /\ WindowKept /\ n \in Nat /\ now \in Nat /\ Window \in Nat
  BY WindowAssumption DEF LimiterInv, LimiterTypeOK
<1>4. admitted[b] \in Seq(Nat)
  BY <1>3 DEF LimiterTypeOK
<1>5. admitted'[b] = Append(admitted[b], now) /\ first'[b] = i
  BY <1>1, <1>2, <1>3 DEF LimiterTypeOK
<1>6. \A c \in Buckets : c # b => admitted'[c] = admitted[c] /\ first'[c] = first[c]
  BY <1>1, <1>2, <1>3 DEF LimiterTypeOK
<1>7. /\ DOMAIN admitted'[b] = 1..(n + 1)
      /\ \A k \in 1..n : admitted'[b][k] = admitted[b][k] /\ admitted[b][k] \in Nat
      /\ admitted'[b][n + 1] = now
      /\ DOMAIN admitted[b] = 1..n
  BY <1>3, <1>4, <1>5
<1>8. \A k \in 1..n : k < i => admitted[b][k] + Window < now
  <2> SUFFICES ASSUME NEW k \in 1..n, k < i PROVE admitted[b][k] + Window < now
    OBVIOUS
  <2>1. k \in DOMAIN admitted[b]
    BY <1>7
  <2> QED
    BY <1>1, <2>1, EvictedIsStale DEF Stale
<1>9. LimiterTypeOK'
  <2>1. admitted' \in [Buckets -> Seq(Nat)]
    BY <1>2, <1>3, <1>4 DEF LimiterTypeOK
  <2>2. first' \in [Buckets -> Nat \ {0}]
    BY <1>1, <1>3 DEF LimiterTypeOK
  <2>3. \A c \in Buckets : first'[c] <= Len(admitted'[c]) + 1
    <3> TAKE c \in Buckets
    <3>1. CASE c = b
      <4>1. Len(admitted'[b]) = n + 1
        BY <1>4, <1>5
      <4> QED
        BY <1>1, <1>3, <1>5, <3>1, <4>1
    <3>2. CASE c # b
      BY <1>6, <1>3, <3>2 DEF LimiterTypeOK
    <3> QED
      BY <3>1, <3>2
  <2> QED
    BY <1>2, <1>3, <2>1, <2>2, <2>3 DEF LimiterTypeOK, Buckets
<1>10. WindowKept'
  <2> SUFFICES ASSUME NEW c \in Buckets, NEW p \in DOMAIN admitted'[c],
                      p + Limit(c[2]) \in DOMAIN admitted'[c]
               PROVE  admitted'[c][p] + Window < admitted'[c][p + Limit(c[2])]
    BY DEF WindowKept, Limit, Buckets
  <2>1. CASE c # b
    BY <1>3, <1>6, <2>1 DEF WindowKept
  <2>2. CASE c = b /\ p + Limit(b[2]) <= n
    <3>1. p \in 1..n /\ p + Limit(b[2]) \in 1..n
      <4>1. p \in 1..(n + 1) /\ Limit(b[2]) \in Nat
        BY <1>7, <2>2, LimitNat
      <4> HIDE DEF n
      <4>2. n \in Nat /\ p + Limit(b[2]) <= n
        BY <1>3, <2>2
      <4> QED
        BY <4>1, <4>2
    <3> QED
      BY <1>3, <1>7, <2>2, <3>1 DEF WindowKept
  <2>3. CASE c = b /\ p + Limit(b[2]) = n + 1
    <3>1. n + 1 - i < Limit(b[2])
      BY <1>1, <1>3, LimitNat DEF Full
    <3>2. p \in 1..(n + 1) /\ Limit(b[2]) \in Nat
      BY <1>7, <2>3, LimitNat
    <3>3. p \in 1..n /\ p < i
      BY <1>1, <1>3, <2>3, <3>1, <3>2
    <3> QED
      BY <1>7, <1>8, <2>3, <3>3
  <2> QED
    BY <1>3, <1>7, <2>1, <2>2, <2>3, LimitNat
<1>11. ASSUME NEW c \in Buckets
       PROVE  (Ordered(c) /\ Past(c) /\ DroppedStale(c))'
  <2>1. Ordered(c) /\ Past(c) /\ DroppedStale(c)
    BY DEF LimiterInv
  <2>2. CASE c # b
    BY <1>2, <1>6, <2>1, <2>2 DEF Ordered, Past, DroppedStale, Stale
  <2>3. CASE c = b
    <3>1. Ordered(b)'
      <4> SUFFICES ASSUME NEW j \in 1..(n + 1), NEW k \in 1..(n + 1), j <= k
                   PROVE  admitted'[b][j] <= admitted'[b][k]
        BY <1>7 DEF Ordered
      <4>1. CASE k \in 1..n
        <5>1. j \in 1..n
          BY <1>3, <4>1
        <5>2. j \in DOMAIN admitted[b] /\ k \in DOMAIN admitted[b]
          BY <1>7, <4>1, <5>1
        <5>3. admitted[b][j] <= admitted[b][k]
          BY <2>1, <2>3, <5>2 DEF Ordered
        <5> QED
          BY <1>7, <4>1, <5>1, <5>3
      <4>2. CASE k = n + 1 /\ j \in 1..n
        <5>1. admitted[b][j] <= now
          BY <1>7, <2>1, <2>3, <4>2 DEF Past
        <5>2. admitted'[b][k] = now /\ admitted'[b][j] = admitted[b][j]
          BY <1>7, <4>2
        <5> QED
          BY <5>1, <5>2
      <4>3. CASE k = n + 1 /\ j = n + 1
        BY <1>3, <1>7, <4>3
      <4> QED
        BY <1>3, <4>1, <4>2, <4>3
    <3>2. Past(b)'
      BY <1>2, <1>3, <1>7, <2>1, <2>3 DEF Past
    <3>3. DroppedStale(b)'
      BY <1>1, <1>2, <1>3, <1>5, <1>7, <1>8 DEF DroppedStale, Stale
    <3> QED
      BY <2>3, <3>1, <3>2, <3>3
  <2> QED
    BY <2>2, <2>3
<1>12. \A c \in Buckets : (Ordered(c) /\ Past(c) /\ DroppedStale(c))'
  BY <1>11
<1> QED
  BY <1>9, <1>10, <1>12 DEF LimiterInv, Buckets

\* A refusal only evicts.
LEMMA RefuseKeeps ==
  ASSUME LimiterInv, NEW b \in Buckets, Refuse(b)
  PROVE  LimiterInv'
<1>1. PICK i \in 1..(Len(admitted[b]) + 1) :
        Evicted(b, i) /\ first' = [first EXCEPT ![b] = i]
  BY DEF Refuse
<1>2. admitted' = admitted /\ now' = now
  BY DEF Refuse
<1>3. LimiterTypeOK /\ WindowKept
  BY DEF LimiterInv
<1>4. LimiterTypeOK'
  BY <1>1, <1>2, <1>3 DEF LimiterTypeOK, Buckets
<1>5. WindowKept'
  BY <1>2, <1>3 DEF WindowKept, Buckets
<1>6. ASSUME NEW c \in Buckets
      PROVE  (Ordered(c) /\ Past(c) /\ DroppedStale(c))'
  <2>1. Ordered(c) /\ Past(c) /\ DroppedStale(c)
    BY DEF LimiterInv
  <2>2. Ordered(c)' /\ Past(c)'
    BY <1>2, <2>1 DEF Ordered, Past
  <2>3. CASE c = b
    <3>1. \A k \in DOMAIN admitted[b] : k < i => Stale(b, k)
      BY <1>1, EvictedIsStale
    <3> QED
      BY <1>1, <1>2, <1>3, <2>2, <2>3, <3>1 DEF DroppedStale, Stale, LimiterTypeOK
  <2>4. CASE c # b
    BY <1>1, <1>2, <1>3, <2>1, <2>2, <2>4 DEF DroppedStale, Stale, LimiterTypeOK
  <2> QED
    BY <2>3, <2>4
<1>7. \A c \in Buckets : (Ordered(c) /\ Past(c) /\ DroppedStale(c))'
  BY <1>6
<1> QED
  BY <1>4, <1>5, <1>7 DEF LimiterInv, Buckets

LEMMA LimiterStep == LimiterInv /\ [LimiterNext]_limiter => LimiterInv'
<1> SUFFICES ASSUME LimiterInv, [LimiterNext]_limiter PROVE LimiterInv'
  OBVIOUS
<1>1. CASE Tick
  BY <1>1, TickKeeps
<1>2. ASSUME NEW b \in Buckets, Admit(b) \/ Refuse(b) PROVE LimiterInv'
  BY <1>2, AdmitKeeps, RefuseKeeps
<1>3. CASE UNCHANGED limiter
  BY <1>3 DEF limiter, LimiterInv, LimiterTypeOK, WindowKept, Ordered, Past,
              DroppedStale, Stale, Buckets
<1> QED
  BY <1>1, <1>2, <1>3 DEF LimiterNext

\* What is left after eviction is the window that ends now.
LEMMA DequeIsWindow ==
  ASSUME LimiterInv, NEW b \in Buckets,
         NEW i \in 1..(Len(admitted[b]) + 1), Evicted(b, i)
  PROVE  Recent(b) = i..Len(admitted[b])
<1> DEFINE n == Len(admitted[b])
<1>1. admitted[b] \in Seq(Nat) /\ n \in Nat /\ now \in Nat
  BY DEF LimiterInv, LimiterTypeOK
<1>2. DOMAIN admitted[b] = 1..n /\ \A k \in 1..n : admitted[b][k] \in Nat
  BY <1>1
<1>3. \A k \in 1..n : k < i => Stale(b, k)
  BY <1>2, EvictedIsStale
<1>4. \A k \in 1..n : k >= i => ~Stale(b, k)
  <2> SUFFICES ASSUME NEW k \in 1..n, k >= i PROVE ~Stale(b, k)
    OBVIOUS
  <2>1. i \in 1..n /\ ~Stale(b, i)
    BY <1>1 DEF Evicted
  <2>2. admitted[b][i] <= admitted[b][k]
    BY <1>2, <2>1 DEF LimiterInv, Ordered
  <2>3. ~(admitted[b][i] + Window < now)
    BY <2>1 DEF Stale
  <2>4. /\ admitted[b][i] \in Nat /\ admitted[b][k] \in Nat
        /\ now \in Nat /\ Window \in Nat
    BY <1>1, <1>2, <2>1, WindowAssumption
  <2>5. ~(admitted[b][k] + Window < now)
    BY <2>2, <2>3, <2>4
  <2> QED
    BY <2>5 DEF Stale
<1> QED
  BY <1>1, <1>2, <1>3, <1>4 DEF Recent

LEMMA ExactRefusals == LimiterInv => RefusedOnlyWhenFull
<1> SUFFICES ASSUME LimiterInv, NEW b \in Buckets,
                    NEW i \in 1..(Len(admitted[b]) + 1), Evicted(b, i)
             PROVE  Full(b, i) <=> Cardinality(Recent(b)) >= Limit(b[2])
  BY DEF RefusedOnlyWhenFull
<1> DEFINE n == Len(admitted[b])
<1>1. n \in Nat
  BY DEF LimiterInv, LimiterTypeOK
<1>2. Cardinality(i..n) = IF i > n THEN 0 ELSE n - i + 1
  <2>1. i \in Int /\ n \in Int
    BY <1>1
  <2> HIDE DEF n
  <2> QED
    BY <2>1, FS_Interval
<1>3. Cardinality(i..n) = n + 1 - i
  BY <1>1, <1>2
<1> QED
  BY <1>3, DequeIsWindow DEF Full

\* The inductive invariant of the window.
THEOREM LimiterCorrect == LimiterSpec => []LimiterInv
<1>1. LimiterInit => LimiterInv
  BY LimiterInitHolds
<1>2. LimiterInv /\ [LimiterNext]_limiter => LimiterInv'
  BY LimiterStep
<1> QED
  BY <1>1, <1>2, PTL DEF LimiterSpec

\* LimitKept: no window ever holds more admissions than the limit, and a
\* request is refused only when the window that ends now is full of them.
THEOREM LimitAlwaysKept == LimiterSpec => []LimitKept
<1>1. LimiterInv => LimitKept
  BY ExactRefusals DEF LimiterInv, LimitKept
<1> QED
  BY <1>1, LimiterCorrect, PTL
=============================================================================
