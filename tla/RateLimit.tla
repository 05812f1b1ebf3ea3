----------------------------- MODULE RateLimit -----------------------------
(***************************************************************************)
(* RateLimitMiddleware: a sliding window of admission times for every      *)
(* client and kind of path, in the memory of one application process.      *)
(*                                                                         *)
(* The deque of a bucket is what is left of all its admissions: those from *)
(* index first[b] on.                                                      *)
(***************************************************************************)
EXTENDS Naturals, Sequences, FiniteSets

CONSTANTS
    Clients,       \* client addresses
    Window,        \* _WINDOW_SECONDS
    GeneralLimit,  \* requests_per_minute
    AuthLimit,     \* auth_requests_per_minute
    MaxTime        \* bound: the last moment

ASSUME WindowAssumption == Window \in Nat
ASSUME QuotaAssumption == GeneralLimit \in Nat /\ AuthLimit \in Nat
ASSUME TimeAssumption == MaxTime \in Nat

VARIABLES
    now,       \* time.monotonic()
    admitted,  \* admitted[b]: when bucket b's requests were admitted
    first      \* first[b]: index of the first one still in the deque

limiter == <<now, admitted, first>>

Kinds == {"auth", "general"}
Buckets == Clients \X Kinds

Limit(kind) == IF kind = "auth" THEN AuthLimit ELSE GeneralLimit

\* _limit_for_path picks a limit, and dispatch the bucket by comparing that
\* limit: with equal limits every path shares one bucket.
BucketOf(c, strict) ==
    LET limit == IF strict THEN AuthLimit ELSE GeneralLimit
    IN <<c, IF limit = AuthLimit THEN "auth" ELSE "general">>

LimiterTypeOK ==
    /\ now \in 0..MaxTime
    /\ admitted \in [Buckets -> Seq(Nat)]
    /\ first \in [Buckets -> Nat \ {0}]
    /\ \A b \in Buckets : first[b] <= Len(admitted[b]) + 1

LimiterInit ==
    /\ now = 0
    /\ admitted = [b \in Buckets |-> <<>>]
    /\ first = [b \in Buckets |-> 1]

-----------------------------------------------------------------------------
\* Mutant: a timestamp exactly one window old is dropped.
StaleAtEdge(b, i) == admitted[b][i] + Window <= now
Stale(b, i) == admitted[b][i] + Window < now

\* popleft as long as the first timestamp is older than the cutoff: the
\* deque begins at i afterwards.
Evicted(b, i) ==
    /\ i \in first[b]..(Len(admitted[b]) + 1)
    /\ \A k \in first[b]..(i - 1) : Stale(b, k)
    /\ i <= Len(admitted[b]) => ~Stale(b, i)

Full(b, i) == Len(admitted[b]) + 1 - i >= Limit(b[2])

\* _is_over_limit records a request it lets pass ...
Admit(b) ==
    /\ \E i \in 1..(Len(admitted[b]) + 1) :
         /\ Evicted(b, i) /\ ~Full(b, i)
         /\ first' = [first EXCEPT ![b] = i]
    /\ admitted' = [admitted EXCEPT ![b] = Append(@, now)]
    /\ UNCHANGED now

\* ... and does not count one it refuses.
Refuse(b) ==
    /\ \E i \in 1..(Len(admitted[b]) + 1) :
         /\ Evicted(b, i) /\ Full(b, i)
         /\ first' = [first EXCEPT ![b] = i]
    /\ UNCHANGED <<now, admitted>>

Tick ==
    /\ now < MaxTime
    /\ now' = now + 1
    /\ UNCHANGED <<admitted, first>>

LimiterNext == Tick \/ \E b \in Buckets : Admit(b) \/ Refuse(b)
LimiterSpec == LimiterInit /\ [][LimiterNext]_limiter

-----------------------------------------------------------------------------
(* Properties *)

\* However a client spaces its requests, no window of _WINDOW_SECONDS, both
\* ends included, ever holds more admissions than the limit.
WindowKept ==
    \A b \in Buckets : \A i \in DOMAIN admitted[b] :
        LET j == i + Limit(b[2]) IN
        j \in DOMAIN admitted[b] => admitted[b][i] + Window < admitted[b][j]

Recent(b) == {i \in DOMAIN admitted[b] : ~Stale(b, i)}

\* A request is refused exactly when the window that ends now holds as many
\* admissions as the limit: refused requests and timestamps nobody has
\* popped yet do not count.
RefusedOnlyWhenFull ==
    \A b \in Buckets : \A i \in 1..(Len(admitted[b]) + 1) :
        Evicted(b, i) => (Full(b, i) <=> Cardinality(Recent(b)) >= Limit(b[2]))

LimitKept == WindowKept /\ RefusedOnlyWhenFull
=============================================================================
