------------------------- MODULE ConversationProofs -------------------------
(***************************************************************************)
(* Proofs of Conversation's safety properties, for any conversations and   *)
(* questions, any number of clients, retries and turns, and any faults.    *)
(*                                                                         *)
(* The inductive invariant has a part for what is committed, one for the   *)
(* cache, one for the open turns and one for their locks.                  *)
(***************************************************************************)
EXTENDS Conversation, TLAPS

AskedBy(t) == [at |-> t.at, role |-> "user", via |-> t.via, q |-> t.q,
               answer |-> None]

\* What may be stored or cached for question q of knowledge base k.
Fit(a, k, q) == a.kb = k /\ a.q = q /\ (a.safe <=> TRUE)

\* What the flushed messages of turn t have in common.
OfTurn(t, m) ==
    /\ m.at = t.at /\ m.q = t.q /\ m.via = t.via
    /\ m.role = "assistant" => Fit(m.answer, KbOf[t.conv], t.q)

Generating(t) == t.step \in Providers \cup {"generated"}

\* How far a turn has got decides what it has flushed and generated.
Drafted(t) == /\ t.answer \in Answer
              /\ t.answer.kb = KbOf[t.conv] /\ t.answer.q = t.q
              /\ t.answer.hist <=> t.hist
TurnSound(t) ==
    /\ t.step = "asked" => t.new = {}
    /\ t.step # "asked" => AskedBy(t) \in t.new
    /\ \A m \in t.new : OfTurn(t, m)
    /\ Generating(t) => Drafted(t)
    /\ t.step = "done" /\ t.via = "json" => \E m \in t.new : m.role = "assistant"

TurnsOK ==
    /\ turn \in [Clients -> Turn \cup Deleting \cup Changing \cup {Idle}]
    /\ \A c \in Clients : InTurn(c) => TurnSound(turn[c])

\* A turn that has flushed its question keeps its conversation alive.
Holding(c) == InTurn(c) /\ ~At(c, "asked")
LocksOK ==
    \A c \in Clients : Holding(c) =>
        turn[c].conv \in conv /\ ~DeleteLock(turn[c].conv)

LogsOK ==
    /\ RepliesBelong /\ JsonTurnsAreWhole /\ NoOrphanMessages
    /\ \A v \in Convs : \A m \in Replies(v) : m.answer.safe <=> TRUE
StoredOK ==
    /\ conv \subseteq Convs
    /\ titled \subseteq Convs
    /\ log \in [Convs -> SUBSET Message]
    /\ content \in [Kbs -> 0..MaxChanges]
    /\ turns \in 0..MaxTurns
    /\ LogsOK

CacheOK ==
    /\ cache \in [Kbs -> [Questions -> Answer \cup {None}]]
    /\ \A k \in Kbs, q \in Questions :
         cache[k][q] # None => Fit(cache[k][q], k, q) /\ ~cache[k][q].hist

IInv == StoredOK /\ CacheOK /\ TurnsOK /\ LocksOK

-----------------------------------------------------------------------------
(* Records of a turn *)

SameRequest(x, y) ==
    /\ y.via = x.via /\ y.conv = x.conv /\ y.q = x.q /\ y.at = x.at
    /\ y.hist = x.hist /\ y.untitled = x.untitled

\* What a turn's action leaves alone, and what it changes.
Becomes(x, y, s, a, n) ==
    y \in Turn /\ SameRequest(x, y) /\ y.step = s /\ y.answer = a /\ y.new = n

LEMMA Moves ==
    ASSUME NEW x \in Turn, NEW s \in TurnSteps, NEW y, y = [x EXCEPT !.step = s]
    PROVE  Becomes(x, y, s, x.answer, x.new)
PROOF BY DEF Turn, SameRequest, Becomes

LEMMA Retries ==
    ASSUME NEW x \in Turn, NEW k \in 0..MaxRetries, NEW y,
           y = [x EXCEPT !.tries = k]
    PROVE  Becomes(x, y, x.step, x.answer, x.new)
PROOF BY DEF Turn, SameRequest, Becomes

LEMMA Flushes ==
    ASSUME NEW x \in Turn, NEW s \in TurnSteps, NEW n \in SUBSET Message, NEW y,
           y = [x EXCEPT !.step = s, !.new = n]
    PROVE  Becomes(x, y, s, x.answer, n)
PROOF BY DEF Turn, SameRequest, Becomes

LEMMA Drafts ==
    ASSUME NEW x \in Turn, NEW s \in TurnSteps, NEW a \in Answer, NEW y,
           y = [x EXCEPT !.step = s, !.answer = a]
    PROVE  Becomes(x, y, s, a, x.new)
PROOF BY DEF Turn, SameRequest, Becomes

LEMMA Answers ==
    ASSUME NEW x \in Turn, NEW s \in TurnSteps, NEW a \in Answer,
           NEW n \in SUBSET Message, NEW y,
           y = [x EXCEPT !.step = s, !.answer = a, !.new = n]
    PROVE  Becomes(x, y, s, a, n)
PROOF BY DEF Turn, SameRequest, Becomes

LEMMA TurnFields ==
    ASSUME NEW x \in Turn
    PROVE  /\ x.step \in TurnSteps /\ x.via \in Endpoints /\ x.conv \in Convs
           /\ x.q \in Questions /\ x.at \in 1..MaxTurns /\ x.hist \in BOOLEAN
           /\ x.tries \in 0..MaxRetries /\ x.answer \in Answer \cup {None}
           /\ x.new \in SUBSET Message
PROOF BY DEF Turn

\* Only a turn is at a turn's step.
LEMMA StepTells ==
    ASSUME TurnsOK, NEW c \in Clients
    PROVE  /\ InTurn(c) => turn[c] \in Turn
           /\ At(c, "deleting") => turn[c] \in Deleting
           /\ At(c, "changing") => turn[c] \in Changing
PROOF BY DEF TurnsOK, InTurn, At, TurnSteps, Turn, Deleting, Changing, Idle

\* What another client does not see of a turn's step.
LEMMA OtherTurns ==
    ASSUME TurnsOK, LocksOK, NEW c \in Clients,
           NEW t \in Turn, TurnSound(t), conv' = conv,
           t.step # "asked" => t.conv \in conv /\ ~DeleteLock(t.conv),
           turn' = [turn EXCEPT ![c] = t]
    PROVE  TurnsOK' /\ LocksOK'
PROOF
<1>1. t.step \in TurnSteps /\ t.step # "deleting"
  BY DEF Turn, TurnSteps
<1>2. TurnsOK'
  BY <1>1 DEF TurnsOK, InTurn
<1>3. ASSUME NEW v, DeleteLock(v)' PROVE DeleteLock(v)
  BY <1>1, <1>3 DEF DeleteLock, At, TurnsOK
<1>4. LocksOK'
  BY <1>1, <1>3 DEF LocksOK, Holding, InTurn, At, TurnsOK
<1> QED BY <1>2, <1>4

LEMMA Ended ==
    ASSUME TurnsOK, LocksOK, NEW c \in Clients, conv' = conv, End(c)
    PROVE  TurnsOK' /\ LocksOK'
PROOF
<1>1. Idle.step \notin TurnSteps /\ Idle.step # "deleting"
  BY DEF Idle, TurnSteps
<1>2. TurnsOK'
  BY <1>1 DEF TurnsOK, InTurn, End
<1>3. ASSUME NEW v, DeleteLock(v)' PROVE DeleteLock(v)
  BY <1>1, <1>3 DEF DeleteLock, At, TurnsOK, End
<1>4. LocksOK'
  BY <1>1, <1>3 DEF LocksOK, Holding, InTurn, At, TurnsOK, End
<1> QED BY <1>2, <1>4

LEMMA StoredKept ==
    ASSUME StoredOK, UNCHANGED <<conv, titled, log, content>>,
           turns' \in 0..MaxTurns
    PROVE  StoredOK'
PROOF BY DEF StoredOK, LogsOK, RepliesBelong, JsonTurnsAreWhole,
             NoOrphanMessages, Replies

LEMMA CacheKept ==
    ASSUME CacheOK, UNCHANGED cache
    PROVE  CacheOK'
PROOF BY DEF CacheOK

-----------------------------------------------------------------------------
(* Beginning a turn *)

LEMMA AskStep ==
    ASSUME IInv, NEW c \in Clients, NEW v \in Convs, NEW q \in Questions,
           NEW e \in Endpoints, Ask(c, v, q, e)
    PROVE  IInv'
PROOF
<1>1. PICK t : t = [step |-> "asked", via |-> e, conv |-> v, q |-> q,
                    at |-> turns + 1, hist |-> log[v] # {},
                    untitled |-> v \notin titled, tries |-> 0,
                    answer |-> None, new |-> {}]
  OBVIOUS
<1>2. turn' = [turn EXCEPT ![c] = t] /\ turns' = turns + 1 /\ turns < MaxTurns
      /\ UNCHANGED <<conv, titled, log, cache, content>>
  BY <1>1 DEF Ask, Begin
<1>3. turns \in Nat /\ MaxTurns \in Nat /\ MaxRetries \in Nat
      /\ turns' \in 0..MaxTurns
  BY <1>2, BoundAssumption DEF IInv, StoredOK
<1>4. t \in Turn
  BY <1>1, <1>2, <1>3 DEF Turn, TurnSteps
<1>5. t.step = "asked" /\ t.new = {}
  BY <1>1
<1>6. TurnSound(t)
  BY <1>5 DEF TurnSound, Generating, Providers
<1>7. TurnsOK' /\ LocksOK'
  BY <1>2, <1>4, <1>5, <1>6, OtherTurns DEF IInv
<1> QED BY <1>2, <1>3, <1>7, StoredKept, CacheKept DEF IInv

LEMMA PostStep ==
    ASSUME IInv, NEW c \in Clients, Post(c)
    PROVE  IInv'
PROOF
<1>1. UNCHANGED <<conv, titled, log, cache, content, turns>>
  BY DEF Post
<1>2. StoredOK' /\ CacheOK'
  BY <1>1, StoredKept, CacheKept DEF IInv, StoredOK
<1>3. CASE turn[c].conv \notin conv
  BY <1>1, <1>2, <1>3, Ended DEF Post, IInv
<1>4. CASE turn[c].conv \in conv
  <2>1. PICK x : x = turn[c]
    OBVIOUS
  <2>2. x \in Turn /\ x.step = "asked" /\ TurnSound(x)
    BY <2>1, StepTells DEF IInv, TurnsOK, Post, At, InTurn, TurnSteps
  <2>3. AskedBy(x) \in Message
    BY <2>2, TurnFields DEF AskedBy, Message
  <2>4. PICK t : t = [x EXCEPT !.step = "posted", !.new = {AskedBy(x)}]
    OBVIOUS
  <2>5. "posted" \in TurnSteps
    BY DEF TurnSteps
  <2>6. Becomes(x, t, "posted", x.answer, {AskedBy(x)})
    BY <2>2, <2>3, <2>4, <2>5, Flushes
  <2>8. turn' = [turn EXCEPT ![c] = t]
    BY <2>1, <2>4, <1>4 DEF Post, Begin, Asked, AskedBy
  <2>9. AskedBy(t) = AskedBy(x) /\ OfTurn(t, AskedBy(x))
    BY <2>6 DEF AskedBy, SameRequest, OfTurn, Becomes
  <2>10. TurnSound(t)
    BY <2>6, <2>9 DEF Becomes, TurnSound, Generating, Providers
  <2>11. t.conv \in conv /\ ~DeleteLock(t.conv)
    BY <2>1, <2>6, <1>4 DEF Becomes, SameRequest, Post
  <2> QED BY <1>1, <1>2, <2>6, <2>8, <2>10, <2>11, OtherTurns DEF Becomes, IInv
<1> QED BY <1>3, <1>4

-----------------------------------------------------------------------------
(* The steps of an open turn *)

LEMMA Advances ==
    ASSUME IInv, NEW c \in Clients, Holding(c),
           NEW y \in Turn, SameRequest(turn[c], y), TurnSound(y),
           turn' = [turn EXCEPT ![c] = y],
           UNCHANGED <<conv, titled, log, content, turns>>
    PROVE  StoredOK' /\ TurnsOK' /\ LocksOK'
PROOF
<1>1. y.conv \in conv /\ ~DeleteLock(y.conv)
  BY DEF IInv, LocksOK, SameRequest
<1>2. TurnsOK' /\ LocksOK'
  BY <1>1, OtherTurns DEF IInv
<1>3. turns' \in 0..MaxTurns
  BY DEF IInv, StoredOK
<1> QED BY <1>2, <1>3, StoredKept DEF IInv

\* A turn that only moves on remains sound.
LEMMA MovesOn ==
    ASSUME NEW x \in Turn, TurnSound(x), x.step # "asked",
           NEW y, NEW s, s # "asked", Becomes(x, y, s, x.answer, x.new),
           Generating(y) => Generating(x),
           s = "done" => x.via = "stream"
    PROVE  TurnSound(y)
PROOF
<1>1. AskedBy(y) = AskedBy(x)
  BY DEF Becomes, SameRequest, AskedBy
<1>2. \A m \in y.new : OfTurn(y, m)
  BY DEF Becomes, SameRequest, OfTurn, TurnSound
<1>3. Generating(y) => Drafted(y)
  BY DEF Becomes, SameRequest, Drafted, TurnSound
<1>4. y.step = "done" => y.via # "json"
  BY DEF Becomes, SameRequest
<1>5. AskedBy(y) \in y.new /\ y.step # "asked"
  BY <1>1 DEF Becomes, TurnSound
<1> QED BY <1>2, <1>3, <1>4, <1>5 DEF TurnSound

\* The draft of an answer is begun or goes on.
LEMMA DraftsOn ==
    ASSUME NEW x \in Turn, TurnSound(x), x.step # "asked",
           NEW y, NEW s, s \notin {"asked", "done"},
           NEW a \in Answer, Becomes(x, y, s, a, x.new),
           a.kb = KbOf[x.conv], a.q = x.q, a.hist <=> x.hist
    PROVE  TurnSound(y)
PROOF
<1>1. AskedBy(y) = AskedBy(x)
  BY DEF Becomes, SameRequest, AskedBy
<1>2. \A m \in y.new : OfTurn(y, m)
  BY DEF Becomes, SameRequest, OfTurn, TurnSound
<1>3. Drafted(y)
  BY DEF Becomes, SameRequest, Drafted
<1>4. y.step # "done"
  BY DEF Becomes
<1>5. AskedBy(y) \in y.new /\ y.step # "asked"
  BY <1>1 DEF Becomes, TurnSound
<1> QED BY <1>2, <1>3, <1>4, <1>5 DEF TurnSound

\* The reply to the question of turn x.
ReplyTo(x, a) == [at |-> x.at, role |-> "assistant", via |-> x.via,
                  q |-> x.q, answer |-> a]

\* A fitting answer is flushed.
LEMMA RepliesOn ==
    ASSUME NEW x \in Turn, TurnSound(x), x.step # "asked",
           NEW a \in Answer, Fit(a, KbOf[x.conv], x.q), NEW y,
           y = [x EXCEPT !.step = "done", !.answer = a,
                         !.new = x.new \cup {ReplyTo(x, a)}]
    PROVE  y \in Turn /\ SameRequest(x, y) /\ TurnSound(y)
PROOF
<1>1. ReplyTo(x, a) \in Message
  BY TurnFields DEF ReplyTo, Message
<1>2. x.new \cup {ReplyTo(x, a)} \in SUBSET Message /\ "done" \in TurnSteps
  BY <1>1, TurnFields DEF TurnSteps
<1>3. Becomes(x, y, "done", a, x.new \cup {ReplyTo(x, a)})
  BY <1>2, Answers
<1>4. AskedBy(y) = AskedBy(x)
  BY <1>3 DEF Becomes, SameRequest, AskedBy
<1>5. AskedBy(y) \in y.new /\ y.step = "done"
  BY <1>3, <1>4 DEF Becomes, TurnSound
<1>6. OfTurn(y, ReplyTo(x, a)) /\ ReplyTo(x, a).role = "assistant"
  BY <1>3 DEF Becomes, SameRequest, OfTurn, ReplyTo
<1>7. \A m \in x.new : OfTurn(y, m)
  BY <1>3 DEF Becomes, SameRequest, OfTurn, TurnSound
<1>8. y.new = x.new \cup {ReplyTo(x, a)}
  BY <1>3 DEF Becomes
<1>9. TurnSound(y)
  BY <1>5, <1>6, <1>7, <1>8 DEF TurnSound, Generating, Providers
<1> QED BY <1>3, <1>9 DEF Becomes

-----------------------------------------------------------------------------
(* The actions of an open turn *)

LEMMA OpenTurn ==
    ASSUME IInv, NEW c \in Clients, turn[c].step \in TurnSteps
    PROVE  turn[c] \in Turn /\ TurnSound(turn[c])
PROOF BY StepTells DEF IInv, TurnsOK, InTurn

LEMMA MovingStep ==
    ASSUME IInv, NEW c \in Clients, NEW s \in TurnSteps \ {"asked"},
           Holding(c), Move(c, s),
           s \in Providers \cup {"generated"} => Generating(turn[c]),
           s = "done" => turn[c].via = "stream",
           UNCHANGED <<conv, titled, log, cache, content, turns>>
    PROVE  IInv'
PROOF
<1>1. PICK x : x = turn[c]
  OBVIOUS
<1>2. x \in Turn /\ TurnSound(x) /\ x.step # "asked"
  BY <1>1, OpenTurn DEF Holding, InTurn, At
<1>3. PICK y : y = [x EXCEPT !.step = s]
  OBVIOUS
<1>4. Becomes(x, y, s, x.answer, x.new)
  BY <1>2, <1>3, Moves
<1>5. Generating(y) => Generating(x)
  BY <1>1, <1>4 DEF Becomes, Generating
<1>6. TurnSound(y)
  BY <1>1, <1>2, <1>4, <1>5, MovesOn
<1>7. turn' = [turn EXCEPT ![c] = y]
  BY <1>1, <1>3 DEF Move
<1>8. StoredOK' /\ TurnsOK' /\ LocksOK'
  BY <1>1, <1>4, <1>6, <1>7, Advances DEF Becomes
<1> QED BY <1>8, CacheKept DEF IInv

LEMMA MoveSteps ==
    ASSUME IInv, NEW c \in Clients,
           SetTitle(c) \/ Miss(c) \/ StreamEnds(c) \/ StreamFails(c) \/ StreamGivesUp(c)
    PROVE  IInv'
PROOF
<1>1. UNCHANGED <<conv, titled, log, cache, content, turns>>
  BY DEF SetTitle, Miss, StreamEnds, StreamFails, StreamGivesUp
<1>2. Holding(c)
  BY DEF SetTitle, Miss, StreamEnds, StreamFails, StreamGivesUp, Holding,
         InTurn, At, TurnSteps, Providers
<1>3. CASE SetTitle(c)
  <2>1. Move(c, "titled") /\ "titled" \in TurnSteps \ {"asked"}
    BY <1>3 DEF SetTitle, TurnSteps
  <2>2. "titled" \notin Providers \cup {"generated"}
    BY DEF Providers
  <2> QED BY <1>1, <1>2, <2>1, <2>2, MovingStep
<1>4. CASE Miss(c)
  <2>1. Move(c, "missed") /\ "missed" \in TurnSteps \ {"asked"}
    BY <1>4 DEF Miss, TurnSteps
  <2>2. "missed" \notin Providers \cup {"generated"}
    BY DEF Providers
  <2> QED BY <1>1, <1>2, <2>1, <2>2, MovingStep
<1>5. CASE StreamEnds(c)
  <2>1. Move(c, "generated") /\ "generated" \in TurnSteps \ {"asked"}
    BY <1>5 DEF StreamEnds, TurnSteps
  <2>2. Generating(turn[c])
    BY <1>5 DEF StreamEnds, Generating
  <2> QED BY <1>1, <1>2, <2>1, <2>2, MovingStep
<1>6. CASE StreamFails(c)
  <2>1. Move(c, "fallback") /\ "fallback" \in TurnSteps \ {"asked"}
    BY <1>6 DEF StreamFails, TurnSteps
  <2>2. Generating(turn[c])
    BY <1>6 DEF StreamFails, Generating, Providers, At
  <2> QED BY <1>1, <1>2, <2>1, <2>2, MovingStep
<1>7. CASE StreamGivesUp(c)
  <2>1. Move(c, "done") /\ "done" \in TurnSteps \ {"asked"}
    BY <1>7 DEF StreamGivesUp, TurnSteps
  <2>2. turn[c].via = "stream" /\ "done" \notin Providers \cup {"generated"}
    BY <1>7 DEF StreamGivesUp, Providers
  <2> QED BY <1>1, <1>2, <2>1, <2>2, MovingStep
<1> QED BY <1>3, <1>4, <1>5, <1>6, <1>7

\* A search that fails ends a JSON turn and sends a stream to its commit.
LEMMA RetrieveFailsStep ==
    ASSUME IInv, NEW c \in Clients, RetrieveFails(c)
    PROVE  IInv'
PROOF
<1>1. UNCHANGED <<conv, titled, log, cache, content, turns>> /\ At(c, "missed")
  BY DEF RetrieveFails
<1>2. Holding(c)
  BY <1>1 DEF Holding, InTurn, At, TurnSteps
<1>3. CASE End(c)
  <2>1. StoredOK' /\ CacheOK'
    BY <1>1, StoredKept, CacheKept DEF IInv, StoredOK
  <2> QED BY <1>1, <1>3, <2>1, Ended DEF IInv
<1>4. CASE ~End(c)
  <2>1. Move(c, "done") /\ "done" \in TurnSteps \ {"asked"}
    BY <1>4 DEF RetrieveFails, TurnSteps
  <2>2. turn[c].via = "stream" /\ "done" \notin Providers \cup {"generated"}
    BY <1>4 DEF RetrieveFails, Providers
  <2> QED BY <1>1, <1>2, <2>1, <2>2, MovingStep
<1> QED BY <1>3, <1>4

LEMMA ChatFailsStep ==
    ASSUME IInv, NEW c \in Clients, ChatFails(c)
    PROVE  IInv'
PROOF
<1>1. UNCHANGED <<conv, titled, log, cache, content, turns>> /\ At(c, "primary")
  BY DEF ChatFails
<1>2. Holding(c) /\ Generating(turn[c]) /\ turn[c].step \in TurnSteps
  BY <1>1 DEF Holding, InTurn, At, TurnSteps, Generating, Providers
<1>3. CASE ~(turn[c].tries < MaxRetries)
  <2>1. Move(c, "fallback") /\ "fallback" \in TurnSteps \ {"asked"}
    BY <1>3 DEF ChatFails, TurnSteps
  <2> QED BY <1>1, <1>2, <2>1, MovingStep
<1>4. CASE turn[c].tries < MaxRetries
  <2>1. PICK x : x = turn[c]
    OBVIOUS
  <2>2. x \in Turn /\ TurnSound(x) /\ x.step = "primary"
    BY <2>1, <1>1, <1>2, OpenTurn DEF At
  <2>3. x.tries + 1 \in 0..MaxRetries
    BY <2>1, <2>2, <1>4, TurnFields, BoundAssumption
  <2>4. PICK y : y = [x EXCEPT !.tries = x.tries + 1]
    OBVIOUS
  <2>5. Becomes(x, y, x.step, x.answer, x.new)
    BY <2>2, <2>3, <2>4, Retries
  <2>6. Generating(y) => Generating(x)
    BY <2>5 DEF Becomes, Generating
  <2>7. TurnSound(y)
    BY <2>2, <2>5, <2>6, MovesOn
  <2>8. turn' = [turn EXCEPT ![c] = y]
    BY <2>1, <2>4, <1>4 DEF ChatFails, Begin
  <2>9. StoredOK' /\ TurnsOK' /\ LocksOK'
    BY <1>1, <1>2, <2>1, <2>5, <2>7, <2>8, Advances DEF Becomes
  <2> QED BY <1>1, <2>9, CacheKept DEF IInv
<1> QED BY <1>3, <1>4

LEMMA DraftingStep ==
    ASSUME IInv, NEW c \in Clients, Holding(c), NEW s \in TurnSteps \ {"asked", "done"},
           NEW a \in Answer, a.kb = Kb(c), a.q = turn[c].q, a.hist <=> turn[c].hist,
           turn' = [turn EXCEPT ![c] = [turn[c] EXCEPT !.step = s, !.answer = a]],
           UNCHANGED <<conv, titled, log, cache, content, turns>>
    PROVE  IInv'
PROOF
<1>1. PICK x : x = turn[c]
  OBVIOUS
<1>2. x \in Turn /\ TurnSound(x) /\ x.step # "asked"
  BY <1>1, OpenTurn DEF Holding, InTurn, At
<1>3. PICK y : y = [x EXCEPT !.step = s, !.answer = a]
  OBVIOUS
<1>4. Becomes(x, y, s, a, x.new)
  BY <1>2, <1>3, Drafts
<1>5. TurnSound(y)
  BY <1>1, <1>2, <1>4, DraftsOn DEF Kb
<1>6. StoredOK' /\ TurnsOK' /\ LocksOK'
  BY <1>1, <1>3, <1>4, <1>5, Advances DEF Becomes
<1> QED BY <1>6, CacheKept DEF IInv

LEMMA RetrieveStep ==
    ASSUME IInv, NEW c \in Clients, Retrieve(c)
    PROVE  IInv'
PROOF
<1>1. Holding(c) /\ turn[c].step \in TurnSteps
  BY DEF Retrieve, Holding, InTurn, At, TurnSteps
<1>2. turn[c] \in Turn
  BY <1>1, OpenTurn
<1>3. PICK h \in BOOLEAN : h = turn[c].hist
  BY <1>2, TurnFields
<1>4. PICK a : a = [kb |-> Kb(c), q |-> turn[c].q, ver |-> content[Kb(c)],
                    hist |-> h, by |-> {}, safe |-> FALSE]
  OBVIOUS
<1>5. Kb(c) \in Kbs /\ turn[c].q \in Questions
  BY <1>2, TurnFields, KbOfAssumption DEF Kb
<1>6. content[Kb(c)] \in 0..MaxChanges
  BY <1>5 DEF IInv, StoredOK
<1>7. a \in Answer
  BY <1>4, <1>5, <1>6 DEF Answer
<1>8. a.kb = Kb(c) /\ a.q = turn[c].q /\ (a.hist <=> h)
  BY <1>4
<1>9. turn' = [turn EXCEPT ![c] = [turn[c] EXCEPT !.step = "primary", !.answer = a]]
  BY <1>3, <1>4 DEF Retrieve, Begin
<1>10. UNCHANGED <<conv, titled, log, cache, content, turns>>
  BY DEF Retrieve
<1>11. "primary" \in TurnSteps \ {"asked", "done"}
  BY DEF TurnSteps
<1> QED BY <1>1, <1>3, <1>7, <1>8, <1>9, <1>10, <1>11, DraftingStep

LEMMA WrittenBy ==
    ASSUME NEW a \in Answer, NEW b \in SUBSET Providers
    PROVE  LET d == [a EXCEPT !.by = b] IN
           d \in Answer /\ d.kb = a.kb /\ d.q = a.q /\ (d.hist <=> a.hist)
PROOF BY DEF Answer

LEMMA ChatStreamStep ==
    ASSUME IInv, NEW c \in Clients, Chat(c) \/ Stream(c)
    PROVE  IInv'
PROOF
<1>1. turn[c].step \in Providers
      /\ UNCHANGED <<conv, titled, log, cache, content, turns>>
  BY DEF Chat, Stream
<1>2. Holding(c) /\ turn[c].step \in TurnSteps \ {"asked", "done"}
      /\ Generating(turn[c])
  BY <1>1 DEF Holding, InTurn, At, TurnSteps, Providers, Generating
<1>3. turn[c] \in Turn /\ Drafted(turn[c])
  BY <1>2, OpenTurn DEF TurnSound
<1>4. CASE Chat(c)
  <2>1. PICK d : d = [turn[c].answer EXCEPT !.by = {turn[c].step}]
    OBVIOUS
  <2>2. d \in Answer /\ d.kb = turn[c].answer.kb /\ d.q = turn[c].answer.q
        /\ (d.hist <=> turn[c].answer.hist)
    BY <1>1, <1>3, <2>1, WrittenBy DEF Drafted
  <2>3. turn' = [turn EXCEPT ![c] = [turn[c] EXCEPT !.step = "generated", !.answer = d]]
    BY <1>3, <1>4, <2>1 DEF Chat, Begin, Turn
  <2>4. "generated" \in TurnSteps \ {"asked", "done"}
    BY DEF TurnSteps
  <2> QED BY <1>1, <1>2, <1>3, <2>2, <2>3, <2>4, DraftingStep DEF Drafted, Kb
<1>5. CASE Stream(c)
  <2>1. PICK d : d = [turn[c].answer EXCEPT !.by = turn[c].answer.by \cup {turn[c].step}]
    OBVIOUS
  <2>2. turn[c].answer.by \cup {turn[c].step} \in SUBSET Providers
    BY <1>1, <1>3 DEF Drafted, Answer
  <2>3. d \in Answer /\ d.kb = turn[c].answer.kb /\ d.q = turn[c].answer.q
        /\ (d.hist <=> turn[c].answer.hist)
    BY <1>3, <2>1, <2>2, WrittenBy DEF Drafted
  <2>4. turn' = [turn EXCEPT ![c] = [turn[c] EXCEPT !.answer = d]]
    BY <1>3, <1>5, <2>1 DEF Stream, Begin, Turn
  <2>5. turn' = [turn EXCEPT ![c] = [turn[c] EXCEPT !.step = turn[c].step, !.answer = d]]
    BY <1>3, <2>4 DEF Turn
  <2> QED BY <1>1, <1>2, <1>3, <2>3, <2>5, DraftingStep DEF Drafted, Kb
<1> QED BY <1>4, <1>5

LEMMA ReplyingStep ==
    ASSUME IInv, NEW c \in Clients, Holding(c),
           NEW a \in Answer, Fit(a, Kb(c), turn[c].q),
           turn' = [turn EXCEPT ![c] =
               [turn[c] EXCEPT !.step = "done", !.answer = a,
                               !.new = turn[c].new \cup {Replied(c, a)}]],
           UNCHANGED <<conv, titled, log, content, turns>>
    PROVE  StoredOK' /\ TurnsOK' /\ LocksOK'
PROOF
<1>1. PICK x : x = turn[c]
  OBVIOUS
<1>2. x \in Turn /\ TurnSound(x) /\ x.step # "asked"
  BY <1>1, OpenTurn DEF Holding, InTurn, At
<1>3. PICK y : y = [x EXCEPT !.step = "done", !.answer = a,
                             !.new = x.new \cup {ReplyTo(x, a)}]
  OBVIOUS
<1>4. Fit(a, KbOf[x.conv], x.q)
  BY <1>1 DEF Kb
<1>5. y \in Turn /\ SameRequest(x, y) /\ TurnSound(y)
  BY <1>2, <1>3, <1>4, RepliesOn
<1>6. Replied(c, a) = ReplyTo(x, a)
  BY <1>1 DEF Replied, ReplyTo
<1>7. turn' = [turn EXCEPT ![c] = y]
  BY <1>1, <1>3, <1>6
<1> QED BY <1>1, <1>5, <1>7, Advances

LEMMA HitStep ==
    ASSUME IInv, NEW c \in Clients, Hit(c)
    PROVE  IInv'
PROOF
<1>1. Holding(c) /\ turn[c].step \in TurnSteps
  BY DEF Hit, Holding, InTurn, At, TurnSteps
<1>2. turn[c] \in Turn
  BY <1>1, OpenTurn
<1>3. Kb(c) \in Kbs /\ turn[c].q \in Questions
  BY <1>2, TurnFields, KbOfAssumption DEF Kb
<1>4. PICK a : a = cache[Kb(c)][turn[c].q]
  OBVIOUS
<1>5. a # None
  BY <1>4 DEF Hit
<1>6. a \in Answer /\ Fit(a, Kb(c), turn[c].q)
  BY <1>3, <1>4, <1>5 DEF IInv, CacheOK
<1>7. UNCHANGED <<conv, titled, log, cache, content, turns>>
  BY DEF Hit
<1>8. turn' = [turn EXCEPT ![c] =
               [turn[c] EXCEPT !.step = "done", !.answer = a,
                               !.new = turn[c].new \cup {Replied(c, a)}]]
  BY <1>4 DEF Hit, Begin
<1>9. StoredOK' /\ TurnsOK' /\ LocksOK'
  BY <1>1, <1>6, <1>7, <1>8, ReplyingStep
<1> QED BY <1>7, <1>9, CacheKept DEF IInv

\* The guardrails change nothing but the text.
LEMMA CheckedAnswer ==
    ASSUME NEW a \in Answer
    PROVE  LET d == [a EXCEPT !.safe = TRUE] IN
           /\ d \in Answer /\ d.kb = a.kb /\ d.q = a.q
           /\ (d.hist <=> a.hist) /\ (d.safe <=> TRUE)
PROOF BY DEF Answer

LEMMA CacheWritten ==
    ASSUME CacheOK, NEW k \in Kbs, NEW q \in Questions,
           NEW a \in Answer \cup {None},
           a # None => Fit(a, k, q) /\ ~a.hist,
           cache' = Stored(k, q, a)
    PROVE  CacheOK'
PROOF
<1>1. cache' \in [Kbs -> [Questions -> Answer \cup {None}]]
  BY DEF CacheOK, Stored
<1>2. ASSUME NEW i \in Kbs, NEW j \in Questions, cache'[i][j] # None
      PROVE  Fit(cache'[i][j], i, j) /\ ~cache'[i][j].hist
  <2>1. CASE i = k /\ j = q
    <3>1. cache'[i][j] = a
      BY <2>1 DEF CacheOK, Stored
    <3> QED BY <3>1, <2>1, <1>2
  <2>2. CASE ~(i = k /\ j = q)
    <3>1. cache'[i][j] = cache[i][j]
      BY <2>2 DEF CacheOK, Stored
    <3> QED BY <3>1, <1>2 DEF CacheOK
  <2> QED BY <2>1, <2>2
<1> QED BY <1>1, <1>2 DEF CacheOK

LEMMA ReplyStep ==
    ASSUME IInv, NEW c \in Clients, Reply(c)
    PROVE  IInv'
PROOF
<1>1. Holding(c) /\ turn[c].step \in TurnSteps /\ Generating(turn[c])
  BY DEF Reply, Holding, InTurn, At, TurnSteps, Generating
<1>2. turn[c] \in Turn /\ Drafted(turn[c])
  BY <1>1, OpenTurn DEF TurnSound
<1>3. Kb(c) \in Kbs /\ turn[c].q \in Questions
  BY <1>2, TurnFields, KbOfAssumption DEF Kb
<1>4. PICK a : a = Checked(c)
  OBVIOUS
<1>5. /\ a \in Answer /\ a.kb = turn[c].answer.kb /\ a.q = turn[c].answer.q
      /\ (a.hist <=> turn[c].answer.hist) /\ (a.safe <=> TRUE)
  BY <1>2, <1>4, CheckedAnswer DEF Checked, Drafted
<1>6. Fit(a, Kb(c), turn[c].q) /\ (a.hist <=> turn[c].hist)
  BY <1>2, <1>5 DEF Fit, Drafted, Kb
<1>7. UNCHANGED <<conv, titled, log, content, turns>>
  BY DEF Reply
<1>8. turn' = [turn EXCEPT ![c] =
               [turn[c] EXCEPT !.step = "done", !.answer = a,
                               !.new = turn[c].new \cup {Replied(c, a)}]]
  BY <1>4 DEF Reply, Begin
<1>9. StoredOK' /\ TurnsOK' /\ LocksOK'
  BY <1>1, <1>5, <1>6, <1>7, <1>8, ReplyingStep
<1>10. (UsesCache(c) /\ cache' = Stored(Kb(c), turn[c].q, a)) \/ UNCHANGED cache
  BY <1>4 DEF Reply
<1>11. CacheOK'
  BY <1>3, <1>5, <1>6, <1>10, CacheWritten, CacheKept DEF IInv, UsesCache
<1> QED BY <1>9, <1>11 DEF IInv

LEMMA EndStep ==
    ASSUME IInv, NEW c \in Clients, ChatGivesUp(c) \/ Abort(c)
    PROVE  IInv'
PROOF
<1>1. End(c) /\ UNCHANGED <<conv, titled, log, cache, content, turns>>
  BY DEF ChatGivesUp, Abort
<1>2. StoredOK' /\ CacheOK'
  BY <1>1, StoredKept, CacheKept DEF IInv, StoredOK
<1> QED BY <1>1, <1>2, Ended DEF IInv

-----------------------------------------------------------------------------
(* The actions that commit *)

LEMMA CommitStep ==
    ASSUME IInv, NEW c \in Clients, Commit(c)
    PROVE  IInv'
PROOF
<1>1. PICK x : x = turn[c]
  OBVIOUS
<1>2. Holding(c) /\ x.step = "done"
  BY <1>1 DEF Commit, Holding, InTurn, At, TurnSteps
<1>3. x \in Turn /\ TurnSound(x)
  BY <1>1, <1>2, OpenTurn DEF Holding, InTurn
<1>4. PICK v \in Convs : v = x.conv
  BY <1>3, TurnFields
<1>5. v \in conv
  BY <1>1, <1>2, <1>4 DEF IInv, LocksOK
<1>6. /\ log' = [log EXCEPT ![v] = @ \cup x.new] /\ titled' = titled \cup {v}
      /\ UNCHANGED <<conv, cache, content, turns>> /\ End(c)
  BY <1>1, <1>4 DEF Commit
<1>7. log \in [Convs -> SUBSET Message] /\ x.new \subseteq Message
  BY <1>3, TurnFields DEF IInv, StoredOK
<1>8. /\ log'[v] = log[v] \cup x.new
      /\ \A u \in Convs \ {v} : log'[u] = log[u]
      /\ log' \in [Convs -> SUBSET Message]
  BY <1>6, <1>7
<1>9. /\ AskedBy(x) \in x.new /\ AskedBy(x).role = "user"
      /\ AskedBy(x).at = x.at /\ AskedBy(x).q = x.q
  BY <1>2, <1>3 DEF TurnSound, AskedBy
<1>10. \A m \in x.new : OfTurn(x, m)
  BY <1>3 DEF TurnSound
<1>11. x.via = "json" => \E m \in x.new : m.role = "assistant"
  BY <1>2, <1>3 DEF TurnSound
<1>12. RepliesBelong'
  <2> SUFFICES ASSUME NEW u \in Convs, NEW m \in log'[u], m.role = "assistant"
               PROVE  /\ m.answer.kb = KbOf[u] /\ m.answer.q = m.q
                      /\ \E n \in log'[u] : n.role = "user" /\ n.at = m.at /\ n.q = m.q
    BY DEF RepliesBelong, Replies
  <2>1. CASE m \in log[u]
    <3>1. m.answer.kb = KbOf[u] /\ m.answer.q = m.q
          /\ \E n \in log[u] : n.role = "user" /\ n.at = m.at /\ n.q = m.q
      BY <2>1 DEF IInv, StoredOK, LogsOK, RepliesBelong, Replies
    <3> QED BY <3>1, <1>8
  <2>2. CASE m \notin log[u]
    <3>1. u = v /\ m \in x.new
      BY <2>2, <1>8
    <3> QED BY <3>1, <1>4, <1>8, <1>9, <1>10 DEF OfTurn, Fit
  <2> QED BY <2>1, <2>2
<1>13. JsonTurnsAreWhole'
  <2> SUFFICES ASSUME NEW u \in Convs, NEW n \in log'[u], n.role = "user",
                      n.via = "json"
               PROVE  \E m \in log'[u] : m.role = "assistant" /\ m.at = n.at
    BY DEF JsonTurnsAreWhole, Replies
  <2>1. CASE n \in log[u]
    <3>1. \E m \in log[u] : m.role = "assistant" /\ m.at = n.at
      BY <2>1 DEF IInv, StoredOK, LogsOK, JsonTurnsAreWhole, Replies
    <3> QED BY <3>1, <1>8
  <2>2. CASE n \notin log[u]
    <3>1. u = v /\ n \in x.new
      BY <2>2, <1>8
    <3>2. PICK m \in x.new : m.role = "assistant"
      BY <3>1, <1>10, <1>11 DEF OfTurn
    <3> QED BY <3>1, <3>2, <1>8, <1>10 DEF OfTurn
  <2> QED BY <2>1, <2>2
<1>14. NoOrphanMessages'
  BY <1>5, <1>6, <1>8 DEF NoOrphanMessages, IInv, StoredOK, LogsOK
<1>15. ASSUME NEW u \in Convs, NEW m \in Replies(u)' PROVE m.answer.safe <=> TRUE
  <2>1. m \in log'[u] /\ m.role = "assistant"
    BY DEF Replies
  <2>2. CASE m \in log[u]
    BY <2>1, <2>2 DEF IInv, StoredOK, LogsOK, Replies
  <2>3. CASE m \notin log[u]
    BY <2>1, <2>3, <1>8, <1>10 DEF OfTurn, Fit
  <2> QED BY <2>2, <2>3
<1>16. LogsOK'
  BY <1>12, <1>13, <1>14, <1>15 DEF LogsOK
<1>17. StoredOK'
  BY <1>6, <1>8, <1>16 DEF StoredOK, IInv
<1>18. TurnsOK' /\ LocksOK'
  BY <1>6, Ended DEF IInv
<1> QED BY <1>6, <1>17, <1>18, CacheKept DEF IInv

LEMMA DeleteStep ==
    ASSUME IInv, NEW c \in Clients, NEW V \in SUBSET Convs, Delete(c, V)
    PROVE  IInv'
PROOF
<1>1. PICK t : t = [step |-> "deleting", convs |-> V]
  OBVIOUS
<1>2. turn' = [turn EXCEPT ![c] = t]
      /\ UNCHANGED <<conv, titled, log, cache, content, turns>>
  BY <1>1 DEF Delete, Begin
<1>3. t \in Deleting /\ t.step = "deleting" /\ t.convs = V /\ t.step \notin TurnSteps
  BY <1>1 DEF Deleting, TurnSteps
<1>4. TurnsOK'
  BY <1>2, <1>3 DEF TurnsOK, InTurn, IInv
<1>5. \A v \in V : ~ShareLock(v)
  BY DEF Delete, Deletable
<1>6. ASSUME NEW d \in Clients, Holding(d)' PROVE Holding(d) /\ d # c /\ turn'[d] = turn[d]
  BY <1>2, <1>3, <1>6 DEF Holding, InTurn, At, TurnsOK, IInv
<1>7. ASSUME NEW d \in Clients, Holding(d)', DeleteLock(turn[d].conv)' PROVE FALSE
  <2>1. PICK e \in Clients : turn'[e].step = "deleting" /\ turn[d].conv \in turn'[e].convs
    BY <1>6, <1>7 DEF DeleteLock, At
  <2>2. CASE e = c
    <3>1. turn[d].conv \in V
      BY <2>1, <2>2, <1>2, <1>3 DEF TurnsOK, IInv
    <3>2. ShareLock(turn[d].conv)
      BY <1>6, <1>7 DEF ShareLock, Holding
    <3> QED BY <3>1, <3>2, <1>5
  <2>3. CASE e # c
    <3>1. DeleteLock(turn[d].conv)
      BY <2>1, <2>3, <1>2 DEF DeleteLock, At, TurnsOK, IInv
    <3> QED BY <3>1, <1>6, <1>7 DEF IInv, LocksOK
  <2> QED BY <2>2, <2>3
<1>8. LocksOK'
  BY <1>2, <1>6, <1>7 DEF LocksOK, IInv
<1>9. StoredOK' /\ CacheOK'
  BY <1>2, StoredKept, CacheKept DEF IInv, StoredOK
<1> QED BY <1>4, <1>8, <1>9 DEF IInv

LEMMA DeleteCommitStep ==
    ASSUME IInv, NEW c \in Clients, DeleteCommit(c)
    PROVE  IInv'
PROOF
<1>1. PICK V : V = turn[c].convs
  OBVIOUS
<1>2. /\ conv' = conv \ V /\ titled' = titled \ V
      /\ log' = [v \in Convs |-> IF v \in V THEN {} ELSE log[v]]
      /\ End(c) /\ At(c, "deleting") /\ UNCHANGED <<cache, content, turns>>
  BY <1>1 DEF DeleteCommit
<1>3. log \in [Convs -> SUBSET Message]
  BY DEF IInv, StoredOK
<1>4. /\ log' \in [Convs -> SUBSET Message]
      /\ \A v \in V \cap Convs : log'[v] = {}
      /\ \A v \in Convs \ V : log'[v] = log[v]
  BY <1>2, <1>3
<1>5. RepliesBelong' /\ JsonTurnsAreWhole' /\ NoOrphanMessages'
  BY <1>2, <1>4 DEF RepliesBelong, JsonTurnsAreWhole, NoOrphanMessages, Replies,
                    IInv, StoredOK, LogsOK
<1>6. \A v \in Convs : \A m \in Replies(v)' : m.answer.safe <=> TRUE
  BY <1>4 DEF Replies, IInv, StoredOK, LogsOK
<1>7. StoredOK'
  BY <1>2, <1>4, <1>5, <1>6 DEF StoredOK, LogsOK, IInv
<1>8. Idle.step \notin TurnSteps /\ Idle.step # "deleting"
  BY DEF Idle, TurnSteps
<1>9. TurnsOK'
  BY <1>2, <1>8 DEF TurnsOK, InTurn, End, IInv
<1>10. ASSUME NEW v, DeleteLock(v)' PROVE DeleteLock(v)
  BY <1>2, <1>8, <1>10 DEF DeleteLock, At, TurnsOK, End, IInv
<1>11. ASSUME NEW d \in Clients, Holding(d)'
       PROVE  Holding(d) /\ turn'[d] = turn[d]
  BY <1>2, <1>8, <1>11 DEF Holding, InTurn, At, TurnsOK, End, IInv
<1>12. ASSUME NEW d \in Clients, Holding(d)' PROVE turn[d].conv \notin V
  BY <1>1, <1>2, <1>11, <1>12 DEF LocksOK, DeleteLock, IInv
<1>13. LocksOK'
  BY <1>2, <1>10, <1>11, <1>12 DEF LocksOK, IInv
<1> QED BY <1>2, <1>7, <1>9, <1>13, CacheKept DEF IInv

LEMMA ChangeStep ==
    ASSUME IInv, NEW c \in Clients, NEW k \in Kbs, Change(c, k)
    PROVE  IInv'
PROOF
<1>1. PICK t : t = [step |-> "changing", kb |-> k]
  OBVIOUS
<1>2. /\ turn' = [turn EXCEPT ![c] = t] /\ cache' = Invalidated(k)
      /\ UNCHANGED <<conv, titled, log, content, turns>>
  BY <1>1 DEF Change, Begin
<1>3. /\ t \in Changing /\ t.step = "changing" /\ t.step \notin TurnSteps
      /\ t.step # "deleting"
  BY <1>1 DEF Changing, TurnSteps
<1>4. TurnsOK'
  BY <1>2, <1>3 DEF TurnsOK, InTurn, IInv
<1>5. ASSUME NEW v, DeleteLock(v)' PROVE DeleteLock(v)
  BY <1>2, <1>3, <1>5 DEF DeleteLock, At, TurnsOK, IInv
<1>6. ASSUME NEW d \in Clients, Holding(d)'
      PROVE  Holding(d) /\ turn'[d] = turn[d]
  BY <1>2, <1>3, <1>6 DEF Holding, InTurn, At, TurnsOK, IInv
<1>7. LocksOK'
  BY <1>2, <1>5, <1>6 DEF LocksOK, IInv
<1>8. cache \in [Kbs -> [Questions -> Answer \cup {None}]]
  BY DEF IInv, CacheOK
<1>9. cache' = [cache EXCEPT ![k] = [q \in Questions |->
                    IF PrefixMatches(q) THEN None ELSE cache[k][q]]]
  BY <1>2 DEF Invalidated
<1>10. [q \in Questions |-> IF PrefixMatches(q) THEN None ELSE cache[k][q]]
          \in [Questions -> Answer \cup {None}]
  BY <1>8
<1>11. cache' \in [Kbs -> [Questions -> Answer \cup {None}]]
  BY <1>8, <1>9, <1>10
<1>12. \A i \in Kbs, q \in Questions : cache'[i][q] \in {None, cache[i][q]}
  BY <1>8, <1>9
<1>13. CacheOK'
  BY <1>11, <1>12 DEF CacheOK, IInv
<1>14. StoredOK'
  BY <1>2, StoredKept DEF IInv, StoredOK
<1> QED BY <1>4, <1>7, <1>13, <1>14 DEF IInv

LEMMA ChangeCommitStep ==
    ASSUME IInv, NEW c \in Clients, ChangeCommit(c)
    PROVE  IInv'
PROOF
<1>1. UNCHANGED <<conv, titled, log, cache, turns>> /\ End(c) /\ At(c, "changing")
  BY DEF ChangeCommit
<1>2. PICK k : k = turn[c].kb
  OBVIOUS
<1>3. content' = [content EXCEPT ![k] = IF @ < MaxChanges THEN @ + 1 ELSE @]
  BY <1>2 DEF ChangeCommit
<1>4. content' \in [Kbs -> 0..MaxChanges]
  <2>1. k \in Kbs
    BY <1>1, <1>2, StepTells DEF IInv, Changing
  <2>2. content \in [Kbs -> 0..MaxChanges]
    BY DEF IInv, StoredOK
  <2>3. PICK n : n = IF content[k] < MaxChanges THEN content[k] + 1 ELSE content[k]
    OBVIOUS
  <2>4. n \in 0..MaxChanges
    BY <2>1, <2>2, <2>3, BoundAssumption
  <2>5. content' = [content EXCEPT ![k] = n]
    BY <1>3, <2>3
  <2> QED BY <2>2, <2>4, <2>5
<1>5. LogsOK'
  BY <1>1 DEF IInv, StoredOK, LogsOK, RepliesBelong, JsonTurnsAreWhole,
              NoOrphanMessages, Replies
<1>6. StoredOK'
  BY <1>1, <1>4, <1>5 DEF StoredOK, IInv
<1> QED BY <1>1, <1>6, Ended, CacheKept DEF IInv

LEMMA ExpireStep ==
    ASSUME IInv, NEW k \in Kbs, NEW q \in Questions, Expire(k, q)
    PROVE  IInv'
PROOF
<1>1. UNCHANGED <<conv, titled, log, content, turns, turn>>
      /\ cache' = Stored(k, q, None)
  BY DEF Expire
<1>2. CacheOK'
  BY <1>1, CacheWritten DEF IInv
<1>3. StoredOK'
  BY <1>1, StoredKept DEF IInv, StoredOK
<1>4. TurnsOK' /\ LocksOK'
  BY <1>1 DEF IInv, TurnsOK, LocksOK, InTurn, Holding, At, DeleteLock
<1> QED BY <1>2, <1>3, <1>4 DEF IInv

-----------------------------------------------------------------------------
(* The theorems *)

\* Every behaviour of Conversation keeps the inductive invariant.
THEOREM ConversationCorrect == Spec => []IInv
PROOF
<1>1. Init => IInv
  <2> SUFFICES ASSUME Init PROVE IInv
    OBVIOUS
  <2>1. StoredOK
    <3>1. turns \in 0..MaxTurns /\ content \in [Kbs -> 0..MaxChanges]
      BY BoundAssumption DEF Init
    <3>2. LogsOK
      BY DEF Init, LogsOK, RepliesBelong, JsonTurnsAreWhole, NoOrphanMessages, Replies
    <3> QED BY <3>1, <3>2 DEF Init, StoredOK
  <2>2. CacheOK
    BY DEF Init, CacheOK
  <2>3. \A c \in Clients : turn[c] = Idle /\ turn[c].step \notin TurnSteps
    BY DEF Init, Idle, TurnSteps
  <2>4. TurnsOK /\ LocksOK
    BY <2>3 DEF Init, TurnsOK, LocksOK, Holding, InTurn
  <2> QED BY <2>1, <2>2, <2>4 DEF IInv
<1>2. IInv /\ [Next]_vars => IInv'
  <2> SUFFICES ASSUME IInv, [Next]_vars PROVE IInv'
    OBVIOUS
  <2>1. CASE UNCHANGED vars
    <3>1. StoredOK' /\ CacheOK'
      BY <2>1, StoredKept, CacheKept DEF vars, IInv, StoredOK
    <3>2. TurnsOK' /\ LocksOK'
      BY <2>1 DEF vars, IInv, TurnsOK, LocksOK, InTurn, Holding, At, DeleteLock
    <3> QED BY <3>1, <3>2 DEF IInv
  <2>2. ASSUME NEW c \in Clients, Open(c) PROVE IInv'
    BY <2>2, AskStep, DeleteStep, ChangeStep DEF Open
  <2>3. ASSUME NEW c \in Clients, Proceed(c) PROVE IInv'
    <3>1. CASE Post(c) \/ Hit(c) \/ Retrieve(c) \/ Chat(c) \/ Stream(c) \/ Reply(c)
      BY <3>1, PostStep, HitStep, RetrieveStep, ChatStreamStep, ReplyStep
    <3>2. CASE SetTitle(c) \/ Miss(c) \/ StreamEnds(c) \/ StreamFails(c)
               \/ StreamGivesUp(c)
      BY <3>2, MoveSteps
    <3>3. CASE RetrieveFails(c) \/ ChatFails(c) \/ ChatGivesUp(c)
      BY <3>3, RetrieveFailsStep, ChatFailsStep, EndStep
    <3>4. CASE Commit(c) \/ DeleteCommit(c) \/ ChangeCommit(c)
      BY <3>4, CommitStep, DeleteCommitStep, ChangeCommitStep
    <3> QED BY <2>3, <3>1, <3>2, <3>3, <3>4 DEF Proceed
  <2>4. ASSUME NEW c \in Clients, Abort(c) PROVE IInv'
    BY <2>4, EndStep
  <2>5. ASSUME NEW k \in Kbs, NEW q \in Questions, Expire(k, q) PROVE IInv'
    BY <2>5, ExpireStep
  <2> QED BY <2>1, <2>2, <2>3, <2>4, <2>5 DEF Next
<1> QED BY <1>1, <1>2, PTL DEF Spec

\* The state always has its type: attempts, turns and changes stay within
\* their bounds, and no request is ever at a step its handler does not have.
THEOREM ConversationTypes == Spec => []TypeOK
PROOF
<1>1. IInv => TypeOK
  BY DEF IInv, TypeOK, StoredOK, CacheOK, TurnsOK
<1> QED BY <1>1, ConversationCorrect, PTL

\* A reply answers its own turn's question from its own conversation's
\* knowledge base, also when it comes out of the cache.
THEOREM RepliesAlwaysBelong == Spec => []RepliesBelong
PROOF
<1>1. IInv => RepliesBelong
  BY DEF IInv, StoredOK, LogsOK
<1> QED BY <1>1, ConversationCorrect, PTL

\* The JSON endpoint commits a question with its reply or not at all.
THEOREM JsonTurnsAlwaysWhole == Spec => []JsonTurnsAreWhole
PROOF
<1>1. IInv => JsonTurnsAreWhole
  BY DEF IInv, StoredOK, LogsOK
<1> QED BY <1>1, ConversationCorrect, PTL

\* No answer that a history has shaped is ever in the response cache.
THEOREM CacheAlwaysFirstAnswers == Spec => []CacheHoldsFirstAnswers
PROOF
<1>1. IInv => CacheHoldsFirstAnswers
  BY DEF IInv, CacheOK, Fit, CacheHoldsFirstAnswers
<1> QED BY <1>1, ConversationCorrect, PTL

\* Whatever is stored or cached has passed check_output.
THEOREM StoredTextAlwaysChecked == Spec => []StoredTextIsChecked
PROOF
<1>1. IInv => StoredTextIsChecked
  BY DEF IInv, StoredOK, LogsOK, CacheOK, Fit, StoredTextIsChecked
<1> QED BY <1>1, ConversationCorrect, PTL

\* A deleted conversation leaves no message behind, however many turns and
\* deletions race.
THEOREM NeverOrphanMessages == Spec => []NoOrphanMessages
PROOF
<1>1. IInv => NoOrphanMessages
  BY DEF IInv, StoredOK, LogsOK
<1> QED BY <1>1, ConversationCorrect, PTL
=============================================================================
