---------------------------- MODULE Conversation ----------------------------
(***************************************************************************)
(* Answering questions about a knowledge base: ConversationService on its  *)
(* JSON and on its streaming endpoint, the LLM providers behind            *)
(* LLMService, the response cache in Redis, and the document changes that  *)
(* are meant to invalidate it.                                             *)
(*                                                                         *)
(* A turn is one database transaction.  Its created_at is the time the     *)
(* transaction began, so the number of the turn stands for it.             *)
(***************************************************************************)
EXTENDS Naturals, FiniteSets

CONSTANTS
    Kbs, Convs, Questions,
    KbOf,          \* the knowledge base of each conversation
    Blank,         \* the empty text, which no request may send
    None,          \* no conversation, no answer, no cache entry
    Clients,       \* requests in flight, one per client at a time
    MaxRetries,    \* LLM_MAX_RETRIES
    MaxTurns,      \* bound: turns ever begun
    MaxChanges,    \* bound: committed document changes that are told apart
    Faults         \* which faults of the environment may happen

FaultKinds == {"search", "llm", "redis", "abort"}

ASSUME KbOfAssumption == KbOf \in [Convs -> Kbs]
ASSUME BlankAssumption == Blank \notin Questions
ASSUME NoneAssumption == None \notin Convs
ASSUME BoundAssumption ==
    MaxRetries \in Nat /\ MaxTurns \in Nat /\ MaxChanges \in Nat
ASSUME FaultAssumption == Faults \subseteq FaultKinds

VARIABLES
    conv,      \* the conversations whose rows are committed
    titled,    \* those of them that have a title
    log,       \* log[v]: the committed messages of v
    cache,     \* cache[k][q]: the cached response, or None
    content,   \* content[k]: document changes committed in k, up to MaxChanges
    turns,     \* turns begun so far
    turn       \* turn[c]: the request client c has in flight

vars == <<conv, titled, log, cache, content, turns, turn>>

Providers == {"primary", "fallback"}
Endpoints == {"json", "stream"}

\* A generated answer: what it answers, the contents and whether a history
\* it was generated from, who wrote its text, and whether check_output has
\* passed over it.
Answer == [kb : Kbs, q : Questions, ver : 0..MaxChanges, hist : BOOLEAN,
           by : SUBSET Providers, safe : BOOLEAN]

Message == [at : 1..MaxTurns, role : {"user", "assistant"}, via : Endpoints,
            q : Questions, answer : Answer \cup {None}]

TurnSteps == {"asked", "posted", "titled", "missed", "primary", "fallback",
              "generated", "done"}
OtherSteps == {"deleting", "changing"}

Turn == [step : TurnSteps, via : Endpoints, conv : Convs, q : Questions,
         at : 1..MaxTurns, hist : BOOLEAN, untitled : BOOLEAN,
         tries : 0..MaxRetries, answer : Answer \cup {None},
         new : SUBSET Message]
Deleting == [step : {"deleting"}, convs : SUBSET Convs]
Changing == [step : {"changing"}, kb : Kbs]
Idle == [step |-> "idle"]

TypeOK ==
    /\ conv \subseteq Convs
    /\ titled \subseteq Convs
    /\ log \in [Convs -> SUBSET Message]
    /\ cache \in [Kbs -> [Questions -> Answer \cup {None}]]
    /\ content \in [Kbs -> 0..MaxChanges]
    /\ turns \in 0..MaxTurns
    /\ turn \in [Clients -> Turn \cup Deleting \cup Changing \cup {Idle}]

Init ==
    /\ conv = Convs
    /\ titled \in SUBSET Convs
    /\ log = [v \in Convs |-> {}]
    /\ cache = [k \in Kbs |-> [q \in Questions |-> None]]
    /\ content = [k \in Kbs |-> 0]
    /\ turns = 0
    /\ turn = [c \in Clients |-> Idle]

-----------------------------------------------------------------------------
(* Transactions and their row locks *)

InTurn(c) == turn[c].step \in TurnSteps
At(c, s) == turn[c].step = s
Begin(c, t) == turn' = [turn EXCEPT ![c] = t]
Move(c, s) == turn' = [turn EXCEPT ![c].step = s]
End(c) == turn' = [turn EXCEPT ![c] = Idle]

\* KEY SHARE taken on the conversation by a message's foreign key.
ShareLock(v) ==
    \E c \in Clients : InTurn(c) /\ ~At(c, "asked") /\ turn[c].conv = v

DeleteLock(v) ==
    \E c \in Clients : At(c, "deleting") /\ v \in turn[c].convs

\* The UPDATE of the title, locked until the turn commits.
TitleLock(v) ==
    \E c \in Clients : /\ InTurn(c) /\ turn[c].step \notin {"asked", "posted"}
                       /\ turn[c].conv = v /\ turn[c].untitled

Asked(c) == [at |-> turn[c].at, role |-> "user", via |-> turn[c].via,
             q |-> turn[c].q, answer |-> None]
Replied(c, a) == [at |-> turn[c].at, role |-> "assistant",
                  via |-> turn[c].via, q |-> turn[c].q, answer |-> a]

-----------------------------------------------------------------------------
(* The response cache (CacheService, fail-open) *)

Kb(c) == KbOf[turn[c].conv]

\* Only a conversation without history uses the cache.
\* Mutant: every turn does.
UsesCacheAlways(c) == TRUE
UsesCache(c) == ~turn[c].hist

\* Mutant: the key is the question alone.
StoredForAll(k, q, a) == [i \in Kbs |-> [cache[i] EXCEPT ![q] = a]]
Stored(k, q, a) == [cache EXCEPT ![k][q] = a]

\* build_key(namespace, kb, "") ends in the hash of the empty text, so the
\* prefix matches the one key that was built from it.
PrefixMatches(q) == q = Blank
Invalidated(k) ==
    [cache EXCEPT ![k] = [q \in Questions |->
        IF PrefixMatches(q) THEN None ELSE cache[k][q]]]

\* The time-to-live ends, or Redis evicts the key.
Expire(k, q) ==
    /\ cache[k][q] # None
    /\ cache' = Stored(k, q, None)
    /\ UNCHANGED <<conv, titled, log, content, turns, turn>>

-----------------------------------------------------------------------------
(* send_message and send_message_streaming *)

\* The knowledge base, the conversation and its history are read.
Ask(c, v, q, e) ==
    /\ At(c, "idle") /\ v \in conv
    /\ turns < MaxTurns
    /\ turns' = turns + 1
    /\ Begin(c, [step |-> "asked", via |-> e, conv |-> v, q |-> q,
                 at |-> turns + 1, hist |-> log[v] # {},
                 untitled |-> v \notin titled, tries |-> 0,
                 answer |-> None, new |-> {}])
    /\ UNCHANGED <<conv, titled, log, cache, content>>

\* The user's message is inserted.  If the conversation has been deleted
\* the foreign key fails, and there is nothing to commit on either endpoint.
Post(c) ==
    /\ At(c, "asked") /\ ~DeleteLock(turn[c].conv)
    /\ IF turn[c].conv \in conv
       THEN Begin(c, [turn[c] EXCEPT !.step = "posted", !.new = {Asked(c)}])
       ELSE End(c)
    /\ UNCHANGED <<conv, titled, log, cache, content, turns>>

SetTitle(c) ==
    /\ At(c, "posted")
    /\ turn[c].untitled => ~TitleLock(turn[c].conv)
    /\ Move(c, "titled")
    /\ UNCHANGED <<conv, titled, log, cache, content, turns>>

\* A streaming turn never reads the cache.
Hit(c) ==
    /\ At(c, "titled") /\ turn[c].via = "json" /\ UsesCache(c)
    /\ cache[Kb(c)][turn[c].q] # None
    /\ LET a == cache[Kb(c)][turn[c].q] IN
         Begin(c, [turn[c] EXCEPT !.step = "done", !.answer = a,
                                  !.new = @ \cup {Replied(c, a)}])
    /\ UNCHANGED <<conv, titled, log, cache, content, turns>>

Miss(c) ==
    /\ At(c, "titled")
    /\ \/ turn[c].via = "stream" \/ ~UsesCache(c)
       \/ cache[Kb(c)][turn[c].q] = None
       \/ "redis" \in Faults
    /\ Move(c, "missed")
    /\ UNCHANGED <<conv, titled, log, cache, content, turns>>

\* _retrieve_context and PromptBuilder.build
Retrieve(c) ==
    /\ At(c, "missed")
    /\ Begin(c, [turn[c] EXCEPT !.step = "primary",
                    !.answer = [kb |-> Kb(c), q |-> turn[c].q,
                                ver |-> content[Kb(c)], hist |-> turn[c].hist,
                                by |-> {}, safe |-> FALSE]])
    /\ UNCHANGED <<conv, titled, log, cache, content, turns>>

\* The vector store, the embedding or the reranking service raises inside
\* the turn: JSON is rolled back, event_generator makes an event of it.
RetrieveFails(c) ==
    /\ "search" \in Faults /\ At(c, "missed")
    /\ \/ turn[c].via = "json" /\ End(c)
       \/ turn[c].via = "stream" /\ Move(c, "done")
    /\ UNCHANGED <<conv, titled, log, cache, content, turns>>

\* LLMService.chat: one attempt at a provider succeeds.
Chat(c) ==
    /\ turn[c].step \in Providers /\ turn[c].via = "json"
    /\ Begin(c, [turn[c] EXCEPT !.step = "generated",
                                !.answer.by = {turn[c].step}])
    /\ UNCHANGED <<conv, titled, log, cache, content, turns>>

\* Mutant: the attempts are counted afresh instead of giving up.
ChatFailsForEver(c) ==
    /\ "llm" \in Faults /\ At(c, "primary") /\ turn[c].via = "json"
    /\ Begin(c, [turn[c] EXCEPT !.tries = IF @ < MaxRetries THEN @ + 1 ELSE 0])
    /\ UNCHANGED <<conv, titled, log, cache, content, turns>>

\* Mutant: stop_after_attempt(MaxRetries + 2).
ChatFailsOnceMore(c) ==
    /\ "llm" \in Faults /\ At(c, "primary") /\ turn[c].via = "json"
    /\ IF turn[c].tries <= MaxRetries
       THEN Begin(c, [turn[c] EXCEPT !.tries = @ + 1])
       ELSE Move(c, "fallback")
    /\ UNCHANGED <<conv, titled, log, cache, content, turns>>

\* The primary is tried MaxRetries + 1 times, then the fallback once.
ChatFails(c) ==
    /\ "llm" \in Faults /\ At(c, "primary") /\ turn[c].via = "json"
    /\ IF turn[c].tries < MaxRetries
       THEN Begin(c, [turn[c] EXCEPT !.tries = @ + 1])
       ELSE Move(c, "fallback")
    /\ UNCHANGED <<conv, titled, log, cache, content, turns>>

\* Mutant: the endpoint catches the error, and what was flushed is committed.
ChatGivesUpQuietly(c) ==
    /\ "llm" \in Faults /\ At(c, "fallback") /\ turn[c].via = "json"
    /\ Move(c, "done")
    /\ UNCHANGED <<conv, titled, log, cache, content, turns>>

\* AllLLMProvidersFailedError leaves the endpoint and rolls back the turn.
ChatGivesUp(c) ==
    /\ "llm" \in Faults /\ At(c, "fallback") /\ turn[c].via = "json"
    /\ End(c)
    /\ UNCHANGED <<conv, titled, log, cache, content, turns>>

\* LLMService.stream_chat: some chunks of a provider's answer.
Stream(c) ==
    /\ turn[c].step \in Providers /\ turn[c].via = "stream"
    /\ turn[c].step \notin turn[c].answer.by
    /\ Begin(c, [turn[c] EXCEPT !.answer.by = @ \cup {turn[c].step}])
    /\ UNCHANGED <<conv, titled, log, cache, content, turns>>

StreamEnds(c) ==
    /\ turn[c].step \in Providers /\ turn[c].via = "stream"
    /\ Move(c, "generated")
    /\ UNCHANGED <<conv, titled, log, cache, content, turns>>

\* Whatever the primary has yielded, the fallback starts over.
StreamFails(c) ==
    /\ "llm" \in Faults /\ At(c, "primary") /\ turn[c].via = "stream"
    /\ Move(c, "fallback")
    /\ UNCHANGED <<conv, titled, log, cache, content, turns>>

\* event_generator turns the error into an event: the endpoint returns
\* normally, and the user's message is committed without a reply.
StreamGivesUp(c) ==
    /\ "llm" \in Faults /\ At(c, "fallback") /\ turn[c].via = "stream"
    /\ Move(c, "done")
    /\ UNCHANGED <<conv, titled, log, cache, content, turns>>

\* Mutant: a streamed text is stored as it was sent.
CheckedUnlessStreamed(c) ==
    [turn[c].answer EXCEPT !.safe = turn[c].via = "json"]
\* GuardrailService.check_output
Checked(c) == [turn[c].answer EXCEPT !.safe = TRUE]

\* The reply is inserted and written to the cache before the commit.
Reply(c) ==
    /\ At(c, "generated")
    /\ LET a == Checked(c) IN
         /\ Begin(c, [turn[c] EXCEPT !.step = "done", !.answer = a,
                                     !.new = @ \cup {Replied(c, a)}])
         /\ \/ UsesCache(c) /\ cache' = Stored(Kb(c), turn[c].q, a)
            \/ (~UsesCache(c) \/ "redis" \in Faults) /\ UNCHANGED cache
    /\ UNCHANGED <<conv, titled, log, content, turns>>

Commit(c) ==
    /\ At(c, "done")
    /\ LET v == turn[c].conv IN
         /\ log' = [log EXCEPT ![v] = @ \cup turn[c].new]
         /\ titled' = titled \cup {v}
    /\ End(c)
    /\ UNCHANGED <<conv, cache, content, turns>>

\* A lost client or process, or a statement that fails: rolled back.
Abort(c) ==
    /\ "abort" \in Faults
    /\ ~At(c, "idle")
    /\ End(c)
    /\ UNCHANGED <<conv, titled, log, cache, content, turns>>

-----------------------------------------------------------------------------
(* Deleting conversations, alone or with their knowledge base *)

\* Mutant: messages without a foreign key to their conversation.
DeletableUnlocked(v) == v \in conv
Deletable(v) == v \in conv /\ ~ShareLock(v) /\ ~DeleteLock(v)

Delete(c, V) ==
    /\ At(c, "idle")
    /\ V # {} /\ \A v \in V : Deletable(v)
    /\ \/ Cardinality(V) = 1
       \/ \E k \in Kbs : V = {v \in conv : KbOf[v] = k}
    /\ Begin(c, [step |-> "deleting", convs |-> V])
    /\ UNCHANGED <<conv, titled, log, cache, content, turns>>

DeleteCommit(c) ==
    /\ At(c, "deleting")
    /\ conv' = conv \ turn[c].convs
    /\ titled' = titled \ turn[c].convs
    /\ log' = [v \in Convs |-> IF v \in turn[c].convs THEN {} ELSE log[v]]
    /\ End(c)
    /\ UNCHANGED <<cache, content, turns>>

-----------------------------------------------------------------------------
(* DocumentService.upload and delete: the cache is invalidated first, the   *)
(* contents change when the worker or the request commits.                  *)

Change(c, k) ==
    /\ At(c, "idle")
    /\ cache' = Invalidated(k)
    /\ Begin(c, [step |-> "changing", kb |-> k])
    /\ UNCHANGED <<conv, titled, log, content, turns>>

ChangeCommit(c) ==
    /\ At(c, "changing")
    /\ content' = [content EXCEPT ![turn[c].kb] =
                      IF @ < MaxChanges THEN @ + 1 ELSE @]
    /\ End(c)
    /\ UNCHANGED <<conv, titled, log, cache, turns>>

-----------------------------------------------------------------------------
Open(c) ==
    \/ \E v \in Convs, q \in Questions, e \in Endpoints : Ask(c, v, q, e)
    \/ \E V \in SUBSET Convs : Delete(c, V)
    \/ \E k \in Kbs : Change(c, k)

Proceed(c) ==
    \/ Post(c) \/ SetTitle(c) \/ Hit(c) \/ Miss(c)
    \/ Retrieve(c) \/ RetrieveFails(c)
    \/ Chat(c) \/ ChatFails(c) \/ ChatGivesUp(c)
    \/ Stream(c) \/ StreamEnds(c) \/ StreamFails(c) \/ StreamGivesUp(c)
    \/ Reply(c) \/ Commit(c) \/ DeleteCommit(c) \/ ChangeCommit(c)

Next ==
    \/ \E c \in Clients : Open(c) \/ Proceed(c) \/ Abort(c)
    \/ \E k \in Kbs, q \in Questions : Expire(k, q)

Spec == Init /\ [][Next]_vars

\* Every call of a provider ends, by its timeout if not otherwise, and
\* Postgres queues those who wait for a lock.
Fairness == \A c \in Clients : SF_vars(Proceed(c))
FairSpec == Spec /\ Fairness

-----------------------------------------------------------------------------
(* Properties *)

Replies(v) == {m \in log[v] : m.role = "assistant"}

\* A reply answers its own turn's question from its own conversation's
\* knowledge base, also when it comes out of the cache.
RepliesBelong ==
    \A v \in Convs : \A m \in Replies(v) :
        /\ m.answer.kb = KbOf[v] /\ m.answer.q = m.q
        /\ \E n \in log[v] : n.role = "user" /\ n.at = m.at /\ n.q = m.q

\* The JSON endpoint stores a question with its reply or not at all; only
\* a stream that failed leaves a question without one.
JsonTurnsAreWhole ==
    \A v \in Convs : \A n \in log[v] :
        n.role = "user" /\ n.via = "json" =>
            \E m \in Replies(v) : m.at = n.at

\* What one conversation's earlier messages shaped is never served to
\* another: cached answers were generated without history.
CacheHoldsFirstAnswers ==
    \A k \in Kbs, q \in Questions :
        cache[k][q] # None =>
            ~cache[k][q].hist /\ cache[k][q].kb = k /\ cache[k][q].q = q

\* No text reaches the history or the cache around the output guardrails,
\* not even one that had already been streamed to the client.
StoredTextIsChecked ==
    /\ \A v \in Convs : \A m \in Replies(v) : m.answer.safe
    /\ \A k \in Kbs, q \in Questions : cache[k][q] # None => cache[k][q].safe

\* A turn that is still running when its conversation is deleted leaves no
\* message behind.
NoOrphanMessages == \A v \in Convs : log[v] # {} => v \in conv

\* Retries, fallback and the locks on titles and conversations never keep a
\* request open for ever.
TurnsEnd == \A c \in Clients : ~At(c, "idle") ~> At(c, "idle")

\* conversation_service.py on invalidate_response_cache: "ensures users
\* never get a stale cached answer that doesn't reflect their knowledge
\* base's current content, without waiting for the TTL."
NeverStale ==
    [][\A c \in Clients : Hit(c) =>
          turn'[c].answer.ver = content[Kb(c)]]_vars

\* llm_service.py on stream_chat: "mid-stream failures are NOT retried here;
\* they propagate as an error."
OneAuthor ==
    \A v \in Convs : \A m \in Replies(v) : m.answer.by # Providers

\* message_repository.py on list_for_conversation: "Fetch messages in a
\* conversation, oldest first."  The query orders by created_at alone.
OldestFirst ==
    \A v \in Convs : \A m, n \in log[v] : m.at = n.at => m = n
=============================================================================
