# RAG-kb in TLA+

RAG-kb is a question-answering service over uploaded documents.  An API
process (FastAPI) takes uploads and questions, a Celery worker turns files into
chunks and vectors, and Postgres, Qdrant, a file store and Redis hold what they
share.  This directory models the parts of it whose correctness depends on the
order of events: ingestion, conversations, the loops that cut a text into
chunks, embedding and search with the evaluation that measures them, and
authentication behind the rate limiter.  Paths below are relative to `src/`.

## 1. The system

| Part | State it keeps | Operations | Talks to |
| --- | --- | --- | --- |
| Document service (`app/services/document_service.py`) | document rows, files | upload, delete, list, get | knowledge bases, file storage, Celery queue, response cache |
| Admin service (`app/services/admin_service.py`) | document rows, users | retry a document, switch an account on or off, promote a user | Celery queue |
| Ingestion worker (`app/tasks/document_processing.py`, `app/workers/celery_app.py`) | the running tasks; messages in Redis | process_document with retries and late acknowledgement | Postgres, storage, loaders, chunkers, embedding service, Qdrant |
| Vector and chunk stores (`app/retrieval/qdrant_store.py`, `app/models/chunk.py`) | a collection per knowledge base; chunk rows | upsert, search, delete | worker, retrieval |
| Knowledge bases (`app/services/knowledge_base_service.py`) | knowledge base rows | create, update, delete with cascade | everything that belongs to one |
| Conversations (`app/services/conversation_service.py`, `app/api/v1/conversation.py`) | conversations, messages | send a message (JSON, streaming), delete, list | retrieval, language models, guardrails, cache |
| Language model service (`app/llm/llm_service.py`) | none | chat and stream with retries and fallback | two Groq models |
| Response cache (`app/core/cache.py`) | Redis keys | get, set, delete by prefix, all failing open | conversations, documents |
| Guardrails (`app/guardrails/`) | none | check input, check and sanitise output | conversations |
| Embedding service (`app/embeddings/embedding_service.py`) | a sticky "primary unavailable" flag per process; cached query vectors | embed a batch, embed a query | worker, retrieval |
| Retrieval (`app/retrieval/`) | none | hybrid search, fusion, reranking, deduplication, token budget | stores, embedding service |
| Chunking (`app/chunking/`) | none | fixed, sentence and recursive splitting | worker |
| Evaluation (`app/evaluation/`, `scripts/run_evaluation.py`) | the results so far, a snapshot of the corpus | search, answer, score and judge each question of a dataset | retrieval, language models |
| Authentication (`app/services/auth_service.py`) | users, refresh and verification tokens | register, log in, refresh, verify, reset | e-mail |
| Rate limiter (`app/middleware/rate_limiting.py`) | timestamps per client and bucket | admit or refuse a request | every request |

What makes it hard: a request's transaction commits only after its response
has been sent (`app/db/dependencies.py`), so the worker, other requests and the
cache see its external effects (file, message, cached answer) before its rows;
the broker delivers a message again after a crash or when a task is slow; four
stores are written without a common transaction; retries, fallbacks and
redeliveries overlap; deletions race with all of it.

What makes each part correct:

* ingestion: the stores agree about what is searchable; a document ends READY
  or FAILED; a deleted document stays deleted and leaves nothing behind;
* conversations: a reply belongs to its question and knowledge base, a turn is
  stored whole, nothing unchecked is stored, one conversation's history never
  reaches another, an answer is not older than the documents;
* providers: bounded retries, one author per answer, every call ends;
* embedding and search: vectors that are compared come from one model;
* chunking and retrieval: no text is lost, neighbours overlap, a context is the
  best the ranking gives within its budget;
* tokens and limits: a token is exchanged twice only by requests that overlap, a
  deactivated account gets nothing, a window never admits too much.

Where the code does not keep such a promise, section 6 says so.

## 2. Plan

| | Modules | Composes | State |
| --- | --- | --- | --- |
| 1 | `DocumentLifecycle`, `DocumentPipeline` | requests, broker, workers, four stores | checked; safety, refinement and `ProcessingHasTask` proved |
| 2 | `Conversation` | requests, providers, cache, deletions | checked; all its invariants proved |
| 3 | `Chunking` | three nested loops | checked; all its invariants proved |
| 4 | `Ranking`, `Retrieval`, `Evaluation` | tasks that write, searches that read, the evaluation over both | checked; all invariants proved |
| 5 | `RateLimit`, `Access` | the limiter in front of authentication | checked; all invariants proved |

Every stage of the plan is done, and every invariant and action property of the
passing runs is a theorem; liveness is model-checked.  What could follow is a
composition of `Access` with several application processes, each with a limiter
of its own: the code has no shared limiter, so there the limit would simply be
multiplied.

## 3. Modules

### DocumentPipeline

One knowledge base.  Variables and what they stand for:

| Variable | Code |
| --- | --- |
| `kb`, `row`, `rows` | *committed* contents of `knowledge_bases`, `documents.status`, and per document the number of committed chunk batches (every successful run inserts one) |
| `file` | the file storage |
| `points` | whether Qdrant has the document's vectors (point ids are `uuid5(document:index)`, so a later run overwrites) |
| `issued`, `sent`, `msg` | ids drawn, messages published; for each message its retry count and whether the broker has it queued, unacknowledged or gone |
| `req[c]` | the open request of a client: how far its handler has got, and the status it read |
| `wk[w]` | the task in a pool process: how far it has got, and the status in its session's copy of the document |

A handler is cut where another process can see a difference: at each external
call, at each flush that takes a lock, and at the commit.  `UploadSave`,
`UploadInsert`, `UploadEnqueue`, `UploadCommit` are `DocumentService.upload`
followed by `get_db_session`; `DeleteFind` .. `DeleteCommit` its `delete`;
`AdminRead` .. `AdminCommit` the admin's retry; `KbDelete`, `KbCascade`,
`KbCommit` a knowledge base's deletion, whose DELETE locks the knowledge base
first and its documents afterwards; `Abort` any request that fails before its
commit.  `Take` .. `CommitFailed` and `Transient` are `_process_document_async`.
A file's contents are abstracted to what the task tells apart: text, no text,
what a loader rejects, and `odd`, text the tokenizer or PostgreSQL raises an
error for.

The task catches three lists of exceptions.  Whatever is in none of them ends it,
Celery acknowledges the message, and the row stays as it is, PROCESSING if the
task got that far.  `Uncaught` is the part of this that row and file alone decide:
a row or a file that is gone, odd contents.  `Escapes` is the rest, at any step:
errors of the storage other than a missing file, of SQLAlchemy at a flush or a
commit, of the broker when `task.retry` publishes, and a deadlock PostgreSQL breaks.
`ProcessingHasTask` excludes the first by the state of the document, and the
theorem about it the second by its fault, `"error"`.

Row locks are not variables.  `ExclusiveLock`, `UpdateLock`, `ShareLock`,
`KbShareLock` and `KbLock` say which open transactions hold which lock, and the
actions that would wait for them are disabled.  SQLAlchemy sends no UPDATE for
an attribute whose value has not changed, which `Updated` and `UpdateLock`
follow: it decides which status a stale session leaves behind.

External parts, modelled from how the code uses them: Celery and the Redis
broker (`Redeliver`: visibility timeout; `WorkerLost`: the message stays
unacknowledged; `ChildLost`: a pool process that dies alone has its message
acknowledged, since `task_reject_on_worker_lost` is not set; `Evict`:
`allkeys-lru`), PostgreSQL's row locks and cascades, Qdrant's overwriting upsert.

### DocumentLifecycle

What ingestion promises, without queue, worker or transaction: a document is
`new`, live, or `gone` for good; it enters the index only when a run of it
succeeds; nothing but a deletion takes it out.  `DocumentPipeline!Lifecycle` is
the refinement mapping: `status` is the row (or `new`/`gone` when there is
none), `indexed` says that both indexes have it.

### Conversation

| Variable | Code |
| --- | --- |
| `conv`, `titled`, `log` | committed conversations, those with a title, and the messages of each |
| `cache[k][q]` | the response cache |
| `content[k]` | how many document changes have committed in a knowledge base |
| `turns` | turns begun; its value at the beginning of a turn stands for the transaction's `now()`, which is the `created_at` of both messages |
| `turn[c]` | the open request of a client |

An answer is a record of what the properties tell apart: the knowledge base and
question it answers, the contents it was generated from, whether a history was in
the prompt, which providers wrote it, and whether `check_output` has seen it.
`Ask` .. `Commit` are `send_message` and, where `via` is `"stream"`,
`send_message_streaming` with the endpoint's `event_generator`; `Chat*` and
`Stream*` are the two paths of `LLMService`, and `RetrieveFails` is a search that
raises inside the turn.  `Invalidated` follows what
`delete_by_prefix` really matches: the prefix it is given ends in the hash of the
empty text, so it can only match the key built from the empty text, which the
request schema excludes.

### Chunking

The three strategies as state machines over the positions of a text's tokens.  A
text is its length, the positions where sentences and paragraphs end, and its
seams, the positions no character lies across: a character of several bytes may
take several tokens.  A piece is an interval.  Decoding one gives back the
characters whose tokens it holds all of (`Decodes`); one it holds only in part
becomes U+FFFD, since `TokenCounter.decode` replaces what it cannot decode and
`FixedSizeChunker` decodes each window on its own.  `para` is `RecursiveChunker.chunk`'s loop over paragraphs, `sent`
`SentenceChunker.chunk`'s over sentences, `win` `FixedSizeChunker.chunk`'s over
windows; `level` says which is running.  `Split` and `Emit` are the calls from
one to the next (`_split_oversized_paragraph`), `EndSentences` and `EndWindows`
the returns.

Abstractions: the token counts of neighbouring pieces add up (the code counts
each sentence for itself, and a joint count can differ by what the tokenizer
merges); only the blank line `_build_chunk` puts between two paragraphs costs
tokens of its own, between none and `Glue`.  A sentence chunk that is too large
is cut into windows at once, not after all sentence chunks are there: nothing
else reads them in between.  `start_index`, `end_index` and `metadata` are left
out.  An explicit overlap of 0 reaches no chunker: `ChunkingFactory.get_strategy`
takes the default for it (`or`), as for a size of 0.  No caller in the repository
passes either; a default of 0 from the settings does get through.

### Ranking, Retrieval

`Ranking` holds the parts of retrieval that only look at lists, as operators:
`Fused` is `reciprocal_rank_fusion` and the cut after it, `Reranked` the
reranking service, `Compressed` the deduplication and the token budget.
`FusionSound` and `ContextSound` say what these lists promise without the way
they are computed.  Each loop over a list is a recursive function of the position
it has reached (`Merged`, `Kept`, `Totals`), so that it can be reasoned about;
Python's stable sort is given by the place each hit gets (`Place`).

| Variable of `Retrieval` | Code |
| --- | --- |
| `fallen` | processes whose `EmbeddingService` has set `_primary_marked_unavailable` |
| `collection`, `points` | the Qdrant collection, by the model whose dimension it has, and the point in each slot (document and chunk index, from which the point id is derived) |
| `rows`, `live`, `lastId` | committed chunk rows, documents not deleted, ids handed out |
| `vectors` | cached query vectors, by the model that made them |
| `task[w]` | a task between embedding its chunks and its commit |
| `search[p]` | a search: the corpus it loaded, the lists so far, and how far it has got |

`Insert` .. `CommitRows` and `Rollback` are the writing half of
`_process_document_async`; `CheckCollection` and `CreateCollection` are the two
calls of `_ensure_collection_exists`, between which another task can create the
collection.  `Load` .. `Return` are `_retrieve_context`, in its order: the rows
are read first, then the query is embedded, both methods search, the result is
reranked, and its texts are embedded once more to find near duplicates.

Abstractions: a vector is the model that made it (the two models have different
dimensions).  Which chunks a method returns in which order is free, except that
Qdrant knows all its points and that BM25 gives equal texts equal scores; what
is near to what is a constant relation, reflexive and symmetric but not
transitive.  A point's payload names the row of the last upsert, so it may
name a row that was rolled back or deleted.  Locks appear only where
they matter here: a deletion waits for tasks of its document.

### Evaluation

`run` is the `EvaluationRun` in progress beside the running system.  Its
searches are those of `Retrieval`, with the corpus loaded once before the first
example.  `ScoreRetrieval` is `score_retrieval` in parts of `Whole`; `Record`
appends a result, whether scored, judged or failed; `Summarise` averages.  A
judge's reply that cannot be parsed counts as 0 (`answer_judge.py`), although
the scores are documented as 1 to 5 (`evaluation/base.py`).

### RateLimit

A deque per client and kind of path.  The module keeps all admission times of a
bucket and the index of the first one still in the deque: what has been popped
is then visible to the properties.  `Admit` and `Refuse` are `_is_over_limit`
with its eviction loop, which has no `await` and is therefore one step.
`BucketOf` follows the code in choosing the bucket by comparing limits, so that
with equal limits every path shares one bucket.

### Access

| Variable | Code |
| --- | --- |
| `account[u]` | the committed user row |
| `resets[u]` | the password resets committed so far; a password is their number |
| `tokens`, `links` | `refresh_tokens` and `verification_tokens` in the order of their commits |
| `request[r]` | an open request: its operation, the row it read, what its updates have touched |

A request begins when the middleware admits it and its handler makes its first
read (`Begin`), and is cut where what another request commits makes a
difference: `CheckAccount` before `Exchange`, `InvalidateActive` before
`CommitLink`, `RevokeAll` before `CommitReset`.  An UPDATE with a WHERE clause
sees what is committed when it runs, an update of a loaded row hits that row
whatever has become of it.  Two waits are modelled: `InsertUser` for the unique
address, and `Exchange` for the lock of a reset that has revoked its token and not
committed yet.  The other row locks are left out: an update that waits for one sets
the same values afterwards that it would have set at once, so they only rule out
orders of commits that the model includes.

`known`, `resets` and `active` in the rows are history, recorded to say which
requests overlapped; no action reads them.  Expiry is an action of its own,
at any time.  Accounts at the beginning were registered long ago.  E-mail goes
out before the commit (`CommitLink`), so a link whose request then fails never
works.

### Proof and MC modules

`DocumentPipelineProofs`, `ProcessingProofs`, `ConversationProofs`,
`ChunkingProofs`, `RankingProofs`, `EvaluationProofs`, `RateLimitProofs` and
`AccessProofs` hold the proofs; `MCDocumentPipeline`, `MCConversation`, `MCChunking`, `MCEvaluation`
and `MCAccess` the instances TLC checks.

## 4. Runs

| Run | Shows |
| --- | --- |
| `pipeline_safety` | Type correctness, the agreement of the stores, no orphaned rows, total deletion, the inductive invariant; deletions are final; the refinement of `DocumentLifecycle`.  All faults. |
| `pipeline_progress` | A PROCESSING document always has a task that will finish it, and every document settles or has lost its task.  All faults but four (see Fairness). |
| `orphan_vectors` | *Violation.*  Deleting a document leaves its vectors in Qdrant. |
| `pending_lost` | *Violation.*  A worker quicker than the upload's commit drops the message, and the document stays PENDING. |
| `conversation` | Replies belong, JSON turns are whole, the cache holds answers without history only, stored text is checked, no orphaned messages; every request ends.  All faults. |
| `stale_cache` | *Violation.*  The cache is never invalidated. |
| `mixed_stream` | *Violation.*  A stored reply has two authors. |
| `message_order` | *Violation.*  A question and its reply are not ordered. |
| `chunking` | No token is lost, nor a character windows have room for; neighbours overlap as configured; sentences are cut only where they must be; every chunker ends. |
| `search` | Vectors that meet are of one model, rows can be found, fusion prefers what both methods found, contexts are the best the ranking gives within the budget, metrics agree, an evaluation has one result per question and ends.  Failing models, Qdrant, Redis, reranker; restarts. |
| `access` | The limit holds; only refreshes that overlap exchange one token twice; a request that never saw its account active gets nothing. |
| `session_survives` | *Violation.*  A session there was before a password reset works after it. |

### Bounds

`pipeline_safety`: one document, two requests, two pool processes, two messages,
one retry, one redelivery each.  Two of everything that acts on one document is
what races need: two runs of the same document overlapping with a request, or
two requests with a run.  One document suffices because documents interact only
through the knowledge base's deletion, whose actions quantify over all of them;
the proofs cover any number.  Requests reserve the message they will publish
(`Room`), so the bound `MaxMsgs` never blocks an open transaction.
`pipeline_progress` has one client.  In `pipeline_safety` clients and workers are
symmetric; the runs with a liveness property use no symmetry.

`conversation` (341,000 states): two requests, two turns, a conversation in each of
two knowledge bases and one question, so that a reply or a cached answer can end up
at the wrong turn, conversation or knowledge base.  Documents change, but the
contents before and after are not told apart (`MaxChanges` 0): only
`stale_cache` compares them.

`chunking` (203,000 states): every text of at most six tokens, every division into
characters, sentences and paragraphs, sizes 1 to 3 with every smaller overlap, a
blank line of at most one token.  Six tokens are twice the largest size: a chunk, its
successor with its overlap, and a rest, within one paragraph or over several, a
paragraph that passes through all three loops beside one that does not, and
characters shorter than, as long as, and longer than what windows have room for.

`search` (442,000 states): two workers, two documents of two and one chunks, one
request process and the evaluation, two changes (tasks, deletions, requests,
restarts together: `MaxChanges`) and three row ids.  That is enough for two tasks
that race to create the collection with different models, for a document
processed twice, and for a search or an evaluation beside either.  The models
fail in one worker and in the evaluation (`Fallible`), so that processes of both kinds
disagree.  The evaluation starts when the last change has begun and no search is
open; tasks may still be running.  Three chunks, one similar to both others,
with tokens 2, 1, 4 and a budget of 3, reach the budget exactly, exceed it together,
and exceed it alone.
A judge gives 5, or fails and gives 0, so that answers' averages differ.
Fused scores are exact: `Scale` is a multiple of all denominators 61 to 63.

`access` (291,000 states up to symmetry): two users, two requests at a time,
four requests that change something, and any number that do not (`PassThrough`)
as long as the window, one tick with limits 1 and 2, admits them; three moments
of time let a timestamp be younger than, as old as, and older than the window.
A window of one tick is enough because the deque only compares differences; the
proof covers every window.  Four requests are a login, its refresh, a
forgotten password and its reset, or a link and two that race for it.  The
symmetry of users and requests is sound: the run has no liveness property.

Deadlock is not checked: a chunker and an evaluation stop when they are done, the
other runs bound the number of messages, turns or requests, and a service without requests rests.

### Fairness

`Fairness` in `DocumentPipeline` and `Conversation` asks for strong fairness of what a request or a task
does next: an asyncio handler or a pool process is scheduled, each external call
ends by its timeout if not otherwise, and PostgreSQL queues those who wait for a
lock, so that a waiter whose lock becomes free again and again gets it.  A queued
message is taken as long as workers come free, and an unacknowledged message
whose worker is gone is redelivered (the visibility timeout).  Nothing obliges a
client to send a request, or a fault to happen.

`Chunking` and `Evaluation` are single programs that do one thing after the
other: weak fairness of their next step.  The evaluation waits for no lock, and
each of its calls returns or raises; if Qdrant, Redis or the models are away,
that call raises and the example is recorded as failed.  `Access` states no
fairness: none of its requests waits for long, and nothing of it must happen.

`pipeline_progress` leaves out four faults, by name: an error outside the task's
handlers ends it with an acknowledgement and no outcome, a lost pool process and
an evicted queue lose messages for good, and the acknowledgement of a slow task's
first delivery drops the copy its second still needs.

## 5. Proofs

`DocumentPipelineProofs` proves, for any sets of documents, clients and workers,
any bounds and any set of faults:

* `TypeCorrect`, `InvariantHolds`: `IInv` is inductive.  The four safety
  properties are not inductive alone: that a task may commit rows needs that its
  row locks keep the document there (`TaskLocks`), that an admin may commit needs
  its own lock (`RequestLocks`), that a session which skips its UPDATE leaves a
  READY row with chunks needs that READY read once means chunks for as long as
  the document lives (`StaleReady`), and that a new upload's id is nobody
  else's needs `UploadsAreFresh`.
* `VectorsBeforeChunks`, `ReadyDocuments`, `NoOrphans`, `KbDeletions`: the four
  safety properties.
* `DeletedForGood`: `DeletedStays`.
* `Refines`: `DocumentPipeline` implements `DocumentLifecycle`.

`ProcessingProofs` proves `AlwaysHasTask` from it: if none of the four faults
that lose a task is among `Faults`, `ProcessingHasTask` holds.  Two more parts
are inductive: `Held`, a task in a worker has an unacknowledged message no other
worker works on, and `Owned`, a PROCESSING document has a message that is queued
or redeliverable, or whose task will really send its last UPDATE.  The second is
where SQLAlchemy's skipped UPDATE matters: a session that has read READY and ends
with READY sends nothing, although an overlapping task has marked the row
PROCESSING since.

`ConversationProofs` proves, for any sets of conversations, clients and
questions, any numbers of retries and any faults, that `IInv` is inductive
(`ConversationCorrect`) and all six invariants of `conversation` from it.  Its
parts: `StoredOK`, the properties of what is committed; `CacheOK`, a cached answer fits
its key and was built without a history; `TurnsOK`, an open turn's record agrees
with itself (a draft fits its turn, what is finished was checked); and
`LocksOK`, a turn that has flushed its question keeps its conversation from
being deleted.  The last one is what `NoOrphanMessages` needs and no state
of the stores shows.

`ChunkingProofs` proves, for texts of any length, any limits the constructor
accepts and any cost of a blank line:

* `ChunkingInvariant`: `IInv` is inductive, which the run checks as well.  Its
  part `Cursors` says for the loop that is running that everything before its
  cursor is in the chunks, and for a loop that has called another how far it had
  got: the caller's cursor never passes the piece the callee is working on
  (`sent.lo <= win.end`, and `para` at the end of the paragraph in `sent`).
  `Marked`: the two outer loops only stop where a sentence ends, and windows are
  cut from a piece between two such places in one paragraph that is too large.
  `Adjacent`: what the next chunk will repeat of the last one, wherever the running
  loop's cursor is.
* `AllTextCovered` (`NothingLost`): every token is in a chunk, and every character
  is whole in one, but those that may get into a window and take two or more tokens
  more than windows overlap.
* `NeighboursOverlap` (`OverlapKept`): windows share the overlap exactly, or what is
  left of the text; sentence chunks share at least a sentence, more only within
  the overlap, and as many as it holds.
* `SentencesUncut` (`SentencesWhole`): only sentences of one paragraph that are
  too large together are cut.
* `BudgetOverrun` (`BudgetKept`): a recursive chunk exceeds its budget by the blank
  lines it joins at most.  `ChunkingTypes`: `TypeOK`.

`RankingProofs` proves what the lists of retrieval promise, for lists of any
length, any weights, limits and similarities:

* `FusionIsSound`: whatever two duplicate-free lists the methods return, `Fused`
  satisfies `FusionSound`.  The sort is a permutation by falling score that keeps
  the order of equals, `Merged` holds each hit once, and one hit in both lists
  outweighs any in one list because of the assumption `PerMethod <= Damping + 1`.
* `ContextIsSound`: whatever is ranked, `Compressed` satisfies `ContextSound`.

The library's induction theorems take an operator, which the provers cannot
instantiate.  These proofs use first-order induction instead: the set of the
positions up to which a fact holds contains 0 and with each position the next
(`UpTo`, from the well-foundedness of `<`), and a recursive function on positions
exists and satisfies its equation (`Recursion`).  Sums, finite sets that are
walked through, and the three loops are treated this way.

`EvaluationProofs` proves, for any documents, queries, processes and faults, two
inductive invariants:

* `EvaluationCorrect`: `EvaluationInv`, about the order of events.  `StoresInv`
  says that points fit their collection, that a task past its upsert has points in
  its slots, and that rows have points; `RunInv` follows an evaluation through the
  search it waits for.  From it `VectorsAlwaysComparable`, `RowsAlwaysIndexed`
  and `AlwaysOneResultPerExample`.
* `TypedCorrect`: `TypedInv` adds the data.  `ListsFit` says what a search's lists
  are at each of its steps (no hit twice, no more than the limit), which is what the
  two theorems of `RankingProofs` need; `IdsReserved`, that a task's row ids stay
  within what was handed out; that corpus and stores are finite, so that
  cardinalities are numbers; and `ResultsInv`, that every recorded score agrees with
  the others of its example and that the summary is the one of these results.
  From it `EvaluationTypes`, `AgreementAlwaysWins`, `ContextAlwaysBest`,
  `MetricsAlwaysAgree` and `AveragesAlwaysWithinScores`.
* `NeverMismatchWithoutFailover`: as long as `fallen` is empty, the collection,
  every vector, cached or on its way, are the primary's (`OnlyPrimary`).  The
  theorem has the run's temporal form, an invariant under a condition on the
  whole behaviour.

`RateLimitProofs` proves `LimitKept` for any window, limits and clients.
`LimiterInv` adds that admissions are in the order of time, none in the future, and
that what the deque has dropped is stale: once evicted, the deque is the window
that ends now.

`AccessProofs` proves that `Access` implements the limiter (`AccessUsesLimiter`),
from which `LimitKept` of the composition follows, and that `AccessInv` is
inductive, for any users, requests and bounds.  Its idea: a request that still
holds a token knows that every other child of this token is younger than
its own beginning, and one that is about to add a link knows the same of the
links it has not invalidated.  `AlwaysExchangedOnce`, `InactiveNeverGetsAnything`
and `LiveLinksAlwaysOverlap` follow; the last says what is left of the promise that
only the latest link works.  `ResetMissesOnlyRaced` says the same of the promise
that a reset ends sessions: a session of an older password that works after the
reset goes back, by any number of exchanges, to a token issued by a request that
overlapped the reset.  It needs one more inductive part, `SessionInv`: the token an
open refresh will exchange goes back to such a token for each reset its request has
seen and its session is older than; and a reset about to commit has touched every
session of its user that was there when it looked.

All theorems assume only the named assumptions on the constants of their
modules, and `AlwaysHasTask` its condition on the faults.

Only model-checked is liveness (`Settles`, `TurnsEnd`, `Terminates`,
`EvaluationEnds`): fairness and ENABLED are out of the prover's reach.  The six
expected violations are counterexamples TLC finds, so there is nothing to prove.

## 6. Findings

Each is a violation run and an entry in PROJECT.json:

* `orphan_vectors` (code): deleting a document leaves its vectors in Qdrant;
* `stale_cache` (code): the invalidation of cached answers matches none of them;
* `mixed_stream` (code): a fallback goes on in the middle of the primary's answer;
* `message_order` (code): a question and its reply have one timestamp, and no order;
* `pending_lost` (documentation): a quick worker drops the task of an upload that
  has not committed yet;
* `session_survives` (documentation): a refresh that overlaps a password reset
  issues a token the reset does not revoke, although the reset "logs that session
  out too" (`refresh_token_repository.py`).

Three more promises of the documentation the code does not keep.  No run of
their own shows them; what is left of each is a theorem:

* `recursive_chunker.py` "guarantees every chunk fits the token budget", and
  `test_recursive_chunker.py` asserts it for a text of several paragraphs.  A chunk
  exceeds its budget by the blank lines between its paragraphs, which the loop does
  not count; `BudgetOverrun` says that nothing else is added.
* `verification_token_repository.py`: "only the latest link works — old leaked links
  stop working immediately".  Two requests for a link that overlap each
  invalidate the links they see and add their own, and both work;
  `LiveLinksAlwaysOverlap` says that only such requests leave two.
* `base.py` says that chunks cover the input text.  Windows are decoded one by one:
  a character of several tokens that none of them holds whole is U+FFFD in the
  chunks it is in.  `AllTextCovered` says that this takes a character of two or more
  tokens more than the overlap: with an overlap of 0, any of two tokens.

Further behaviour a reader of the code may not expect, which the models show and
no run claims to be wrong:

* An exception outside the task's three lists (the storage's, SQLAlchemy's, a failed
  publish of a retry) leaves its document PROCESSING with no task that would finish
  it; the admin's retry refuses a PROCESSING document, so deleting it is all that helps.
* Once a process has fallen back, its searches of a knowledge base whose
  collection was made by the primary are refused until it is restarted, and so are
  its tasks; cached query vectors keep some searches going, or break others, as
  their key names no model.  `VectorsComparable` shows that nothing worse happens:
  dimensions differ, so vectors of two models never meet.
* Two refreshes that overlap both succeed with the same token, and a request that
  has seen its account active issues a token even if the account has been deactivated
  since.  The properties of `access` allow just these.
* A failed judgement counts as 0 in the averages of an evaluation, as
  `answer_judge.py` says it does, and so pulls them down: `AveragesWithinScores`
  speaks of examples, which a failed search or answer leaves out.
* A point's payload may name a row that never was committed, or another than the
  one found by its text: `RowsAreIndexed` says only that every row's slot is filled.
* A request refused for exactly one window (`Retry-After` equals the window) may be
  refused once more, because a timestamp that old still counts.

## 7. Not modelled

* Loaders (third-party parsers) and guardrail patterns (regular expressions): the
  models keep their outcomes.
* HTTP wiring and validation, configuration, observability, e-mail, migrations: no
  state that interacts, or pure input and output.
* Creation and renaming of conversations and knowledge bases, promotion of users,
  listings: one row, or none.
* The row locks of `Access` beyond the two above, and the detection of deadlocks: the
  statement PostgreSQL picks fails, as `Abort` or `Escapes`.
* Several application processes in front of one limiter, since each has its own;
  access tokens, which are stateless and outlive what `Access` revokes until they
  expire; the strength of hashes and signatures.
* Numeric behaviour of embeddings, BM25 and cross-encoders: the orders they give are
  free in `Retrieval`.
