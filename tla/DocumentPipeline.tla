-------------------------- MODULE DocumentPipeline --------------------------
(***************************************************************************)
(* Ingestion of documents: the upload, delete and admin-retry requests of  *)
(* the API processes, the Celery queue in Redis, the worker task that      *)
(* turns a file into chunk rows and vectors, and the four stores they      *)
(* share (documents and chunks in Postgres, the file storage, Qdrant).     *)
(*                                                                         *)
(* A request is a database transaction that ends after the response has    *)
(* been sent, so its steps interleave with the worker's.  Row locks are    *)
(* not variables: which transactions hold them follows from how far each   *)
(* of them has got.                                                        *)
(***************************************************************************)
EXTENDS Naturals, FiniteSets

CONSTANTS
    Docs,             \* document ids, each drawn once by uuid4
    NoDoc,            \* stands for no document
    Clients,          \* API requests in flight, one per client at a time
    Workers,          \* Celery pool processes (--concurrency=2)
    MaxRetries,       \* CELERY_TASK_MAX_RETRIES
    MaxMsgs,          \* bound: task messages ever published
    MaxRedeliveries,  \* bound: visibility timeouts per message
    Faults            \* which faults of the environment may happen

FaultKinds ==
    {"transient", "embedding", "storage", "child_lost", "worker_lost",
     "slow", "evict", "abort", "error"}

ASSUME DocsAssumption == NoDoc \notin Docs
ASSUME BoundAssumption ==
    /\ MaxRetries \in Nat
    /\ MaxMsgs \in Nat
    /\ MaxRedeliveries \in Nat
ASSUME FaultAssumption == Faults \subseteq FaultKinds

VARIABLES
    kb,      \* is the knowledge base's row committed?
    row,     \* row[d]: committed status of document d, "none" if no row
    rows,    \* rows[d]: committed batches of chunk rows of d
    file,    \* file[d]: what storage holds for d
    points,  \* points[d]: are d's vectors in Qdrant?
    issued,  \* document ids drawn so far
    sent,    \* task messages published so far
    msg,     \* msg[m]: the m-th message and where the broker has it
    req,     \* req[c]: the request client c has in flight
    wk       \* wk[w]: the task worker w runs

db == <<kb, row, rows>>
vars == <<kb, row, rows, file, points, issued, sent, msg, req, wk>>

Status == {"pending", "processing", "ready", "failed"}
Msgs == 1..MaxMsgs

\* What an uploaded file holds: text, no text at all (no chunk), bytes its
\* loader rejects with a LoaderError, or text that something else rejects
\* (a token tiktoken reserves, a NUL character in Postgres).
Contents == {"text", "blank", "corrupt", "odd"}

Uploading == {"up_saved", "up_inserted", "up_enqueued"}
Deleting == {"del_found", "del_file", "del_row"}
Retrying == {"adm_read", "adm_updated", "adm_enqueued"}
ReqSteps == {"idle", "kb_locked", "kb_flushed"} \cup Uploading \cup Deleting
              \cup Retrying
TaskSteps == {"idle", "found", "marked", "loaded", "embedded", "flushed",
              "upserted", "failing"}

Request == [step : ReqSteps \ {"idle"}, doc : Docs \cup {NoDoc},
            seen : Status \cup {"none"}]
NoRequest == [step |-> "idle", doc |-> NoDoc, seen |-> "none"]

Message == [doc : Docs, retries : 0..MaxRetries,
            at : {"queued", "unacked", "gone"},
            redelivered : 0..MaxRedeliveries]
Unsent == [doc |-> NoDoc, retries |-> 0, at |-> "unsent", redelivered |-> 0]

Task == [step : TaskSteps \ {"idle"}, task : Msgs, cached : Status]
NoTask == [step |-> "idle", task |-> 0, cached |-> "none"]

TypeOK ==
    /\ kb \in BOOLEAN
    /\ row \in [Docs -> Status \cup {"none"}]
    /\ rows \in [Docs -> Nat]
    /\ file \in [Docs -> Contents \cup {"absent"}]
    /\ points \in [Docs -> BOOLEAN]
    /\ issued \subseteq Docs
    /\ sent \in 0..MaxMsgs
    /\ msg \in [Msgs -> Message \cup {Unsent}]
    /\ \A m \in Msgs : m <= sent <=> msg[m] \in Message
    /\ req \in [Clients -> Request \cup {NoRequest}]
    /\ \A c \in Clients : req[c].step \notin {"idle", "kb_locked", "kb_flushed"}
                             => req[c].doc \in Docs
    /\ wk \in [Workers -> Task \cup {NoTask}]
    /\ \A w \in Workers : wk[w].task <= sent

Init ==
    /\ kb = TRUE
    /\ row = [d \in Docs |-> "none"]
    /\ rows = [d \in Docs |-> 0]
    /\ file = [d \in Docs |-> "absent"]
    /\ points = [d \in Docs |-> FALSE]
    /\ issued = {}
    /\ sent = 0
    /\ msg = [m \in Msgs |-> Unsent]
    /\ req = [c \in Clients |-> NoRequest]
    /\ wk = [w \in Workers |-> NoTask]

-----------------------------------------------------------------------------
(* Row locks of the open transactions *)

Doc(w) == msg[wk[w].task].doc

\* Postgres: DELETE of the document, directly or by the cascade of its KB.
ExclusiveLock(d) ==
    \E c \in Clients : \/ req[c].step = "del_row" /\ req[c].doc = d
                       \/ req[c].step = "kb_flushed"

\* UPDATE of the status by an admin retry; none is emitted when the value
\* the session read was already PENDING.
UpdateLock(d) ==
    \E c \in Clients : /\ req[c].step \in {"adm_updated", "adm_enqueued"}
                       /\ req[c].doc = d
                       /\ req[c].seen # "pending"

\* KEY SHARE taken by the chunk rows' foreign keys, also on the KB.
ShareLock(d) ==
    \E w \in Workers : wk[w].step \in {"flushed", "upserted"} /\ Doc(w) = d

\* KEY SHARE taken on the KB by the foreign key of an inserted document.
KbShareLock ==
    \E c \in Clients : req[c].step \in {"up_inserted", "up_enqueued"}

KbLock == \E c \in Clients : req[c].step \in {"kb_locked", "kb_flushed"}

CanUpdate(d) == ~ExclusiveLock(d) /\ ~UpdateLock(d)
\* Mutant: chunks without a foreign key, whose INSERT takes no lock.
CanDeleteUnlocked(d) == CanUpdate(d)
CanDelete(d) == CanUpdate(d) /\ ~ShareLock(d)

-----------------------------------------------------------------------------
(* The broker *)

\* Requests that will still publish: their messages are reserved so that the
\* bound MaxMsgs never holds a transaction open.
Reserved ==
    {c \in Clients : req[c].step \in {"up_saved", "up_inserted",
                                      "adm_read", "adm_updated"}}
Room == sent + Cardinality(Reserved) < MaxMsgs

Enqueued(q, d, n) ==
    [q EXCEPT ![sent + 1] = [doc |-> d, retries |-> n, at |-> "queued",
                             redelivered |-> 0]]

\* process_document.delay
Delay(d) ==
    /\ sent < MaxMsgs
    /\ sent' = sent + 1
    /\ msg' = Enqueued(msg, d, 0)

\* The acknowledgement deletes the unacked entry; a copy the visibility
\* timeout has put back into the queue stays there.
Acked(m) ==
    [msg EXCEPT ![m].at = IF @ = "unacked" THEN "gone" ELSE @]

Start(c, s, d, v) ==
    req' = [req EXCEPT ![c] = [step |-> s, doc |-> d, seen |-> v]]
Goto(c, s) == req' = [req EXCEPT ![c].step = s]
End(c) == req' = [req EXCEPT ![c] = NoRequest]

-----------------------------------------------------------------------------
(* DocumentService.upload *)

UploadSave(c, d) ==
    /\ req[c].step = "idle" /\ kb
    /\ d \notin issued /\ Room
    /\ issued' = issued \cup {d}
    /\ \E content \in Contents : file' = [file EXCEPT ![d] = content]
    /\ Start(c, "up_saved", d, "none")
    /\ UNCHANGED <<db, points, sent, msg, wk>>

\* Mutant: documents without a foreign key to their knowledge base.
UploadInsertNoKey(c) ==
    /\ req[c].step = "up_saved"
    /\ Goto(c, "up_inserted")
    /\ UNCHANGED <<db, file, points, issued, sent, msg, wk>>

\* The INSERT waits for a concurrent DELETE of the KB; if that committed,
\* the foreign key fails and the request is rolled back.
UploadInsert(c) ==
    /\ req[c].step = "up_saved"
    /\ ~KbLock
    /\ IF kb THEN Goto(c, "up_inserted") ELSE End(c)
    /\ UNCHANGED <<db, file, points, issued, sent, msg, wk>>

UploadEnqueue(c) ==
    /\ req[c].step = "up_inserted"
    /\ Delay(req[c].doc)
    /\ Goto(c, "up_enqueued")
    /\ UNCHANGED <<db, file, points, issued, wk>>

UploadCommit(c) ==
    /\ req[c].step = "up_enqueued"
    /\ row' = [row EXCEPT ![req[c].doc] = "pending"]
    /\ End(c)
    /\ UNCHANGED <<kb, rows, file, points, issued, sent, msg, wk>>

-----------------------------------------------------------------------------
(* DocumentService.delete *)

DeleteFind(c, d) ==
    /\ req[c].step = "idle" /\ kb
    /\ row[d] # "none"
    /\ Start(c, "del_found", d, "none")
    /\ UNCHANGED <<db, file, points, issued, sent, msg, wk>>

\* The S3 backend swallows a ClientError, so the file may survive.
DeleteFile(c) ==
    /\ req[c].step = "del_found"
    /\ \/ file' = [file EXCEPT ![req[c].doc] = "absent"]
       \/ "storage" \in Faults /\ UNCHANGED file
    /\ Goto(c, "del_file")
    /\ UNCHANGED <<db, points, issued, sent, msg, wk>>

DeleteRow(c) ==
    /\ req[c].step = "del_file"
    /\ CanDelete(req[c].doc)
    /\ Goto(c, "del_row")
    /\ UNCHANGED <<db, file, points, issued, sent, msg, wk>>

\* ON DELETE CASCADE takes the chunk rows with the document.
DeleteCommit(c) ==
    /\ req[c].step = "del_row"
    /\ row' = [row EXCEPT ![req[c].doc] = "none"]
    /\ rows' = [rows EXCEPT ![req[c].doc] = 0]
    /\ End(c)
    /\ UNCHANGED <<kb, file, points, issued, sent, msg, wk>>

-----------------------------------------------------------------------------
(* AdminService.retry_document_processing *)

AdminRead(c, d) ==
    /\ req[c].step = "idle"
    /\ row[d] \notin {"none", "processing"}
    /\ Room
    /\ Start(c, "adm_read", d, row[d])
    /\ UNCHANGED <<db, file, points, issued, sent, msg, wk>>

\* Mutant: the status is written without waiting for the row's lock.
AdminUpdateUnlocked(c) ==
    /\ req[c].step = "adm_read"
    /\ IF row[req[c].doc] = "none" THEN End(c) ELSE Goto(c, "adm_updated")
    /\ UNCHANGED <<db, file, points, issued, sent, msg, wk>>

\* flush and refresh: both fail when the row has been deleted meanwhile.
AdminUpdate(c) ==
    /\ req[c].step = "adm_read"
    /\ req[c].seen = "pending" \/ CanUpdate(req[c].doc)
    /\ IF row[req[c].doc] = "none" THEN End(c) ELSE Goto(c, "adm_updated")
    /\ UNCHANGED <<db, file, points, issued, sent, msg, wk>>

AdminEnqueue(c) ==
    /\ req[c].step = "adm_updated"
    /\ Delay(req[c].doc)
    /\ Goto(c, "adm_enqueued")
    /\ UNCHANGED <<db, file, points, issued, wk>>

AdminCommit(c) ==
    /\ req[c].step = "adm_enqueued"
    /\ row' = IF req[c].seen = "pending" THEN row
              ELSE [row EXCEPT ![req[c].doc] = "pending"]
    /\ End(c)
    /\ UNCHANGED <<kb, rows, file, points, issued, sent, msg, wk>>

-----------------------------------------------------------------------------
(* KnowledgeBaseService.delete, and the end of a request that fails *)

\* The DELETE locks the KB's row, then cascades to the documents.  A deadlock
\* with a task that locked its document first ends as Abort or Escapes.
KbDelete(c) ==
    /\ req[c].step = "idle" /\ kb
    /\ ~KbLock /\ ~KbShareLock /\ \A d \in Docs : ~ShareLock(d)
    /\ Start(c, "kb_locked", NoDoc, "none")
    /\ UNCHANGED <<db, file, points, issued, sent, msg, wk>>

KbCascade(c) ==
    /\ req[c].step = "kb_locked"
    /\ \A d \in Docs : CanDelete(d)
    /\ Goto(c, "kb_flushed")
    /\ UNCHANGED <<db, file, points, issued, sent, msg, wk>>

\* Mutant: the cascade reaches the documents but not their chunks.
KbCommitKeepsRows(c) ==
    /\ req[c].step = "kb_flushed"
    /\ kb' = FALSE
    /\ row' = [d \in Docs |-> "none"]
    /\ End(c)
    /\ UNCHANGED <<rows, file, points, issued, sent, msg, wk>>

KbCommit(c) ==
    /\ req[c].step = "kb_flushed"
    /\ kb' = FALSE
    /\ row' = [d \in Docs |-> "none"]
    /\ rows' = [d \in Docs |-> 0]
    /\ End(c)
    /\ UNCHANGED <<file, points, issued, sent, msg, wk>>

\* get_db_session: an exception, a lost client or a dead process before the
\* commit rolls the transaction back.  Files and messages stay.
Abort(c) ==
    /\ "abort" \in Faults
    /\ req[c].step # "idle"
    /\ End(c)
    /\ UNCHANGED <<db, file, points, issued, sent, msg, wk>>

-----------------------------------------------------------------------------
(* _process_document_async *)

At(w, s) == wk[w].step = s
Move(w, s) == wk' = [wk EXCEPT ![w].step = s]
Drop(w) == wk' = [wk EXCEPT ![w] = NoTask]

\* The task ends, however it ends, and its message is acknowledged.
Finish(w) ==
    /\ Drop(w)
    /\ msg' = Acked(wk[w].task)

\* Mutant: session.merge instead of an UPDATE, which would insert the row.
UpdatedByMerge(d, cached, s) == [row EXCEPT ![d] = s]

\* What update_status leaves in the table: no UPDATE is emitted when the
\* session's copy already has the status, and none can touch a missing row.
Updated(d, cached, s) ==
    IF cached = s \/ row[d] = "none" THEN row ELSE [row EXCEPT ![d] = s]

\* Mutant: task_acks_late is off.
TakeAckEarly(w, m) ==
    /\ At(w, "idle")
    /\ msg[m].at = "queued"
    /\ msg' = [msg EXCEPT ![m].at = "gone"]
    /\ wk' = IF row[msg[m].doc] = "none" THEN wk
             ELSE [wk EXCEPT ![w] = [step |-> "found", task |-> m,
                                     cached |-> row[msg[m].doc]]]
    /\ UNCHANGED <<db, file, points, issued, sent, req>>

\* Mutant: the task goes on although it found no document.
TakeUnchecked(w, m) ==
    /\ At(w, "idle")
    /\ msg[m].at = "queued"
    /\ msg' = [msg EXCEPT ![m].at = "unacked"]
    /\ wk' = [wk EXCEPT ![w] = [step |-> "found", task |-> m,
                                cached |-> row[msg[m].doc]]]
    /\ UNCHANGED <<db, file, points, issued, sent, req>>

\* Delivery and the first SELECT.  A row that is not there (not yet
\* committed, or deleted) ends the task.
Take(w, m) ==
    /\ At(w, "idle")
    /\ msg[m].at = "queued"
    /\ IF row[msg[m].doc] = "none"
       THEN /\ msg' = [msg EXCEPT ![m].at = "gone"]
            /\ UNCHANGED wk
       ELSE /\ msg' = [msg EXCEPT ![m].at = "unacked"]
            /\ wk' = [wk EXCEPT ![w] = [step |-> "found", task |-> m,
                                        cached |-> row[msg[m].doc]]]
    /\ UNCHANGED <<db, file, points, issued, sent, req>>

MarkProcessing(w) ==
    /\ At(w, "found") /\ row[Doc(w)] # "none"
    /\ wk[w].cached = "processing" \/ CanUpdate(Doc(w))
    /\ row' = Updated(Doc(w), wk[w].cached, "processing")
    /\ wk' = [wk EXCEPT ![w] = [step |-> "marked", task |-> wk[w].task,
                                cached |-> row'[Doc(w)]]]
    /\ UNCHANGED <<kb, rows, file, points, issued, sent, msg, req>>

\* What the data provoke and nothing catches: the row or the file has vanished
\* (StaleDataError, IntegrityError, FileNotFoundError), or the text is
\* rejected (ValueError, a NUL character).
Uncaught(w) ==
    /\ \/ wk[w].step \in {"found", "embedded"} /\ row[Doc(w)] = "none"
       \/ At(w, "marked") /\ file[Doc(w)] \in {"absent", "odd"}
    /\ Finish(w)
    /\ UNCHANGED <<db, file, points, issued, sent, req>>

Load(w) ==
    /\ At(w, "marked") /\ file[Doc(w)] \in {"text", "corrupt"}
    /\ Move(w, IF file[Doc(w)] = "text" THEN "loaded" ELSE "failing")
    /\ UNCHANGED <<db, file, points, issued, sent, msg, req>>

\* Mutant: a document without text is reported as processed.
LoadBlankReady(w) ==
    /\ At(w, "marked") /\ file[Doc(w)] = "blank"
    /\ CanUpdate(Doc(w))
    /\ row' = Updated(Doc(w), wk[w].cached, "ready")
    /\ Finish(w)
    /\ UNCHANGED <<kb, rows, file, points, issued, sent, req>>

LoadBlank(w) ==
    /\ At(w, "marked") /\ file[Doc(w)] = "blank"
    /\ CanUpdate(Doc(w))
    /\ row' = Updated(Doc(w), wk[w].cached, "failed")
    /\ Finish(w)
    /\ UNCHANGED <<kb, rows, file, points, issued, sent, req>>

Embed(w) ==
    /\ At(w, "loaded")
    /\ \/ Move(w, "embedded")
       \/ "embedding" \in Faults /\ Move(w, "failing")
    /\ UNCHANGED <<db, file, points, issued, sent, msg, req>>

InsertRows(w) ==
    /\ At(w, "embedded")
    /\ ~KbLock /\ ~ExclusiveLock(Doc(w)) /\ row[Doc(w)] # "none"
    /\ Move(w, "flushed")
    /\ UNCHANGED <<db, file, points, issued, sent, msg, req>>

\* Mutant: an upsert that failed is logged and ignored.
UpsertIgnoringErrors(w) ==
    /\ At(w, "flushed")
    /\ \/ points' = [points EXCEPT ![Doc(w)] = TRUE]
       \/ UNCHANGED points
    /\ Move(w, "upserted")
    /\ UNCHANGED <<db, file, issued, sent, msg, req>>

\* Point ids are uuid5(document:index): a later run overwrites.
Upsert(w) ==
    /\ At(w, "flushed")
    /\ points' = [points EXCEPT ![Doc(w)] = TRUE]
    /\ Move(w, "upserted")
    /\ UNCHANGED <<db, file, issued, sent, msg, req>>

\* Mutant: the final status is written by a second session that locks the
\* row FOR UPDATE, behind the task's own foreign-key lock.
CommitReadySecondSession(w) ==
    /\ At(w, "upserted")
    /\ CanDelete(Doc(w))
    /\ row' = Updated(Doc(w), wk[w].cached, "ready")
    /\ rows' = [rows EXCEPT ![Doc(w)] = @ + 1]
    /\ Finish(w)
    /\ UNCHANGED <<kb, file, points, issued, sent, req>>

CommitReady(w) ==
    /\ At(w, "upserted")
    /\ wk[w].cached = "ready" \/ CanUpdate(Doc(w))
    /\ row' = Updated(Doc(w), wk[w].cached, "ready")
    /\ rows' = [rows EXCEPT ![Doc(w)] = @ + 1]
    /\ Finish(w)
    /\ UNCHANGED <<kb, file, points, issued, sent, req>>

\* LoaderError, EmbeddingError, or retries exhausted: rolled back, then the
\* status is written from a fresh read.
CommitFailed(w) ==
    /\ At(w, "failing")
    /\ CanUpdate(Doc(w))
    /\ row' = Updated(Doc(w), row[Doc(w)], "failed")
    /\ Finish(w)
    /\ UNCHANGED <<kb, rows, file, points, issued, sent, req>>

\* VectorStoreError, ConnectionError, TimeoutError: rolled back, and the
\* task is published again unless its retries are used up.  An upsert that
\* timed out may have been applied.
Transient(w) ==
    /\ "transient" \in Faults
    /\ wk[w].step \in {"marked", "loaded", "embedded", "flushed", "upserted"}
    /\ \/ UNCHANGED points
       \/ At(w, "flushed") /\ points' = [points EXCEPT ![Doc(w)] = TRUE]
    /\ LET n == msg[wk[w].task].retries IN
         IF n >= MaxRetries
         THEN Move(w, "failing") /\ UNCHANGED <<sent, msg>>
         ELSE /\ sent < MaxMsgs /\ Room
              /\ sent' = sent + 1
              /\ msg' = Enqueued(Acked(wk[w].task), Doc(w), n + 1)
              /\ Drop(w)
    /\ UNCHANGED <<db, file, issued, req>>

\* Any other exception outside the three lists: the storage's ClientError,
\* SQLAlchemy's errors at a flush or commit (the handlers' own included), the
\* failed publish of task.retry.  The session closes and the task has failed.
Escapes(w) ==
    /\ "error" \in Faults
    /\ ~At(w, "idle")
    /\ Finish(w)
    /\ UNCHANGED <<db, file, points, issued, sent, req>>

-----------------------------------------------------------------------------
(* Faults of the worker and of the broker *)

\* A pool process dies (out of memory): task_reject_on_worker_lost is not
\* set, so the parent acknowledges the message.
ChildLost(w) ==
    /\ "child_lost" \in Faults
    /\ ~At(w, "idle")
    /\ Finish(w)
    /\ UNCHANGED <<db, file, points, issued, sent, req>>

\* The whole worker dies: the message stays unacknowledged.
WorkerLost(w) ==
    /\ "worker_lost" \in Faults
    /\ ~At(w, "idle")
    /\ msg[wk[w].task].redelivered < MaxRedeliveries
    /\ Drop(w)
    /\ UNCHANGED <<db, file, points, issued, sent, msg, req>>

\* Redis visibility timeout, also for a task that is merely slow.
Redeliver(m) ==
    /\ msg[m].at = "unacked"
    /\ msg[m].redelivered < MaxRedeliveries
    /\ \/ "slow" \in Faults
       \/ \A w \in Workers : At(w, "idle") \/ wk[w].task # m
    /\ msg' = [msg EXCEPT ![m].at = "queued", ![m].redelivered = @ + 1]
    /\ UNCHANGED <<db, file, points, issued, sent, req, wk>>

\* allkeys-lru drops the key that holds the queue.
Evict ==
    /\ "evict" \in Faults
    /\ \E m \in Msgs : msg[m].at = "queued"
    /\ msg' = [m \in Msgs |-> [msg[m] EXCEPT !.at =
                                  IF @ = "queued" THEN "gone" ELSE @]]
    /\ UNCHANGED <<db, file, points, issued, sent, req, wk>>

-----------------------------------------------------------------------------
Open(c) ==
    \/ \E d \in Docs : UploadSave(c, d) \/ DeleteFind(c, d) \/ AdminRead(c, d)
    \/ KbDelete(c)

Proceed(c) ==
    \/ UploadInsert(c) \/ UploadEnqueue(c) \/ UploadCommit(c)
    \/ DeleteFile(c) \/ DeleteRow(c) \/ DeleteCommit(c)
    \/ AdminUpdate(c) \/ AdminEnqueue(c) \/ AdminCommit(c)
    \/ KbCascade(c) \/ KbCommit(c)

Work(w) ==
    \/ MarkProcessing(w) \/ Uncaught(w) \/ Load(w) \/ LoadBlank(w)
    \/ Embed(w) \/ InsertRows(w) \/ Upsert(w)
    \/ CommitReady(w) \/ CommitFailed(w)

Fault(w) == Transient(w) \/ Escapes(w) \/ ChildLost(w) \/ WorkerLost(w)

Next ==
    \/ \E c \in Clients : Open(c) \/ Proceed(c) \/ Abort(c)
    \/ \E w \in Workers : Work(w) \/ Fault(w)
    \/ \E w \in Workers, m \in Msgs : Take(w, m)
    \/ \E m \in Msgs : Redeliver(m)
    \/ Evict

Spec == Init /\ [][Next]_vars

\* An open request reaches its commit and a busy pool process its next step:
\* lock waits in Postgres are queues, hence strong fairness.  A queued
\* message is eventually taken and an abandoned one eventually redelivered.
\* Nothing obliges a client to send a request, or a fault to happen.
Fairness ==
    /\ \A c \in Clients : SF_vars(Proceed(c))
    /\ \A w \in Workers : SF_vars(Work(w))
    /\ \A m \in Msgs : /\ SF_vars(\E w \in Workers : Take(w, m))
                       /\ WF_vars(Redeliver(m))

FairSpec == Spec /\ Fairness

-----------------------------------------------------------------------------
(* Properties *)

\* Every committed batch of chunk rows has its vectors in Qdrant: the task
\* upserts before it commits, so keyword search never returns a document
\* that vector search cannot.
ChunksHaveVectors == \A d \in Docs : rows[d] > 0 => points[d]

\* READY means searchable: chunk rows and vectors are both there, whatever
\* runs of the same document overlapped, failed or were repeated.
ReadyIsSearchable ==
    \A d \in Docs : row[d] = "ready" => rows[d] > 0 /\ points[d]

\* A task that finishes while its document or knowledge base is being
\* deleted leaves no chunk row behind.
NoOrphanRows == \A d \in Docs : rows[d] > 0 => row[d] # "none"

\* Deleting a knowledge base leaves no document, also not one whose upload
\* had already checked that the knowledge base exists.
KbDeletionTotal == ~kb => \A d \in Docs : row[d] = "none"

Gone(d) ==
    /\ d \in issued /\ row[d] = "none"
    /\ \A c \in Clients : ~(req[c].step \in Uploading /\ req[c].doc = d)

\* A deleted document never comes back: not through a task still running,
\* a retry, a redelivery or an admin's request.
DeletedStays == [][\A d \in Docs : Gone(d) => Gone(d)']_vars

HasTask(d) ==
    \/ \E m \in Msgs : msg[m].doc = d /\ msg[m].at \in {"queued", "unacked"}
    \/ \E w \in Workers : ~At(w, "idle") /\ Doc(w) = d

\* A document shown as PROCESSING has a task that will finish it, at a worker,
\* in the queue, or about to be redelivered, unless its file cannot be read
\* or a fault has ended its task: an error that escapes the task's handlers, a
\* lost child, a slow task's early acknowledgement, an evicted queue.
ProcessingHasTask ==
    \A d \in Docs :
        row[d] = "processing" /\ file[d] \notin {"absent", "odd"} => HasTask(d)

Unsettled(d) == row[d] \in {"pending", "processing"}

\* Every committed document ends as READY or FAILED or is deleted, unless
\* its last task was acknowledged without an outcome: locks, retries,
\* crashes and redeliveries never keep it waiting for ever.
Settles ==
    \A d \in Docs : Unsettled(d) ~> ~Unsettled(d) \/ ~HasTask(d)

\* Ingestion as a whole does no more than DocumentLifecycle says.
Lifecycle == INSTANCE DocumentLifecycle WITH
    status <- [d \in Docs |-> IF row[d] # "none" THEN row[d]
                              ELSE IF Gone(d) THEN "gone" ELSE "new"],
    indexed <- [d \in Docs |-> rows[d] > 0 /\ points[d]]
ImplementsLifecycle == Lifecycle!Spec

\* The inductive invariant: what the row locks of open transactions
\* guarantee, and what a stale read of READY still tells.
RequestLocks ==
    \A c \in Clients :
        /\ req[c].step \in {"up_inserted", "up_enqueued"} => kb /\ ~KbLock
        /\ req[c].step \in {"adm_updated", "adm_enqueued"}
           /\ req[c].seen # "pending"
           => row[req[c].doc] # "none" /\ ~ExclusiveLock(req[c].doc)

TaskLocks ==
    \A w \in Workers :
        /\ wk[w].step \in {"flushed", "upserted"}
           => row[Doc(w)] # "none" /\ ~ExclusiveLock(Doc(w))
        /\ At(w, "upserted") => points[Doc(w)]

StaleReady ==
    \A w \in Workers : wk[w].cached = "ready" /\ row[Doc(w)] # "none"
                        => rows[Doc(w)] > 0

\* A document being uploaded is known to its uploader only: ids are fresh,
\* and no task runs for a row that is not committed.
UploadsAreFresh ==
    /\ \A d \in Docs : row[d] # "none" => d \in issued
    /\ \A w \in Workers : wk[w].step # "idle" => Doc(w) \in issued
    /\ \A c \in Clients : req[c].step \in Uploading =>
          /\ req[c].doc \in issued /\ row[req[c].doc] = "none"
          /\ \A w \in Workers : wk[w].step # "idle" => Doc(w) # req[c].doc
          /\ \A b \in Clients : req[b].step \in Uploading
                                 /\ req[b].doc = req[c].doc => b = c

\* Nothing a transaction has locked is changed under it, and the three
\* stores agree as the invariants above say.
IInv ==
    /\ TypeOK
    /\ RequestLocks /\ TaskLocks /\ StaleReady /\ UploadsAreFresh
    /\ ChunksHaveVectors /\ ReadyIsSearchable /\ NoOrphanRows
    /\ KbDeletionTotal

\* retrieval/base.py on delete_by_document: "Called when a Document is
\* deleted (Module 6), so its vectors don't linger in Qdrant as orphaned
\* data."
NoOrphanVectors ==
    \A d \in Docs : kb /\ points[d] /\ Gone(d) => HasTask(d)

\* api/v1/document.py on upload: 'recorded with status "pending" - actual
\* text extraction/chunking/embedding happens later (Module 17: background
\* workers).'  A committed pending document has a task to come.
PendingHasTask == \A d \in Docs : row[d] = "pending" => HasTask(d)
=============================================================================
