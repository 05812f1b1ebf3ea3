----------------------- MODULE DocumentPipelineProofs -----------------------
(***************************************************************************)
(* Proofs about DocumentPipeline for any documents, clients, workers,      *)
(* bounds and faults.  Type correctness is proved first, because every     *)
(* other step needs to know that a message a worker holds was sent.        *)
(***************************************************************************)
EXTENDS DocumentPipeline, TLAPS

\* A published message is appended after all earlier ones.
LEMMA EnqueuedType ==
    ASSUME TypeOK, NEW d \in Docs, NEW n \in 0..MaxRetries, NEW q,
           sent < MaxMsgs,
           q \in [Msgs -> Message \cup {Unsent}],
           \A m \in Msgs : m <= sent <=> q[m] \in Message
    PROVE  /\ sent + 1 \in Msgs
           /\ Enqueued(q, d, n) \in [Msgs -> Message \cup {Unsent}]
           /\ \A m \in Msgs : m <= sent + 1 <=> Enqueued(q, d, n)[m] \in Message
<1>1. sent + 1 \in Msgs
    BY BoundAssumption DEF TypeOK, Msgs
<1>2. [doc |-> d, retries |-> n, at |-> "queued", redelivered |-> 0] \in Message
    BY BoundAssumption DEF Message
<1>3. \A m \in Msgs : m <= sent + 1 <=> m <= sent \/ m = sent + 1
    BY BoundAssumption DEF TypeOK, Msgs
<1> QED
    BY <1>1, <1>2, <1>3 DEF Enqueued

\* An acknowledgement only ever moves one message from unacked to gone.
LEMMA AckedType ==
    ASSUME TypeOK, NEW k \in Msgs, k <= sent
    PROVE  /\ Acked(k) \in [Msgs -> Message \cup {Unsent}]
           /\ \A m \in Msgs : m <= sent <=> Acked(k)[m] \in Message
<1>1. msg[k] \in Message
    BY DEF TypeOK
<1>2. [msg[k] EXCEPT !.at = IF @ = "unacked" THEN "gone" ELSE @] \in Message
    BY <1>1 DEF Message
<1> QED
    BY <1>1, <1>2 DEF Acked, TypeOK

\* The message of a busy worker was sent, so its document is a document.
LEMMA BusyWorker ==
    ASSUME TypeOK, NEW w \in Workers, wk[w].step # "idle"
    PROVE  /\ wk[w] \in Task
           /\ wk[w].task \in Msgs /\ wk[w].task <= sent
           /\ msg[wk[w].task] \in Message
           /\ Doc(w) \in Docs
<1>1. wk[w] \in Task
    BY DEF TypeOK, NoTask
<1>2. wk[w].task \in Msgs /\ wk[w].task <= sent
    BY <1>1 DEF Task, TypeOK
<1>3. msg[wk[w].task] \in Message
    BY <1>2 DEF TypeOK
<1> QED
    BY <1>1, <1>2, <1>3 DEF Doc, Message

\* The conjuncts of TypeOK about requests, messages and workers, for the
\* lemmas about the operators that change one of them.
ReqOK ==
    /\ req \in [Clients -> Request \cup {NoRequest}]
    /\ \A c \in Clients : req[c].step \notin {"idle", "kb_locked", "kb_flushed"}
                             => req[c].doc \in Docs
MsgOK ==
    /\ sent \in 0..MaxMsgs
    /\ msg \in [Msgs -> Message \cup {Unsent}]
    /\ \A m \in Msgs : m <= sent <=> msg[m] \in Message
WkOK ==
    /\ wk \in [Workers -> Task \cup {NoTask}]
    /\ \A w \in Workers : wk[w].task <= sent

LEMMA StartType ==
    ASSUME TypeOK, NEW c \in Clients, NEW s \in ReqSteps \ {"idle"},
           NEW d \in Docs \cup {NoDoc},
           d \in Docs \/ s \in {"kb_locked", "kb_flushed"},
           NEW v \in Status \cup {"none"}, Start(c, s, d, v)
    PROVE  ReqOK'
BY DEF TypeOK, Start, ReqOK, Request

LEMMA GotoType ==
    ASSUME TypeOK, NEW c \in Clients, NEW s \in ReqSteps \ {"idle"},
           req[c].step # "idle",
           \/ req[c].step \notin {"kb_locked", "kb_flushed"}
           \/ s \in {"kb_locked", "kb_flushed"},
           Goto(c, s)
    PROVE  ReqOK'
<1>1. /\ req[c] \in Request
      /\ s \in {"kb_locked", "kb_flushed"} \/ req[c].doc \in Docs
    BY DEF TypeOK, NoRequest
<1>2. PICK r : r = [req[c] EXCEPT !.step = s]
    OBVIOUS
<1>3. r \in Request /\ r.step = s /\ r.doc = req[c].doc
    BY <1>1, <1>2 DEF Request
<1>4. req' = [req EXCEPT ![c] = r]
    BY <1>2 DEF Goto
<1> QED
    BY <1>1, <1>3, <1>4 DEF TypeOK, ReqOK

LEMMA EndType ==
    ASSUME TypeOK, NEW c \in Clients, End(c)
    PROVE  ReqOK'
BY DEF TypeOK, End, ReqOK, NoRequest

LEMMA MoveType ==
    ASSUME TypeOK, NEW w \in Workers, NEW s \in TaskSteps \ {"idle"},
           wk[w].step # "idle", Move(w, s), sent' = sent
    PROVE  WkOK'
<1>1. wk[w] \in Task
    BY BusyWorker
<1>2. [wk[w] EXCEPT !.step = s] \in Task /\ [wk[w] EXCEPT !.step = s].task = wk[w].task
    BY <1>1 DEF Task
<1> QED
    BY <1>1, <1>2 DEF TypeOK, Move, WkOK

LEMMA DropType ==
    ASSUME TypeOK, NEW w \in Workers, Drop(w), sent' \in Nat, sent <= sent'
    PROVE  WkOK'
<1>1. \A v \in Workers : wk[v].task \in Nat /\ wk[v].task <= sent
    BY BoundAssumption DEF TypeOK, Task, NoTask, Msgs
<1>2. \A v \in Workers : wk'[v].task <= sent'
    BY <1>1, BoundAssumption DEF TypeOK, Drop, NoTask
<1> QED
    BY <1>2 DEF TypeOK, Drop, WkOK

LEMMA DelayType ==
    ASSUME TypeOK, NEW d \in Docs, Delay(d)
    PROVE  MsgOK' /\ sent' \in Nat /\ sent <= sent'
<1>1. 0 \in 0..MaxRetries
    BY BoundAssumption
<1>2. sent \in Nat /\ sent' \in 0..MaxMsgs
    BY BoundAssumption DEF TypeOK, Delay
<1> QED
    BY <1>1, <1>2, EnqueuedType DEF TypeOK, Delay, MsgOK

LEMMA FinishType ==
    ASSUME TypeOK, NEW w \in Workers, wk[w].step # "idle", Finish(w),
           sent' = sent
    PROVE  MsgOK' /\ WkOK'
<1>1. sent' \in Nat /\ sent <= sent'
    BY BoundAssumption DEF TypeOK
<1>2. WkOK'
    BY <1>1, DropType DEF Finish
<1>3. MsgOK'
    BY BusyWorker, AckedType DEF Finish, MsgOK, TypeOK
<1> QED
    BY <1>2, <1>3

\* TypeOK in the parts the lemmas speak of.
LEMMA TypeParts ==
    ASSUME kb' \in BOOLEAN, row' \in [Docs -> Status \cup {"none"}],
           rows' \in [Docs -> Nat],
           file' \in [Docs -> Contents \cup {"absent"}],
           points' \in [Docs -> BOOLEAN], (issued \subseteq Docs)',
           ReqOK', MsgOK', WkOK'
    PROVE  TypeOK'
BY DEF TypeOK, ReqOK, MsgOK, WkOK

LEMMA TypeSplit == TypeOK => ReqOK /\ MsgOK /\ WkOK
BY DEF TypeOK, ReqOK, MsgOK, WkOK

-----------------------------------------------------------------------------
(* Type correctness *)

LEMMA UpdatedType ==
    ASSUME TypeOK, NEW d \in Docs, NEW v, NEW s \in Status
    PROVE  /\ Updated(d, v, s) \in [Docs -> Status \cup {"none"}]
           /\ row[d] # "none" => Updated(d, v, s)[d] \in Status
BY DEF TypeOK, Updated

LEMMA RequestType ==
    ASSUME TypeOK, NEW c \in Clients, Open(c) \/ Proceed(c) \/ Abort(c)
    PROVE  TypeOK'
<1> USE TypeSplit, TypeParts
<1> DEFINE Same == UNCHANGED <<msg, sent>> /\ UNCHANGED wk
<1>0. Same => MsgOK' /\ WkOK'
    BY DEF TypeOK, MsgOK, WkOK
<1>1. ASSUME NEW d \in Docs, UploadSave(c, d) PROVE TypeOK'
  <2>1. ReqOK'
    BY <1>1, StartType DEF UploadSave, TypeOK, ReqSteps, Uploading, Deleting, Retrying
  <2> QED
    BY <1>0, <1>1, <2>1 DEF UploadSave, TypeOK, db
<1>2. ASSUME NEW d \in Docs, DeleteFind(c, d) PROVE TypeOK'
  <2>1. ReqOK'
    BY <1>2, StartType DEF DeleteFind, TypeOK, ReqSteps, Uploading, Deleting, Retrying
  <2> QED
    BY <1>0, <1>2, <2>1 DEF DeleteFind, TypeOK, db
<1>3. ASSUME NEW d \in Docs, AdminRead(c, d) PROVE TypeOK'
  <2>1. ReqOK'
    BY <1>3, StartType DEF AdminRead, TypeOK, ReqSteps, Uploading, Deleting, Retrying
  <2> QED
    BY <1>0, <1>3, <2>1 DEF AdminRead, TypeOK, db
<1>4. ASSUME KbDelete(c) PROVE TypeOK'
  <2>1. ReqOK'
    BY <1>4, StartType DEF KbDelete, TypeOK, ReqSteps
  <2> QED
    BY <1>0, <1>4, <2>1 DEF KbDelete, TypeOK, db
<1>5. ASSUME UploadInsert(c) PROVE TypeOK'
  <2>1. ReqOK'
    BY <1>5, GotoType, EndType DEF UploadInsert, ReqSteps, Uploading
  <2> QED
    BY <1>0, <1>5, <2>1 DEF UploadInsert, TypeOK, db
<1>6. ASSUME UploadEnqueue(c) \/ AdminEnqueue(c) PROVE TypeOK'
  <2>1. req[c].doc \in Docs
    BY <1>6 DEF UploadEnqueue, AdminEnqueue, TypeOK
  <2>2. ReqOK'
    BY <1>6, GotoType DEF UploadEnqueue, AdminEnqueue, ReqSteps, Uploading, Retrying
  <2>3. MsgOK' /\ WkOK'
    <3>1. Delay(req[c].doc) /\ UNCHANGED wk
      BY <1>6 DEF UploadEnqueue, AdminEnqueue
    <3>2. MsgOK' /\ sent' \in Nat /\ sent <= sent'
      BY <2>1, <3>1, DelayType
    <3>3. \A w \in Workers : wk[w].task \in Nat /\ wk[w].task <= sent
      BY BoundAssumption DEF TypeOK, Task, NoTask, Msgs
    <3> QED
      BY <3>1, <3>2, <3>3, BoundAssumption DEF WkOK, TypeOK
  <2> QED
    BY <1>6, <2>2, <2>3 DEF UploadEnqueue, AdminEnqueue, TypeOK, db
<1>7. ASSUME UploadCommit(c) PROVE TypeOK'
    BY <1>0, <1>7, EndType DEF UploadCommit, TypeOK, Status
<1>8. ASSUME DeleteFile(c) \/ DeleteRow(c) PROVE TypeOK'
  <2>1. ReqOK'
    BY <1>8, GotoType DEF DeleteFile, DeleteRow, ReqSteps, Deleting
  <2>2. file' \in [Docs -> Contents \cup {"absent"}]
    BY <1>8 DEF DeleteFile, DeleteRow, TypeOK
  <2> QED
    BY <1>0, <1>8, <2>1, <2>2 DEF DeleteFile, DeleteRow, TypeOK, db
<1>9. ASSUME DeleteCommit(c) PROVE TypeOK'
    BY <1>0, <1>9, EndType DEF DeleteCommit, TypeOK
<1>10. ASSUME AdminUpdate(c) PROVE TypeOK'
  <2>1. ReqOK'
    BY <1>10, GotoType, EndType DEF AdminUpdate, ReqSteps, Retrying
  <2> QED
    BY <1>0, <1>10, <2>1 DEF AdminUpdate, TypeOK, db
<1>11. ASSUME AdminCommit(c) PROVE TypeOK'
    BY <1>0, <1>11, EndType DEF AdminCommit, TypeOK, Status
<1>12. ASSUME KbCommit(c) PROVE TypeOK'
    BY <1>0, <1>12, EndType DEF KbCommit, TypeOK
<1>14. ASSUME KbCascade(c) PROVE TypeOK'
  <2>1. ReqOK'
    BY <1>14, GotoType DEF KbCascade, ReqSteps
  <2> QED
    BY <1>0, <1>14, <2>1 DEF KbCascade, TypeOK, db
<1>13. ASSUME Abort(c) PROVE TypeOK'
    BY <1>0, <1>13, EndType DEF Abort, TypeOK, db
<1> QED
    BY <1>1, <1>2, <1>3, <1>4, <1>5, <1>6, <1>7, <1>8, <1>9, <1>10, <1>11,
       <1>12, <1>13, <1>14 DEF Open, Proceed

LEMMA TaskType ==
    ASSUME TypeOK, NEW w \in Workers, Work(w) \/ Fault(w)
    PROVE  TypeOK'
<1> USE TypeSplit, TypeParts
<1>0. UNCHANGED <<req, issued>> /\ kb' = kb
    BY DEF Work, Fault, MarkProcessing, Uncaught, Load, LoadBlank, Embed,
       InsertRows, Upsert, CommitReady, CommitFailed, Transient, Escapes, ChildLost,
       WorkerLost, db
<1>1. ReqOK' /\ (issued \subseteq Docs)' /\ kb' \in BOOLEAN
    BY <1>0 DEF TypeOK, ReqOK
<1>2. wk[w].step # "idle"
    BY DEF Work, Fault, MarkProcessing, Uncaught, Load, LoadBlank, Embed,
       InsertRows, Upsert, CommitReady, CommitFailed, Transient, Escapes, ChildLost,
       WorkerLost, At
<1>3. wk[w] \in Task /\ wk[w].task \in Msgs /\ wk[w].task <= sent
      /\ msg[wk[w].task] \in Message /\ Doc(w) \in Docs
    BY <1>2, BusyWorker
<1>4. UNCHANGED <<msg, sent>> => MsgOK'
    BY DEF TypeOK, MsgOK
<1>5. ASSUME MarkProcessing(w) PROVE TypeOK'
  <2>1. row' \in [Docs -> Status \cup {"none"}] /\ row'[Doc(w)] \in Status
    BY <1>3, <1>5, UpdatedType DEF MarkProcessing, Status
  <2>2. [step |-> "marked", task |-> wk[w].task, cached |-> row'[Doc(w)]] \in Task
    BY <1>3, <2>1 DEF Task, TaskSteps
  <2>3. WkOK'
    BY <1>3, <1>5, <2>2 DEF MarkProcessing, TypeOK, WkOK
  <2> QED
    BY <1>1, <1>4, <1>5, <2>1, <2>3 DEF MarkProcessing, TypeOK
<1>6. ASSUME Uncaught(w) \/ Escapes(w) \/ ChildLost(w) PROVE TypeOK'
    BY <1>1, <1>2, <1>6, FinishType DEF Uncaught, Escapes, ChildLost,
       TypeOK, db
<1>7. ASSUME Load(w) \/ Embed(w) \/ InsertRows(w) PROVE TypeOK'
  <2>1. WkOK'
    BY <1>2, <1>7, MoveType DEF Load, Embed, InsertRows, TaskSteps
  <2> QED
    BY <1>1, <1>4, <1>7, <2>1 DEF Load, Embed, InsertRows, TypeOK, db
<1>8. ASSUME LoadBlank(w) \/ CommitFailed(w) PROVE TypeOK'
  <2>1. row' \in [Docs -> Status \cup {"none"}]
    BY <1>3, <1>8, UpdatedType DEF LoadBlank, CommitFailed, Status
  <2> QED
    BY <1>1, <1>2, <1>8, <2>1, FinishType DEF LoadBlank, CommitFailed, TypeOK
<1>9. ASSUME Upsert(w) PROVE TypeOK'
  <2>1. WkOK'
    BY <1>2, <1>9, MoveType DEF Upsert, TaskSteps
  <2> QED
    BY <1>1, <1>3, <1>4, <1>9, <2>1 DEF Upsert, TypeOK, db
<1>10. ASSUME CommitReady(w) PROVE TypeOK'
  <2>1. row' \in [Docs -> Status \cup {"none"}]
    BY <1>3, <1>10, UpdatedType DEF CommitReady, Status
  <2>2. rows' \in [Docs -> Nat]
    BY <1>3, <1>10 DEF CommitReady, TypeOK
  <2> QED
    BY <1>1, <1>2, <1>10, <2>1, <2>2, FinishType DEF CommitReady, TypeOK
<1>11. ASSUME Transient(w) PROVE TypeOK'
  <2>1. points' \in [Docs -> BOOLEAN]
    BY <1>3, <1>11 DEF Transient, TypeOK
  <2>2. MsgOK' /\ WkOK'
    <3>1. CASE msg[wk[w].task].retries >= MaxRetries
      <4>1. Move(w, "failing") /\ UNCHANGED <<sent, msg>>
        BY <1>11, <3>1 DEF Transient
      <4> QED
        BY <1>2, <1>4, <4>1, MoveType DEF TaskSteps
    <3>2. CASE ~(msg[wk[w].task].retries >= MaxRetries)
      <4> DEFINE n == msg[wk[w].task].retries + 1
      <4>1. n \in 0..MaxRetries
        BY <1>3, <3>2, BoundAssumption DEF Message
      <4>2. sent < MaxMsgs /\ sent' = sent + 1 /\ Drop(w)
            /\ msg' = Enqueued(Acked(wk[w].task), Doc(w), n)
        BY <1>11, <3>2 DEF Transient
      <4>3. sent \in Nat /\ sent' \in Nat /\ sent <= sent' /\ sent' \in 0..MaxMsgs
        BY <4>2, BoundAssumption DEF TypeOK
      <4>4. MsgOK'
        BY <1>3, <4>1, <4>2, <4>3, AckedType, EnqueuedType DEF MsgOK
      <4> QED
        BY <4>2, <4>3, <4>4, DropType
    <3> QED
      BY <3>1, <3>2
  <2> QED
    BY <1>1, <1>11, <2>1, <2>2 DEF Transient, TypeOK, db
<1>12. ASSUME WorkerLost(w) PROVE TypeOK'
  <2>1. sent' = sent /\ sent \in Nat /\ Drop(w)
    BY <1>12, BoundAssumption DEF WorkerLost, TypeOK
  <2>2. WkOK'
    BY <2>1, DropType
  <2> QED
    BY <1>1, <1>4, <1>12, <2>2 DEF WorkerLost, TypeOK, db
<1> QED
    BY <1>5, <1>6, <1>7, <1>8, <1>9, <1>10, <1>11, <1>12 DEF Work, Fault

LEMMA BrokerType ==
    ASSUME TypeOK, \/ \E w \in Workers, m \in Msgs : Take(w, m)
                   \/ \E m \in Msgs : Redeliver(m)
                   \/ Evict
    PROVE  TypeOK'
<1> USE TypeSplit, TypeParts
<1>1. UNCHANGED <<db, file, points, issued, sent, req>>
    BY DEF Take, Redeliver, Evict
<1>2. ReqOK' /\ (issued \subseteq Docs)' /\ sent' = sent
    BY <1>1 DEF TypeOK, ReqOK
<1>3. \A m \in Msgs : msg[m].at # "unsent" => msg[m] \in Message
    BY DEF TypeOK, Unsent
<1>4. ASSUME NEW w \in Workers, NEW m \in Msgs, Take(w, m) PROVE TypeOK'
  <2>1. msg[m] \in Message
    BY <1>3, <1>4 DEF Take
  <2>2. \A s \in {"gone", "unacked"} : [msg[m] EXCEPT !.at = s] \in Message
    BY <2>1 DEF Message
  <2>3. MsgOK'
    BY <1>2, <1>4, <2>1, <2>2 DEF Take, MsgOK, TypeOK
  <2>4. WkOK'
    <3>1. CASE row[msg[m].doc] = "none"
      BY <1>2, <1>4, <3>1 DEF Take, WkOK, TypeOK
    <3>2. CASE row[msg[m].doc] # "none"
      <4>1. m <= sent
        BY <2>1 DEF TypeOK
      <4>2. [step |-> "found", task |-> m, cached |-> row[msg[m].doc]] \in Task
        BY <2>1, <3>2 DEF TypeOK, Task, TaskSteps, Message
      <4> QED
        BY <1>2, <1>4, <3>2, <4>1, <4>2 DEF Take, WkOK, TypeOK
    <3> QED
      BY <3>1, <3>2
  <2> QED
    BY <1>1, <1>2, <2>3, <2>4 DEF TypeOK, db
<1>5. ASSUME NEW m \in Msgs, Redeliver(m) PROVE TypeOK'
  <2>1. msg[m] \in Message
    BY <1>3, <1>5 DEF Redeliver
  <2>2. [msg[m] EXCEPT !.at = "queued", !.redelivered = @ + 1] \in Message
    <3>1. [msg[m] EXCEPT !.at = "queued"] \in Message
      BY <2>1 DEF Message
    <3>2. msg[m].redelivered + 1 \in 0..MaxRedeliveries
      BY <1>5, <2>1, BoundAssumption DEF Redeliver, Message
    <3> QED
      BY <2>1, <3>1, <3>2 DEF Message
  <2>3. MsgOK'
    BY <1>2, <1>5, <2>1, <2>2 DEF Redeliver, MsgOK, TypeOK
  <2>4. WkOK'
    BY <1>2, <1>5 DEF Redeliver, WkOK, TypeOK
  <2> QED
    BY <1>1, <1>2, <2>3, <2>4 DEF TypeOK, db
<1>6. ASSUME Evict PROVE TypeOK'
  <2>1. \A m \in Msgs : msg[m] \in Message =>
            [msg[m] EXCEPT !.at = IF @ = "queued" THEN "gone" ELSE @] \in Message
    BY DEF Message
  <2>2. [Unsent EXCEPT !.at = IF @ = "queued" THEN "gone" ELSE @] = Unsent
    BY DEF Unsent
  <2>3. MsgOK'
    BY <1>2, <1>6, <2>1, <2>2 DEF Evict, MsgOK, TypeOK
  <2>4. WkOK'
    BY <1>2, <1>6 DEF Evict, WkOK, TypeOK
  <2> QED
    BY <1>1, <1>2, <2>3, <2>4 DEF TypeOK, db
<1> QED
    BY <1>4, <1>5, <1>6

LEMMA NextType == TypeOK /\ [Next]_vars => TypeOK'
<1> SUFFICES ASSUME TypeOK, [Next]_vars PROVE TypeOK'
    OBVIOUS
<1>1. CASE UNCHANGED vars
    BY <1>1 DEF vars, db, TypeOK
<1> QED
    BY <1>1, RequestType, TaskType, BrokerType DEF Next

\* Every reachable state of the pipeline is well typed: a busy worker holds a
\* published message, whose retry count never exceeds CELERY_TASK_MAX_RETRIES.
THEOREM TypeCorrect == Spec => []TypeOK
<1>1. Init => TypeOK
  <2> SUFFICES ASSUME Init PROVE TypeOK
    OBVIOUS
  <2>1. \A m \in Msgs : ~(m <= 0)
    BY BoundAssumption DEF Msgs
  <2>2. Unsent \notin Message
    BY DEF Unsent, Message
  <2> QED
    BY <2>1, <2>2, BoundAssumption DEF Init, TypeOK, Status, NoRequest, NoTask
<1> QED
    BY <1>1, NextType, PTL DEF Spec

-----------------------------------------------------------------------------
(* The inductive invariant *)

\* A message keeps its document, so a busy worker works on one document.
LEMMA DocKept ==
    ASSUME TypeOK, Next, NEW w \in Workers, wk[w].step # "idle",
           wk'[w].task = wk[w].task
    PROVE  Doc(w)' = Doc(w)
<1>1. wk[w].task \in Msgs /\ wk[w].task <= sent
    BY BusyWorker
<1>2. \A m \in Msgs : m <= sent => msg'[m].doc = msg[m].doc
  <2>1. \A d, n : \A q \in [Msgs -> Message \cup {Unsent}] :
            \A m \in Msgs : m <= sent => Enqueued(q, d, n)[m] = q[m]
    BY BoundAssumption DEF Enqueued, TypeOK, Msgs
  <2>2. \A v \in Workers : wk[v].step # "idle" =>
            /\ Acked(wk[v].task) \in [Msgs -> Message \cup {Unsent}]
            /\ \A m \in Msgs : m <= sent =>
                  Acked(wk[v].task)[m].doc = msg[m].doc
    <3> SUFFICES ASSUME NEW v \in Workers, wk[v].step # "idle"
                 PROVE  /\ Acked(wk[v].task) \in [Msgs -> Message \cup {Unsent}]
                        /\ \A m \in Msgs : m <= sent =>
                              Acked(wk[v].task)[m].doc = msg[m].doc
        OBVIOUS
    <3>1. wk[v].task \in Msgs /\ wk[v].task <= sent
        BY BusyWorker
    <3> QED
        BY <3>1, AckedType DEF Acked, TypeOK, Message
  <2>3. ASSUME NEW c \in Clients, Open(c) \/ Proceed(c) \/ Abort(c)
        PROVE  \A m \in Msgs : m <= sent => msg'[m].doc = msg[m].doc
    BY <2>1, <2>3 DEF Open, Proceed, UploadSave, DeleteFind, AdminRead,
       KbDelete, UploadInsert, UploadEnqueue, UploadCommit, DeleteFile,
       DeleteRow, DeleteCommit, AdminUpdate, AdminEnqueue, AdminCommit,
       KbCascade, KbCommit, Abort, Delay, TypeOK
  <2>4. ASSUME NEW v \in Workers, Work(v) \/ Escapes(v) \/ ChildLost(v) \/ WorkerLost(v)
        PROVE  \A m \in Msgs : m <= sent => msg'[m].doc = msg[m].doc
    BY <2>2, <2>4 DEF Work, Escapes, ChildLost, WorkerLost, MarkProcessing, Uncaught,
       Load, LoadBlank, Embed, InsertRows, Upsert, CommitReady, CommitFailed,
       Finish, At
  <2>5. ASSUME NEW v \in Workers, Transient(v)
        PROVE  \A m \in Msgs : m <= sent => msg'[m].doc = msg[m].doc
    BY <2>1, <2>2, <2>5 DEF Transient
  <2>6. ASSUME NEW v \in Workers, NEW k \in Msgs, Take(v, k)
        PROVE  \A m \in Msgs : m <= sent => msg'[m].doc = msg[m].doc
    BY <2>6 DEF Take, TypeOK, Message
  <2>7. ASSUME NEW k \in Msgs, Redeliver(k)
        PROVE  \A m \in Msgs : m <= sent => msg'[m].doc = msg[m].doc
    <3>1. \A m \in Msgs : m <= sent => msg[m] \in Message
      BY DEF TypeOK
    <3>2. msg[k] \in Message
      BY <2>7 DEF Redeliver, TypeOK, Unsent
    <3>3. [msg[k] EXCEPT !.at = "queued", !.redelivered = @ + 1].doc = msg[k].doc
      BY <3>2 DEF Message
    <3> QED
      BY <2>7, <3>1, <3>3 DEF Redeliver, TypeOK
  <2>8. ASSUME Evict
        PROVE  \A m \in Msgs : m <= sent => msg'[m].doc = msg[m].doc
    BY <2>8 DEF Evict, TypeOK, Message
  <2> QED
    BY <2>3, <2>4, <2>5, <2>6, <2>7, <2>8 DEF Next, Fault
<1> QED
    BY <1>1, <1>2 DEF Doc

Stores == ChunksHaveVectors /\ ReadyIsSearchable /\ NoOrphanRows /\ KbDeletionTotal

LEMMA Opening ==
    ASSUME IInv, NEW c \in Clients, Next, Open(c)
    PROVE  IInv'
<1> USE DEF IInv
<1>1. TypeOK'
    BY NextType
<1>2. UNCHANGED <<db, points, wk, msg>>
    BY DEF Open, UploadSave, DeleteFind, AdminRead, KbDelete
<1>3. Stores' /\ StaleReady'
  <2>1. \A w \in Workers : wk[w].cached = "ready" => Doc(w)' = Doc(w)
    BY <1>2, DocKept DEF TypeOK, NoTask, Task
  <2> QED
    BY <1>2, <2>1 DEF Stores, ChunksHaveVectors, ReadyIsSearchable, NoOrphanRows,
       KbDeletionTotal, db, StaleReady
<1>4. \A w \in Workers : wk[w].step # "idle" => Doc(w)' = Doc(w)
    BY <1>2, DocKept
<1>5. ASSUME NEW d \in Docs, DeleteFind(c, d) \/ AdminRead(c, d)
      PROVE  RequestLocks' /\ TaskLocks' /\ UploadsAreFresh'
  <2>1. \A e \in Docs : ExclusiveLock(e)' => ExclusiveLock(e)
    BY <1>5 DEF ExclusiveLock, DeleteFind, AdminRead, Start, TypeOK
  <2>2. KbLock' => KbLock
    BY <1>5 DEF KbLock, DeleteFind, AdminRead, Start, TypeOK
  <2>3. TaskLocks'
    BY <1>2, <1>4, <2>1, BusyWorker DEF TaskLocks, At, db
  <2>4. RequestLocks'
    BY <1>2, <1>5, <2>1, <2>2 DEF RequestLocks, DeleteFind, AdminRead, Start,
       TypeOK, db
  <2>5. UploadsAreFresh'
    BY <1>2, <1>4, <1>5 DEF UploadsAreFresh, DeleteFind, AdminRead, Start,
       TypeOK, db, Uploading
  <2> QED
    BY <2>3, <2>4, <2>5
<1>6. ASSUME NEW d \in Docs, UploadSave(c, d)
      PROVE  RequestLocks' /\ TaskLocks' /\ UploadsAreFresh'
  <2>1. \A e \in Docs : ExclusiveLock(e)' => ExclusiveLock(e)
    BY <1>6 DEF ExclusiveLock, UploadSave, Start, TypeOK
  <2>2. KbLock' => KbLock
    BY <1>6 DEF KbLock, UploadSave, Start, TypeOK
  <2>3. TaskLocks'
    BY <1>2, <1>4, <2>1, BusyWorker DEF TaskLocks, At, db
  <2>4. RequestLocks'
    BY <1>2, <1>6, <2>1, <2>2 DEF RequestLocks, UploadSave, Start, TypeOK, db
  <2>5. UploadsAreFresh'
    BY <1>2, <1>4, <1>6 DEF UploadsAreFresh, UploadSave, Start, TypeOK, db,
       Uploading
  <2> QED
    BY <2>3, <2>4, <2>5
<1>7. ASSUME KbDelete(c)
      PROVE  RequestLocks' /\ TaskLocks' /\ UploadsAreFresh'
  <2>1. /\ req'[c].step = "kb_locked"
        /\ \A b \in Clients : b # c => req'[b] = req[b]
    BY <1>7 DEF KbDelete, Start, TypeOK
  <2>2. \A e \in Docs : ExclusiveLock(e)' => ExclusiveLock(e)
    BY <2>1 DEF ExclusiveLock
  <2>3. TaskLocks'
    BY <1>2, <1>4, <2>2, BusyWorker DEF TaskLocks, At, db
  <2>4. \A b \in Clients : req[b].step \notin {"up_inserted", "up_enqueued"}
    BY <1>7 DEF KbDelete, KbShareLock
  <2>5. RequestLocks'
    BY <1>2, <2>1, <2>2, <2>4 DEF RequestLocks, TypeOK, db
  <2>6. UploadsAreFresh'
    BY <1>2, <1>4, <1>7 DEF UploadsAreFresh, KbDelete, Start, TypeOK, db,
       Uploading
  <2> QED
    BY <2>3, <2>5, <2>6
<1> QED
    BY <1>1, <1>3, <1>5, <1>6, <1>7 DEF Open, Stores

\* What a request's step to s, and its end, leave of the other requests.
LEMMA GotoFrame ==
    ASSUME TypeOK, NEW c \in Clients, req[c].step # "idle", NEW s, Goto(c, s)
    PROVE  /\ req'[c].step = s /\ req'[c].doc = req[c].doc
           /\ req'[c].seen = req[c].seen
           /\ \A b \in Clients : b # c => req'[b] = req[b]
<1>1. req[c] \in Request
    BY DEF TypeOK, NoRequest
<1> QED
    BY <1>1 DEF Goto, TypeOK, Request

LEMMA EndFrame ==
    ASSUME TypeOK, NEW c \in Clients, End(c)
    PROVE  /\ req'[c].step = "idle"
           /\ \A b \in Clients : b # c => req'[b] = req[b]
BY DEF End, TypeOK, NoRequest

\* A step that changes neither the tables, the vectors nor a worker keeps
\* what the stores say of each other.
LEMMA StoresKept ==
    ASSUME IInv, Next, UNCHANGED <<db, points, wk>>
    PROVE  /\ Stores' /\ StaleReady'
           /\ \A w \in Workers : wk[w].step # "idle" => Doc(w)' = Doc(w)
<1>1. TypeOK
    BY DEF IInv
<1>2. \A w \in Workers : wk[w].step # "idle" => Doc(w)' = Doc(w)
    BY <1>1, DocKept
<1>3. \A w \in Workers : wk[w].cached = "ready" => wk[w].step # "idle"
    BY <1>1 DEF TypeOK, NoTask, Task
<1> QED
    BY <1>2, <1>3 DEF IInv, Stores, ChunksHaveVectors, ReadyIsSearchable,
       NoOrphanRows, KbDeletionTotal, db, StaleReady

\* A request that ends without a commit only releases locks.
LEMMA Ending ==
    ASSUME IInv, NEW c \in Clients, Next, End(c), UNCHANGED <<db, points, issued, wk>>
    PROVE  RequestLocks' /\ TaskLocks' /\ UploadsAreFresh'
<1> USE DEF IInv
<1>1. \A w \in Workers : wk[w].step # "idle" => Doc(w)' = Doc(w)
    BY StoresKept
<1>2. /\ req'[c].step = "idle"
      /\ \A b \in Clients : b # c => req'[b] = req[b]
    BY EndFrame
<1>3. \A e \in Docs : ExclusiveLock(e)' => ExclusiveLock(e)
    BY <1>2 DEF ExclusiveLock
<1>4. KbLock' => KbLock
    BY <1>2 DEF KbLock
<1>5. TaskLocks'
    BY <1>1, <1>3, BusyWorker DEF TaskLocks, At, db
<1>6. RequestLocks'
    BY <1>2, <1>3, <1>4 DEF RequestLocks, TypeOK, db
<1>7. UploadsAreFresh'
    BY <1>1, <1>2 DEF UploadsAreFresh, Uploading, db
<1> QED
    BY <1>5, <1>6, <1>7

\* The steps of an open request before its commit.
LEMMA Waiting ==
    ASSUME IInv, NEW c \in Clients, Next,
           \/ UploadInsert(c) \/ UploadEnqueue(c) \/ DeleteFile(c)
           \/ DeleteRow(c) \/ AdminUpdate(c) \/ AdminEnqueue(c)
           \/ KbCascade(c) \/ Abort(c)
    PROVE  IInv'
<1> USE DEF IInv
<1>1. TypeOK'
    BY NextType
<1>2. UNCHANGED <<db, points, issued, wk>>
    BY DEF UploadInsert, UploadEnqueue, DeleteFile, DeleteRow, AdminUpdate,
       AdminEnqueue, KbCascade, Abort
<1>3. /\ Stores' /\ StaleReady'
      /\ \A w \in Workers : wk[w].step # "idle" => Doc(w)' = Doc(w)
    BY <1>2, StoresKept
<1>4. CASE End(c)
    BY <1>1, <1>2, <1>3, <1>4, Ending DEF Stores
<1>5. ASSUME UploadInsert(c), Goto(c, "up_inserted")
      PROVE  RequestLocks' /\ TaskLocks' /\ UploadsAreFresh'
  <2>1. kb /\ ~KbLock /\ req[c].step = "up_saved"
    BY <1>5 DEF UploadInsert, Goto, End, TypeOK, NoRequest, Request
  <2>2. /\ req'[c].step = "up_inserted" /\ req'[c].doc = req[c].doc
        /\ \A b \in Clients : b # c => req'[b] = req[b]
    BY <1>5, <2>1, GotoFrame
  <2>3. \A e \in Docs : ExclusiveLock(e)' => ExclusiveLock(e)
    BY <2>2 DEF ExclusiveLock
  <2>4. ~KbLock'
    BY <2>1, <2>2 DEF KbLock
  <2>5. TaskLocks'
    BY <1>2, <1>3, <2>3, BusyWorker DEF TaskLocks, At, db
  <2>6. RequestLocks'
    BY <1>2, <2>1, <2>2, <2>3, <2>4 DEF RequestLocks, TypeOK, db
  <2>7. UploadsAreFresh'
    BY <1>2, <1>3, <2>1, <2>2 DEF UploadsAreFresh, Uploading, db
  <2> QED
    BY <2>5, <2>6, <2>7
<1>6. ASSUME UploadEnqueue(c)
      PROVE  RequestLocks' /\ TaskLocks' /\ UploadsAreFresh'
  <2>1. req[c].step = "up_inserted"
    BY <1>6 DEF UploadEnqueue
  <2>2. /\ req'[c].step = "up_enqueued" /\ req'[c].doc = req[c].doc
        /\ \A b \in Clients : b # c => req'[b] = req[b]
    BY <1>6, <2>1, GotoFrame DEF UploadEnqueue
  <2>3. \A e \in Docs : ExclusiveLock(e)' => ExclusiveLock(e)
    BY <2>2 DEF ExclusiveLock
  <2>4. KbLock' => KbLock
    BY <2>2 DEF KbLock
  <2>5. TaskLocks'
    BY <1>2, <1>3, <2>3, BusyWorker DEF TaskLocks, At, db
  <2>6. RequestLocks'
    BY <1>2, <2>1, <2>2, <2>3, <2>4 DEF RequestLocks, TypeOK, db
  <2>7. UploadsAreFresh'
    BY <1>2, <1>3, <2>1, <2>2 DEF UploadsAreFresh, Uploading, db
  <2> QED
    BY <2>5, <2>6, <2>7
<1>7. ASSUME DeleteFile(c)
      PROVE  RequestLocks' /\ TaskLocks' /\ UploadsAreFresh'
  <2>1. req[c].step = "del_found"
    BY <1>7 DEF DeleteFile
  <2>2. /\ req'[c].step = "del_file" /\ req'[c].doc = req[c].doc
        /\ \A b \in Clients : b # c => req'[b] = req[b]
    BY <1>7, <2>1, GotoFrame DEF DeleteFile
  <2>3. \A e \in Docs : ExclusiveLock(e)' => ExclusiveLock(e)
    BY <2>2 DEF ExclusiveLock
  <2>4. KbLock' => KbLock
    BY <2>2 DEF KbLock
  <2>5. TaskLocks'
    BY <1>2, <1>3, <2>3, BusyWorker DEF TaskLocks, At, db
  <2>6. RequestLocks'
    BY <1>2, <2>1, <2>2, <2>3, <2>4 DEF RequestLocks, TypeOK, db
  <2>7. UploadsAreFresh'
    BY <1>2, <1>3, <2>1, <2>2 DEF UploadsAreFresh, Uploading, db
  <2> QED
    BY <2>5, <2>6, <2>7
<1>8. ASSUME DeleteRow(c)
      PROVE  RequestLocks' /\ TaskLocks' /\ UploadsAreFresh'
  <2>1. /\ req[c].step = "del_file" /\ req[c].doc \in Docs
        /\ ~ExclusiveLock(req[c].doc) /\ ~UpdateLock(req[c].doc)
        /\ ~ShareLock(req[c].doc)
    BY <1>8 DEF DeleteRow, CanDelete, CanUpdate, TypeOK
  <2>2. /\ req'[c].step = "del_row" /\ req'[c].doc = req[c].doc
        /\ \A b \in Clients : b # c => req'[b] = req[b]
    BY <1>8, <2>1, GotoFrame DEF DeleteRow
  <2>3. \A e \in Docs : ExclusiveLock(e)' => ExclusiveLock(e) \/ e = req[c].doc
    BY <2>2 DEF ExclusiveLock
  <2>4. KbLock' => KbLock
    BY <2>2 DEF KbLock
  <2>5. TaskLocks'
    BY <1>2, <1>3, <2>1, <2>3, BusyWorker DEF TaskLocks, At, ShareLock, db
  <2>6. RequestLocks'
    BY <1>2, <2>1, <2>2, <2>3, <2>4 DEF RequestLocks, UpdateLock, TypeOK, db
  <2>7. UploadsAreFresh'
    BY <1>2, <1>3, <2>1, <2>2 DEF UploadsAreFresh, Uploading, db
  <2> QED
    BY <2>5, <2>6, <2>7
<1>9. ASSUME AdminUpdate(c), Goto(c, "adm_updated")
      PROVE  RequestLocks' /\ TaskLocks' /\ UploadsAreFresh'
  <2>1. /\ req[c].step = "adm_read" /\ req[c].doc \in Docs
        /\ row[req[c].doc] # "none"
        /\ req[c].seen = "pending" \/ ~ExclusiveLock(req[c].doc)
    BY <1>9 DEF AdminUpdate, CanUpdate, Goto, End, TypeOK, NoRequest, Request
  <2>2. /\ req'[c].step = "adm_updated" /\ req'[c].doc = req[c].doc
        /\ req'[c].seen = req[c].seen
        /\ \A b \in Clients : b # c => req'[b] = req[b]
    BY <1>9, <2>1, GotoFrame
  <2>3. \A e \in Docs : ExclusiveLock(e)' => ExclusiveLock(e)
    BY <2>2 DEF ExclusiveLock
  <2>4. KbLock' => KbLock
    BY <2>2 DEF KbLock
  <2>5. TaskLocks'
    BY <1>2, <1>3, <2>3, BusyWorker DEF TaskLocks, At, db
  <2>6. RequestLocks'
    BY <1>2, <2>1, <2>2, <2>3, <2>4 DEF RequestLocks, TypeOK, db
  <2>7. UploadsAreFresh'
    BY <1>2, <1>3, <2>1, <2>2 DEF UploadsAreFresh, Uploading, db
  <2> QED
    BY <2>5, <2>6, <2>7
<1>10. ASSUME AdminEnqueue(c)
      PROVE  RequestLocks' /\ TaskLocks' /\ UploadsAreFresh'
  <2>1. req[c].step = "adm_updated" /\ req[c].doc \in Docs
    BY <1>10 DEF AdminEnqueue, TypeOK
  <2>2. /\ req'[c].step = "adm_enqueued" /\ req'[c].doc = req[c].doc
        /\ req'[c].seen = req[c].seen
        /\ \A b \in Clients : b # c => req'[b] = req[b]
    BY <1>10, <2>1, GotoFrame DEF AdminEnqueue
  <2>3. \A e \in Docs : ExclusiveLock(e)' => ExclusiveLock(e)
    BY <2>2 DEF ExclusiveLock
  <2>4. KbLock' => KbLock
    BY <2>2 DEF KbLock
  <2>5. TaskLocks'
    BY <1>2, <1>3, <2>3, BusyWorker DEF TaskLocks, At, db
  <2>6. RequestLocks'
    BY <1>2, <2>1, <2>2, <2>3, <2>4 DEF RequestLocks, TypeOK, db
  <2>7. UploadsAreFresh'
    BY <1>2, <1>3, <2>1, <2>2 DEF UploadsAreFresh, Uploading, db
  <2> QED
    BY <2>5, <2>6, <2>7
<1>11. ASSUME KbCascade(c)
       PROVE  RequestLocks' /\ TaskLocks' /\ UploadsAreFresh'
  <2>1. \A e \in Docs : ~ShareLock(e) /\ ~UpdateLock(e)
    BY <1>11 DEF KbCascade, CanDelete, CanUpdate
  <2>2. req[c].step = "kb_locked" /\ KbLock
    BY <1>11 DEF KbCascade, KbLock
  <2>3. /\ req'[c].step = "kb_flushed"
        /\ \A b \in Clients : b # c => req'[b] = req[b]
    BY <1>11, <2>2, GotoFrame DEF KbCascade
  <2>4. \A w \in Workers : wk[w].step \notin {"flushed", "upserted"}
    BY <2>1, BusyWorker DEF ShareLock
  <2>5. TaskLocks'
    BY <1>2, <2>4 DEF TaskLocks, At
  <2>6. \A b \in Clients :
          /\ req[b].step \notin {"up_inserted", "up_enqueued"}
          /\ req[b].step \in {"adm_updated", "adm_enqueued"}
             => req[b].seen = "pending"
    BY <2>1, <2>2 DEF RequestLocks, UpdateLock, TypeOK
  <2>7. RequestLocks'
    BY <2>3, <2>6 DEF RequestLocks
  <2>8. UploadsAreFresh'
    BY <1>2, <1>3, <2>3 DEF UploadsAreFresh, Uploading, db
  <2> QED
    BY <2>5, <2>7, <2>8
<1> QED
    BY <1>1, <1>3, <1>4, <1>5, <1>6, <1>7, <1>8, <1>9, <1>10, <1>11
    DEF Stores, UploadInsert, AdminUpdate, Abort

\* The commits of the requests: what they write was locked.
LEMMA Committing ==
    ASSUME IInv, NEW c \in Clients, Next,
           \/ UploadCommit(c) \/ DeleteCommit(c) \/ AdminCommit(c)
           \/ KbCommit(c)
    PROVE  IInv'
<1> USE DEF IInv
<1>1. TypeOK'
    BY NextType
<1>2. UNCHANGED <<points, issued, wk>> /\ End(c)
    BY DEF UploadCommit, DeleteCommit, AdminCommit, KbCommit
<1>3. \A w \in Workers : wk[w].step # "idle" => Doc(w)' = Doc(w)
    BY <1>2, DocKept
<1>4. /\ req'[c].step = "idle"
      /\ \A b \in Clients : b # c => req'[b] = req[b]
    BY <1>2, EndFrame
<1>5. \A e \in Docs : ExclusiveLock(e)' => ExclusiveLock(e)
    BY <1>4 DEF ExclusiveLock
<1>6. KbLock' => KbLock
    BY <1>4 DEF KbLock
<1>7. \A w \in Workers : wk[w].cached = "ready" => wk[w].step # "idle"
    BY DEF TypeOK, NoTask, Task
<1>8. ASSUME UploadCommit(c) PROVE IInv'
  <2> DEFINE d == req[c].doc
  <2>1. /\ d \in Docs /\ kb /\ row[d] = "none" /\ d \in issued
        /\ \A w \in Workers : wk[w].step # "idle" => Doc(w) # d
        /\ req[c].step \in Uploading
    BY <1>8 DEF UploadCommit, TypeOK, RequestLocks, UploadsAreFresh, Uploading
  <2>2. /\ UNCHANGED <<kb, rows>> /\ row'[d] = "pending"
        /\ \A e \in Docs : e # d => row'[e] = row[e]
    BY <1>8, <2>1 DEF UploadCommit, TypeOK
  <2>3. Stores'
    BY <1>2, <2>1, <2>2 DEF Stores, ChunksHaveVectors, ReadyIsSearchable,
       NoOrphanRows, KbDeletionTotal
  <2>4. StaleReady'
    BY <1>2, <1>3, <1>7, <2>1, <2>2, BusyWorker DEF StaleReady
  <2>5. TaskLocks'
    BY <1>2, <1>3, <1>5, <2>1, <2>2, BusyWorker DEF TaskLocks, At
  <2>6. RequestLocks'
    BY <1>4, <1>5, <1>6, <2>2 DEF RequestLocks, TypeOK
  <2>7. UploadsAreFresh'
    BY <1>2, <1>3, <1>4, <2>1, <2>2 DEF UploadsAreFresh, Uploading, TypeOK
  <2> QED
    BY <1>1, <2>3, <2>4, <2>5, <2>6, <2>7 DEF Stores
<1>9. ASSUME DeleteCommit(c) PROVE IInv'
  <2> DEFINE d == req[c].doc
  <2>1. d \in Docs /\ ExclusiveLock(d)
    BY <1>9 DEF DeleteCommit, TypeOK, ExclusiveLock
  <2>2. /\ kb' = kb /\ row'[d] = "none" /\ rows'[d] = 0
        /\ \A e \in Docs : e # d => row'[e] = row[e] /\ rows'[e] = rows[e]
    BY <1>9, <2>1 DEF DeleteCommit, TypeOK
  <2>3. Stores'
    BY <1>2, <2>2 DEF Stores, ChunksHaveVectors, ReadyIsSearchable,
       NoOrphanRows, KbDeletionTotal
  <2>4. StaleReady'
    BY <1>2, <1>3, <1>7, <2>2, BusyWorker DEF StaleReady
  <2>5. TaskLocks'
    BY <1>2, <1>3, <1>5, <2>1, <2>2, BusyWorker DEF TaskLocks, At
  <2>6. RequestLocks'
    BY <1>4, <1>5, <1>6, <2>1, <2>2 DEF RequestLocks, TypeOK
  <2>7. UploadsAreFresh'
    BY <1>2, <1>3, <1>4, <2>2 DEF UploadsAreFresh, Uploading, TypeOK
  <2> QED
    BY <1>1, <2>3, <2>4, <2>5, <2>6, <2>7 DEF Stores
<1>10. ASSUME AdminCommit(c) PROVE IInv'
  <2>1. /\ UNCHANGED <<kb, rows>>
        /\ \A e \in Docs : row'[e] = "none" <=> row[e] = "none"
        /\ \A e \in Docs : row'[e] = "ready" => row[e] = "ready"
    BY <1>10 DEF AdminCommit, TypeOK, RequestLocks
  <2>2. Stores'
    BY <1>2, <2>1 DEF Stores, ChunksHaveVectors, ReadyIsSearchable,
       NoOrphanRows, KbDeletionTotal
  <2>3. StaleReady'
    BY <1>2, <1>3, <1>7, <2>1, BusyWorker DEF StaleReady
  <2>4. TaskLocks'
    BY <1>2, <1>3, <1>5, <2>1, BusyWorker DEF TaskLocks, At
  <2>5. RequestLocks'
    BY <1>4, <1>5, <1>6, <2>1 DEF RequestLocks, TypeOK
  <2>6. UploadsAreFresh'
    BY <1>2, <1>3, <1>4, <2>1 DEF UploadsAreFresh, Uploading, TypeOK
  <2> QED
    BY <1>1, <2>2, <2>3, <2>4, <2>5, <2>6 DEF Stores
<1>11. ASSUME KbCommit(c) PROVE IInv'
  <2>1. KbLock /\ \A e \in Docs : ExclusiveLock(e)
    BY <1>11 DEF KbCommit, KbLock, ExclusiveLock
  <2>2. /\ kb' = FALSE
        /\ \A e \in Docs : row'[e] = "none" /\ rows'[e] = 0
    BY <1>11 DEF KbCommit
  <2>3. Stores'
    BY <2>2 DEF Stores, ChunksHaveVectors, ReadyIsSearchable,
       NoOrphanRows, KbDeletionTotal
  <2>4. StaleReady'
    BY <1>2, <1>3, <1>7, <2>2, BusyWorker DEF StaleReady
  <2>5. TaskLocks'
    BY <1>2, <1>3, <2>1, BusyWorker DEF TaskLocks, At
  <2>6. RequestLocks'
    BY <1>4, <2>1 DEF RequestLocks, TypeOK
  <2>7. UploadsAreFresh'
    BY <1>2, <1>3, <1>4, <2>2 DEF UploadsAreFresh, Uploading, TypeOK
  <2> QED
    BY <1>1, <2>3, <2>4, <2>5, <2>6, <2>7 DEF Stores
<1> QED
    BY <1>8, <1>9, <1>10, <1>11

\* What a step of worker w leaves alone: the requests and their locks, the
\* other workers, which document each works on, and which rows there are.
LEMMA TaskFrame ==
    ASSUME TypeOK, Next, NEW w \in Workers, Work(w) \/ Fault(w)
    PROVE  /\ UNCHANGED <<kb, req, issued>>
           /\ wk[w].step # "idle"
           /\ \A v \in Workers : v # w => wk'[v] = wk[v]
           /\ \A v \in Workers : wk'[v].step # "idle" =>
                  wk[v].step # "idle" /\ Doc(v)' = Doc(v)
           /\ \A e \in Docs : row'[e] = "none" <=> row[e] = "none"
<1>1. UNCHANGED <<kb, req, issued>> /\ wk[w].step # "idle"
    BY DEF Work, Fault, MarkProcessing, Uncaught, Load, LoadBlank, Embed,
       InsertRows, Upsert, CommitReady, CommitFailed, Transient, Escapes, ChildLost,
       WorkerLost, db, At
<1>2. wk[w] \in Task /\ Doc(w) \in Docs
    BY <1>1, BusyWorker
<1>3. /\ \A v \in Workers : v # w => wk'[v] = wk[v]
      /\ wk'[w].step # "idle" => wk'[w].task = wk[w].task
  <2>1. ASSUME NEW s, Move(w, s)
        PROVE  /\ \A v \in Workers : v # w => wk'[v] = wk[v]
               /\ wk'[w].task = wk[w].task
    BY <1>2, <2>1 DEF Move, TypeOK, Task
  <2>2. ASSUME Drop(w)
        PROVE  /\ \A v \in Workers : v # w => wk'[v] = wk[v]
               /\ wk'[w].step = "idle"
    BY <2>2 DEF Drop, TypeOK, NoTask
  <2>3. ASSUME MarkProcessing(w)
        PROVE  /\ \A v \in Workers : v # w => wk'[v] = wk[v]
               /\ wk'[w].task = wk[w].task
    BY <2>3 DEF MarkProcessing, TypeOK
  <2>4. MarkProcessing(w) \/ Drop(w) \/ \E s \in TaskSteps : Move(w, s)
    BY DEF Work, Fault, Uncaught, Load, LoadBlank, Embed, InsertRows, Upsert,
       CommitReady, CommitFailed, Transient, Escapes, ChildLost, WorkerLost, Finish,
       TaskSteps
  <2> QED
    BY <2>1, <2>2, <2>3, <2>4
<1>4. \A v \in Workers : wk'[v].step # "idle" =>
          wk[v].step # "idle" /\ Doc(v)' = Doc(v)
    BY <1>1, <1>3, DocKept
<1>5. \A e \in Docs : row'[e] = "none" <=> row[e] = "none"
  <2>1. \A v : \A s \in Status : \A e \in Docs :
            Updated(Doc(w), v, s)[e] = "none" <=> row[e] = "none"
    BY <1>2 DEF Updated, TypeOK, Status
  <2>2. \/ row' = row
        \/ \E v : \E s \in Status : row' = Updated(Doc(w), v, s)
    BY DEF Work, Fault, MarkProcessing, Uncaught, Load, LoadBlank, Embed,
       InsertRows, Upsert, CommitReady, CommitFailed, Transient, Escapes, ChildLost,
       WorkerLost, db, Status
  <2> QED
    BY <2>1, <2>2
<1> QED
    BY <1>1, <1>3, <1>4, <1>5

\* Everything of IInv that is about requests survives a step of a worker.
LEMMA TaskKeepsRequests ==
    ASSUME IInv, Next, NEW w \in Workers, Work(w) \/ Fault(w)
    PROVE  /\ RequestLocks' /\ UploadsAreFresh'
           /\ \A e \in Docs : ExclusiveLock(e)' <=> ExclusiveLock(e)
<1> USE DEF IInv
<1>1. /\ UNCHANGED <<kb, req, issued>>
      /\ \A v \in Workers : wk'[v].step # "idle" =>
            wk[v].step # "idle" /\ Doc(v)' = Doc(v)
      /\ \A e \in Docs : row'[e] = "none" <=> row[e] = "none"
    BY TaskFrame
<1>2. \A e \in Docs : ExclusiveLock(e)' <=> ExclusiveLock(e)
    BY <1>1 DEF ExclusiveLock
<1>3. RequestLocks'
    BY <1>1, <1>2 DEF RequestLocks, KbLock, TypeOK
<1>4. UploadsAreFresh'
    BY <1>1 DEF UploadsAreFresh, Uploading, TypeOK
<1> QED
    BY <1>2, <1>3, <1>4

\* A step of a worker in the stores: vectors come before chunk rows, and a
\* document becomes READY with its rows.
LEMMA TaskKeepsStores ==
    ASSUME IInv, Next, NEW w \in Workers, Work(w) \/ Fault(w)
    PROVE  /\ Stores'
           /\ \A e \in Docs : rows[e] > 0 => rows'[e] > 0
           /\ \A e \in Docs : points[e] => points'[e]
<1> USE DEF IInv
<1> DEFINE d == Doc(w)
<1>1. /\ kb' = kb /\ wk[w].step # "idle" /\ d \in Docs
      /\ \A e \in Docs : row'[e] = "none" <=> row[e] = "none"
    BY TaskFrame, BusyWorker
<1>2. CASE CommitReady(w)
  <2>1. points' = points /\ points[d] /\ row[d] # "none"
    BY <1>2 DEF CommitReady, TaskLocks, At
  <2>2. \A e \in Docs : rows'[e] \in Nat /\ rows[e] \in Nat
    BY NextType DEF TypeOK
  <2>3. rows'[d] = rows[d] + 1 /\ \A e \in Docs : e # d => rows'[e] = rows[e]
    BY <1>1, <1>2 DEF CommitReady, TypeOK
  <2>4. \A e \in Docs : e # d => row'[e] = row[e]
    BY <1>1, <1>2 DEF CommitReady, Updated, TypeOK
  <2> QED
    BY <1>1, <2>1, <2>2, <2>3, <2>4 DEF Stores, ChunksHaveVectors,
       ReadyIsSearchable, NoOrphanRows, KbDeletionTotal
<1>3. CASE ~CommitReady(w)
  <2>1. rows' = rows
    BY <1>3 DEF Work, Fault, MarkProcessing, Uncaught, Load, LoadBlank, Embed,
       InsertRows, Upsert, CommitFailed, Transient, Escapes, ChildLost, WorkerLost, db
  <2>2. \A e \in Docs : points[e] => points'[e]
    BY <1>1, <1>3 DEF Work, Fault, MarkProcessing, Uncaught, Load, LoadBlank,
       Embed, InsertRows, Upsert, CommitFailed, Transient, Escapes, ChildLost,
       WorkerLost, TypeOK
  <2>3. \A e \in Docs : row'[e] = "ready" => row[e] = "ready"
    <3>1. \A v : \A s \in {"processing", "failed"} : \A e \in Docs :
              Updated(d, v, s)[e] = "ready" => row[e] = "ready"
      BY <1>1 DEF Updated, TypeOK
    <3>2. \/ row' = row
          \/ \E v : \E s \in {"processing", "failed"} :
                 row' = Updated(d, v, s)
      BY <1>3 DEF Work, Fault, MarkProcessing, Uncaught, Load, LoadBlank,
         Embed, InsertRows, Upsert, CommitFailed, Transient, Escapes, ChildLost,
         WorkerLost, db
    <3> QED
      BY <3>1, <3>2
  <2> QED
    BY <1>1, <2>1, <2>2, <2>3 DEF Stores, ChunksHaveVectors,
       ReadyIsSearchable, NoOrphanRows, KbDeletionTotal
<1> QED
    BY <1>2, <1>3

LEMMA Working ==
    ASSUME IInv, Next, NEW w \in Workers, Work(w) \/ Fault(w)
    PROVE  IInv'
<1> USE DEF IInv
<1>1. TypeOK'
    BY NextType
<1>2. /\ RequestLocks' /\ UploadsAreFresh' /\ Stores'
      /\ \A e \in Docs : ExclusiveLock(e)' <=> ExclusiveLock(e)
      /\ \A e \in Docs : rows[e] > 0 => rows'[e] > 0
      /\ \A e \in Docs : points[e] => points'[e]
    BY TaskKeepsRequests, TaskKeepsStores
<1>3. /\ wk[w].step # "idle"
      /\ \A v \in Workers : v # w => wk'[v] = wk[v]
      /\ \A v \in Workers : wk'[v].step # "idle" =>
            wk[v].step # "idle" /\ Doc(v)' = Doc(v)
      /\ \A e \in Docs : row'[e] = "none" <=> row[e] = "none"
    BY TaskFrame
<1>4. wk[w] \in Task /\ Doc(w) \in Docs
    BY <1>3, BusyWorker
<1>5. StaleReady'
  <2>1. \A v \in Workers : wk'[v].cached = "ready" => wk'[v].step # "idle"
    BY <1>1 DEF TypeOK, NoTask, Task
  <2>2. wk'[w].cached = "ready" => wk[w].cached = "ready" \/ row[Doc(w)] = "ready"
    <3>1. CASE MarkProcessing(w)
      BY <1>4, <3>1 DEF MarkProcessing, Updated, TypeOK
    <3>2. CASE Drop(w)
      BY <3>2 DEF Drop, TypeOK, NoTask
    <3>3. ASSUME NEW s \in TaskSteps, Move(w, s)
          PROVE  wk'[w].cached = wk[w].cached
      BY <1>4, <3>3 DEF Move, TypeOK, Task
    <3>4. MarkProcessing(w) \/ Drop(w) \/ \E s \in TaskSteps : Move(w, s)
      BY DEF Work, Fault, Uncaught, Load, LoadBlank, Embed, InsertRows, Upsert,
         CommitReady, CommitFailed, Transient, Escapes, ChildLost, WorkerLost, Finish,
         TaskSteps
    <3> QED
      BY <3>1, <3>2, <3>3, <3>4
  <2>3. \A v \in Workers : wk'[v].step # "idle" => Doc(v) \in Docs
    BY <1>3, BusyWorker
  <2> QED
    BY <1>2, <1>3, <2>1, <2>2, <2>3 DEF StaleReady, ReadyIsSearchable
<1>6. TaskLocks'
  <2>1. \A v \in Workers : wk'[v].step # "idle" => Doc(v) \in Docs
    BY <1>3, BusyWorker
  <2>2. wk'[w].step \in {"flushed", "upserted"} =>
            row[Doc(w)] # "none" /\ ~ExclusiveLock(Doc(w))
    BY <1>4 DEF Work, Fault, MarkProcessing, Uncaught, Load, LoadBlank,
       Embed, InsertRows, Upsert, CommitReady, CommitFailed, Transient, Escapes,
       ChildLost, WorkerLost, Finish, Drop, Move, TypeOK, Task, NoTask, At,
       TaskLocks
  <2>3. wk'[w].step = "upserted" => points'[Doc(w)]
    BY <1>4 DEF Work, Fault, MarkProcessing, Uncaught, Load, LoadBlank,
       Embed, InsertRows, Upsert, CommitReady, CommitFailed, Transient, Escapes,
       ChildLost, WorkerLost, Finish, Drop, Move, TypeOK, Task, NoTask, At
  <2> QED
    BY <1>2, <1>3, <2>1, <2>2, <2>3 DEF TaskLocks, At
<1> QED
    BY <1>1, <1>2, <1>5, <1>6 DEF Stores

\* The broker moves messages; only a delivery starts a task, and a task that
\* has read READY has read a document with chunk rows.
LEMMA Delivering ==
    ASSUME IInv, Next,
           \/ \E w \in Workers, m \in Msgs : Take(w, m)
           \/ \E m \in Msgs : Redeliver(m)
           \/ Evict
    PROVE  IInv'
<1> USE DEF IInv
<1>1. TypeOK'
    BY NextType
<1>2. UNCHANGED <<db, file, points, issued, sent, req>>
    BY DEF Take, Redeliver, Evict
<1>3. Stores' /\ RequestLocks'
    BY <1>2 DEF Stores, ChunksHaveVectors, ReadyIsSearchable, NoOrphanRows,
       KbDeletionTotal, RequestLocks, ExclusiveLock, KbLock, db
<1>4. \A e \in Docs : ExclusiveLock(e)' <=> ExclusiveLock(e)
    BY <1>2 DEF ExclusiveLock
<1>5. CASE UNCHANGED wk
    BY <1>1, <1>2, <1>3, <1>5, StoresKept, BusyWorker, <1>4
    DEF TaskLocks, UploadsAreFresh, Uploading, At, db, Stores
<1>6. ASSUME NEW w \in Workers, NEW m \in Msgs, Take(w, m), wk' # wk
      PROVE  IInv'
  <2> DEFINE d == msg[m].doc
  <2>1. /\ msg[m] \in Message /\ d \in Docs
        /\ row[d] # "none"
        /\ wk' = [wk EXCEPT ![w] = [step |-> "found", task |-> m,
                                    cached |-> row[d]]]
        /\ msg' = [msg EXCEPT ![m].at = "unacked"]
        /\ wk[w].step = "idle"
    BY <1>6 DEF Take, TypeOK, Unsent, Message, At
  <2>2. /\ wk'[w] = [step |-> "found", task |-> m, cached |-> row[d]]
        /\ \A v \in Workers : v # w => wk'[v] = wk[v]
    BY <2>1 DEF TypeOK
  <2>3. Doc(w)' = d
    BY <2>1, <2>2 DEF Doc, TypeOK, Message
  <2>4. \A v \in Workers : v # w /\ wk'[v].step # "idle" =>
            wk[v].step # "idle" /\ Doc(v)' = Doc(v)
    BY <2>2, DocKept
  <2>5. StaleReady'
    <3>1. \A v \in Workers : wk'[v].cached = "ready" => wk'[v].step # "idle"
      BY <1>1 DEF TypeOK, NoTask, Task
    <3> QED
      BY <1>2, <2>1, <2>2, <2>3, <2>4, <3>1 DEF StaleReady, ReadyIsSearchable, db
  <2>6. TaskLocks'
    BY <1>2, <1>4, <2>2, <2>4, BusyWorker DEF TaskLocks, At, db
  <2>7. UploadsAreFresh'
    BY <1>2, <2>1, <2>2, <2>3, <2>4 DEF UploadsAreFresh, Uploading, db, TypeOK
  <2> QED
    BY <1>1, <1>3, <2>5, <2>6, <2>7 DEF Stores
<1> QED
    BY <1>5, <1>6 DEF Take, Redeliver, Evict

LEMMA Inductive == IInv /\ [Next]_vars => IInv'
<1> SUFFICES ASSUME IInv, [Next]_vars PROVE IInv'
    OBVIOUS
<1>1. CASE UNCHANGED vars
  <2>1. TypeOK'
    BY <1>1, NextType DEF IInv
  <2> QED
    BY <1>1, <2>1 DEF vars, db, IInv, RequestLocks, TaskLocks, StaleReady,
       UploadsAreFresh, ChunksHaveVectors, ReadyIsSearchable, NoOrphanRows,
       KbDeletionTotal, KbLock, ExclusiveLock, Doc, At
<1>2. CASE Next
    BY <1>2, Opening, Waiting, Committing, Working, Delivering
    DEF Next, Proceed
<1> QED
    BY <1>1, <1>2

LEMMA Initial == Init => IInv
<1> SUFFICES ASSUME Init PROVE IInv
    OBVIOUS
<1>1. TypeOK
  <2>1. \A m \in Msgs : ~(m <= 0)
    BY BoundAssumption DEF Msgs
  <2>2. Unsent \notin Message
    BY DEF Unsent, Message
  <2> QED
    BY <2>1, <2>2, BoundAssumption DEF Init, TypeOK, Status, NoRequest, NoTask
<1> QED
    BY <1>1 DEF Init, IInv, RequestLocks, TaskLocks, StaleReady,
       UploadsAreFresh, ChunksHaveVectors, ReadyIsSearchable, NoOrphanRows,
       KbDeletionTotal, NoRequest, NoTask, Uploading, At

-----------------------------------------------------------------------------
(* The theorems about the stores *)

\* Whatever the interleaving of uploads, deletions, retries, redelivered
\* tasks, crashes and evictions, the row locks of the open transactions and
\* the order "vectors, then rows, then READY" hold IInv.
THEOREM InvariantHolds == Spec => []IInv
BY Initial, Inductive, PTL DEF Spec

\* Committed chunk rows always have their vectors in Qdrant (the upsert
\* precedes the commit in _process_document_async).
THEOREM VectorsBeforeChunks == Spec => []ChunksHaveVectors
<1>1. IInv => ChunksHaveVectors
    BY DEF IInv
<1> QED
    BY <1>1, InvariantHolds, PTL

\* READY documents have chunk rows and vectors, also when the same document
\* is processed by overlapping or repeated runs.
THEOREM ReadyDocuments == Spec => []ReadyIsSearchable
<1>1. IInv => ReadyIsSearchable
    BY DEF IInv
<1> QED
    BY <1>1, InvariantHolds, PTL

\* No chunk row survives its document: the foreign-key lock of the INSERT
\* keeps the document's row until the task commits.
THEOREM NoOrphans == Spec => []NoOrphanRows
<1>1. IInv => NoOrphanRows
    BY DEF IInv
<1> QED
    BY <1>1, InvariantHolds, PTL

\* A deleted knowledge base has no document, whichever uploads were open.
THEOREM KbDeletions == Spec => []KbDeletionTotal
<1>1. IInv => KbDeletionTotal
    BY DEF IInv
<1> QED
    BY <1>1, InvariantHolds, PTL

\* What one step may do to a document that is gone: nothing.
LEMMA GoneStays ==
    ASSUME IInv, Next, NEW d \in Docs, Gone(d)
    PROVE  Gone(d)'
<1> USE DEF IInv
<1>1. ASSUME NEW c \in Clients, Open(c) PROVE Gone(d)'
    BY <1>1 DEF Open, UploadSave, DeleteFind, AdminRead, KbDelete, Start, Gone,
       Uploading, db, TypeOK
<1>2. ASSUME NEW c \in Clients,
             \/ UploadInsert(c) \/ UploadEnqueue(c) \/ DeleteFile(c)
             \/ DeleteRow(c) \/ AdminUpdate(c) \/ AdminEnqueue(c)
             \/ KbCascade(c) \/ Abort(c)
      PROVE  Gone(d)'
  <2>1. UNCHANGED <<row, issued>>
    BY <1>2 DEF UploadInsert, UploadEnqueue, DeleteFile, DeleteRow,
       AdminUpdate, AdminEnqueue, KbCascade, Abort, db
  <2>2. req[c].step # "idle" /\ (End(c) \/ \E s \in ReqSteps : Goto(c, s))
    BY <1>2 DEF UploadInsert, UploadEnqueue, DeleteFile, DeleteRow,
       AdminUpdate, AdminEnqueue, KbCascade, Abort, ReqSteps, Uploading, Deleting, Retrying
  <2>3. \A b \in Clients : b # c => req'[b] = req[b]
    BY <2>2, GotoFrame, EndFrame
  <2>4. req'[c].step \in Uploading =>
            req[c].step \in Uploading /\ req'[c].doc = req[c].doc
    <3>1. CASE End(c)
      BY <3>1, EndFrame DEF Uploading
    <3>2. CASE ~End(c)
      <4>1. \E s \in ReqSteps :
              /\ Goto(c, s)
              /\ s \in Uploading => req[c].step \in Uploading
        BY <1>2, <3>2 DEF UploadInsert, UploadEnqueue, DeleteFile, DeleteRow,
           AdminUpdate, AdminEnqueue, KbCascade, Abort, ReqSteps, Uploading, Deleting, Retrying
      <4> QED
        BY <2>2, <4>1, GotoFrame
    <3> QED
      BY <3>1, <3>2
  <2> QED
    BY <2>1, <2>3, <2>4 DEF Gone
<1>3. ASSUME NEW c \in Clients, UploadCommit(c) \/ DeleteCommit(c)
                                \/ AdminCommit(c) \/ KbCommit(c)
      PROVE  Gone(d)'
  <2>1. issued' = issued /\ End(c)
    BY <1>3 DEF UploadCommit, DeleteCommit, AdminCommit, KbCommit
  <2>2. row'[d] = "none"
    BY <1>3 DEF UploadCommit, DeleteCommit, AdminCommit, KbCommit, Gone,
       Uploading, TypeOK, RequestLocks
  <2> QED
    BY <2>1, <2>2, EndFrame DEF Gone, Uploading
<1>4. ASSUME NEW w \in Workers, Work(w) \/ Fault(w) PROVE Gone(d)'
    BY <1>4, TaskFrame DEF Gone
<1>5. ASSUME NEW w \in Workers, NEW m \in Msgs, Take(w, m) PROVE Gone(d)'
    BY <1>5 DEF Take, Gone, db
<1>6. ASSUME NEW m \in Msgs, Redeliver(m) PROVE Gone(d)'
    BY <1>6 DEF Redeliver, Gone, db
<1>7. ASSUME Evict PROVE Gone(d)'
    BY <1>7 DEF Evict, Gone, db
<1> QED
    BY <1>1, <1>2, <1>3, <1>4, <1>5, <1>6, <1>7 DEF Next, Proceed

\* No task, retry, redelivery or admin request brings back a document whose
\* deletion has been committed.
THEOREM DeletedForGood == Spec => DeletedStays
<1>1. IInv /\ [Next]_vars => [\A d \in Docs : Gone(d) => Gone(d)']_vars
    BY GoneStays
<1> QED
    BY <1>1, InvariantHolds, PTL DEF Spec, DeletedStays

-----------------------------------------------------------------------------
(* The pipeline implements DocumentLifecycle *)

\* The refinement mapping of Lifecycle, under names of its own.
st == [d \in Docs |-> IF row[d] # "none" THEN row[d]
                      ELSE IF Gone(d) THEN "gone" ELSE "new"]
ix == [d \in Docs |-> rows[d] > 0 /\ points[d]]

\* Each abstract step, as a relation between the mapped states.
LEMMA AppearStep ==
    ASSUME NEW d \in Docs, st[d] = "new", NEW s \in {"pending", "gone"},
           st' = [st EXCEPT ![d] = s], ix' = ix
    PROVE  Lifecycle!Next
BY DEF st, ix, Lifecycle!Next, Lifecycle!Appear, Lifecycle!Become

LEMMA ChangeStep ==
    ASSUME NEW d \in Docs, st[d] \in Status,
           NEW s \in {"pending", "processing", "failed"},
           st' = [st EXCEPT ![d] = s], ix' = ix
    PROVE  Lifecycle!Next
BY DEF st, ix, Lifecycle!Next, Lifecycle!Change, Lifecycle!Become,
   Lifecycle!Live, Status

LEMMA SucceedStep ==
    ASSUME NEW d \in Docs, st[d] \in Status,
           st' = [st EXCEPT ![d] = "ready"] \/ (ix[d] /\ st' = st),
           ix' = [ix EXCEPT ![d] = TRUE]
    PROVE  Lifecycle!Next
BY DEF st, ix, Lifecycle!Next, Lifecycle!Succeed, Lifecycle!Become,
   Lifecycle!Live, Status

LEMMA DeleteStep ==
    ASSUME NEW D \in SUBSET Docs, \A d \in D : st[d] # "new",
           st' = [d \in Docs |-> IF d \in D THEN "gone" ELSE st[d]],
           ix' = [d \in Docs |-> d \notin D /\ ix[d]]
    PROVE  Lifecycle!Next
BY DEF st, ix, Lifecycle!Next, Lifecycle!Delete

LEMMA StutterStep ==
    ASSUME st' = st, ix' = ix
    PROVE  UNCHANGED Lifecycle!lifecycleVars
BY DEF st, ix, Lifecycle!lifecycleVars

Simulated == Lifecycle!Next \/ UNCHANGED Lifecycle!lifecycleVars

\* Steps that leave rows and uploads alone are stutters.
LEMMA Stutters ==
    ASSUME IInv, UNCHANGED <<row, rows, points>>,
           \A d \in Docs : Gone(d)' <=> Gone(d)
    PROVE  Simulated
BY StutterStep DEF st, ix, Simulated

LEMMA OpeningSimulates ==
    ASSUME IInv, NEW c \in Clients, Open(c)
    PROVE  Simulated
<1> USE DEF IInv
<1>1. UNCHANGED <<row, rows, points>>
    BY DEF Open, UploadSave, DeleteFind, AdminRead, KbDelete, db
<1>2. \A e \in Docs : Gone(e)' <=> Gone(e)
  <2>1. ASSUME NEW d \in Docs, UploadSave(c, d)
        PROVE  \A e \in Docs : Gone(e)' <=> Gone(e)
    BY <2>1 DEF UploadSave, Start, Gone, Uploading, db, TypeOK
  <2>2. ASSUME NEW d \in Docs, DeleteFind(c, d) \/ AdminRead(c, d)
        PROVE  \A e \in Docs : Gone(e)' <=> Gone(e)
    BY <2>2 DEF DeleteFind, AdminRead, Start, Gone, Uploading, db, TypeOK
  <2>3. ASSUME KbDelete(c)
        PROVE  \A e \in Docs : Gone(e)' <=> Gone(e)
    BY <2>3 DEF KbDelete, Start, Gone, Uploading, db, TypeOK
  <2> QED
    BY <2>1, <2>2, <2>3 DEF Open
<1> QED
    BY <1>1, <1>2, Stutters

\* A request that ends without a commit: an upload's document is gone.
LEMMA EndingSimulates ==
    ASSUME IInv, NEW c \in Clients, req[c].step # "idle", End(c),
           UNCHANGED <<db, points, issued>>
    PROVE  Simulated
<1> USE DEF IInv
<1>1. UNCHANGED <<row, rows, points>>
    BY DEF db
<1>2. /\ req'[c].step = "idle"
      /\ \A b \in Clients : b # c => req'[b] = req[b]
    BY EndFrame
<1>3. CASE req[c].step \notin Uploading
  <2>1. \A e \in Docs : Gone(e)' <=> Gone(e)
    BY <1>1, <1>2, <1>3 DEF Gone, Uploading
  <2> QED
    BY <1>1, <2>1, Stutters
<1>4. CASE req[c].step \in Uploading
  <2>0. PICK d \in Docs : d = req[c].doc
    BY <1>4 DEF TypeOK, Uploading
  <2>1. d \in issued /\ row[d] = "none" /\ ~Gone(d)
    BY <1>4, <2>0 DEF UploadsAreFresh, Gone
  <2>2. Gone(d)'
    BY <1>1, <1>2, <1>4, <2>0, <2>1 DEF Gone, UploadsAreFresh, Uploading
  <2>3. \A e \in Docs : e # d => (Gone(e)' <=> Gone(e))
    BY <1>1, <1>2, <1>4, <2>0 DEF Gone, Uploading
  <2>4. st[d] = "new"
    BY <2>1 DEF st
  <2>5. st' = [st EXCEPT ![d] = "gone"]
    BY <1>1, <2>1, <2>2, <2>3 DEF st
  <2>6. ix' = ix
    BY <1>1 DEF ix
  <2> QED
    BY <2>1, <2>4, <2>5, <2>6, AppearStep DEF Simulated
<1> QED
    BY <1>3, <1>4

LEMMA WaitingSimulates ==
    ASSUME IInv, NEW c \in Clients,
           \/ UploadInsert(c) \/ UploadEnqueue(c) \/ DeleteFile(c)
           \/ DeleteRow(c) \/ AdminUpdate(c) \/ AdminEnqueue(c)
           \/ KbCascade(c) \/ Abort(c)
    PROVE  Simulated
<1> USE DEF IInv
<1>1. UNCHANGED <<db, points, issued>> /\ req[c].step # "idle"
    BY DEF UploadInsert, UploadEnqueue, DeleteFile, DeleteRow, AdminUpdate,
       AdminEnqueue, KbCascade, Abort
<1>2. CASE End(c)
    BY <1>1, <1>2, EndingSimulates
<1>3. CASE ~End(c)
  <2>1. \E s \in ReqSteps : /\ Goto(c, s)
                            /\ s \in Uploading <=> req[c].step \in Uploading
    BY <1>3 DEF UploadInsert, UploadEnqueue, DeleteFile, DeleteRow,
       AdminUpdate, AdminEnqueue, KbCascade, Abort, ReqSteps, Uploading, Deleting, Retrying
  <2>2. /\ req'[c].step \in Uploading <=> req[c].step \in Uploading
        /\ req'[c].doc = req[c].doc
        /\ \A b \in Clients : b # c => req'[b] = req[b]
    BY <1>1, <2>1, GotoFrame
  <2>3. \A e \in Docs : Gone(e)' <=> Gone(e)
    BY <1>1, <2>2 DEF Gone, db
  <2> QED
    BY <1>1, <2>3, Stutters DEF db
<1> QED
    BY <1>2, <1>3

LEMMA CommittingSimulates ==
    ASSUME IInv, NEW c \in Clients,
           \/ UploadCommit(c) \/ DeleteCommit(c) \/ AdminCommit(c)
           \/ KbCommit(c)
    PROVE  Simulated
<1> USE DEF IInv
<1>1. UNCHANGED <<points, issued>> /\ End(c)
    BY DEF UploadCommit, DeleteCommit, AdminCommit, KbCommit
<1>2. /\ req'[c].step = "idle"
      /\ \A b \in Clients : b # c => req'[b] = req[b]
    BY <1>1, EndFrame
<1>3. ASSUME UploadCommit(c) PROVE Simulated
  <2> DEFINE d == req[c].doc
  <2>1. /\ d \in Docs /\ row[d] = "none" /\ req[c].step \in Uploading
    BY <1>3 DEF UploadCommit, TypeOK, UploadsAreFresh, Uploading
  <2>2. rows' = rows /\ row'[d] = "pending"
        /\ \A e \in Docs : e # d => row'[e] = row[e]
    BY <1>3, <2>1 DEF UploadCommit, TypeOK
  <2>3. ~Gone(d)
    BY <2>1 DEF Gone
  <2>4. \A e \in Docs : e # d => (Gone(e)' <=> Gone(e))
    BY <1>1, <1>2, <2>1, <2>2 DEF Gone, Uploading
  <2>5. st[d] = "new" /\ st' = [st EXCEPT ![d] = "pending"]
    BY <2>1, <2>2, <2>3, <2>4 DEF st
  <2>6. ix' = ix
    BY <1>1, <2>2 DEF ix
  <2> QED
    BY <2>1, <2>5, <2>6, AppearStep DEF Simulated
<1>4. ASSUME DeleteCommit(c) PROVE Simulated
  <2>0. PICK d \in Docs : d = req[c].doc
    BY <1>4 DEF DeleteCommit, TypeOK
  <2>1. req[c].step \notin Uploading
    BY <1>4 DEF DeleteCommit, Uploading
  <2>2. /\ row'[d] = "none" /\ rows'[d] = 0
        /\ \A e \in Docs : e # d => row'[e] = row[e] /\ rows'[e] = rows[e]
    BY <1>4, <2>0 DEF DeleteCommit, TypeOK
  <2>3. \A e \in Docs : e # d => (Gone(e)' <=> Gone(e))
    BY <1>1, <1>2, <2>1, <2>2 DEF Gone, Uploading
  <2>4. CASE row[d] = "none"
    <3>1. Gone(d)' <=> Gone(d)
      BY <1>1, <1>2, <2>1, <2>2, <2>4 DEF Gone, Uploading
    <3>2. rows[d] = 0
      BY <2>1, <2>4 DEF NoOrphanRows, TypeOK
    <3>3. st' = st /\ ix' = ix
      BY <1>1, <2>2, <2>3, <2>4, <3>1, <3>2 DEF st, ix
    <3> QED
      BY <3>3, StutterStep DEF Simulated
  <2>5. CASE row[d] # "none"
    <3>1. Gone(d)'
      BY <1>1, <1>2, <2>1, <2>2, <2>5 DEF Gone, UploadsAreFresh, Uploading
    <3>2. st[d] # "new"
      BY <2>1, <2>5 DEF st, TypeOK, Status
    <3>3. st' = [e \in Docs |-> IF e \in {d} THEN "gone" ELSE st[e]]
      BY <2>2, <2>3, <3>1 DEF st
    <3>4. ix' = [e \in Docs |-> e \notin {d} /\ ix[e]]
      <4>1. \A e \in Docs : (rows'[e] > 0 /\ points'[e])
                               <=> (e \notin {d} /\ rows[e] > 0 /\ points[e])
        BY <1>1, <2>2
      <4> QED
        BY <4>1, Zenon DEF ix
    <3> QED
      <4>1. {d} \in SUBSET Docs /\ \A e \in {d} : st[e] # "new"
        BY <3>2
      <4> QED
        BY <3>3, <3>4, <4>1, DeleteStep DEF Simulated
  <2> QED
    BY <2>4, <2>5
<1>5. ASSUME AdminCommit(c) PROVE Simulated
  <2> DEFINE d == req[c].doc
  <2>1. d \in Docs /\ req[c].step \notin Uploading /\ rows' = rows
    BY <1>5 DEF AdminCommit, TypeOK, Uploading
  <2>2. ix' = ix
    BY <1>1, <2>1 DEF ix
  <2>3. CASE row' = row
    <3>1. \A e \in Docs : Gone(e)' <=> Gone(e)
      BY <1>1, <1>2, <2>1, <2>3 DEF Gone, Uploading
    <3> QED
      BY <1>1, <2>1, <2>3, <3>1, Stutters
  <2>4. CASE row' # row
    <3>1. row[d] # "none" /\ row' = [row EXCEPT ![d] = "pending"]
      BY <1>5, <2>4 DEF AdminCommit, RequestLocks
    <3>2. \A e \in Docs : Gone(e)' <=> Gone(e)
      BY <1>1, <1>2, <2>1, <3>1 DEF Gone, Uploading, TypeOK
    <3>3. st' = [st EXCEPT ![d] = "pending"] /\ st[d] \in Status
      BY <2>1, <3>1, <3>2 DEF st, TypeOK
    <3> QED
      BY <2>1, <2>2, <3>3, ChangeStep DEF Simulated
  <2> QED
    BY <2>3, <2>4
<1>6. ASSUME KbCommit(c) PROVE Simulated
  <2> DEFINE D == {d \in Docs : row[d] # "none"}
  <2>1. /\ req[c].step \notin Uploading
        /\ \A e \in Docs : row'[e] = "none" /\ rows'[e] = 0
    BY <1>6 DEF KbCommit, Uploading
  <2>2. \A e \in D : st[e] # "new" /\ Gone(e)'
    BY <1>1, <1>2, <2>1 DEF st, TypeOK, Status, Gone, UploadsAreFresh, Uploading
  <2>3. \A e \in Docs : e \notin D => (Gone(e)' <=> Gone(e))
    BY <1>1, <1>2, <2>1 DEF Gone, Uploading
  <2>4. \A e \in Docs : e \notin D => ~(rows[e] > 0)
    BY DEF NoOrphanRows
  <2>5. st' = [e \in Docs |-> IF e \in D THEN "gone" ELSE st[e]]
    BY <2>1, <2>2, <2>3 DEF st
  <2>6. ix' = [e \in Docs |-> e \notin D /\ ix[e]]
    <3>1. \A e \in Docs : ~(rows'[e] > 0)
      BY <2>1
    <3> QED
      BY <2>4, <3>1, Zenon DEF ix
  <2> QED
    BY <2>2, <2>5, <2>6, DeleteStep DEF Simulated
<1> QED
    BY <1>3, <1>4, <1>5, <1>6

LEMMA WorkingSimulates ==
    ASSUME IInv, Next, NEW w \in Workers, Work(w) \/ Fault(w)
    PROVE  Simulated
<1> USE DEF IInv
<1>1. /\ UNCHANGED <<req, issued>>
      /\ \A e \in Docs : row'[e] = "none" <=> row[e] = "none"
    BY TaskFrame
<1>2. PICK d \in Docs : d = Doc(w)
    BY TaskFrame, BusyWorker
<1>3. \A e \in Docs : Gone(e)' <=> Gone(e)
    BY <1>1 DEF Gone
<1>4. \A e \in Docs : rows[e] > 0 => points[e]
    BY DEF ChunksHaveVectors
<1>5. CASE CommitReady(w)
  <2>1. row[d] # "none" /\ points[d] /\ points' = points
    BY <1>2, <1>5 DEF CommitReady, TaskLocks, At
  <2>2. rows'[d] > 0 /\ \A e \in Docs : e # d => rows'[e] = rows[e]
    BY <1>2, <1>5 DEF CommitReady, TypeOK
  <2>3. \/ row' = [row EXCEPT ![d] = "ready"]
        \/ row' = row /\ wk[w].cached = "ready"
    BY <1>2, <1>5, <2>1 DEF CommitReady, Updated
  <2>4. ix' = [ix EXCEPT ![d] = TRUE]
    <3>1. \A e \in Docs : (rows'[e] > 0 /\ points'[e])
                             <=> (e = d \/ (rows[e] > 0 /\ points[e]))
      BY <2>1, <2>2
    <3> QED
      BY <3>1, Zenon DEF ix
  <2>5. st[d] \in Status
    BY <2>1 DEF st, TypeOK
  <2>6. st' = [st EXCEPT ![d] = "ready"] \/ (ix[d] /\ st' = st)
    <3>1. CASE row' = [row EXCEPT ![d] = "ready"]
      BY <1>1, <1>3, <3>1 DEF st, TypeOK
    <3>2. CASE row' = row /\ wk[w].cached = "ready"
      <4>1. rows[d] > 0
        BY <1>2, <2>1, <3>2 DEF StaleReady
      <4>2. ix[d]
        BY <2>1, <4>1 DEF ix
      <4>3. st' = st
        BY <1>3, <3>2 DEF st
      <4> QED
        BY <4>2, <4>3
    <3> QED
      BY <2>3, <3>1, <3>2
  <2> QED
    BY <2>4, <2>5, <2>6, SucceedStep DEF Simulated
<1>6. CASE ~CommitReady(w)
  <2>1. rows' = rows
    BY <1>6 DEF Work, Fault, MarkProcessing, Uncaught, Load, LoadBlank, Embed,
       InsertRows, Upsert, CommitFailed, Transient, Escapes, ChildLost, WorkerLost, db
  <2>2. points' = points \/ points' = [points EXCEPT ![d] = TRUE]
    BY <1>2, <1>6 DEF Work, Fault, MarkProcessing, Uncaught, Load, LoadBlank,
       Embed, InsertRows, Upsert, CommitFailed, Transient, Escapes, ChildLost,
       WorkerLost
  <2>3. ix' = ix
    <3>1. \A e \in Docs : (rows'[e] > 0 /\ points'[e])
                             <=> (rows[e] > 0 /\ points[e])
      BY <1>4, <2>1, <2>2 DEF TypeOK
    <3> QED
      BY <3>1, Zenon DEF ix
  <2>4. \/ row' = row
        \/ row[d] # "none" /\ \E s \in {"processing", "failed"} :
              row' = [row EXCEPT ![d] = s]
    BY <1>2, <1>6 DEF Work, Fault, MarkProcessing, Uncaught, Load, LoadBlank,
       Embed, InsertRows, Upsert, CommitFailed, Transient, Escapes, ChildLost,
       WorkerLost, db, Updated
  <2>5. CASE row' = row
    <3>1. st' = st
      BY <1>3, <2>5 DEF st
    <3> QED
      BY <2>3, <3>1, StutterStep DEF Simulated
  <2>6. CASE row[d] # "none" /\ \E s \in {"processing", "failed"} :
              row' = [row EXCEPT ![d] = s]
    <3>1. PICK s \in {"processing", "failed"} : row' = [row EXCEPT ![d] = s]
      BY <2>6
    <3>2. st[d] \in Status /\ st' = [st EXCEPT ![d] = s]
      BY <1>3, <2>6, <3>1 DEF st, TypeOK
    <3> QED
      BY <2>3, <3>1, <3>2, ChangeStep DEF Simulated
  <2> QED
    BY <2>4, <2>5, <2>6
<1> QED
    BY <1>5, <1>6

LEMMA NextSimulates == IInv /\ [Next]_vars => Simulated
<1> SUFFICES ASSUME IInv, [Next]_vars PROVE Simulated
    OBVIOUS
<1>1. CASE UNCHANGED vars
    BY <1>1, Stutters DEF vars, db, Gone
<1>2. ASSUME NEW w \in Workers, NEW m \in Msgs, Take(w, m) PROVE Simulated
    BY <1>2, Stutters DEF Take, Gone, db
<1>3. ASSUME NEW m \in Msgs, Redeliver(m) PROVE Simulated
    BY <1>3, Stutters DEF Redeliver, Gone, db
<1>4. ASSUME Evict PROVE Simulated
    BY <1>4, Stutters DEF Evict, Gone, db
<1> QED
    BY <1>1, <1>2, <1>3, <1>4, OpeningSimulates, WaitingSimulates,
       CommittingSimulates, WorkingSimulates DEF Next, Proceed

\* Ingestion, with its queue, transactions, retries and crashes, does no more
\* than DocumentLifecycle: a document is ready or searchable only through a
\* run that succeeded, and a deleted one leaves the index for ever.
THEOREM Refines == Spec => ImplementsLifecycle
<1>1. Init => Lifecycle!Init
    BY DEF Init, Lifecycle!Init, Gone
<1>2. IInv /\ [Next]_vars => [Lifecycle!Next]_(Lifecycle!lifecycleVars)
    BY NextSimulates DEF Simulated
<1> QED
    BY <1>1, <1>2, InvariantHolds, PTL DEF Spec, ImplementsLifecycle, Lifecycle!Spec

=============================================================================
