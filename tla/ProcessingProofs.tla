-------------------------- MODULE ProcessingProofs --------------------------
(***************************************************************************)
(* As long as no fault ends a task without an outcome, a document that is  *)
(* shown as PROCESSING has a task that will finish it.                     *)
(*                                                                         *)
(* That it has some task is not inductive: two tasks of one document may   *)
(* overlap, and one whose session read READY or FAILED writes no outcome   *)
(* when it ends with that one.  The invariant asks for a task that will.   *)
(***************************************************************************)
EXTENDS DocumentPipelineProofs

Losing == {"error", "child_lost", "slow", "evict"}

Readable(d) == row[d] = "processing" /\ file[d] \notin {"absent", "odd"}

\* Whoever runs the task of message m, it will not skip its last UPDATE.
WillWrite(m) ==
    \A w \in Workers : wk[w].task = m =>
        wk[w].step \in {"found", "failing"} \/ wk[w].cached = "processing"

Owner(d, m) ==
    /\ msg[m].doc = d /\ msg[m].at \in {"queued", "unacked"}
    /\ WillWrite(m)

Owned == \A d \in Docs : Readable(d) => \E m \in Msgs : Owner(d, m)

\* A task's message is unacknowledged, and no other worker runs it.
Held ==
    \A w \in Workers : ~At(w, "idle") =>
        /\ msg[wk[w].task].at = "unacked"
        /\ \A v \in Workers : wk[v].task = wk[w].task => v = w

-----------------------------------------------------------------------------
LEMMA Published ==
    ASSUME TypeOK, NEW d \in Docs, NEW m \in Msgs, Owner(d, m)
    PROVE  m <= sent
PROOF BY DEF TypeOK, Owner, Unsent

\* Steps that leave the workers and the messages there are alone.
LEMMA WorkersKept ==
    ASSUME TypeOK, Owned, Held, UNCHANGED wk,
           \A m \in Msgs : m <= sent => msg'[m] = msg[m],
           \A d \in Docs : Readable(d)' => Readable(d)
    PROVE  Owned' /\ Held'
PROOF
<1>1. ASSUME NEW d \in Docs, Readable(d)' PROVE \E m \in Msgs : Owner(d, m)'
  <2>1. PICK m \in Msgs : Owner(d, m)
    BY <1>1 DEF Owned
  <2>2. msg'[m] = msg[m]
    BY <2>1, Published
  <2>3. Owner(d, m)'
    BY <2>1, <2>2 DEF Owner, WillWrite
  <2> QED BY <2>3
<1>2. ASSUME NEW w \in Workers, ~At(w, "idle")'
      PROVE  /\ msg'[wk'[w].task].at = "unacked"
             /\ \A v \in Workers : wk'[v].task = wk'[w].task => v = w
  <2>1. ~At(w, "idle") /\ wk'[w] = wk[w]
    BY <1>2 DEF At
  <2>2. wk[w].task \in Msgs /\ wk[w].task <= sent
    BY <2>1, BusyWorker DEF At
  <2> QED BY <2>1, <2>2 DEF Held
<1> QED BY <1>1, <1>2 DEF Owned, Held

\* A task goes on after it has marked its document.
LEMMA TaskGoesOn ==
    ASSUME TypeOK, Owned, Held, NEW w \in Workers,
           wk[w].step \notin {"idle", "found", "failing"},
           NEW s \in TaskSteps \ {"idle"}, Move(w, s),
           UNCHANGED <<row, file, msg>>
    PROVE  Owned' /\ Held'
PROOF
<1>1. wk[w] \in Task /\ wk \in [Workers -> Task \cup {NoTask}]
  BY BusyWorker DEF TypeOK
<1>2. PICK t : t = [wk[w] EXCEPT !.step = s]
  OBVIOUS
<1>3. t.task = wk[w].task /\ t.cached = wk[w].cached /\ t.step = s
  BY <1>1, <1>2 DEF Task
<1>4. wk' = [wk EXCEPT ![w] = t]
  BY <1>2 DEF Move
<1>5. wk'[w] = t /\ \A v \in Workers \ {w} : wk'[v] = wk[v]
  BY <1>1, <1>4
<1>6. \A v \in Workers : wk'[v].task = wk[v].task
  BY <1>3, <1>5
<1>7. ASSUME NEW m \in Msgs, WillWrite(m) PROVE WillWrite(m)'
  BY <1>3, <1>5, <1>7 DEF WillWrite
<1>8. Owned'
  BY <1>7 DEF Owned, Owner, Readable
<1>9. Held'
  BY <1>3, <1>5, <1>6 DEF Held, At
<1> QED BY <1>8, <1>9

\* A task ends: if it would have written an outcome, it has.
LEMMA TaskEnds ==
    ASSUME TypeOK, Owned, Held, NEW w \in Workers, ~At(w, "idle"), Finish(w),
           \A d \in Docs : Readable(d)' => Readable(d),
           NEW e, e = Doc(w), WillWrite(wk[w].task) => ~Readable(e)'
    PROVE  Owned' /\ Held'
PROOF
<1>1. PICK k \in Msgs : k = wk[w].task
  BY BusyWorker DEF At
<1>2. k <= sent /\ msg[k] \in Message /\ msg \in [Msgs -> Message \cup {Unsent}]
  BY <1>1, BusyWorker DEF At, TypeOK
<1>3. \A m \in Msgs \ {k} : msg'[m] = msg[m]
  BY <1>1, <1>2 DEF Finish, Acked
<1>4. wk'[w] = NoTask /\ \A v \in Workers \ {w} : wk'[v] = wk[v]
  BY DEF Finish, Drop, TypeOK
<1>5. NoTask.task \notin Msgs /\ NoTask.step = "idle"
  BY BoundAssumption DEF NoTask, Msgs
<1>6. ASSUME NEW m \in Msgs, WillWrite(m) PROVE WillWrite(m)'
  BY <1>4, <1>5, <1>6 DEF WillWrite
<1>7. ASSUME NEW d \in Docs, Readable(d)' PROVE \E m \in Msgs : Owner(d, m)'
  <2>1. PICK m \in Msgs : Owner(d, m)
    BY <1>7 DEF Owned
  <2>2. m # k
    BY <1>1, <1>7, <2>1 DEF Owner, Doc
  <2>3. Owner(d, m)'
    BY <2>1, <2>2, <1>3, <1>6 DEF Owner
  <2> QED BY <2>3
<1>8. ASSUME NEW v \in Workers, ~At(v, "idle")'
      PROVE  /\ msg'[wk'[v].task].at = "unacked"
             /\ \A u \in Workers : wk'[u].task = wk'[v].task => u = v
  <2>1. v # w /\ wk'[v] = wk[v] /\ ~At(v, "idle")
    BY <1>4, <1>5, <1>8 DEF At
  <2>2. wk[v].task \in Msgs /\ wk[v].task # k
    BY <1>1, <2>1, BusyWorker DEF At, Held
  <2>3. msg'[wk[v].task].at = "unacked"
    BY <1>3, <2>1, <2>2 DEF Held
  <2>4. \A u \in Workers : wk'[u].task = wk[v].task => u = v
    BY <1>4, <1>5, <2>1, <2>2 DEF Held
  <2> QED BY <2>1, <2>3, <2>4
<1> QED BY <1>7, <1>8 DEF Owned, Held

-----------------------------------------------------------------------------
(* The actions of a task *)

LEMMA Marking ==
    ASSUME TypeOK, Owned, Held, NEW w \in Workers, MarkProcessing(w)
    PROVE  Owned' /\ Held'
PROOF
<1>1. PICK d \in Docs : d = Doc(w)
  BY BusyWorker DEF MarkProcessing, At
<1>2. PICK k \in Msgs : k = wk[w].task
  BY BusyWorker DEF MarkProcessing, At
<1>3. UNCHANGED <<file, msg>> /\ msg[k].doc = d
  BY <1>1, <1>2 DEF MarkProcessing, Doc
<1>4. PICK t : t = [step |-> "marked", task |-> k, cached |-> row'[d]]
  OBVIOUS
<1>5. wk' = [wk EXCEPT ![w] = t]
  BY <1>1, <1>2, <1>4 DEF MarkProcessing
<1>6. t.task = k /\ t.step = "marked" /\ t.cached = row'[d]
  BY <1>4
<1>7. wk'[w] = t /\ \A v \in Workers \ {w} : wk'[v] = wk[v]
  BY <1>5 DEF TypeOK
<1>8. row' = Updated(d, wk[w].cached, "processing") /\ row[d] # "none"
      /\ row \in [Docs -> Status \cup {"none"}] /\ ~At(w, "idle")
      /\ msg[k].at = "unacked"
  BY <1>1, <1>2 DEF MarkProcessing, TypeOK, At, Held
<1>9. \A e \in Docs \ {d} : row'[e] = row[e]
  BY <1>8 DEF Updated
<1>10. \A v \in Workers \ {w} : wk[v].task # k
  BY <1>2, <1>8 DEF Held
<1>11. row'[d] = "processing" => WillWrite(k)'
  BY <1>6, <1>7, <1>10 DEF WillWrite
<1>12. ASSUME NEW m \in Msgs, m # k, WillWrite(m) PROVE WillWrite(m)'
  BY <1>6, <1>7, <1>12 DEF WillWrite
<1>13. ASSUME NEW e \in Docs, Readable(e)' PROVE \E m \in Msgs : Owner(e, m)'
  <2>1. CASE e = d
    <3>1. Owner(d, k)'
      BY <1>3, <1>8, <1>11, <1>13, <2>1 DEF Owner, Readable
    <3> QED BY <2>1, <3>1
  <2>2. CASE e # d
    <3>1. PICK m \in Msgs : Owner(e, m)
      BY <1>3, <1>9, <1>13, <2>2 DEF Readable, Owned
    <3>2. m # k
      BY <1>3, <2>2, <3>1 DEF Owner
    <3>3. Owner(e, m)'
      BY <1>3, <1>12, <3>1, <3>2 DEF Owner
    <3> QED BY <3>3
  <2> QED BY <2>1, <2>2
<1>14. \A v \in Workers : wk'[v].task = wk[v].task
  BY <1>2, <1>6, <1>7
<1>15. \A v \in Workers : ~At(v, "idle")' => ~At(v, "idle")
  BY <1>7, <1>8 DEF At
<1>16. Held'
  BY <1>3, <1>14, <1>15 DEF Held
<1> QED BY <1>13, <1>16 DEF Owned

LEMMA Works ==
    ASSUME TypeOK, Owned, Held, NEW w \in Workers, Work(w)
    PROVE  Owned' /\ Held'
PROOF
<1>1. ~At(w, "idle")
  BY DEF Work, MarkProcessing, Uncaught, Load, LoadBlank, Embed, InsertRows,
         Upsert, CommitReady, CommitFailed, At
<1>2. PICK d \in Docs : d = Doc(w)
  BY <1>1, BusyWorker DEF At
<1>3. row \in [Docs -> Status \cup {"none"}] /\ wk[w].task \in Msgs
  BY <1>1, BusyWorker DEF At, TypeOK
<1>4. CASE Load(w) \/ Embed(w) \/ InsertRows(w) \/ Upsert(w)
  <2>1. wk[w].step \notin {"idle", "found", "failing"} /\ UNCHANGED <<row, file, msg>>
    BY <1>4 DEF Load, Embed, InsertRows, Upsert, At, db
  <2>2. PICK s \in TaskSteps \ {"idle"} : Move(w, s)
    <3>1. {"loaded", "failing", "embedded", "flushed", "upserted"} \subseteq TaskSteps \ {"idle"}
      BY DEF TaskSteps
    <3> QED BY <1>4, <3>1 DEF Load, Embed, InsertRows, Upsert
  <2> QED BY <2>1, <2>2, TaskGoesOn
<1>5. CASE Uncaught(w)
  <2>1. Finish(w) /\ UNCHANGED <<row, file>>
    BY <1>5 DEF Uncaught, db
  <2>2. ~Readable(d)
    BY <1>2, <1>5 DEF Uncaught, Readable
  <2> QED BY <1>1, <1>2, <2>1, <2>2, TaskEnds DEF Readable
<1>6. CASE LoadBlank(w)
  <2>1. Finish(w) /\ UNCHANGED file /\ row' = Updated(d, wk[w].cached, "failed")
        /\ wk[w].step = "marked"
    BY <1>2, <1>6 DEF LoadBlank, At
  <2>2. WillWrite(wk[w].task) => row'[d] # "processing"
    BY <1>3, <2>1 DEF Updated, WillWrite
  <2>3. \A e \in Docs : Readable(e)' => Readable(e)
    BY <1>3, <2>1 DEF Updated, Readable
  <2> QED BY <1>1, <1>2, <2>1, <2>2, <2>3, TaskEnds DEF Readable
<1>7. CASE CommitReady(w)
  <2>1. Finish(w) /\ UNCHANGED file /\ row' = Updated(d, wk[w].cached, "ready")
        /\ wk[w].step = "upserted"
    BY <1>2, <1>7 DEF CommitReady, At
  <2>2. WillWrite(wk[w].task) => row'[d] # "processing"
    BY <1>3, <2>1 DEF Updated, WillWrite
  <2>3. \A e \in Docs : Readable(e)' => Readable(e)
    BY <1>3, <2>1 DEF Updated, Readable
  <2> QED BY <1>1, <1>2, <2>1, <2>2, <2>3, TaskEnds DEF Readable
<1>8. CASE CommitFailed(w)
  <2>1. Finish(w) /\ UNCHANGED file /\ row' = Updated(d, row[d], "failed")
    BY <1>2, <1>8 DEF CommitFailed
  <2>2. row'[d] # "processing"
    BY <1>3, <2>1 DEF Updated
  <2>3. \A e \in Docs : Readable(e)' => Readable(e)
    BY <1>3, <2>1 DEF Updated, Readable
  <2> QED BY <1>1, <1>2, <2>1, <2>2, <2>3, TaskEnds DEF Readable
<1> QED BY <1>4, <1>5, <1>6, <1>7, <1>8, Marking DEF Work

\* A worker loses its task, and its message stays where it is.
LEMMA WorkerDies ==
    ASSUME TypeOK, Owned, Held, NEW w \in Workers, WorkerLost(w)
    PROVE  Owned' /\ Held'
PROOF
<1>1. UNCHANGED <<row, file, msg>> /\ wk' = [wk EXCEPT ![w] = NoTask]
  BY DEF WorkerLost, Drop, db
<1>2. wk'[w] = NoTask /\ \A v \in Workers \ {w} : wk'[v] = wk[v]
  BY <1>1 DEF TypeOK
<1>3. NoTask.task \notin Msgs /\ NoTask.step = "idle"
  BY BoundAssumption DEF NoTask, Msgs
<1>4. ASSUME NEW m \in Msgs, WillWrite(m) PROVE WillWrite(m)'
  BY <1>2, <1>3, <1>4 DEF WillWrite
<1>5. Owned'
  BY <1>1, <1>4 DEF Owned, Owner, Readable
<1>6. ASSUME NEW v \in Workers, ~At(v, "idle")'
      PROVE  /\ msg'[wk'[v].task].at = "unacked"
             /\ \A u \in Workers : wk'[u].task = wk'[v].task => u = v
  <2>1. v # w /\ wk'[v] = wk[v] /\ ~At(v, "idle")
    BY <1>2, <1>3, <1>6 DEF At
  <2>2. wk[v].task \in Msgs
    BY <2>1, BusyWorker DEF At
  <2> QED BY <1>1, <1>2, <1>3, <2>1, <2>2 DEF Held
<1> QED BY <1>5, <1>6 DEF Held

\* A transient failure hands the document over to a new message.
LEMMA Retried ==
    ASSUME TypeOK, Owned, Held, NEW w \in Workers, Transient(w)
    PROVE  Owned' /\ Held'
PROOF
<1>1. UNCHANGED <<row, file>> /\ wk[w].step \notin {"idle", "found", "failing"}
      /\ ~At(w, "idle")
  BY DEF Transient, db, At
<1>2. PICK k \in Msgs : k = wk[w].task
  BY <1>1, BusyWorker
<1>3. PICK d \in Docs : d = Doc(w)
  BY <1>1, BusyWorker
<1>4. CASE Move(w, "failing") /\ UNCHANGED msg
  <2>1. "failing" \in TaskSteps \ {"idle"}
    BY DEF TaskSteps
  <2> QED BY <1>1, <1>4, <2>1, TaskGoesOn
<1>5. CASE ~(Move(w, "failing") /\ UNCHANGED msg)
  <2>1. PICK n : n = msg[k].retries + 1
    OBVIOUS
  <2>2. msg' = Enqueued(Acked(k), d, n) /\ sent < MaxMsgs
        /\ wk' = [wk EXCEPT ![w] = NoTask]
    BY <1>2, <1>3, <1>5, <2>1 DEF Transient, Drop
  <2>3. PICK p : p = sent + 1
    OBVIOUS
  <2>4. p \in Msgs /\ \A m \in Msgs : m <= sent => m # p
    BY <2>2, <2>3, BoundAssumption DEF TypeOK, Msgs
  <2>5. Acked(k) \in [Msgs -> Message \cup {Unsent}]
        /\ \A m \in Msgs \ {k} : Acked(k)[m] = msg[m]
    <3>1. k <= sent
      BY <1>1, <1>2, BusyWorker
    <3> QED BY <3>1, AckedType DEF Acked, TypeOK
  <2>6. msg'[p] = [doc |-> d, retries |-> n, at |-> "queued", redelivered |-> 0]
    BY <2>2, <2>3, <2>4, <2>5 DEF Enqueued
  <2>7. \A m \in Msgs \ {k} : m <= sent => msg'[m] = msg[m]
    BY <2>2, <2>3, <2>4, <2>5 DEF Enqueued
  <2>8. wk'[w] = NoTask /\ \A v \in Workers \ {w} : wk'[v] = wk[v]
    BY <2>2 DEF TypeOK
  <2>9. NoTask.task \notin Msgs /\ NoTask.step = "idle"
    BY BoundAssumption DEF NoTask, Msgs
  <2>10. ASSUME NEW m \in Msgs, WillWrite(m) PROVE WillWrite(m)'
    BY <2>8, <2>9, <2>10 DEF WillWrite
  <2>11. \A v \in Workers : wk[v].task # p
    <3>1. \A v \in Workers : wk[v].task <= sent
      BY DEF TypeOK
    <3> QED BY <2>4, <3>1
  <2>12. Owner(d, p)'
    <3>1. WillWrite(p)'
      BY <2>4, <2>8, <2>9, <2>11 DEF WillWrite
    <3> QED BY <2>6, <3>1 DEF Owner
  <2>13. ASSUME NEW e \in Docs, Readable(e)' PROVE \E m \in Msgs : Owner(e, m)'
    <3>1. CASE e = d
      BY <2>4, <2>12, <3>1
    <3>2. CASE e # d
      <4>1. PICK m \in Msgs : Owner(e, m)
        BY <1>1, <2>13 DEF Owned, Readable
      <4>2. m # k /\ m <= sent
        BY <1>2, <1>3, <3>2, <4>1, Published DEF Owner, Doc
      <4>3. Owner(e, m)'
        BY <2>7, <2>10, <4>1, <4>2 DEF Owner
      <4> QED BY <4>3
    <3> QED BY <3>1, <3>2
  <2>14. ASSUME NEW v \in Workers, ~At(v, "idle")'
         PROVE  /\ msg'[wk'[v].task].at = "unacked"
                /\ \A u \in Workers : wk'[u].task = wk'[v].task => u = v
    <3>1. v # w /\ wk'[v] = wk[v] /\ ~At(v, "idle")
      BY <2>8, <2>9, <2>14 DEF At
    <3>2. wk[v].task \in Msgs /\ wk[v].task # k /\ wk[v].task <= sent
      BY <1>2, <3>1, BusyWorker DEF At, Held
    <3>3. msg'[wk[v].task].at = "unacked"
      BY <2>7, <3>1, <3>2 DEF Held
    <3>4. \A u \in Workers : wk'[u].task = wk[v].task => u = v
      BY <2>8, <2>9, <3>1, <3>2 DEF Held
    <3> QED BY <3>1, <3>3, <3>4
  <2> QED BY <2>13, <2>14 DEF Owned, Held
<1> QED BY <1>4, <1>5

-----------------------------------------------------------------------------
(* The broker *)

\* A queued message has no worker.
LEMMA QueuedIsFree ==
    ASSUME TypeOK, Held, NEW m \in Msgs, msg[m].at = "queued", NEW v \in Workers
    PROVE  wk[v].task # m
PROOF
<1>1. CASE At(v, "idle")
  BY <1>1, BoundAssumption DEF At, TypeOK, Task, NoTask, Msgs
<1>2. CASE ~At(v, "idle")
  BY <1>2 DEF Held
<1> QED BY <1>1, <1>2

LEMMA Taken ==
    ASSUME TypeOK, Owned, Held, NEW w \in Workers, NEW k \in Msgs, Take(w, k)
    PROVE  Owned' /\ Held'
PROOF
<1>1. UNCHANGED <<row, file>> /\ At(w, "idle") /\ msg[k].at = "queued"
  BY DEF Take, db
<1>2. \A v \in Workers : wk[v].task # k
  BY <1>1, QueuedIsFree
<1>3. msg[k] \in Message /\ msg \in [Msgs -> Message \cup {Unsent}]
  BY <1>1 DEF TypeOK, Unsent
<1>4. CASE row[msg[k].doc] = "none"
  <2>1. msg' = [msg EXCEPT ![k].at = "gone"] /\ wk' = wk
    BY <1>4 DEF Take
  <2>2. \A m \in Msgs \ {k} : msg'[m] = msg[m]
    BY <1>3, <2>1
  <2>3. ASSUME NEW d \in Docs, Readable(d)' PROVE \E m \in Msgs : Owner(d, m)'
    <3>1. PICK m \in Msgs : Owner(d, m)
      BY <1>1, <2>3 DEF Owned, Readable
    <3>2. m # k
      BY <1>1, <1>4, <2>3, <3>1 DEF Owner, Readable
    <3>3. Owner(d, m)'
      BY <2>1, <2>2, <3>1, <3>2 DEF Owner, WillWrite
    <3> QED BY <3>3
  <2>4. Held'
    <3> SUFFICES ASSUME NEW v \in Workers, ~At(v, "idle")'
                 PROVE  /\ msg'[wk'[v].task].at = "unacked"
                        /\ \A u \in Workers : wk'[u].task = wk'[v].task => u = v
      BY DEF Held
    <3>1. ~At(v, "idle") /\ wk[v].task \in Msgs \ {k}
      BY <1>2, <2>1, BusyWorker DEF At
    <3> QED BY <2>1, <2>2, <3>1 DEF Held
  <2> QED BY <2>3, <2>4 DEF Owned
<1>5. CASE row[msg[k].doc] # "none"
  <2>1. PICK t : t = [step |-> "found", task |-> k, cached |-> row[msg[k].doc]]
    OBVIOUS
  <2>2. msg' = [msg EXCEPT ![k].at = "unacked"] /\ wk' = [wk EXCEPT ![w] = t]
    BY <1>5, <2>1 DEF Take
  <2>3. t.step = "found" /\ t.task = k
    BY <2>1
  <2>4. wk'[w] = t /\ \A v \in Workers \ {w} : wk'[v] = wk[v]
    BY <2>2 DEF TypeOK
  <2>5. /\ \A m \in Msgs \ {k} : msg'[m] = msg[m]
        /\ msg'[k].at = "unacked" /\ msg'[k].doc = msg[k].doc
    BY <1>3, <2>2 DEF Message
  <2>6. ASSUME NEW m \in Msgs, WillWrite(m) PROVE WillWrite(m)'
    BY <2>3, <2>4, <2>6 DEF WillWrite
  <2>7. Owned'
    BY <1>1, <2>5, <2>6 DEF Owned, Owner, Readable
  <2>8. Held'
    <3> SUFFICES ASSUME NEW v \in Workers, ~At(v, "idle")'
                 PROVE  /\ msg'[wk'[v].task].at = "unacked"
                        /\ \A u \in Workers : wk'[u].task = wk'[v].task => u = v
      BY DEF Held
    <3>1. CASE v = w
      BY <1>2, <2>3, <2>4, <2>5, <3>1
    <3>2. CASE v # w
      <4>1. ~At(v, "idle") /\ wk[v].task \in Msgs \ {k}
        BY <1>2, <2>4, <3>2, BusyWorker DEF At
      <4> QED BY <2>3, <2>4, <2>5, <3>2, <4>1 DEF Held
    <3> QED BY <3>1, <3>2
  <2> QED BY <2>7, <2>8
<1> QED BY <1>4, <1>5

LEMMA Redelivered ==
    ASSUME TypeOK, Owned, Held, "slow" \notin Faults, NEW k \in Msgs, Redeliver(k)
    PROVE  Owned' /\ Held'
PROOF
<1>1. UNCHANGED <<row, file, wk>> /\ msg[k].at = "unacked"
  BY DEF Redeliver, db
<1>2. PICK q : q = [msg[k] EXCEPT !.at = "queued", !.redelivered = msg[k].redelivered + 1]
  OBVIOUS
<1>3. msg[k] \in Message /\ msg \in [Msgs -> Message \cup {Unsent}]
  BY <1>1 DEF TypeOK, Unsent
<1>4. q.at = "queued" /\ q.doc = msg[k].doc
  BY <1>2, <1>3 DEF Message
<1>5. msg' = [msg EXCEPT ![k] = q]
  BY <1>2, <1>3 DEF Redeliver, Message
<1>6. msg'[k] = q /\ \A m \in Msgs \ {k} : msg'[m] = msg[m]
  BY <1>3, <1>5
<1>7. \A v \in Workers : ~At(v, "idle") => wk[v].task # k
  BY DEF Redeliver
<1>8. Owned'
  BY <1>1, <1>4, <1>6 DEF Owned, Owner, Readable, WillWrite
<1>9. Held'
  <2> SUFFICES ASSUME NEW v \in Workers, ~At(v, "idle")'
               PROVE  /\ msg'[wk'[v].task].at = "unacked"
                      /\ \A u \in Workers : wk'[u].task = wk'[v].task => u = v
    BY DEF Held
  <2>1. ~At(v, "idle") /\ wk[v].task \in Msgs \ {k}
    BY <1>1, <1>7, BusyWorker DEF At
  <2> QED BY <1>1, <1>6, <2>1 DEF Held
<1> QED BY <1>8, <1>9

-----------------------------------------------------------------------------
(* Requests publish new messages and mark nothing as PROCESSING *)

LEMMA Requests ==
    ASSUME IInv, Owned, Held, NEW c \in Clients, Open(c) \/ Proceed(c) \/ Abort(c)
    PROVE  Owned' /\ Held'
PROOF
<1>1. TypeOK /\ UNCHANGED wk
  BY DEF IInv, Open, Proceed, Abort, UploadSave, DeleteFind, AdminRead, KbDelete,
         UploadInsert, UploadEnqueue, UploadCommit, DeleteFile, DeleteRow,
         DeleteCommit, AdminUpdate, AdminEnqueue, AdminCommit, KbCascade, KbCommit
<1>2. UNCHANGED msg \/ \E d : Delay(d)
  BY DEF Open, Proceed, Abort, UploadSave, DeleteFind, AdminRead, KbDelete,
         UploadInsert, UploadEnqueue, UploadCommit, DeleteFile, DeleteRow,
         DeleteCommit, AdminUpdate, AdminEnqueue, AdminCommit, KbCascade, KbCommit
<1>3. \A m \in Msgs : m <= sent => msg'[m] = msg[m]
  <2>1. ASSUME NEW d, Delay(d) PROVE \A m \in Msgs : m <= sent => msg'[m] = msg[m]
    <3>1. \A m \in Msgs : m <= sent => m # sent + 1
      BY <1>1, BoundAssumption DEF TypeOK, Msgs
    <3> QED BY <1>1, <2>1, <3>1 DEF Delay, Enqueued, TypeOK
  <2> QED BY <1>2, <2>1
<1>4. row \in [Docs -> Status \cup {"none"}]
      /\ file \in [Docs -> Contents \cup {"absent"}]
  BY <1>1 DEF TypeOK
<1>5. CASE \E d \in Docs : UploadSave(c, d)
  <2>1. PICK d \in Docs : UploadSave(c, d)
    BY <1>5
  <2>2. row' = row /\ row[d] = "none"
    BY <2>1 DEF UploadSave, db, IInv, UploadsAreFresh
  <2>3. \A e \in Docs \ {d} : file'[e] = file[e]
    BY <1>4, <2>1 DEF UploadSave
  <2>4. \A e \in Docs : Readable(e)' => Readable(e)
    BY <2>2, <2>3 DEF Readable
  <2> QED BY <1>1, <1>3, <2>4, WorkersKept
<1>6. CASE DeleteFile(c)
  <2>1. row' = row /\ \A e \in Docs : file'[e] \in {file[e], "absent"}
    BY <1>4, <1>6 DEF DeleteFile, db
  <2>2. \A e \in Docs : Readable(e)' => Readable(e)
    BY <2>1 DEF Readable
  <2> QED BY <1>1, <1>3, <2>2, WorkersKept
<1>7. CASE ~(DeleteFile(c) \/ \E d \in Docs : UploadSave(c, d))
  <2>1. UNCHANGED file
    BY <1>7 DEF Open, Proceed, Abort, DeleteFind, AdminRead, KbDelete,
         UploadInsert, UploadEnqueue, UploadCommit, DeleteRow,
         DeleteCommit, AdminUpdate, AdminEnqueue, AdminCommit, KbCascade, KbCommit
  <2>2. \A e \in Docs : row'[e] \in {row[e], "pending", "none"}
    <3>1. CASE UploadCommit(c) \/ AdminCommit(c)
      BY <1>4, <3>1 DEF UploadCommit, AdminCommit
    <3>2. CASE DeleteCommit(c) \/ KbCommit(c)
      BY <1>4, <3>2 DEF DeleteCommit, KbCommit
    <3>3. CASE ~(UploadCommit(c) \/ AdminCommit(c) \/ DeleteCommit(c) \/ KbCommit(c))
      BY <1>7, <3>3 DEF Open, Proceed, Abort, DeleteFind, AdminRead, KbDelete,
         UploadInsert, UploadEnqueue, DeleteRow, AdminUpdate, AdminEnqueue, KbCascade, db
    <3> QED BY <3>1, <3>2, <3>3
  <2>3. \A e \in Docs : Readable(e)' => Readable(e)
    BY <2>1, <2>2 DEF Readable
  <2> QED BY <1>1, <1>3, <2>3, WorkersKept
<1> QED BY <1>5, <1>6, <1>7

LEMMA OwnedNext ==
    ASSUME Faults \cap Losing = {}, IInv, Owned, Held, [Next]_vars
    PROVE  Owned' /\ Held'
PROOF
<1>1. TypeOK
  BY DEF IInv
<1>2. CASE UNCHANGED vars
  BY <1>2 DEF vars, Owned, Held, Owner, Readable, WillWrite, At
<1>3. ASSUME NEW c \in Clients, Open(c) \/ Proceed(c) \/ Abort(c)
      PROVE  Owned' /\ Held'
  BY <1>3, Requests
<1>4. ASSUME NEW w \in Workers, Work(w) \/ Fault(w) PROVE Owned' /\ Held'
  BY <1>1, <1>4, Works, Retried, WorkerDies DEF Fault, Escapes, ChildLost, Losing
<1>5. ASSUME NEW w \in Workers, NEW m \in Msgs, Take(w, m) PROVE Owned' /\ Held'
  BY <1>1, <1>5, Taken
<1>6. ASSUME NEW m \in Msgs, Redeliver(m) PROVE Owned' /\ Held'
  BY <1>1, <1>6, Redelivered DEF Losing
<1>7. ~Evict
  BY DEF Evict, Losing
<1> QED BY <1>2, <1>3, <1>4, <1>5, <1>6, <1>7 DEF Next

\* A document shown as PROCESSING, with a file that can be read, always has a
\* task that will finish it, if none of four faults ends a task without an
\* outcome (an error that escapes its handlers, a lost child, an early
\* acknowledgement of a slow one, an evicted queue): however many tasks of it
\* overlap, fail transiently, are retried or redelivered after a crash.
THEOREM AlwaysHasTask ==
    ASSUME Faults \cap Losing = {}
    PROVE  Spec => []ProcessingHasTask
PROOF
<1>1. Init => Owned /\ Held
  BY DEF Init, Owned, Held, Readable, At, NoTask
<1>2. IInv /\ Owned /\ Held /\ [Next]_vars => Owned' /\ Held'
  BY OwnedNext
<1>3. Owned => ProcessingHasTask
  BY DEF Owned, Owner, Readable, ProcessingHasTask, HasTask
<1> QED BY <1>1, <1>2, <1>3, InvariantHolds, PTL DEF Spec
=============================================================================
