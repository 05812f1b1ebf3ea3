-------------------------- MODULE EvaluationProofs --------------------------
(***************************************************************************)
(* What holds of the two stores, of the searches and of an evaluation for  *)
(* any number of documents, processes and faults.                          *)
(*                                                                         *)
(* First the stores, whatever the lists are: a collection keeps the model  *)
(* it was created for, so it holds and is searched with vectors of that    *)
(* model only; points outlive their rows; results follow the dataset.      *)
(* Then, on top of that invariant, the types and what the lists of a       *)
(* search are at each step, from which the facts of RankingProofs give     *)
(* what fusion and context promise, what the scores of an example tell and *)
(* where the averages lie.                                                 *)
(***************************************************************************)
EXTENDS Evaluation, RankingProofs, TLAPS

SearchFields == {"step", "q", "model", "corpus", "dense", "keyword", "pool", "list"}

\* search[p] is a function of its fields, whatever their values.
SearchShaped ==
    /\ \E S : search \in [Searchers -> S]
    /\ \A p \in Searchers :
         \/ At(p, "idle")
         \/ search[p].q \in Queries /\ \E S : search[p] \in [SearchFields -> S]

Tasks == [step : TaskSteps, doc : Docs, model : Models, base : Nat]

StoresTyped ==
    /\ collection \in Models \cup {None}
    /\ lastId \in Nat
    /\ task \in [Workers -> Tasks \cup {Idle}]

\* A point is of the collection's model; without a collection there is none.
PointsFit ==
    \A s \in Slots : points[s] # None =>
        collection # None /\ points[s].model = collection

\* What Qdrant has found is comparable with what was asked.
FoundFit(p) ==
    At(p, "fused") /\ search[p].dense # <<>> =>
        collection # None /\ search[p].model = collection

\* A task that has upserted left a point for each of its rows.
UpsertedHasPoints ==
    \A w \in Workers : AtTask(w, "upserted") =>
        \A s \in SlotsOf(task[w].doc) : points[s] # None

\* A task asks for its collection before it upserts.
ReadyHasCollection ==
    \A w \in Workers : AtTask(w, "ready") => collection # None

RowsInSlots == \A h \in rows : h.slot \in Slots

StoresInv ==
    /\ RowsInSlots
    /\ SearchShaped /\ StoresTyped /\ ReadyHasCollection
    /\ PointsFit /\ \A p \in Searchers : FoundFit(p)
    /\ UpsertedHasPoints /\ RowsAreIndexed

-----------------------------------------------------------------------------
(* What each step of a search does to its record. *)

\* Search p becomes n.
Becomes(p, n) ==
    /\ search' = [search EXCEPT ![p] = n]
    /\ \/ n.step = "idle"
       \/ n.q \in Queries /\ \E S : n \in [SearchFields -> S]

LEMMA BecomesKeepsShape ==
  ASSUME SearchShaped, NEW p \in Searchers, NEW n, Becomes(p, n)
  PROVE  /\ SearchShaped'
         /\ search'[p] = n
         /\ \A o \in Searchers : o # p => search'[o] = search[o]
<1>1. PICK S : search \in [Searchers -> S]
  BY DEF SearchShaped
<1>2. search' \in [Searchers -> S \cup {n}]
  BY <1>1 DEF Becomes
<1>3. search'[p] = n /\ \A o \in Searchers : o # p => search'[o] = search[o]
  BY <1>1 DEF Becomes
<1>4. \A o \in Searchers :
        \/ At(o, "idle")'
        \/ search'[o].q \in Queries /\ \E T : search'[o] \in [SearchFields -> T]
  <2> TAKE o \in Searchers
  <2>1. CASE o = p
    BY <1>3, <2>1 DEF Becomes, At
  <2>2. CASE o # p
    <3>1. search'[o] = search[o]
      BY <1>3, <2>2
    <3>2. \/ At(o, "idle")
          \/ search[o].q \in Queries /\ \E T : search[o] \in [SearchFields -> T]
      BY DEF SearchShaped
    <3> QED
      BY <3>1, <3>2 DEF At
  <2> QED
    BY <2>1, <2>2
<1>5. \E T : search' \in [Searchers -> T]
  BY <1>2
<1>6. SearchShaped'
  BY <1>4, <1>5 DEF SearchShaped
<1> QED
  BY <1>3, <1>6

LEMMA LoadBecomes ==
  ASSUME SearchShaped, NEW p \in Searchers, NEW q \in Queries, NEW corpus, Load(p, q, corpus)
  PROVE  \E n : Becomes(p, n) /\ n.step = "loaded"
<1>1. PICK n : n = [step |-> "loaded", q |-> q, model |-> None,
                    corpus |-> corpus, dense |-> <<>>, keyword |-> <<>>,
                    pool |-> <<>>, list |-> <<>>]
  OBVIOUS
<1>2. n \in [SearchFields -> {"loaded", q, None, corpus, <<>>}]
  BY <1>1 DEF SearchFields
<1>3. n.step = "loaded" /\ n.q = q /\ search' = [search EXCEPT ![p] = n]
  BY <1>1 DEF Load
<1> QED
  BY <1>2, <1>3 DEF Becomes

LEMMA MoveBecomes ==
  ASSUME SearchShaped, NEW p \in Searchers, ~At(p, "idle"), NEW s, Move(p, s)
  PROVE  \E n : Becomes(p, n) /\ n.step = s
<1>1. PICK S : search[p] \in [SearchFields -> S] /\ search[p].q \in Queries
  BY DEF SearchShaped
<1> DEFINE n == [search[p] EXCEPT !.step = s]
<1>2. n \in [SearchFields -> S \cup {s}] /\ n.q \in Queries /\ n.step = s
  BY <1>1 DEF SearchFields
<1>3. search' = [search EXCEPT ![p] = n]
  BY DEF Move, SearchShaped
<1> QED
  BY <1>2, <1>3 DEF Becomes

LEMMA EmbedBecomes ==
  ASSUME SearchShaped, NEW p \in Searchers, At(p, "loaded"), NEW m,
         search' = [search EXCEPT ![p].step = "embedded", ![p].model = m]
  PROVE  \E n : Becomes(p, n) /\ n.step = "embedded" /\ n.model = m
<1>1. PICK S : search[p] \in [SearchFields -> S] /\ search[p].q \in Queries
  BY DEF SearchShaped, At
<1> DEFINE e == [search[p] EXCEPT !.step = "embedded"]
           n == [e EXCEPT !.model = m]
<1>2. e \in [SearchFields -> S \cup {"embedded"}] /\ e.q \in Queries /\ e.step = "embedded"
  BY <1>1 DEF SearchFields
<1>3. n \in [SearchFields -> S \cup {"embedded", m}] /\ n.q \in Queries
      /\ n.step = "embedded" /\ n.model = m
  BY <1>2 DEF SearchFields
<1>4. search' = [search EXCEPT ![p] = n]
  BY DEF SearchShaped
<1> QED
  BY <1>3, <1>4 DEF Becomes

LEMMA RetrieveBecomes ==
  ASSUME SearchShaped, NEW p \in Searchers, Retrieve(p)
  PROVE  \E n : /\ Becomes(p, n)
                /\ n.step = "fused" /\ n.model = search[p].model
                /\ collection = None => n.dense = <<>>
<1>1. PICK S : search[p] \in [SearchFields -> S] /\ search[p].q \in Queries
  BY DEF SearchShaped, At, Retrieve
<1>2. PICK dense, keyword :
        /\ search' = [search EXCEPT ![p].step = "fused", ![p].corpus = {},
                                    ![p].dense = dense, ![p].keyword = keyword,
                                    ![p].list = Fused(dense, keyword)]
        /\ collection = None => dense = <<>>
  BY DEF Retrieve
<1>3. PICK list : list = Fused(dense, keyword)
  OBVIOUS
<1> DEFINE n1 == [search[p] EXCEPT !.step = "fused"]
           n2 == [n1 EXCEPT !.corpus = {}]
           n3 == [n2 EXCEPT !.dense = dense]
           n4 == [n3 EXCEPT !.keyword = keyword]
           n == [n4 EXCEPT !.list = list]
           V == S \cup {"fused", {}, dense, keyword, list}
<1>4. n1 \in [SearchFields -> V] /\ n1.q \in Queries /\ n1.step = "fused" /\ n1.model = search[p].model
  BY <1>1 DEF SearchFields
<1>5. n2 \in [SearchFields -> V] /\ n2.q \in Queries /\ n2.step = "fused" /\ n2.model = search[p].model
  BY <1>4 DEF SearchFields
<1>6. n3 \in [SearchFields -> V] /\ n3.q \in Queries /\ n3.step = "fused" /\ n3.model = search[p].model
      /\ n3.dense = dense
  BY <1>5 DEF SearchFields
<1>7. n4 \in [SearchFields -> V] /\ n4.q \in Queries /\ n4.step = "fused" /\ n4.model = search[p].model
      /\ n4.dense = dense
  BY <1>6 DEF SearchFields
<1>8. n \in [SearchFields -> V] /\ n.q \in Queries /\ n.step = "fused" /\ n.model = search[p].model
      /\ n.dense = dense
  BY <1>7 DEF SearchFields
<1>9. search' = [search EXCEPT ![p] = n]
  BY <1>2, <1>3 DEF SearchShaped
<1> QED
  BY <1>2, <1>8, <1>9 DEF Becomes

LEMMA RanksBecomes ==
  ASSUME SearchShaped, NEW p \in Searchers, At(p, "fused"), NEW list, Ranks(p, list)
  PROVE  \E n : Becomes(p, n) /\ n.step = "ranked"
<1>1. PICK S : search[p] \in [SearchFields -> S] /\ search[p].q \in Queries
  BY DEF SearchShaped, At
<1> DEFINE n1 == [search[p] EXCEPT !.step = "ranked"]
           n2 == [n1 EXCEPT !.pool = list]
           n3 == [n2 EXCEPT !.dense = <<>>]
           n4 == [n3 EXCEPT !.keyword = <<>>]
           n == [n4 EXCEPT !.list = list]
           V == S \cup {"ranked", <<>>, list}
<1>2. n1 \in [SearchFields -> V] /\ n1.q \in Queries /\ n1.step = "ranked"
  BY <1>1 DEF SearchFields
<1>3. n2 \in [SearchFields -> V] /\ n2.q \in Queries /\ n2.step = "ranked"
  BY <1>2 DEF SearchFields
<1>4. n3 \in [SearchFields -> V] /\ n3.q \in Queries /\ n3.step = "ranked"
  BY <1>3 DEF SearchFields
<1>5. n4 \in [SearchFields -> V] /\ n4.q \in Queries /\ n4.step = "ranked"
  BY <1>4 DEF SearchFields
<1>6. n \in [SearchFields -> V] /\ n.q \in Queries /\ n.step = "ranked"
  BY <1>5 DEF SearchFields
<1>7. search' = [search EXCEPT ![p] = n]
  BY DEF Ranks, SearchShaped
<1> QED
  BY <1>6, <1>7 DEF Becomes

LEMMA CompressBecomes ==
  ASSUME SearchShaped, NEW p \in Searchers, NEW m, Compress(p, m)
  PROVE  \E n : Becomes(p, n) /\ n.step \in {"failed", "answered"}
<1>1. PICK S : search[p] \in [SearchFields -> S] /\ search[p].q \in Queries
  BY DEF SearchShaped, At, Compress
<1>2. CASE m = None
  BY <1>2, MoveBecomes DEF Compress, At
<1>3. CASE m # None
  <2>1. PICK list : list = Compressed(search[p].list)
    OBVIOUS
  <2> DEFINE n1 == [search[p] EXCEPT !.step = "answered"]
             n == [n1 EXCEPT !.list = list]
             V == S \cup {"answered", list}
  <2>2. n1 \in [SearchFields -> V] /\ n1.q \in Queries /\ n1.step = "answered"
    BY <1>1 DEF SearchFields
  <2>3. n \in [SearchFields -> V] /\ n.q \in Queries /\ n.step = "answered"
    BY <2>2 DEF SearchFields
  <2>4. search' = [search EXCEPT ![p] = n]
    BY <1>3, <2>1 DEF Compress, SearchShaped
  <2> QED
    BY <2>3, <2>4 DEF Becomes
<1> QED
  BY <1>2, <1>3

LEMMA ReturnBecomes ==
  ASSUME SearchShaped, NEW p \in Searchers, Return(p)
  PROVE  \E n : Becomes(p, n) /\ n.step = "idle"
<1>1. Idle.step = "idle" /\ search' = [search EXCEPT ![p] = Idle]
  BY DEF Return, Idle
<1> QED
  BY <1>1 DEF Becomes

\* What n may be like when p's search goes on: a hit is comparable with the
\* query, and a vector comes from the cache or from p's models.
GoesOn(p, n) ==
    /\ n.step = "fused" /\ n.dense # <<>> =>
         collection # None /\ n.model = collection
    /\ n.step = "embedded" =>
         \/ n.model = vectors[search[p].q] /\ n.model # None
         \/ n.model # None /\ Embed(p, n.model)

\* What a search may write to the cache of vectors.
CachesOwn(p) ==
    \/ UNCHANGED vectors
    \/ \E m \in Models : /\ Embed(p, m)
                        /\ vectors' = [vectors EXCEPT ![search[p].q] = m]

LEMMA ProceedBecomes ==
  ASSUME SearchShaped, NEW p \in Searchers, Proceed(p)
  PROVE  /\ UNCHANGED stores /\ CachesOwn(p)
         /\ \E n : Becomes(p, n) /\ GoesOn(p, n)
<1>1. CASE EmbedCached(p)
  <2>a. PICK m : m = vectors[search[p].q]
    OBVIOUS
  <2>b. /\ At(p, "loaded")
        /\ search' = [search EXCEPT ![p].step = "embedded", ![p].model = m]
    BY <1>1, <2>a DEF EmbedCached
  <2>1. PICK n : Becomes(p, n) /\ n.step = "embedded" /\ n.model = m
    BY <2>b, EmbedBecomes
  <2>2. UNCHANGED stores /\ UNCHANGED vectors /\ m # None
    BY <1>1, <2>a DEF EmbedCached
  <2>3. GoesOn(p, n)
    BY <2>1, <2>2, <2>a DEF GoesOn
  <2> QED
    BY <2>1, <2>2, <2>3 DEF CachesOwn
<1>2. ASSUME NEW m \in Models \cup {None}, EmbedQuery(p, m)
      PROVE  /\ UNCHANGED stores /\ CachesOwn(p)
             /\ \E n : Becomes(p, n) /\ GoesOn(p, n)
  <2>1. UNCHANGED stores /\ Embed(p, m) /\ At(p, "loaded")
    BY <1>2 DEF EmbedQuery
  <2>2. CASE m = None
    <3>1. Move(p, "failed") /\ UNCHANGED vectors
      BY <1>2, <2>2 DEF EmbedQuery
    <3>2. \E n : Becomes(p, n) /\ n.step = "failed"
      BY <2>1, <3>1, MoveBecomes DEF At
    <3> QED
      BY <2>1, <3>1, <3>2 DEF GoesOn, CachesOwn
  <2>3. CASE m # None
    <3>1. /\ search' = [search EXCEPT ![p].step = "embedded", ![p].model = m]
          /\ UNCHANGED vectors \/ vectors' = [vectors EXCEPT ![search[p].q] = m]
      BY <1>2, <2>3 DEF EmbedQuery
    <3>2. \E n : Becomes(p, n) /\ n.step = "embedded" /\ n.model = m
      BY <2>1, <3>1, EmbedBecomes
    <3>3. CachesOwn(p)
      BY <1>2, <2>1, <2>3, <3>1 DEF CachesOwn
    <3> QED
      BY <2>1, <2>3, <3>2, <3>3 DEF GoesOn
  <2> QED
    BY <2>2, <2>3
<1>3. ASSUME NEW m \in Models \cup {None}, Compress(p, m)
      PROVE  /\ UNCHANGED stores /\ CachesOwn(p)
             /\ \E n : Becomes(p, n) /\ GoesOn(p, n)
  <2>1. \E n : Becomes(p, n) /\ n.step \in {"failed", "answered"}
    BY <1>3, CompressBecomes
  <2>2. UNCHANGED stores /\ UNCHANGED vectors
    BY <1>3 DEF Compress
  <2> QED
    BY <2>1, <2>2 DEF GoesOn, CachesOwn
<1>4. CASE Retrieve(p)
  <2>1. PICK n : /\ Becomes(p, n) /\ n.step = "fused" /\ n.model = search[p].model
                 /\ collection = None => n.dense = <<>>
    BY <1>4, RetrieveBecomes
  <2>2. collection # None => collection = search[p].model
    BY <1>4 DEF Retrieve, Fits
  <2> QED
    BY <1>4, <2>1, <2>2 DEF GoesOn, CachesOwn, Retrieve
<1>5. CASE RetrieveFails(p)
  <2>1. \E n : Becomes(p, n) /\ n.step = "failed"
    BY <1>5, MoveBecomes DEF RetrieveFails, At
  <2> QED
    BY <1>5, <2>1 DEF GoesOn, CachesOwn, RetrieveFails
<1>6. ASSUME NEW list, Ranks(p, list), At(p, "fused"), UNCHANGED <<stores, vectors>>
      PROVE  /\ UNCHANGED stores /\ CachesOwn(p)
             /\ \E n : Becomes(p, n) /\ GoesOn(p, n)
  <2>1. \E n : Becomes(p, n) /\ n.step = "ranked"
    BY <1>6, RanksBecomes
  <2> QED
    BY <1>6, <2>1 DEF GoesOn, CachesOwn
<1>7. CASE RerankFails(p)
  BY <1>6, <1>7 DEF RerankFails
<1>8. ASSUME NEW score \in Scores, Rerank(p, score)
      PROVE  /\ UNCHANGED stores /\ CachesOwn(p)
             /\ \E n : Becomes(p, n) /\ GoesOn(p, n)
  BY <1>6, <1>8 DEF Rerank
<1> QED
  BY <1>1, <1>2, <1>3, <1>4, <1>5, <1>7, <1>8 DEF Proceed

-----------------------------------------------------------------------------
(* The stores' invariant *)

\* A search moves on, and the stores stay as they are.
LEMMA SearchKeepsStores ==
  ASSUME StoresInv, UNCHANGED stores, NEW p \in Searchers, NEW n,
         Becomes(p, n),
         n.step = "fused" /\ n.dense # <<>> =>
            collection # None /\ n.model = collection
  PROVE  StoresInv'
<1>1. /\ SearchShaped /\ \A o \in Searchers : FoundFit(o)
  BY DEF StoresInv
<1>2. /\ SearchShaped' /\ search'[p] = n
      /\ \A o \in Searchers : o # p => search'[o] = search[o]
  BY <1>1, BecomesKeepsShape
<1>3. collection' = collection /\ points' = points /\ rows' = rows
      /\ lastId' = lastId /\ task' = task
  BY DEF stores
<1>4. \A o \in Searchers : FoundFit(o)'
  BY <1>1, <1>2, <1>3 DEF FoundFit, At
<1>5. /\ StoresTyped' /\ ReadyHasCollection' /\ PointsFit' /\ UpsertedHasPoints'
      /\ RowsAreIndexed' /\ RowsInSlots'
  BY <1>3 DEF StoresInv, StoresTyped, ReadyHasCollection, PointsFit,
     UpsertedHasPoints, RowsAreIndexed, RowsInSlots, AtTask
<1> QED
  BY <1>2, <1>4, <1>5 DEF StoresInv

\* A step that leaves the searches and the collection alone, and removes no
\* point.
LEMMA QuietForSearches ==
  ASSUME StoresInv, UNCHANGED <<search, collection>>
  PROVE  SearchShaped' /\ \A o \in Searchers : FoundFit(o)'
BY DEF StoresInv, SearchShaped, FoundFit, At

LEMMA InsertKeepsStores ==
  ASSUME StoresInv, NEW w \in Workers, NEW d \in Docs,
         NEW m \in Models \cup {None}, Insert(w, d, m)
  PROVE  StoresInv'
<1> USE DEF StoresInv
<1>1. UNCHANGED <<collection, points, rows, search>>
  BY DEF Insert
<1>2. CASE m = None
  <2>1. lastId' = lastId /\ task' = task
    BY <1>2 DEF Insert
  <2> QED
    BY <1>1, <2>1, QuietForSearches DEF StoresTyped, ReadyHasCollection,
       PointsFit, UpsertedHasPoints, RowsAreIndexed, RowsInSlots, AtTask
<1>3. CASE m # None
  <2>1. PICK t : t = [step |-> "inserted", doc |-> d, model |-> m, base |-> lastId]
    OBVIOUS
  <2>2. task' = [task EXCEPT ![w] = t] /\ lastId' = lastId + Len(Content[d])
    BY <1>3, <2>1 DEF Insert
  <2>3. t \in Tasks /\ t.step = "inserted"
    BY <1>3, <2>1 DEF StoresTyped, Tasks, TaskSteps
  <2>4. Len(Content[d]) \in Nat
    BY ContentAssumption
  <2>5. StoresTyped'
    BY <1>1, <2>2, <2>3, <2>4 DEF StoresTyped
  <2>6. \A v \in Workers : task'[v] = IF v = w THEN t ELSE task[v]
    BY <2>2 DEF StoresTyped
  <2> QED
    BY <1>1, <2>3, <2>5, <2>6, QuietForSearches DEF ReadyHasCollection,
       PointsFit, UpsertedHasPoints, RowsAreIndexed, RowsInSlots, AtTask
<1> QED
  BY <1>2, <1>3

\* The task goes to another step, or ends.
LEMMA TaskMoves ==
  ASSUME StoresTyped, NEW w \in Workers, ~AtTask(w, "idle"),
         NEW s \in TaskSteps, MoveTask(w, s) \/ EndTask(w)
  PROVE  /\ task' \in [Workers -> Tasks \cup {Idle}]
         /\ \A v \in Workers : v # w => task'[v] = task[v]
         /\ MoveTask(w, s) => task'[w].step = s /\ task'[w].doc = task[w].doc
                              /\ task'[w].model = task[w].model
         /\ ~MoveTask(w, s) => task'[w] = Idle
<1>1. task[w] \in Tasks
  BY DEF StoresTyped, AtTask, Idle
<1>2. CASE MoveTask(w, s)
  <2>1. PICK t : t = [task[w] EXCEPT !.step = s]
    OBVIOUS
  <2>2. t \in Tasks /\ t.step = s /\ t.doc = task[w].doc /\ t.model = task[w].model
    BY <1>1, <2>1 DEF Tasks
  <2>3. task' = [task EXCEPT ![w] = t]
    BY <1>2, <2>1 DEF MoveTask, StoresTyped
  <2> QED
    BY <1>2, <2>2, <2>3 DEF StoresTyped
<1>3. CASE ~MoveTask(w, s)
  BY <1>3 DEF EndTask, StoresTyped
<1> QED
  BY <1>2, <1>3

LEMMA IdleTask == Idle.step = "idle"
BY DEF Idle

LEMMA CheckKeepsStores ==
  ASSUME StoresInv, NEW w \in Workers, CheckCollection(w)
  PROVE  StoresInv'
<1> USE DEF StoresInv
<1>1. UNCHANGED <<collection, points, rows, lastId, search>> /\ ~AtTask(w, "idle")
  BY DEF CheckCollection, AtTask
<1>2. PICK s \in {"missing", "ready"} :
        MoveTask(w, s) /\ (s = "ready" => collection # None)
  BY DEF CheckCollection
<1>3. /\ task' \in [Workers -> Tasks \cup {Idle}]
      /\ \A v \in Workers : v # w => task'[v] = task[v]
      /\ task'[w].step = s
  BY <1>1, <1>2, TaskMoves DEF TaskSteps
<1> QED
  BY <1>1, <1>2, <1>3, QuietForSearches DEF StoresTyped, ReadyHasCollection,
     PointsFit, UpsertedHasPoints, RowsAreIndexed, RowsInSlots, AtTask

\* The collection is created only where there was none, hence no point.
LEMMA CreateKeepsStores ==
  ASSUME StoresInv, NEW w \in Workers, CreateCollection(w)
  PROVE  StoresInv'
<1> USE DEF StoresInv
<1>1. UNCHANGED <<points, rows, lastId, search>> /\ ~AtTask(w, "idle")
  BY DEF CreateCollection, AtTask
<1>2. CASE collection = None
  <2>1. collection' = task[w].model /\ MoveTask(w, "ready")
    BY <1>2 DEF CreateCollection
  <2>2. task[w].model \in Models
    BY <1>1, IdleTask DEF StoresTyped, Tasks, AtTask
  <2>3. /\ task' \in [Workers -> Tasks \cup {Idle}]
        /\ \A v \in Workers : v # w => task'[v] = task[v]
        /\ task'[w].step = "ready"
    BY <1>1, <2>1, TaskMoves DEF TaskSteps
  <2>4. collection' \in Models /\ collection' # None
    BY <2>1, <2>2, NoneAssumption DEF Models
  <2>5. SearchShaped' /\ \A o \in Searchers : FoundFit(o)'
    BY <1>1, <1>2 DEF SearchShaped, FoundFit, At
  <2> QED
    BY <1>1, <1>2, <2>3, <2>4, <2>5 DEF StoresTyped, ReadyHasCollection,
       PointsFit, UpsertedHasPoints, RowsAreIndexed, RowsInSlots, AtTask
<1>3. CASE collection # None
  <2>1. collection' = collection /\ EndTask(w)
    BY <1>3 DEF CreateCollection
  <2>2. /\ task' \in [Workers -> Tasks \cup {Idle}]
        /\ \A v \in Workers : v # w => task'[v] = task[v]
        /\ task'[w].step \in {"ready", "idle"}
    BY <1>1, <2>1, TaskMoves, IdleTask DEF TaskSteps
  <2> QED
    BY <1>1, <1>3, <2>1, <2>2, QuietForSearches DEF StoresTyped, ReadyHasCollection,
       PointsFit, UpsertedHasPoints, RowsAreIndexed, RowsInSlots, AtTask
<1> QED
  BY <1>2, <1>3

\* Every point of the batch is of the collection's model.
LEMMA UpsertKeepsStores ==
  ASSUME StoresInv, NEW w \in Workers, Upsert(w)
  PROVE  StoresInv'
<1> USE DEF StoresInv
<1>1. /\ UNCHANGED <<collection, rows, lastId, search>>
      /\ AtTask(w, "ready") /\ collection = task[w].model /\ MoveTask(w, "upserted")
  BY DEF Upsert, Fits
<1>2. task[w] \in Tasks
  BY <1>1, IdleTask DEF StoresTyped, AtTask
<1>3. /\ task' \in [Workers -> Tasks \cup {Idle}]
      /\ \A v \in Workers : v # w => task'[v] = task[v]
      /\ task'[w].step = "upserted" /\ task'[w].doc = task[w].doc
  BY <1>1, TaskMoves DEF TaskSteps, AtTask
<1>4. ASSUME NEW s \in SlotsOf(task[w].doc)
      PROVE  s \in Slots /\ RowId(task[w], s) \in Nat
  <2>1. task[w].doc \in Docs /\ task[w].base \in Nat
    BY <1>2 DEF Tasks
  <2>2. s[2] \in DOMAIN Content[task[w].doc]
    BY DEF SlotsOf
  <2>3. Content[task[w].doc] \in Seq(Texts)
    BY <2>1, ContentAssumption
  <2>4. s[2] \in Nat
    BY <2>2, <2>3
  <2> QED
    BY <2>1, <2>4 DEF SlotsOf, Slots, RowId
<1>5. ASSUME NEW s \in SlotsOf(task[w].doc)
      PROVE  points'[s] # None /\ points'[s].model = collection
  <2>1. PICK pt : pt = [id |-> RowId(task[w], s), model |-> task[w].model]
    OBVIOUS
  <2>2. points'[s] = pt
    BY <1>4, <2>1 DEF Upsert
  <2>3. pt \in [id : Nat, model : {"primary", "fallback"}] /\ pt.model = collection
    BY <1>1, <1>2, <1>4, <2>1 DEF Tasks, Models
  <2> QED
    BY <2>2, <2>3, NoneAssumption
<1>6. \A s \in Slots : s \notin SlotsOf(task[w].doc) => points'[s] = points[s]
  BY DEF Upsert
<1>7. collection # None
  BY <1>1 DEF ReadyHasCollection
<1>8. PointsFit'
  BY <1>1, <1>5, <1>6, <1>7 DEF PointsFit
<1>9. RowsAreIndexed'
  BY <1>1, <1>5, <1>6 DEF RowsAreIndexed, RowsInSlots
<1>10. UpsertedHasPoints'
  <2> SUFFICES ASSUME NEW v \in Workers, AtTask(v, "upserted")',
                      NEW s \in SlotsOf(task'[v].doc)
               PROVE  points'[s] # None
    BY DEF UpsertedHasPoints, SlotsOf
  <2>1. CASE v = w
    BY <1>3, <1>5, <2>1
  <2>2. CASE v # w
    <3>1. AtTask(v, "upserted") /\ task'[v] = task[v]
      BY <1>3, <2>2 DEF AtTask
    <3>2. points[s] # None
      BY <3>1 DEF UpsertedHasPoints
    <3>3. task[v] \in Tasks
      BY <3>1, IdleTask DEF StoresTyped, AtTask
    <3>4. s \in Slots
      BY <3>1, <3>3 DEF Tasks, SlotsOf, Slots
    <3> QED
      BY <1>5, <1>6, <3>2, <3>4
  <2> QED
    BY <2>1, <2>2
<1> QED
  BY <1>1, <1>3, <1>8, <1>9, <1>10, QuietForSearches
  DEF StoresTyped, ReadyHasCollection, RowsInSlots, AtTask

\* What is committed has been upserted.
LEMMA CommitKeepsStores ==
  ASSUME StoresInv, NEW w \in Workers, CommitRows(w)
  PROVE  StoresInv'
<1> USE DEF StoresInv
<1>1. /\ UNCHANGED <<collection, points, lastId, search>> /\ EndTask(w)
      /\ AtTask(w, "upserted") /\ ~AtTask(w, "idle")
  BY DEF CommitRows, AtTask
<1>2. /\ task' \in [Workers -> Tasks \cup {Idle}]
      /\ \A v \in Workers : v # w => task'[v] = task[v]
      /\ task'[w].step \in {"upserted", "idle"}
      /\ task'[w].step = "upserted" => task'[w] = task[w]
  <2>1. task' = [task EXCEPT ![w] = Idle]
    BY <1>1 DEF EndTask
  <2> QED
    BY <2>1, IdleTask DEF StoresTyped
<1>3. task[w].doc \in Docs
  BY <1>1, IdleTask DEF StoresTyped, Tasks, AtTask
<1>4. \A h \in rows' : h \in rows \/ h.slot \in SlotsOf(task[w].doc)
  BY DEF CommitRows, HitOf
<1>5. \A s \in SlotsOf(task[w].doc) : s \in Slots /\ points[s] # None
  BY <1>1, <1>3 DEF UpsertedHasPoints, SlotsOf, Slots
<1>6. RowsAreIndexed' /\ RowsInSlots'
  BY <1>1, <1>4, <1>5 DEF RowsAreIndexed, RowsInSlots
<1> QED
  BY <1>1, <1>2, <1>6, QuietForSearches DEF StoresTyped, ReadyHasCollection,
     PointsFit, UpsertedHasPoints, AtTask

\* The points of a task that fails stay where they are.
LEMMA RollbackKeepsStores ==
  ASSUME StoresInv, NEW w \in Workers, Rollback(w)
  PROVE  StoresInv'
<1> USE DEF StoresInv
<1>1. UNCHANGED <<collection, points, rows, lastId, search>> /\ EndTask(w)
  BY DEF Rollback
<1>2. /\ task' \in [Workers -> Tasks \cup {Idle}]
      /\ \A v \in Workers : v # w => task'[v] = task[v]
      /\ task'[w].step = "idle"
  <2>1. task' = [task EXCEPT ![w] = Idle]
    BY <1>1 DEF EndTask
  <2> QED
    BY <2>1, IdleTask DEF StoresTyped
<1> QED
  BY <1>1, <1>2, QuietForSearches DEF StoresTyped, ReadyHasCollection,
     PointsFit, UpsertedHasPoints, RowsAreIndexed, RowsInSlots, AtTask

LEMMA FewerRowsKeepStores ==
  ASSUME StoresInv, UNCHANGED <<collection, points, lastId, task, search>>,
         rows' \subseteq rows
  PROVE  StoresInv'
<1> USE DEF StoresInv
<1> QED
  BY QuietForSearches DEF StoresTyped, ReadyHasCollection, PointsFit,
     UpsertedHasPoints, RowsAreIndexed, RowsInSlots, AtTask

LEMMA EnvironmentKeepsStores ==
  ASSUME StoresInv, Environment PROVE StoresInv'
<1>1. ASSUME NEW w \in Workers, Ingest(w) PROVE StoresInv'
  BY <1>1, InsertKeepsStores, CheckKeepsStores, CreateKeepsStores,
     UpsertKeepsStores, CommitKeepsStores, RollbackKeepsStores DEF Ingest
<1>2. ASSUME NEW d \in Docs, DeleteDocument(d) PROVE StoresInv'
  BY <1>2, FewerRowsKeepStores DEF DeleteDocument
<1>3. ASSUME NEW p \in Processes, Restart(p) PROVE StoresInv'
  BY <1>3, FewerRowsKeepStores DEF Restart
<1>4. ASSUME NEW q \in Queries, Expire(q) PROVE StoresInv'
  BY <1>4, FewerRowsKeepStores DEF Expire, stores
<1> QED
  BY <1>1, <1>2, <1>3, <1>4 DEF Environment

LEMMA ProceedKeepsStores ==
  ASSUME StoresInv, NEW p \in Searchers, Proceed(p) PROVE StoresInv'
<1>1. SearchShaped
  BY DEF StoresInv
<1>2. PICK n : Becomes(p, n) /\ GoesOn(p, n)
  BY <1>1, ProceedBecomes
<1> QED
  BY <1>1, <1>2, ProceedBecomes, SearchKeepsStores DEF GoesOn

LEMMA ReturnKeepsStores ==
  ASSUME StoresInv, NEW p \in Searchers, Return(p) PROVE StoresInv'
<1>1. PICK n : Becomes(p, n) /\ n.step = "idle"
  BY ReturnBecomes DEF StoresInv
<1> QED
  BY <1>1, SearchKeepsStores DEF Return

LEMMA LoadKeepsStores ==
  ASSUME StoresInv, NEW p \in Searchers, NEW q \in Queries, NEW corpus,
         Load(p, q, corpus)
  PROVE  StoresInv'
<1>1. PICK n : Becomes(p, n) /\ n.step = "loaded"
  BY LoadBecomes DEF StoresInv
<1> QED
  BY <1>1, SearchKeepsStores DEF Load

LEMMA NothingKeepsStores ==
  ASSUME StoresInv, UNCHANGED vars PROVE StoresInv'
BY FewerRowsKeepStores DEF vars

-----------------------------------------------------------------------------
(* The run's invariant: results follow the dataset. *)

RunFields == {"step", "answers", "corpus", "results", "current", "summary"}
ResultFields == {"example", "retrieval", "answer", "error"}

RunShaped ==
    /\ \E S : run \in [RunFields -> S]
    /\ \E S : run.results \in Seq(S)

RunInv ==
    /\ RunShaped
    /\ OneResultPerExample
    /\ run.step \in {"searching", "answering"} => Len(run.results) < Len(Dataset)
    /\ run.step = "answering" =>
         /\ run.current.example = Question
         /\ \E S : run.current \in [ResultFields -> S]

LEMMA ResultsAreNumbered ==
  ASSUME RunShaped
  PROVE  /\ Len(run.results) \in Nat
         /\ DOMAIN run.results = 1..Len(run.results)
         /\ Len(Dataset) \in Nat
BY DatasetAssumption DEF RunShaped

LEMMA QuestionOfDataset ==
  ASSUME RunShaped, Len(run.results) < Len(Dataset)
  PROVE  Question \in Example /\ Question.q \in Queries
<1>1. Len(run.results) + 1 \in DOMAIN Dataset
  BY ResultsAreNumbered, DatasetAssumption
<1>2. Question \in Example
  BY <1>1, DatasetAssumption DEF Question
<1> QED
  BY <1>2 DEF Example

\* The step changes, and with it perhaps what the run keeps for it.
LEMMA RunMoves ==
  ASSUME RunInv, NEW S, run' \in [RunFields -> S], run'.results = run.results,
         run'.step \in {"searching", "answering"} =>
            Len(run.results) < Len(Dataset),
         run'.step = "answering" =>
            /\ run'.current.example = Question
            /\ \E T : run'.current \in [ResultFields -> T],
         run'.step = "done" => Len(run.results) = Len(Dataset)
  PROVE  RunInv'
<1>1. RunShaped'
  BY DEF RunInv, RunShaped
<1>2. OneResultPerExample'
  BY DEF RunInv, OneResultPerExample
<1> QED
  BY <1>1, <1>2 DEF RunInv, Question

\* A result of the question in hand is recorded.
LEMMA RecordKeepsRun ==
  ASSUME RunInv, Len(run.results) < Len(Dataset), NEW r, r.example = Question,
         Record(r)
  PROVE  RunInv'
<1>1. PICK S : run \in [RunFields -> S]
  BY DEF RunInv, RunShaped
<1>2. PICK T : run.results \in Seq(T)
  BY DEF RunInv, RunShaped
<1>3. PICK results : results = Append(run.results, r)
  OBVIOUS
<1> DEFINE n == Len(run.results)
           r1 == [run EXCEPT !.step = "next"]
           r2 == [r1 EXCEPT !.current = None]
           V == S \cup {"next", None, results}
<1>4. n \in Nat /\ DOMAIN run.results = 1..n /\ Len(Dataset) \in Nat
  BY ResultsAreNumbered DEF RunInv
<1>5. r1 \in [RunFields -> V] /\ r1.step = "next" /\ r1.results = run.results
  BY <1>1 DEF RunFields
<1>6. r2 \in [RunFields -> V] /\ r2.step = "next" /\ r2.results = run.results
  BY <1>5 DEF RunFields
<1>7. run' = [r2 EXCEPT !.results = results]
  BY <1>3, <1>6 DEF Record
<1>8. run' \in [RunFields -> V] /\ run'.step = "next" /\ run'.results = results
  BY <1>6, <1>7 DEF RunFields
<1>9. results \in Seq(T \cup {r})
  <2>1. run.results \in Seq(T \cup {r})
    BY <1>2
  <2> QED
    BY <1>3, <2>1
<1>10. /\ Len(results) = n + 1 /\ DOMAIN results = 1..(n + 1)
       /\ results[n + 1] = r /\ \A i \in 1..n : results[i] = run.results[i]
  BY <1>2, <1>3, <1>4, <1>9
<1>11. RunShaped'
  BY <1>8, <1>9 DEF RunShaped
<1>12. OneResultPerExample'
  <2>1. r.example = Dataset[n + 1]
    BY DEF Question
  <2>2. \A i \in 1..n : run.results[i].example = Dataset[i]
    BY <1>4 DEF RunInv, OneResultPerExample
  <2>3. \A i \in 1..(n + 1) : results[i].example = Dataset[i]
    BY <1>4, <1>10, <2>1, <2>2
  <2>4. n + 1 <= Len(Dataset)
    BY <1>4
  <2> QED
    BY <1>8, <1>10, <2>3, <2>4 DEF OneResultPerExample
<1> QED
  BY <1>8, <1>11, <1>12 DEF RunInv

LEMMA LoadCorpusKeepsRun ==
  ASSUME RunInv, LoadCorpus PROVE RunInv'
<1>1. PICK S : run \in [RunFields -> S]
  BY DEF RunInv, RunShaped
<1> DEFINE r1 == [run EXCEPT !.step = "next"]
           V == S \cup {"next", rows}
<1>2. r1 \in [RunFields -> V] /\ r1.step = "next" /\ r1.results = run.results
  BY <1>1 DEF RunFields
<1>3. run' = [r1 EXCEPT !.corpus = rows]
  BY DEF LoadCorpus
<1>4. run' \in [RunFields -> V] /\ run'.step = "next" /\ run'.results = run.results
  BY <1>2, <1>3 DEF RunFields
<1> QED
  BY <1>4, RunMoves

LEMMA EvaluateExampleKeepsRun ==
  ASSUME RunInv, EvaluateExample PROVE RunInv'
<1>1. PICK S : run \in [RunFields -> S]
  BY DEF RunInv, RunShaped
<1>2. run' = [run EXCEPT !.step = "searching"] /\ Len(run.results) < Len(Dataset)
  BY DEF EvaluateExample
<1>3. /\ run' \in [RunFields -> S \cup {"searching"}]
      /\ run'.step = "searching" /\ run'.results = run.results
  BY <1>1, <1>2 DEF RunFields
<1> QED
  BY <1>2, <1>3, RunMoves

LEMMA ScoreExampleKeepsRun ==
  ASSUME RunInv, ScoreExample PROVE RunInv'
<1>1. PICK S : run \in [RunFields -> S]
  BY DEF RunInv, RunShaped
<1>2. Len(run.results) < Len(Dataset)
  BY DEF RunInv, ScoreExample, Running
<1>3. PICK scores :
        LET result == [example |-> Question, answer |-> None, error |-> FALSE,
                       retrieval |-> scores]
        IN IF run.answers
           THEN run' = [run EXCEPT !.step = "answering", !.current = result]
           ELSE Record(result)
  BY DEF ScoreExample
<1>4. PICK r : r = [example |-> Question, answer |-> None, error |-> FALSE,
                    retrieval |-> scores]
  OBVIOUS
<1>5. /\ r \in [ResultFields -> {r.example, r.retrieval, r.answer, r.error}]
      /\ r.example = Question
  BY <1>4 DEF ResultFields
<1>6. CASE run.answers
  <2> DEFINE r1 == [run EXCEPT !.step = "answering"]
             V == S \cup {"answering", r}
  <2>1. r1 \in [RunFields -> V] /\ r1.step = "answering" /\ r1.results = run.results
    BY <1>1 DEF RunFields
  <2>2. run' = [r1 EXCEPT !.current = r]
    BY <1>3, <1>4, <1>6
  <2>3. /\ run' \in [RunFields -> V] /\ run'.step = "answering"
        /\ run'.results = run.results /\ run'.current = r
    BY <2>1, <2>2 DEF RunFields
  <2> QED
    BY <1>2, <1>5, <2>3, RunMoves
<1>7. CASE ~run.answers
  BY <1>2, <1>3, <1>4, <1>5, <1>7, RecordKeepsRun
<1> QED
  BY <1>6, <1>7

LEMMA FailedIsAboutQuestion == Failed.example = Question
BY DEF Failed

LEMMA AnswersKeepRun ==
  ASSUME RunInv, \/ \E j : AnswerExample(j)
                 \/ AnswerFails \/ SearchFails
  PROVE  RunInv'
<1>1. Len(run.results) < Len(Dataset)
  BY DEF RunInv, AnswerExample, AnswerFails, SearchFails, Running
<1>2. ASSUME NEW j, AnswerExample(j) PROVE RunInv'
  <2>1. PICK S : run.current \in [ResultFields -> S]
    BY <1>2 DEF RunInv, AnswerExample, Running
  <2>2. PICK r : r = [run.current EXCEPT !.answer = j]
    OBVIOUS
  <2>3. r.example = Question
    BY <1>2, <2>1, <2>2 DEF RunInv, AnswerExample, Running, ResultFields
  <2> QED
    BY <1>1, <1>2, <2>2, <2>3, RecordKeepsRun DEF AnswerExample
<1>3. CASE AnswerFails \/ SearchFails
  BY <1>1, <1>3, FailedIsAboutQuestion, RecordKeepsRun DEF AnswerFails, SearchFails
<1> QED
  BY <1>2, <1>3

LEMMA SummariseKeepsRun ==
  ASSUME RunInv, Summarise PROVE RunInv'
<1>1. PICK S : run \in [RunFields -> S]
  BY DEF RunInv, RunShaped
<1>2. PICK summary :
        /\ run' = [run EXCEPT !.step = "done", !.corpus = {}, !.summary = summary]
        /\ Len(run.results) = Len(Dataset)
  BY DEF Summarise
<1> DEFINE r1 == [run EXCEPT !.step = "done"]
           r2 == [r1 EXCEPT !.corpus = {}]
           V == S \cup {"done", {}, summary}
<1>3. r1 \in [RunFields -> V] /\ r1.step = "done" /\ r1.results = run.results
  BY <1>1 DEF RunFields
<1>4. r2 \in [RunFields -> V] /\ r2.step = "done" /\ r2.results = run.results
  BY <1>3 DEF RunFields
<1>5. run' = [r2 EXCEPT !.summary = summary]
  BY <1>2
<1>6. run' \in [RunFields -> V] /\ run'.step = "done" /\ run'.results = run.results
  BY <1>4, <1>5 DEF RunFields
<1> QED
  BY <1>2, <1>6, RunMoves

LEMMA SameRunKeepsRun ==
  ASSUME RunInv, UNCHANGED run PROVE RunInv'
BY DEF RunInv, RunShaped, OneResultPerExample, Question

-----------------------------------------------------------------------------
EvaluationInv == StoresInv /\ RunInv

LEMMA EvaluateKeeps ==
  ASSUME EvaluationInv, Evaluate PROVE EvaluationInv'
<1> USE DEF EvaluationInv
<1>1. CASE LoadCorpus
  BY <1>1, LoadCorpusKeepsRun, NothingKeepsStores DEF LoadCorpus
<1>2. CASE EvaluateExample
  <2>1. Question.q \in Queries
    BY <1>2, QuestionOfDataset DEF EvaluateExample, RunInv
  <2>2. Load(Evaluator, Question.q, run.corpus) /\ Evaluator \in Searchers
    BY <1>2, EvaluatorAssumption DEF EvaluateExample
  <2> QED
    BY <1>2, <2>1, <2>2, EvaluateExampleKeepsRun, LoadKeepsStores
<1>3. CASE Continue
  BY <1>3, EvaluatorAssumption, SameRunKeepsRun, ProceedKeepsStores DEF Continue
<1>4. CASE ScoreExample
  <2>1. StoresInv'
    BY <1>4, EvaluatorAssumption, ReturnKeepsStores DEF ScoreExample
  <2> QED
    BY <1>4, <2>1, ScoreExampleKeepsRun
<1>5. ASSUME NEW j, AnswerExample(j) PROVE EvaluationInv'
  BY <1>5, AnswersKeepRun, NothingKeepsStores DEF AnswerExample
<1>6. CASE SearchFails
  BY <1>6, EvaluatorAssumption, AnswersKeepRun, ReturnKeepsStores DEF SearchFails
<1>7. CASE AnswerFails
  BY <1>7, AnswersKeepRun, NothingKeepsStores DEF AnswerFails
<1>8. CASE Summarise
  BY <1>8, SummariseKeepsRun, NothingKeepsStores DEF Summarise
<1> QED
  BY <1>1, <1>2, <1>3, <1>4, <1>5, <1>6, <1>7, <1>8 DEF Evaluate

LEMMA ServeKeeps ==
  ASSUME EvaluationInv, NEW p \in Searchers, Serve(p) PROVE EvaluationInv'
<1> USE DEF EvaluationInv
<1>1. RunInv'
  BY SameRunKeepsRun DEF Serve
<1>2. CASE Request(p)
  <2>1. PICK q \in Queries : Load(p, q, rows)
    BY <1>2 DEF Request
  <2> QED
    BY <1>1, <2>1, LoadKeepsStores
<1>3. CASE Proceed(p) \/ Return(p)
  BY <1>1, <1>3, ProceedKeepsStores, ReturnKeepsStores
<1> QED
  BY <1>2, <1>3 DEF Serve

LEMMA EvaluationInitHolds == EvaluationInit => EvaluationInv
<1> SUFFICES ASSUME EvaluationInit PROVE EvaluationInv
  OBVIOUS
<1>1. search = [p \in Searchers |-> Idle]
  BY DEF EvaluationInit, Init
<1>2. SearchShaped /\ \A p \in Searchers : FoundFit(p)
  <2>1. search \in [Searchers -> {Idle}]
    BY <1>1
  <2> QED
    BY <1>1, <2>1, IdleTask DEF SearchShaped, FoundFit, At
<1>3. /\ StoresTyped /\ ReadyHasCollection /\ PointsFit /\ UpsertedHasPoints
      /\ RowsAreIndexed /\ RowsInSlots
  BY IdleTask DEF EvaluationInit, Init, StoresTyped, ReadyHasCollection, PointsFit,
     UpsertedHasPoints, RowsAreIndexed, RowsInSlots, AtTask
<1>4. PICK b : run = [step |-> "started", answers |-> b, corpus |-> {},
                      results |-> <<>>, current |-> None, summary |-> None]
  BY DEF EvaluationInit
<1>5. run \in [RunFields -> {"started", b, {}, <<>>, None}]
  BY <1>4 DEF RunFields
<1>6. run.step = "started" /\ run.results = <<>> /\ <<>> \in Seq({})
  BY <1>4
<1>7. RunShaped
  BY <1>5, <1>6 DEF RunShaped
<1>8. OneResultPerExample
  BY <1>6, DatasetAssumption DEF OneResultPerExample
<1>9. RunInv
  BY <1>6, <1>7, <1>8 DEF RunInv
<1> QED
  BY <1>2, <1>3, <1>9 DEF EvaluationInv, StoresInv

LEMMA EvaluationStep == EvaluationInv /\ [Next]_evars => EvaluationInv'
<1> SUFFICES ASSUME EvaluationInv, [Next]_evars PROVE EvaluationInv'
  OBVIOUS
<1>1. CASE Evaluate
  BY <1>1, EvaluateKeeps
<1>2. ASSUME NEW p \in Searchers, Serve(p) PROVE EvaluationInv'
  BY <1>2, ServeKeeps
<1>3. CASE Environment /\ UNCHANGED run
  BY <1>3, EnvironmentKeepsStores, SameRunKeepsRun DEF EvaluationInv
<1>4. CASE UNCHANGED evars
  BY <1>4, NothingKeepsStores, SameRunKeepsRun DEF EvaluationInv, evars
<1> QED
  BY <1>1, <1>2, <1>3, <1>4 DEF Next

\* The inductive invariant of stores, searches and an evaluation.
THEOREM EvaluationCorrect == Spec => []EvaluationInv
BY EvaluationInitHolds, EvaluationStep, PTL DEF Spec

\* VectorsComparable: a collection holds, and answers with, vectors of the
\* model it was created for.
THEOREM VectorsAlwaysComparable == Spec => []VectorsComparable
<1>1. EvaluationInv => VectorsComparable
  BY DEF EvaluationInv, StoresInv, PointsFit, FoundFit, VectorsComparable
<1> QED
  BY <1>1, EvaluationCorrect, PTL

\* RowsAreIndexed: no race, failure or rollback leaves a committed chunk row
\* without a point.
THEOREM RowsAlwaysIndexed == Spec => []RowsAreIndexed
<1>1. EvaluationInv => RowsAreIndexed
  BY DEF EvaluationInv, StoresInv
<1> QED
  BY <1>1, EvaluationCorrect, PTL

\* OneResultPerExample: results follow the dataset one by one, whatever fails.
THEOREM AlwaysOneResultPerExample == Spec => []OneResultPerExample
<1>1. EvaluationInv => OneResultPerExample
  BY DEF EvaluationInv, RunInv
<1> QED
  BY <1>1, EvaluationCorrect, PTL

-----------------------------------------------------------------------------
(* As long as no process falls back, one model is all there is. *)

OnlyPrimary ==
    /\ collection \in {"primary", None}
    /\ vectors \in [Queries -> {"primary", None}]
    /\ \A w \in Workers : ~AtTask(w, "idle") => task[w].model = "primary"
    /\ \A p \in Searchers : At(p, "embedded") => search[p].model = "primary"

LEMMA EmbedsWithPrimary ==
  ASSUME NEW p, NEW m, Embed(p, m), fallen' = {}
  PROVE  m = "primary"
BY DEF Embed

LEMMA SearchesWithPrimary ==
  ASSUME SearchShaped, OnlyPrimary, fallen' = {}, UNCHANGED stores,
         NEW p \in Searchers, NEW n, Becomes(p, n),
         GoesOn(p, n), CachesOwn(p), ~At(p, "idle")
  PROVE  OnlyPrimary'
<1>1. /\ search'[p] = n
      /\ \A o \in Searchers : o # p => search'[o] = search[o]
  BY BecomesKeepsShape
<1>2. collection' = collection /\ task' = task
  BY DEF stores
<1>3. search[p].q \in Queries
  BY DEF SearchShaped
<1>4. vectors' \in [Queries -> {"primary", None}]
  BY <1>3, EmbedsWithPrimary DEF CachesOwn, OnlyPrimary
<1>5. n.step = "embedded" => n.model = "primary"
  BY <1>3, EmbedsWithPrimary DEF GoesOn, OnlyPrimary
<1>6. \A o \in Searchers : At(o, "embedded")' => search'[o].model = "primary"
  BY <1>1, <1>5 DEF OnlyPrimary, At
<1> QED
  BY <1>2, <1>4, <1>6 DEF OnlyPrimary, AtTask

LEMMA WorkersUsePrimary ==
  ASSUME StoresInv, OnlyPrimary, fallen' = {}, NEW w \in Workers, Ingest(w)
  PROVE  OnlyPrimary'
<1> USE DEF OnlyPrimary
<1>1. StoresTyped
  BY DEF StoresInv
<1>2. UNCHANGED <<vectors, search>>
  BY DEF Ingest, Insert, CheckCollection, CreateCollection, Upsert, CommitRows,
     Rollback
<1>3. \A p \in Searchers : At(p, "embedded")' => search'[p].model = "primary"
  BY <1>2 DEF At
<1>4. ASSUME collection' \in {"primary", None},
             \A v \in Workers : v # w => task'[v] = task[v],
             task'[w].step = "idle" \/ task'[w].model = "primary"
      PROVE  OnlyPrimary'
  BY <1>2, <1>3, <1>4 DEF AtTask
<1>5. ASSUME NEW d \in Docs, NEW m \in Models \cup {None}, Insert(w, d, m)
      PROVE  OnlyPrimary'
  <2>1. collection' = collection /\ m = "primary"
    BY <1>5, EmbedsWithPrimary DEF Insert
  <2>2. PICK t : t = [step |-> "inserted", doc |-> d, model |-> m, base |-> lastId]
    OBVIOUS
  <2>3. task' = [task EXCEPT ![w] = t] /\ t.model = "primary"
    BY <1>5, <2>1, <2>2, NoneAssumption DEF Insert
  <2> QED
    BY <1>1, <1>4, <2>1, <2>3 DEF StoresTyped
<1>6. ASSUME ~AtTask(w, "idle"), NEW s \in TaskSteps, MoveTask(w, s) \/ EndTask(w)
      PROVE  /\ \A v \in Workers : v # w => task'[v] = task[v]
             /\ task'[w].step = "idle" \/ task'[w].model = "primary"
  BY <1>1, <1>6, TaskMoves, IdleTask
<1>7. CASE CheckCollection(w)
  <2>1. collection' = collection /\ ~AtTask(w, "idle")
        /\ (MoveTask(w, "missing") \/ MoveTask(w, "ready"))
    BY <1>7 DEF CheckCollection, AtTask
  <2> QED
    BY <1>4, <1>6, <2>1 DEF TaskSteps
<1>8. CASE CreateCollection(w)
  <2>1. ~AtTask(w, "idle") /\ (MoveTask(w, "ready") \/ EndTask(w))
        /\ (collection' = collection \/ collection' = task[w].model)
    BY <1>8 DEF CreateCollection, AtTask
  <2> QED
    BY <1>4, <1>6, <2>1 DEF TaskSteps
<1>9. CASE Upsert(w)
  <2>1. collection' = collection /\ ~AtTask(w, "idle") /\ MoveTask(w, "upserted")
    BY <1>9 DEF Upsert, AtTask
  <2> QED
    BY <1>4, <1>6, <2>1 DEF TaskSteps
<1>10. CASE CommitRows(w) \/ Rollback(w)
  <2>1. collection' = collection /\ ~AtTask(w, "idle") /\ EndTask(w)
    BY <1>10 DEF CommitRows, Rollback, AtTask
  <2> QED
    BY <1>4, <1>6, <2>1 DEF TaskSteps
<1> QED
  BY <1>5, <1>7, <1>8, <1>9, <1>10 DEF Ingest

LEMMA OtherwisePrimary ==
  ASSUME OnlyPrimary, UNCHANGED <<collection, task>>,
         vectors' \in [Queries -> {"primary", None}],
         \A p \in Searchers : search'[p] = search[p] \/ search'[p].step # "embedded"
  PROVE  OnlyPrimary'
BY DEF OnlyPrimary, AtTask, At

LEMMA EnvironmentUsesPrimary ==
  ASSUME StoresInv, OnlyPrimary, fallen' = {}, Environment
  PROVE  OnlyPrimary'
<1>1. ASSUME NEW d \in Docs, DeleteDocument(d) PROVE OnlyPrimary'
  BY <1>1, OtherwisePrimary DEF DeleteDocument, OnlyPrimary
<1>2. ASSUME NEW p \in Processes, Restart(p) PROVE OnlyPrimary'
  BY <1>2, OtherwisePrimary DEF Restart, OnlyPrimary
<1>3. ASSUME NEW q \in Queries, Expire(q) PROVE OnlyPrimary'
  BY <1>3, OtherwisePrimary DEF Expire, OnlyPrimary, stores
<1> QED
  BY <1>1, <1>2, <1>3, WorkersUsePrimary DEF Environment

LEMMA BecomesOtherwise ==
  ASSUME SearchShaped, OnlyPrimary, UNCHANGED <<collection, task, vectors>>,
         NEW p \in Searchers, NEW n, Becomes(p, n), n.step # "embedded"
  PROVE  OnlyPrimary'
<1>1. vectors' \in [Queries -> {"primary", None}]
  BY DEF OnlyPrimary
<1> QED
  BY <1>1, BecomesKeepsShape, OtherwisePrimary

LEMMA LoadUsesPrimary ==
  ASSUME SearchShaped, OnlyPrimary, NEW p \in Searchers, NEW q \in Queries,
         NEW corpus, Load(p, q, corpus)
  PROVE  OnlyPrimary'
<1>1. PICK n : Becomes(p, n) /\ n.step = "loaded"
  BY LoadBecomes
<1> QED
  BY <1>1, BecomesOtherwise DEF Load, stores

LEMMA ReturnUsesPrimary ==
  ASSUME SearchShaped, OnlyPrimary, NEW p \in Searchers, Return(p)
  PROVE  OnlyPrimary'
<1>1. PICK n : Becomes(p, n) /\ n.step = "idle"
  BY ReturnBecomes
<1> QED
  BY <1>1, BecomesOtherwise DEF Return, stores

LEMMA ProceedUsesPrimary ==
  ASSUME SearchShaped, OnlyPrimary, fallen' = {}, NEW p \in Searchers, Proceed(p)
  PROVE  OnlyPrimary'
<1>1. PICK n : Becomes(p, n) /\ GoesOn(p, n)
  BY ProceedBecomes
<1>2. ~At(p, "idle")
  BY DEF Proceed, EmbedCached, EmbedQuery, Compress, Retrieve, RetrieveFails,
     Rerank, RerankFails, At
<1> QED
  BY <1>1, <1>2, ProceedBecomes, SearchesWithPrimary

LEMMA UnchangedUsesPrimary ==
  ASSUME OnlyPrimary, UNCHANGED vars PROVE OnlyPrimary'
BY OtherwisePrimary DEF OnlyPrimary, vars, stores

LEMMA PrimaryStep ==
  ASSUME EvaluationInv, OnlyPrimary, fallen' = {}, [Next]_evars
  PROVE  OnlyPrimary'
<1>1. StoresInv /\ SearchShaped /\ RunShaped
  BY DEF EvaluationInv, StoresInv, RunInv
<1>2. CASE EvaluateExample
  <2>1. Question.q \in Queries
    BY <1>1, <1>2, QuestionOfDataset DEF EvaluateExample
  <2>2. Load(Evaluator, Question.q, run.corpus) /\ Evaluator \in Searchers
    BY <1>2, EvaluatorAssumption DEF EvaluateExample
  <2> QED
    BY <1>1, <2>1, <2>2, LoadUsesPrimary
<1>3. CASE Continue
  BY <1>1, <1>3, EvaluatorAssumption, ProceedUsesPrimary DEF Continue
<1>4. CASE ScoreExample \/ SearchFails
  BY <1>1, <1>4, EvaluatorAssumption, ReturnUsesPrimary DEF ScoreExample, SearchFails
<1>5. CASE LoadCorpus \/ (\E j : AnswerExample(j)) \/ AnswerFails \/ Summarise
  BY <1>5, UnchangedUsesPrimary DEF LoadCorpus, AnswerExample, AnswerFails, Summarise
<1>6. ASSUME NEW p \in Searchers, Serve(p) PROVE OnlyPrimary'
  <2>1. CASE Request(p)
    <3>1. PICK q \in Queries : Load(p, q, rows)
      BY <2>1 DEF Request
    <3> QED
      BY <1>1, <3>1, LoadUsesPrimary
  <2>2. CASE Proceed(p) \/ Return(p)
    BY <1>1, <2>2, ProceedUsesPrimary, ReturnUsesPrimary
  <2> QED
    BY <1>6, <2>1, <2>2 DEF Serve
<1>7. CASE Environment
  BY <1>1, <1>7, EnvironmentUsesPrimary
<1>8. CASE UNCHANGED evars
  BY <1>8, UnchangedUsesPrimary DEF evars
<1> QED
  BY <1>2, <1>3, <1>4, <1>5, <1>6, <1>7, <1>8 DEF Next, Evaluate

LEMMA PrimaryMatches ==
  ASSUME EvaluationInv, OnlyPrimary
  PROVE  NoMismatch
<1>1. ReadyHasCollection
  BY DEF EvaluationInv, StoresInv
<1> QED
  BY <1>1 DEF OnlyPrimary, NoMismatch, ReadyHasCollection, Fits, AtTask

\* NoMismatchWithoutFailover: tasks and searches are refused for a dimension
\* only after some process has switched to the fallback model.
THEOREM NeverMismatchWithoutFailover == Spec => NoMismatchWithoutFailover
<1>1. EvaluationInit => OnlyPrimary
  BY IdleTask DEF EvaluationInit, Init, OnlyPrimary, AtTask, At
<1>2. EvaluationInv /\ OnlyPrimary /\ (fallen = {})' /\ [Next]_evars => OnlyPrimary'
  BY PrimaryStep
<1>3. EvaluationInv /\ OnlyPrimary => NoMismatch
  BY PrimaryMatches
<1> QED
  BY <1>1, <1>2, <1>3, EvaluationCorrect, PTL DEF Spec, NoMismatchWithoutFailover

-----------------------------------------------------------------------------
(* Types, and what the lists of a search are at each step. *)

\* What a search has in hand: rows to look through, two rankings and their
\* fusion, a shortlist, or a shortlist and the context made from it.
ListsFit(r) ==
    /\ r.step \in {"loaded", "embedded"} => IsFiniteSet(r.corpus)
    /\ r.step = "fused" =>
         /\ IsRanking(r.dense, Hit) /\ IsRanking(r.keyword, Hit)
         /\ r.list = Fused(r.dense, r.keyword)
    /\ r.step = "ranked" => r.pool = r.list /\ IsShortlist(r.list, Hit)
    /\ r.step = "answered" => r.list = Compressed(r.pool) /\ IsShortlist(r.pool, Hit)

Going(r) == r \in Search /\ ListsFit(r)

SearchInv ==
    /\ search \in [Searchers -> Search \cup {Idle}]
    /\ \A p \in Searchers : ~At(p, "idle") => ListsFit(search[p])

\* The ids of a task's rows have been handed out.
IdsReserved ==
    \A w \in Workers : ~AtTask(w, "idle") =>
        task[w].base + Len(Content[task[w].doc]) <= MaxId

Stored == {s \in Slots : points[s] # None}

TypeInv ==
    /\ TypeOK /\ SearchInv /\ IdsReserved
    /\ IsFiniteSet(rows) /\ IsFiniteSet(Stored)

LEMMA HitsHaveText == AreHits(Hit)
BY DEF AreHits, Hit

LEMMA ImageIsFinite ==
  ASSUME NEW S, IsFiniteSet(S), NEW f, f = [x \in S |-> f[x]]
  PROVE  IsFiniteSet({f[x] : x \in S})
<1> DEFINE T == {f[x] : x \in S}
<1>1. f \in Surjection(S, T)
  BY DEF Surjection
<1> QED
  BY <1>1, FS_Surjection

\* A slot's text is the text of a chunk.
LEMMA SlotIs ==
  ASSUME NEW d \in Docs, NEW s \in SlotsOf(d)
  PROVE  s \in Slots /\ s[1] = d /\ s[2] \in 1..Len(Content[d])
<1>1. DOMAIN Content[d] = 1..Len(Content[d])
  BY ContentAssumption
<1> QED
  BY <1>1 DEF SlotsOf, Slots

LEMMA SlotHasDocument ==
  ASSUME NEW s \in Slots PROVE s[1] \in Docs /\ s \in SlotsOf(s[1])
BY DEF Slots, SlotsOf

LEMMA HitOfIs ==
  ASSUME NEW s \in Slots, NEW id \in 1..MaxId
  PROVE  HitOf(id, s) \in Hit
<1>1. s[1] \in Docs /\ s[2] \in 1..Len(Content[s[1]])
  BY SlotHasDocument, SlotIs
<1>2. Content[s[1]] \in Seq(Texts)
  BY <1>1, ContentAssumption
<1>3. TextOf(s) \in Texts
  BY <1>1, <1>2 DEF TextOf
<1> QED
  BY <1>3 DEF HitOf, Hit

LEMMA SlotsAreFinite ==
  ASSUME NEW d \in Docs PROVE IsFiniteSet(SlotsOf(d))
<1>1. PICK n \in Nat : n = Len(Content[d]) /\ DOMAIN Content[d] = 1..n
  BY ContentAssumption
<1>2. IsFiniteSet(1..n)
  <2>1. 1 \in Int /\ n \in Int
    BY <1>1
  <2> QED
    BY <2>1, FS_Interval
<1>3. IsFiniteSet({d})
  BY FS_Singleton
<1> QED
  BY <1>1, <1>2, <1>3, FS_Product DEF SlotsOf

\* Any order of a finite set, cut off, is a ranking.
LEMMA TopOfOrder ==
  ASSUME NEW S, S \subseteq Hit, IsFiniteSet(S), NEW o \in Orders(S)
  PROVE  IsRanking(Top(o), Hit)
<1>1. Cardinality(S) \in Nat
  BY FS_CardinalityType
<1>2. /\ o \in [1..Cardinality(S) -> S]
      /\ \A i, j \in 1..Cardinality(S) : i # j => o[i] # o[j]
  BY DEF Orders, SetToSeqs
<1>3. o \in Seq(Hit) /\ DOMAIN o = 1..Cardinality(S) /\ Len(o) = Cardinality(S)
  BY <1>1, <1>2
<1>4. PerMethod \in Nat
  BY LimitAssumption
<1>5. PICK t : t = Cut(o, PerMethod)
  OBVIOUS
<1>6. /\ t \in Seq(Hit) /\ Len(t) <= PerMethod
      /\ \A i \in 1..Len(t) : i \in 1..Len(o) /\ t[i] = o[i]
  <2>1. /\ t \in Seq(Hit)
        /\ Len(t) = IF Len(o) < PerMethod THEN Len(o) ELSE PerMethod
        /\ \A i \in 1..Len(t) : i \in 1..Len(o) /\ t[i] = o[i]
    BY <1>3, <1>4, <1>5, CutIs
  <2>2. Len(o) \in Nat
    BY <1>1, <1>3
  <2>3. Len(t) <= PerMethod
    BY <1>4, <2>1, <2>2
  <2> QED
    BY <2>1, <2>3
<1>7. IsInjective(t)
  BY <1>2, <1>3, <1>6 DEF IsInjective
<1> QED
  BY <1>5, <1>6, <1>7 DEF Top, IsRanking

LEMMA NothingIsRanking == IsRanking(<<>>, Hit)
<1>1. PerMethod \in Nat
  BY LimitAssumption
<1> QED
  BY <1>1 DEF IsRanking, IsInjective

LEMMA DenseIsRanking ==
  ASSUME TypeInv, NEW p \in Searchers, NEW dense \in DenseResults(p)
  PROVE  IsRanking(dense, Hit)
<1> DEFINE f == [s \in Stored |-> HitOf(points[s].id, s)]
           hits == {f[s] : s \in Stored}
<1>1. dense \in {Top(o) : o \in Orders(hits)}
  BY DEF DenseResults, Stored
<1>2. IsFiniteSet(hits)
  <2>1. f = [s \in Stored |-> f[s]] /\ IsFiniteSet(Stored)
    BY DEF TypeInv
  <2> HIDE DEF f
  <2> QED
    BY <2>1, ImageIsFinite
<1>3. hits \subseteq Hit
  <2> SUFFICES ASSUME NEW s \in Stored PROVE f[s] \in Hit
    OBVIOUS
  <2>1. s \in Slots /\ points[s] \in Point
    BY DEF TypeInv, TypeOK, Stored
  <2> QED
    BY <2>1, HitOfIs DEF Point
<1> QED
  BY <1>1, <1>2, <1>3, TopOfOrder

LEMMA KeywordIsRanking ==
  ASSUME NEW p, search[p].corpus \subseteq Hit, IsFiniteSet(search[p].corpus),
         NEW keyword \in KeywordResults(p)
  PROVE  IsRanking(keyword, Hit)
<1> DEFINE Relevant(T) == {h \in search[p].corpus : h.text \in T}
<1>1. PICK T \in SUBSET Texts : keyword \in {Top(o) : o \in Orders(Relevant(T))}
  BY DEF KeywordResults
<1>2. IsFiniteSet(Relevant(T)) /\ Relevant(T) \subseteq Hit
  BY FS_Subset
<1> QED
  BY <1>1, <1>2, TopOfOrder
LEMMA SearchGoesTo ==
  ASSUME SearchInv, NEW p \in Searchers, NEW n, n = Idle \/ Going(n),
         search' = [search EXCEPT ![p] = n]
  PROVE  SearchInv'
<1>1. n \in Search \cup {Idle}
  BY DEF Going
<1>2. search' \in [Searchers -> Search \cup {Idle}]
  BY <1>1 DEF SearchInv
<1>3. search'[p] = n /\ \A o \in Searchers : o # p => search'[o] = search[o]
  BY DEF SearchInv
<1> QED
  BY <1>2, <1>3, IdleTask DEF SearchInv, Going, At

\* A search that is not idle is one of the records.
LEMMA SearchIs ==
  ASSUME SearchInv, NEW p \in Searchers, ~At(p, "idle")
  PROVE  Going(search[p])
BY IdleTask DEF SearchInv, Going, At

LEMMA SameSearches ==
  ASSUME SearchInv, UNCHANGED search PROVE SearchInv'
BY DEF SearchInv, At

LEMMA LoadGoesOn ==
  ASSUME SearchInv, NEW p \in Searchers, NEW q \in Queries,
         NEW corpus \in SUBSET Hit, IsFiniteSet(corpus), Load(p, q, corpus)
  PROVE  SearchInv'
<1>1. PICK n : n = [step |-> "loaded", q |-> q, model |-> None,
                    corpus |-> corpus, dense |-> <<>>, keyword |-> <<>>,
                    pool |-> <<>>, list |-> <<>>]
  OBVIOUS
<1>2. n \in Search /\ n.step = "loaded" /\ n.corpus = corpus
  BY <1>1 DEF Search, SearchSteps
<1>3. search' = [search EXCEPT ![p] = n]
  BY <1>1 DEF Load
<1> QED
  BY <1>2, <1>3, SearchGoesTo DEF Going, ListsFit

LEMMA FailedGoesOn ==
  ASSUME SearchInv, NEW p \in Searchers, ~At(p, "idle"), Move(p, "failed")
  PROVE  SearchInv'
<1>1. search[p] \in Search
  BY SearchIs DEF Going
<1> DEFINE n == [search[p] EXCEPT !.step = "failed"]
<1>2. n \in Search /\ n.step = "failed"
  BY <1>1 DEF Search, SearchSteps
<1>3. search' = [search EXCEPT ![p] = n]
  BY DEF Move, SearchInv
<1> HIDE DEF n
<1> QED
  BY <1>2, <1>3, SearchGoesTo DEF Going, ListsFit

LEMMA EmbedGoesOn ==
  ASSUME SearchInv, NEW p \in Searchers, At(p, "loaded"), NEW m \in Models,
         search' = [search EXCEPT ![p].step = "embedded", ![p].model = m]
  PROVE  SearchInv'
<1>1. search[p] \in Search /\ IsFiniteSet(search[p].corpus)
  BY SearchIs DEF Going, ListsFit, At
<1> DEFINE e == [search[p] EXCEPT !.step = "embedded"]
           n == [e EXCEPT !.model = m]
<1>2. e \in Search /\ e.step = "embedded" /\ e.corpus = search[p].corpus
  BY <1>1 DEF Search, SearchSteps
<1>3. n \in Search /\ n.step = "embedded" /\ n.corpus = search[p].corpus
  BY <1>2 DEF Search
<1>4. search' = [search EXCEPT ![p] = n]
  BY DEF SearchInv
<1> HIDE DEF n
<1> QED
  BY <1>1, <1>3, <1>4, SearchGoesTo DEF Going, ListsFit

LEMMA RetrieveGoesOn ==
  ASSUME TypeInv, NEW p \in Searchers, Retrieve(p)
  PROVE  SearchInv'
<1>1. SearchInv /\ At(p, "embedded")
  BY DEF TypeInv, Retrieve
<1>2. search[p] \in Search /\ IsFiniteSet(search[p].corpus)
  BY <1>1, SearchIs DEF Going, ListsFit, At
<1>3. PICK dense, keyword :
        /\ dense \in IF collection = None THEN {<<>>} ELSE DenseResults(p)
        /\ keyword \in KeywordResults(p)
        /\ search' = [search EXCEPT ![p].step = "fused", ![p].corpus = {},
                                    ![p].dense = dense, ![p].keyword = keyword,
                                    ![p].list = Fused(dense, keyword)]
  BY DEF Retrieve
<1>4. search[p].corpus \subseteq Hit
  BY <1>2 DEF Search
<1>5. IsRanking(dense, Hit)
  BY <1>3, DenseIsRanking, NothingIsRanking
<1>6. IsRanking(keyword, Hit)
  BY <1>2, <1>3, <1>4, KeywordIsRanking
<1>7. PICK list : list = Fused(dense, keyword)
  OBVIOUS
<1>8. IsRanking(list, Hit)
  BY <1>5, <1>6, <1>7, FusedIs
<1>9. dense \in Seq(Hit) /\ keyword \in Seq(Hit) /\ list \in Seq(Hit)
  BY <1>5, <1>6, <1>8 DEF IsRanking
<1> DEFINE n1 == [search[p] EXCEPT !.step = "fused"]
           n2 == [n1 EXCEPT !.corpus = {}]
           n3 == [n2 EXCEPT !.dense = dense]
           n4 == [n3 EXCEPT !.keyword = keyword]
           n == [n4 EXCEPT !.list = list]
<1>10. n1 \in Search /\ n1.step = "fused"
  BY <1>2 DEF Search, SearchSteps
<1>11. n2 \in Search /\ n2.step = "fused"
  BY <1>10 DEF Search
<1>12. n3 \in Search /\ n3.step = "fused" /\ n3.dense = dense
  BY <1>9, <1>11 DEF Search
<1>13. n4 \in Search /\ n4.step = "fused" /\ n4.dense = dense /\ n4.keyword = keyword
  BY <1>9, <1>12 DEF Search
<1>14. n \in Search /\ n.step = "fused" /\ n.dense = dense /\ n.keyword = keyword
       /\ n.list = list
  BY <1>9, <1>13 DEF Search
<1>15. search' = [search EXCEPT ![p] = n]
  BY <1>1, <1>3, <1>7 DEF SearchInv
<1> HIDE DEF n
<1>16. Going(n)
  BY <1>5, <1>6, <1>7, <1>14 DEF Going, ListsFit
<1> QED
  BY <1>1, <1>15, <1>16, SearchGoesTo

LEMMA RanksGoesOn ==
  ASSUME SearchInv, NEW p \in Searchers, At(p, "fused"), NEW list,
         IsShortlist(list, Hit), Ranks(p, list)
  PROVE  SearchInv'
<1>1. search[p] \in Search
  BY SearchIs DEF Going, At
<1>2. list \in Seq(Hit) /\ <<>> \in Seq(Hit)
  BY DEF IsShortlist
<1> DEFINE n1 == [search[p] EXCEPT !.step = "ranked"]
           n2 == [n1 EXCEPT !.pool = list]
           n3 == [n2 EXCEPT !.dense = <<>>]
           n4 == [n3 EXCEPT !.keyword = <<>>]
           n == [n4 EXCEPT !.list = list]
<1>3. n1 \in Search /\ n1.step = "ranked"
  BY <1>1 DEF Search, SearchSteps
<1>4. n2 \in Search /\ n2.step = "ranked" /\ n2.pool = list
  BY <1>2, <1>3 DEF Search
<1>5. n3 \in Search /\ n3.step = "ranked" /\ n3.pool = list
  BY <1>2, <1>4 DEF Search
<1>6. n4 \in Search /\ n4.step = "ranked" /\ n4.pool = list
  BY <1>2, <1>5 DEF Search
<1>7. n \in Search /\ n.step = "ranked" /\ n.pool = list /\ n.list = list
  BY <1>2, <1>6 DEF Search
<1>8. search' = [search EXCEPT ![p] = n]
  BY DEF Ranks, SearchInv
<1> HIDE DEF n
<1> QED
  BY <1>7, <1>8, SearchGoesTo DEF Going, ListsFit

\* What is fused is reranked, or cut when the model cannot be asked.
LEMMA RerankingGoesOn ==
  ASSUME SearchInv, NEW p \in Searchers,
         RerankFails(p) \/ \E score \in Scores : Rerank(p, score)
  PROVE  SearchInv'
<1>1. At(p, "fused")
  BY DEF RerankFails, Rerank
<1>2. PICK s : s = search[p].list
  OBVIOUS
<1>3. IsRanking(s, Hit)
  <2>1. ListsFit(search[p]) /\ search[p].step = "fused"
    BY <1>1, SearchIs DEF Going, At
  <2> QED
    BY <1>2, <2>1, FusedIs DEF ListsFit
<1>4. s \in Seq(Hit) /\ IsInjective(s)
  BY <1>3 DEF IsRanking
<1>5. CASE RerankFails(p)
  <2>1. IsShortlist(FallbackWithoutScores(s), Hit)
    BY <1>4, CutToShortlist DEF FallbackWithoutScores
  <2> QED
    BY <1>1, <1>2, <1>5, <2>1, RanksGoesOn DEF RerankFails
<1>6. ASSUME NEW score \in Scores, Rerank(p, score) PROVE SearchInv'
  <2>1. \A h \in Hit : score[h.text] \in Nat
    BY DEF Scores, Hit
  <2>2. IsShortlist(Reranked(s, score), Hit)
    BY <1>4, <2>1, RerankedIs
  <2> QED
    BY <1>1, <1>2, <1>6, <2>2, RanksGoesOn DEF Rerank
<1> QED
  BY <1>5, <1>6

LEMMA ContextOfShortlist ==
  ASSUME NEW s, IsShortlist(s, Hit)
  PROVE  /\ Compressed(s) \in Seq(Hit) /\ Len(Compressed(s)) <= RerankK
         /\ ContextSound(s, Compressed(s))
<1>1. s \in Seq(Hit) /\ IsInjective(s) /\ Len(s) <= RerankK
  BY DEF IsShortlist
<1>2. /\ Compressed(s) \in Seq(Hit) /\ Len(Compressed(s)) <= Len(s)
      /\ ContextSound(s, Compressed(s))
  BY <1>1, HitsHaveText, ContextIsSound
<1>3. RerankK \in Nat /\ Len(s) \in Nat /\ Len(Compressed(s)) \in Nat
  BY <1>1, <1>2, LimitAssumption
<1> QED
  BY <1>1, <1>2, <1>3

LEMMA CompressGoesOn ==
  ASSUME SearchInv, NEW p \in Searchers, NEW m, Compress(p, m)
  PROVE  SearchInv'
<1>1. At(p, "ranked")
  BY DEF Compress
<1>2. CASE m = None
  BY <1>1, <1>2, FailedGoesOn DEF Compress, At
<1>3. CASE m # None
  <2>1. search[p] \in Search /\ search[p].pool = search[p].list
        /\ IsShortlist(search[p].list, Hit)
    BY <1>1, SearchIs DEF Going, ListsFit, At
  <2>2. PICK list : list = Compressed(search[p].list) /\ list \in Seq(Hit)
    BY <2>1, ContextOfShortlist
  <2> DEFINE n1 == [search[p] EXCEPT !.step = "answered"]
             n == [n1 EXCEPT !.list = list]
  <2>3. n1 \in Search /\ n1.step = "answered" /\ n1.pool = search[p].pool
    BY <2>1 DEF Search, SearchSteps
  <2>4. n \in Search /\ n.step = "answered" /\ n.pool = search[p].pool /\ n.list = list
    BY <2>2, <2>3 DEF Search
  <2>5. search' = [search EXCEPT ![p] = n]
    BY <1>3, <2>2 DEF Compress, SearchInv
  <2> HIDE DEF n
  <2> QED
    BY <2>1, <2>2, <2>4, <2>5, SearchGoesTo DEF Going, ListsFit
<1> QED
  BY <1>2, <1>3

LEMMA ReturnGoesOn ==
  ASSUME SearchInv, NEW p \in Searchers, Return(p)
  PROVE  SearchInv'
BY SearchGoesTo DEF Return
LEMMA EmbedFalls ==
  ASSUME fallen \subseteq Processes, NEW p \in Processes, NEW m, Embed(p, m)
  PROVE  fallen' \subseteq Processes /\ m \in Models \cup {None}
BY DEF Embed, Models

\* A step that changes nothing but a search, failed models and the cache of
\* vectors.
LEMMA SearchKeepsTypes ==
  ASSUME TypeInv, UNCHANGED stores, SearchInv', fallen' \subseteq Processes,
         vectors' \in [Queries -> Models \cup {None}],
         changes' \in 0..MaxChanges
  PROVE  TypeInv'
<1>1. /\ collection' = collection /\ points' = points /\ rows' = rows
      /\ live' = live /\ lastId' = lastId /\ task' = task
  BY DEF stores
<1>2. DOMAIN search' = Searchers /\ \A p \in Searchers : search'[p] \in Search \cup {Idle}
  BY DEF SearchInv
<1>3. TypeOK'
  BY <1>1, <1>2 DEF TypeInv, TypeOK
<1>4. IdsReserved' /\ IsFiniteSet(rows)' /\ IsFiniteSet(Stored)'
  BY <1>1 DEF TypeInv, IdsReserved, Stored, AtTask
<1> QED
  BY <1>3, <1>4 DEF TypeInv

LEMMA ProceedKeepsTypes ==
  ASSUME TypeInv, NEW p \in Searchers, Proceed(p), UNCHANGED changes
  PROVE  TypeInv'
<1>1. /\ SearchInv /\ fallen \subseteq Processes /\ changes \in 0..MaxChanges
      /\ vectors \in [Queries -> Models \cup {None}] /\ p \in Processes
  BY DEF TypeInv, TypeOK, Processes
<1>2. CASE EmbedCached(p)
  <2>1. At(p, "loaded") /\ UNCHANGED <<fallen, stores, changes, vectors>>
    BY <1>2 DEF EmbedCached
  <2>2. search[p].q \in Queries
    BY <1>1, <2>1, SearchIs DEF Going, Search, At
  <2>3. PICK m \in Models : m = vectors[search[p].q]
    BY <1>1, <1>2, <2>2 DEF EmbedCached
  <2>4. search' = [search EXCEPT ![p].step = "embedded", ![p].model = m]
    BY <1>2, <2>3 DEF EmbedCached
  <2>5. SearchInv'
    BY <1>1, <2>1, <2>4, EmbedGoesOn
  <2> QED
    BY <1>1, <2>1, <2>5, SearchKeepsTypes
<1>3. ASSUME NEW m \in {None} \cup Models, EmbedQuery(p, m) PROVE TypeInv'
  <2>1. /\ At(p, "loaded") /\ UNCHANGED <<stores, changes>>
        /\ fallen' \subseteq Processes
    BY <1>1, <1>3, EmbedFalls DEF EmbedQuery
  <2>2. search[p].q \in Queries
    BY <1>1, <2>1, SearchIs DEF Going, Search, At
  <2>3. CASE m = None
    <3>1. Move(p, "failed") /\ vectors' = vectors
      BY <1>3, <2>3 DEF EmbedQuery
    <3>2. SearchInv'
      BY <1>1, <2>1, <3>1, FailedGoesOn DEF At
    <3> QED
      BY <1>1, <2>1, <3>1, <3>2, SearchKeepsTypes
  <2>4. CASE m # None
    <3>1. m \in Models
      BY <2>4
    <3>2. /\ search' = [search EXCEPT ![p].step = "embedded", ![p].model = m]
          /\ vectors' = vectors \/ vectors' = [vectors EXCEPT ![search[p].q] = m]
      BY <1>3, <2>4 DEF EmbedQuery
    <3>3. vectors' \in [Queries -> Models \cup {None}]
      BY <1>1, <2>2, <3>1, <3>2
    <3>4. SearchInv'
      BY <1>1, <2>1, <3>1, <3>2, EmbedGoesOn
    <3> QED
      BY <1>1, <2>1, <3>3, <3>4, SearchKeepsTypes
  <2> QED
    BY <2>3, <2>4
<1>4. ASSUME NEW m \in {None} \cup Models, Compress(p, m) PROVE TypeInv'
  <2>1. fallen' \subseteq Processes
    <3>1. UNCHANGED fallen \/ Embed(p, m)
      BY <1>4 DEF Compress
    <3> QED
      BY <1>1, <3>1, EmbedFalls
  <2>2. UNCHANGED <<stores, changes, vectors>> /\ SearchInv'
    BY <1>1, <1>4, CompressGoesOn DEF Compress
  <2> QED
    BY <1>1, <2>1, <2>2, SearchKeepsTypes
<1>5. CASE RetrieveFails(p)
  <2>1. SearchInv' /\ UNCHANGED <<fallen, stores, changes, vectors>>
    BY <1>1, <1>5, FailedGoesOn DEF RetrieveFails, At
  <2> QED
    BY <1>1, <2>1, SearchKeepsTypes
<1>6. CASE Retrieve(p)
  <2>1. SearchInv' /\ UNCHANGED <<fallen, stores, changes, vectors>>
    BY <1>6, RetrieveGoesOn DEF Retrieve
  <2> QED
    BY <1>1, <2>1, SearchKeepsTypes
<1>7. CASE RerankFails(p) \/ \E score \in Scores : Rerank(p, score)
  <2>1. SearchInv' /\ UNCHANGED <<fallen, stores, changes, vectors>>
    BY <1>1, <1>7, RerankingGoesOn DEF RerankFails, Rerank
  <2> QED
    BY <1>1, <2>1, SearchKeepsTypes
<1> QED
  BY <1>2, <1>3, <1>4, <1>5, <1>6, <1>7 DEF Proceed

LEMMA LoadKeepsTypes ==
  ASSUME TypeInv, NEW p \in Searchers, NEW q \in Queries,
         NEW corpus \in SUBSET Hit, IsFiniteSet(corpus), Load(p, q, corpus),
         changes' \in 0..MaxChanges
  PROVE  TypeInv'
<1>1. SearchInv'
  BY LoadGoesOn DEF TypeInv
<1> QED
  BY <1>1, SearchKeepsTypes DEF Load, TypeInv, TypeOK

LEMMA ReturnKeepsTypes ==
  ASSUME TypeInv, NEW p \in Searchers, Return(p)
  PROVE  TypeInv'
<1>1. SearchInv'
  BY ReturnGoesOn DEF TypeInv
<1> QED
  BY <1>1, SearchKeepsTypes DEF Return, TypeInv, TypeOK

LEMMA NothingKeepsTypes ==
  ASSUME TypeInv, UNCHANGED vars PROVE TypeInv'
<1>1. SearchInv' /\ UNCHANGED stores
  BY SameSearches DEF TypeInv, vars, stores
<1> QED
  BY <1>1, SearchKeepsTypes DEF vars, TypeInv, TypeOK

-----------------------------------------------------------------------------
(* The types of the stores *)

\* The task goes to another step, or ends.
LEMMA TaskKeepsTypes ==
  ASSUME TypeInv, NEW w \in Workers, ~AtTask(w, "idle"),
         NEW s \in TaskSteps, MoveTask(w, s) \/ EndTask(w)
  PROVE  task' \in [Workers -> Task \cup {Idle}] /\ IdsReserved'
<1>1. task \in [Workers -> Task \cup {Idle}] /\ IdsReserved
  BY DEF TypeInv, TypeOK
<1>2. task[w] \in Task
  BY <1>1, IdleTask DEF AtTask
<1>3. CASE MoveTask(w, s)
  <2>1. PICK t : t = [task[w] EXCEPT !.step = s]
    OBVIOUS
  <2>2. t \in Task /\ t.doc = task[w].doc /\ t.base = task[w].base
    BY <1>2, <2>1 DEF Task
  <2>3. task' = [task EXCEPT ![w] = t]
    BY <1>1, <1>3, <2>1 DEF MoveTask
  <2>4. task' \in [Workers -> Task \cup {Idle}]
        /\ \A v \in Workers : task'[v] = IF v = w THEN t ELSE task[v]
    BY <1>1, <2>2, <2>3
  <2> QED
    BY <1>1, <2>2, <2>4 DEF IdsReserved, AtTask
<1>4. CASE EndTask(w)
  <2>1. task' \in [Workers -> Task \cup {Idle}]
        /\ \A v \in Workers : task'[v] = IF v = w THEN Idle ELSE task[v]
    BY <1>1, <1>4 DEF EndTask
  <2> QED
    BY <1>1, <2>1, IdleTask DEF IdsReserved, AtTask
<1> QED
  BY <1>3, <1>4

\* The ids of a task's rows.
LEMMA RowIdIs ==
  ASSUME TypeInv, NEW w \in Workers, ~AtTask(w, "idle"),
         NEW s \in SlotsOf(task[w].doc)
  PROVE  s \in Slots /\ RowId(task[w], s) \in 1..MaxId
<1>1. task[w] \in Task
  BY IdleTask DEF TypeInv, TypeOK, AtTask
<1>2. PICK n : n = Len(Content[task[w].doc]) /\ n \in Nat
  BY <1>1, ContentAssumption DEF Task
<1>3. s \in Slots /\ s[2] \in 1..n
  BY <1>1, <1>2, SlotIs DEF Task
<1>4. task[w].base \in 0..MaxId /\ task[w].base + n <= MaxId
  BY <1>1, <1>2 DEF TypeInv, IdsReserved, Task
<1>5. task[w].base + s[2] \in 1..MaxId
  BY <1>2, <1>3, <1>4, BoundAssumption
<1> QED
  BY <1>3, <1>5 DEF RowId

LEMMA InsertKeepsTypes ==
  ASSUME TypeInv, NEW w \in Workers, NEW d \in Docs,
         NEW m \in Models \cup {None}, Insert(w, d, m)
  PROVE  TypeInv'
<1>1. UNCHANGED <<collection, points, rows, live, vectors, search>>
  BY DEF Insert
<1>2. SearchInv' /\ fallen' \subseteq Processes
  BY <1>1, SameSearches, EmbedFalls DEF Insert, TypeInv, TypeOK, Processes
<1>3. changes' \in 0..MaxChanges
  BY BoundAssumption DEF Insert, TypeInv, TypeOK
<1>4. PICK n \in Nat : n = Len(Content[d])
  BY ContentAssumption
<1>5. task' \in [Workers -> Task \cup {Idle}] /\ lastId' \in 0..MaxId /\ IdsReserved'
  <2>1. CASE m = None
    BY <2>1 DEF Insert, TypeInv, TypeOK, IdsReserved, AtTask
  <2>2. CASE m # None
    <3>1. PICK t : t = [step |-> "inserted", doc |-> d, model |-> m, base |-> lastId]
      OBVIOUS
    <3>2. /\ task' = [task EXCEPT ![w] = t] /\ lastId' = lastId + n
          /\ lastId + n <= MaxId /\ lastId \in 0..MaxId
      BY <1>4, <2>2, <3>1 DEF Insert, TypeInv, TypeOK
    <3>3. t \in Task /\ t.doc = d /\ t.base = lastId
      BY <2>2, <3>1, <3>2 DEF Task, TaskSteps
    <3>4. task' \in [Workers -> Task \cup {Idle}]
          /\ \A v \in Workers : task'[v] = IF v = w THEN t ELSE task[v]
      BY <3>2, <3>3 DEF TypeInv, TypeOK
    <3>5. lastId' \in 0..MaxId
      BY <1>4, <3>2, BoundAssumption
    <3>6. IdsReserved'
      BY <1>4, <3>2, <3>3, <3>4 DEF TypeInv, IdsReserved, AtTask
    <3> QED
      BY <3>4, <3>5, <3>6
  <2> QED
    BY <2>1, <2>2
<1>6. DOMAIN search' = Searchers /\ \A p \in Searchers : search'[p] \in Search \cup {Idle}
  BY <1>1 DEF TypeInv, TypeOK
<1> QED
  BY <1>1, <1>2, <1>3, <1>5, <1>6 DEF TypeInv, TypeOK, Stored

LEMMA CollectionKeepsTypes ==
  ASSUME TypeInv, NEW w \in Workers, CheckCollection(w) \/ CreateCollection(w) \/ Rollback(w)
  PROVE  TypeInv'
<1>1. /\ UNCHANGED <<fallen, points, rows, live, vectors, lastId, changes, search>>
      /\ ~AtTask(w, "idle")
  BY DEF CheckCollection, CreateCollection, Rollback, AtTask
<1>2. collection' \in Models \cup {None}
  <2>1. task[w] \in Task
    BY <1>1, IdleTask DEF TypeInv, TypeOK, AtTask
  <2>2. collection' = collection \/ collection' = task[w].model
    BY DEF CheckCollection, CreateCollection, Rollback
  <2> QED
    BY <2>1, <2>2 DEF Task, TypeInv, TypeOK
<1>3. \E s \in TaskSteps : MoveTask(w, s) \/ EndTask(w)
  BY DEF CheckCollection, CreateCollection, Rollback, TaskSteps
<1>4. task' \in [Workers -> Task \cup {Idle}] /\ IdsReserved'
  BY <1>1, <1>3, TaskKeepsTypes
<1>5. SearchInv'
  BY <1>1, SameSearches DEF TypeInv
<1>6. DOMAIN search' = Searchers /\ \A p \in Searchers : search'[p] \in Search \cup {Idle}
  BY <1>1 DEF TypeInv, TypeOK
<1> QED
  BY <1>1, <1>2, <1>4, <1>5, <1>6 DEF TypeInv, TypeOK, Stored

LEMMA UpsertKeepsTypes ==
  ASSUME TypeInv, NEW w \in Workers, Upsert(w)
  PROVE  TypeInv'
<1>1. /\ UNCHANGED <<fallen, collection, rows, live, vectors, lastId, changes, search>>
      /\ ~AtTask(w, "idle") /\ MoveTask(w, "upserted")
  BY DEF Upsert, AtTask
<1>2. task' \in [Workers -> Task \cup {Idle}] /\ IdsReserved'
  BY <1>1, TaskKeepsTypes DEF TaskSteps
<1>3. task[w] \in Task
  BY <1>1, IdleTask DEF TypeInv, TypeOK, AtTask
<1>4. points' \in [Slots -> Point \cup {None}]
  <2>1. \A s \in SlotsOf(task[w].doc) :
          [id |-> RowId(task[w], s), model |-> task[w].model] \in Point
    BY <1>1, <1>3, RowIdIs DEF Task, Point
  <2>2. \A s \in Slots : points[s] \in Point \cup {None}
    BY DEF TypeInv, TypeOK
  <2> QED
    BY <2>1, <2>2 DEF Upsert
<1>5. IsFiniteSet(Stored')
  <2>1. Stored' \subseteq Stored \cup SlotsOf(task[w].doc)
    BY DEF Stored, Upsert
  <2>2. IsFiniteSet(Stored) /\ IsFiniteSet(SlotsOf(task[w].doc))
    BY <1>3, SlotsAreFinite DEF TypeInv, Task
  <2>3. IsFiniteSet(Stored \cup SlotsOf(task[w].doc))
    BY <2>2, FS_Union
  <2> QED
    BY <2>1, <2>3, FS_Subset
<1>6. SearchInv'
  BY <1>1, SameSearches DEF TypeInv
<1>7. DOMAIN search' = Searchers /\ \A p \in Searchers : search'[p] \in Search \cup {Idle}
  BY <1>1 DEF TypeInv, TypeOK
<1> QED
  BY <1>1, <1>2, <1>4, <1>5, <1>6, <1>7 DEF TypeInv, TypeOK

LEMMA CommitKeepsTypes ==
  ASSUME TypeInv, NEW w \in Workers, CommitRows(w)
  PROVE  TypeInv'
<1>1. /\ UNCHANGED <<fallen, collection, points, live, vectors, lastId, changes, search>>
      /\ ~AtTask(w, "idle") /\ EndTask(w)
  BY DEF CommitRows, AtTask
<1>2. task' \in [Workers -> Task \cup {Idle}] /\ IdsReserved'
  BY <1>1, TaskKeepsTypes DEF TaskSteps
<1>3. task[w] \in Task
  BY <1>1, IdleTask DEF TypeInv, TypeOK, AtTask
<1> DEFINE S == SlotsOf(task[w].doc)
           f == [s \in S |-> HitOf(RowId(task[w], s), s)]
           new == {f[s] : s \in S}
<1>4. rows' = rows \cup new
  BY DEF CommitRows
<1>5. new \subseteq Hit
  <2> SUFFICES ASSUME NEW s \in S PROVE f[s] \in Hit
    OBVIOUS
  <2> QED
    BY <1>1, RowIdIs, HitOfIs
<1>6. IsFiniteSet(new)
  <2>1. f = [s \in S |-> f[s]] /\ IsFiniteSet(S)
    BY <1>3, SlotsAreFinite DEF Task
  <2> HIDE DEF f, S
  <2> QED
    BY <2>1, ImageIsFinite
<1> HIDE DEF new
<1>7. rows' \subseteq Hit /\ IsFiniteSet(rows')
  BY <1>4, <1>5, <1>6, FS_Union DEF TypeInv, TypeOK
<1>8. SearchInv'
  BY <1>1, SameSearches DEF TypeInv
<1>9. DOMAIN search' = Searchers /\ \A p \in Searchers : search'[p] \in Search \cup {Idle}
  BY <1>1 DEF TypeInv, TypeOK
<1> QED
  BY <1>1, <1>2, <1>7, <1>8, <1>9 DEF TypeInv, TypeOK, Stored

LEMMA EnvironmentKeepsTypes ==
  ASSUME TypeInv, Environment PROVE TypeInv'
<1>1. ASSUME NEW w \in Workers, Ingest(w) PROVE TypeInv'
  BY <1>1, InsertKeepsTypes, CollectionKeepsTypes, UpsertKeepsTypes,
     CommitKeepsTypes DEF Ingest
<1>2. ASSUME UNCHANGED <<collection, points, lastId, task, search>>,
             live' \subseteq live, rows' \subseteq rows, fallen' \subseteq fallen,
             vectors' \in [Queries -> Models \cup {None}],
             changes' \in 0..MaxChanges
      PROVE  TypeInv'
  <2>1. SearchInv'
    BY <1>2, SameSearches DEF TypeInv
  <2>2. IsFiniteSet(rows')
    BY <1>2, FS_Subset DEF TypeInv
  <2>3. DOMAIN search' = Searchers
        /\ \A p \in Searchers : search'[p] \in Search \cup {Idle}
    BY <1>2 DEF TypeInv, TypeOK
  <2> QED
    BY <1>2, <2>1, <2>2, <2>3 DEF TypeInv, TypeOK, IdsReserved, Stored, AtTask
<1>3. /\ changes \in 0..MaxChanges /\ MaxChanges \in Nat
      /\ vectors \in [Queries -> Models \cup {None}]
  BY BoundAssumption DEF TypeInv, TypeOK
<1>4. ASSUME NEW d \in Docs, DeleteDocument(d) PROVE TypeInv'
  BY <1>2, <1>3, <1>4 DEF DeleteDocument
<1>5. ASSUME NEW p \in Processes, Restart(p) PROVE TypeInv'
  BY <1>2, <1>3, <1>5 DEF Restart
<1>6. ASSUME NEW q \in Queries, Expire(q) PROVE TypeInv'
  BY <1>2, <1>3, <1>6 DEF Expire, stores
<1> QED
  BY <1>1, <1>4, <1>5, <1>6 DEF Environment

-----------------------------------------------------------------------------
(* What a retrieval's scores tell *)

\* A hit, a positive recall, precision and reciprocal rank go together, and
\* nothing is scored against an empty ground truth.
Agree(r, relevant) ==
    /\ \A m, n \in Metrics : r[m] > 0 => r[n] > 0
    /\ \A m \in Metrics : r[m] <= Whole
    /\ r["precision_at_k"] = Whole => r["mrr"] = Whole
    /\ relevant = {} => r = Zeros

LEMMA ZerosAgree ==
  ASSUME NEW relevant PROVE Zeros \in RetrievalScores /\ Agree(Zeros, relevant)
<1>1. Whole \in Nat /\ Whole > 0
  BY WholeAssumption
<1>2. Zeros \in RetrievalScores /\ \A m \in Metrics : Zeros[m] = 0
  BY <1>1 DEF Zeros, RetrievalScores
<1>3. "precision_at_k" \in Metrics
  BY DEF Metrics
<1> QED
  BY <1>1, <1>2, <1>3 DEF Agree

\* What divides the whole has a part in it.
LEMMA Divides ==
  ASSUME NEW n \in Nat, n > 0, Whole % n = 0
  PROVE  \E k \in Nat : k > 0 /\ Whole = k * n /\ Whole \div n = k
<1>1. Whole \in Nat /\ Whole > 0
  BY WholeAssumption
<1>2. PICK w : w = Whole /\ w \in Nat /\ w > 0 /\ w % n = 0
  BY <1>1
<1>3. w \div n \in Nat /\ w = (w \div n) * n + (w % n)
  BY <1>2
<1>4. PICK k \in Nat : k = w \div n
  BY <1>3
<1>5. w = k * n
  BY <1>2, <1>3, <1>4
<1>6. k > 0
  BY <1>2, <1>5
<1> QED
  BY <1>2, <1>4, <1>5, <1>6

\* A part of the whole: c of n.
LEMMA PartOfWhole ==
  ASSUME NEW n \in Nat, n > 0, Whole % n = 0, NEW c \in 1..n
  PROVE  /\ (Whole * c) \div n \in 1..Whole
         /\ (Whole * c) \div n = Whole => c = n
<1>1. PICK k \in Nat : k > 0 /\ Whole = k * n
  BY Divides
<1>2. Whole * c = (k * c) * n
  <2>1. (k * n) * c = (k * c) * n
    OBVIOUS
  <2> QED
    BY <1>1, <2>1
<1>3. k * c \in Nat
  OBVIOUS
<1>4. \A x \in Nat : (x * n) \div n = x
  OBVIOUS
<1>5. (Whole * c) \div n = k * c
  BY <1>2, <1>3, <1>4
<1>6. k * c >= 1 /\ k * c <= k * n /\ (k * c = k * n => c = n)
  BY <1>1
<1>7. k * n \in Nat
  OBVIOUS
<1> QED
  BY <1>1, <1>3, <1>5, <1>6, <1>7

LEMMA FirstRelevantIs ==
  ASSUME NEW ids \in Seq(Nat), NEW relevant, NEW r \in 1..Len(ids), ids[r] \in relevant
  PROVE  LET first == FirstRelevant(ids, relevant) IN
         /\ first \in 1..Len(ids) /\ ids[first] \in relevant
         /\ \A k \in 1..(first - 1) : ids[k] \notin relevant
<1> DEFINE S == {k \in 1..Len(ids) : ids[k] \in relevant}
<1>1. S \subseteq Nat /\ S # {}
  OBVIOUS
<1>2. PICK m \in S : \A k \in S : m <= k
  BY <1>1, Least
<1>3. m \in DOMAIN ids /\ ids[m] \in relevant
  BY <1>2
<1>4. \A k \in 1..(m - 1) : ids[k] \notin relevant
  <2> SUFFICES ASSUME NEW k \in 1..(m - 1), ids[k] \in relevant PROVE FALSE
    OBVIOUS
  <2>1. m \in 1..Len(ids) /\ Len(ids) \in Nat
    BY <1>2
  <2>2. k \in S /\ ~(m <= k)
    BY <2>1
  <2> QED
    BY <1>2, <2>2
<1>5. DOMAIN ids = 1..Len(ids)
  OBVIOUS
<1> QED
  BY <1>3, <1>4, <1>5 DEF FirstRelevant

LEMMA ScoresAgree ==
  ASSUME NEW ids \in Seq(Nat), Len(ids) <= RerankK,
         NEW relevant, IsFiniteSet(relevant),
         relevant # {} => Whole % Cardinality(relevant) = 0
  PROVE  /\ ScoreRetrieval(ids, relevant) \in RetrievalScores
         /\ Agree(ScoreRetrieval(ids, relevant), relevant)
<1> DEFINE listed == {r \in DOMAIN ids : ids[r] \in relevant}
<1>1. CASE listed = {}
  BY <1>1, ZerosAgree DEF ScoreRetrieval
<1>2. CASE listed # {}
  <2>1. PICK len \in Nat : len = Len(ids) /\ DOMAIN ids = 1..len
    OBVIOUS
  <2>2. PICK r \in 1..len : r \in listed /\ ids[r] \in relevant
    BY <1>2, <2>1
  <2>3. len > 0 /\ Whole % len = 0
    <3>1. len \in 1..RerankK
      BY <2>1, <2>2, LimitAssumption
    <3> QED
      BY <2>2, <3>1, WholeAssumption
  <2>4. IsFiniteSet(1..len) /\ Cardinality(1..len) = len
    <3>1. 1 \in Int /\ len \in Int
      OBVIOUS
    <3>2. /\ IsFiniteSet(1..len)
          /\ Cardinality(1..len) = IF 1 > len THEN 0 ELSE len - 1 + 1
      BY <3>1, FS_Interval
    <3> QED
      BY <3>2
  <2>5. listed \subseteq 1..len
    BY <2>1
  <2>6. /\ IsFiniteSet(listed) /\ Cardinality(listed) <= len
        /\ Cardinality(listed) = len => listed = 1..len
    BY <2>4, <2>5, FS_Subset
  <2>c. Cardinality(listed) \in 1..len
    <3> HIDE DEF listed
    <3>1. Cardinality(listed) \in Nat /\ Cardinality(listed) # 0
      BY <1>2, <2>6, FS_CardinalityType, FS_EmptySet
    <3> QED
      BY <2>6, <3>1
  <2>7. PICK l : l = Cardinality(listed) /\ l \in 1..len
    BY <2>c
  <2> DEFINE found == {ids[k] : k \in listed}
  <2>8. found \subseteq relevant /\ ids[r] \in found
    BY <2>2
  <2> HIDE DEF found, listed
  <2>9. PICK R : R = Cardinality(relevant) /\ R \in Nat /\ R > 0 /\ Whole % R = 0
    <3>1. Cardinality(relevant) \in Nat /\ Cardinality(relevant) # 0 /\ relevant # {}
      BY <2>2, FS_CardinalityType, FS_EmptySet
    <3> QED
      BY <3>1
  <2>10. PICK c : c = Cardinality(found) /\ c \in 1..R
    <3>1. IsFiniteSet(found) /\ Cardinality(found) <= R
      BY <2>8, <2>9, FS_Subset
    <3>2. Cardinality(found) \in Nat /\ Cardinality(found) # 0
      BY <2>8, <3>1, FS_CardinalityType, FS_EmptySet
    <3> QED
      BY <2>9, <3>1, <3>2
  <2>11. PICK first : /\ first = FirstRelevant(ids, relevant)
                      /\ first \in 1..len /\ ids[first] \in relevant
                      /\ \A k \in 1..(first - 1) : ids[k] \notin relevant
    BY <2>1, <2>2, FirstRelevantIs
  <2>12. PICK s : /\ s = ScoreRetrieval(ids, relevant)
                  /\ s = [hit_rate |-> Whole,
                          recall_at_k |-> (Whole * c) \div R,
                          precision_at_k |-> (Whole * l) \div len,
                          mrr |-> Whole \div first]
    <3>1. ScoreRetrieval(ids, relevant) =
            [hit_rate |-> Whole,
             recall_at_k |-> (Whole * Cardinality(found)) \div Cardinality(relevant),
             precision_at_k |-> (Whole * Cardinality(listed)) \div Len(ids),
             mrr |-> Whole \div FirstRelevant(ids, relevant)]
      BY <1>2 DEF ScoreRetrieval, listed, found
    <3> QED
      BY <2>1, <2>7, <2>9, <2>10, <2>11, <3>1
  <2>13. (Whole * c) \div R \in 1..Whole
    BY <2>9, <2>10, PartOfWhole
  <2>14. (Whole * l) \div len \in 1..Whole
         /\ ((Whole * l) \div len = Whole => l = len)
    BY <2>3, <2>7, PartOfWhole
  <2>15. Whole \in Nat /\ Whole > 0
    BY WholeAssumption
  <2>16. Whole \div first \in 1..Whole /\ (first = 1 => Whole \div first = Whole)
    <3>1. first \in Nat /\ first > 0 /\ Whole % first = 0
      <4>1. first \in 1..RerankK
        BY <2>1, <2>11, LimitAssumption
      <4> QED
        BY <2>11, <4>1, WholeAssumption
    <3>2. PICK k \in Nat : k > 0 /\ Whole = k * first /\ Whole \div first = k
      BY <3>1, Divides
    <3>3. k * first >= k /\ (first = 1 => k * first = k)
      BY <3>1
    <3> QED
      BY <2>15, <3>2, <3>3
  <2>17. l = len => first = 1
    <3> SUFFICES ASSUME l = len PROVE first = 1
      OBVIOUS
    <3>1. 1 \in listed
      BY <2>3, <2>6, <2>7
    <3>2. ids[1] \in relevant
      BY <3>1 DEF listed
    <3>3. 1 \notin 1..(first - 1)
      BY <2>11, <3>2
    <3> QED
      BY <2>1, <2>11, <3>3
  <2>18. /\ s["hit_rate"] \in 1..Whole /\ s["recall_at_k"] \in 1..Whole
         /\ s["precision_at_k"] \in 1..Whole /\ s["mrr"] \in 1..Whole
         /\ s["precision_at_k"] = Whole => s["mrr"] = Whole
    BY <2>12, <2>13, <2>14, <2>15, <2>16, <2>17
  <2>19. \A m \in Metrics : s[m] \in 1..Whole /\ s[m] \in 0..Whole
                            /\ s[m] > 0 /\ s[m] <= Whole
    BY <2>15, <2>18 DEF Metrics
  <2>20. s = [m \in Metrics |-> s[m]]
    BY <2>12 DEF Metrics
  <2>21. s \in RetrievalScores
    BY <2>19, <2>20 DEF RetrievalScores
  <2> QED
    BY <2>2, <2>12, <2>18, <2>19, <2>21 DEF Agree
<1> QED
  BY <1>1, <1>2

-----------------------------------------------------------------------------
(* Averages *)

\* The sum of c scores lies between c times the least and the greatest.
Bounded(score, S, c, sum) ==
    /\ \E i \in S : score[i] * c <= sum
    /\ \E i \in S : score[i] * c >= sum

LEMMA OneMoreScore ==
  ASSUME NEW S, NEW score, \A i \in S : score[i] \in Nat, NEW c \in Nat, NEW sum \in Nat,
         Bounded(score, S, c, sum), NEW x, score[x] \in Nat
  PROVE  Bounded(score, S \cup {x}, c + 1, sum + score[x])
<1>1. PICK lo \in S : score[lo] * c <= sum
  BY DEF Bounded
<1>2. PICK hi \in S : score[hi] * c >= sum
  BY DEF Bounded
<1>3. score[lo] \in Nat /\ score[hi] \in Nat
  OBVIOUS
<1>4. PICK v \in Nat : v = score[x]
  OBVIOUS
<1>5. \A a, b \in Nat : a * (b + 1) = a * b + a /\ a * b \in Nat
  OBVIOUS
<1>6. \A a, b, d \in Nat : a <= b => a * d <= b * d
  OBVIOUS
<1>7. \E i \in S \cup {x} : score[i] * (c + 1) <= sum + v
  <2>1. CASE v <= score[lo]
    <3>1. v * c <= score[lo] * c
      BY <1>3, <1>6, <2>1
    <3>2. v * (c + 1) = v * c + v /\ v * c \in Nat /\ score[lo] * c \in Nat
      BY <1>3, <1>5
    <3>3. v * (c + 1) <= sum + v
      BY <1>1, <3>1, <3>2
    <3> QED
      BY <1>4, <3>3
  <2>2. CASE score[lo] <= v
    <3>1. score[lo] * (c + 1) = score[lo] * c + score[lo] /\ score[lo] * c \in Nat
      BY <1>3, <1>5
    <3>2. score[lo] * (c + 1) <= sum + v
      BY <1>1, <1>3, <2>2, <3>1
    <3> QED
      BY <3>2
  <2> QED
    BY <1>3, <2>1, <2>2
<1>8. \E i \in S \cup {x} : score[i] * (c + 1) >= sum + v
  <2>1. CASE score[hi] <= v
    <3>1. score[hi] * c <= v * c
      BY <1>3, <1>6, <2>1
    <3>2. v * (c + 1) = v * c + v /\ v * c \in Nat /\ score[hi] * c \in Nat
      BY <1>3, <1>5
    <3>3. v * (c + 1) >= sum + v
      BY <1>2, <3>1, <3>2
    <3> QED
      BY <1>4, <3>3
  <2>2. CASE v <= score[hi]
    <3>1. score[hi] * (c + 1) = score[hi] * c + score[hi] /\ score[hi] * c \in Nat
      BY <1>3, <1>5
    <3>2. score[hi] * (c + 1) >= sum + v
      BY <1>2, <1>3, <2>2, <3>1
    <3> QED
      BY <3>2
  <2> QED
    BY <1>3, <2>1, <2>2
<1> QED
  BY <1>4, <1>7, <1>8 DEF Bounded

\* An average over S is of as many scores as S has, and lies between two.
LEMMA AverageIs ==
  ASSUME NEW V, NEW score \in Seq(V), NEW S, S \subseteq 1..Len(score), S # {},
         \A i \in S : score[i] \in Nat
  PROVE  LET a == AverageOf(score, S) IN
         a \in Average /\ Bounded(score, S, a.count, a.sum)
<1> DEFINE part == [i \in DOMAIN score |-> IF i \in S THEN score[i] ELSE 0]
           Upto(i) == S \cap (1..i)
<1>1. PICK n \in Nat : n = Len(score) /\ DOMAIN score = 1..n
  OBVIOUS
<1>2. /\ part \in Seq(Nat) /\ Len(part) = n
      /\ \A i \in 1..n : part[i] = IF i \in S THEN score[i] ELSE 0
  BY <1>1
<1>3. PICK sums : sums = Sums(part)
  OBVIOUS
<1>4. AverageOf(score, S) = [sum |-> sums[n], count |-> Cardinality(S)]
  BY <1>1, <1>3 DEF AverageOf, SumOf
<1> HIDE DEF part
<1>5. /\ sums \in [0..n -> Nat] /\ sums[0] = 0
      /\ \A i \in 1..n : sums[i] = sums[i - 1] + part[i]
  BY <1>2, <1>3, SumsSteps
<1>6. IsFiniteSet(S)
  <2>1. 1 \in Int /\ n \in Int
    OBVIOUS
  <2>2. IsFiniteSet(1..n)
    BY <2>1, FS_Interval
  <2> QED
    BY <1>1, <2>2, FS_Subset
<1>7. \A i \in 0..n : IsFiniteSet(Upto(i)) /\ Cardinality(Upto(i)) \in Nat
  BY <1>6, FS_Subset, FS_CardinalityType
<1>8. Upto(0) = {}
  OBVIOUS
<1>9. \A i \in Nat : Upto(i + 1) = IF i + 1 \in S THEN Upto(i) \cup {i + 1} ELSE Upto(i)
  OBVIOUS
<1>10. \A i \in Nat : i + 1 \notin Upto(i)
  OBVIOUS
<1>11. Upto(n) = S
  BY <1>1
<1>12. \A i \in 0..n : \A k \in Upto(i) : score[k] \in Nat
  OBVIOUS
<1> HIDE DEF Upto
<1> DEFINE Good(i) ==
      \/ Upto(i) = {} /\ sums[i] = 0
      \/ Bounded(score, Upto(i), Cardinality(Upto(i)), sums[i])
           G == {i \in 0..n : Good(i)}
<1>13. 0 \in G
  BY <1>5, <1>8
<1>14. ASSUME NEW i \in Nat, i < n, i \in G PROVE i + 1 \in G
  <2>1. i \in 0..n /\ i + 1 \in 1..n /\ i + 1 \in 0..n /\ (i + 1) - 1 = i
    BY <1>14
  <2>2. sums[i] \in Nat /\ sums[i + 1] = sums[i] + part[i + 1]
    BY <1>5, <2>1
  <2>3. CASE i + 1 \notin S
    <3>1. Upto(i + 1) = Upto(i) /\ part[i + 1] = 0
      BY <1>2, <1>9, <2>1, <2>3
    <3>2. sums[i + 1] = sums[i]
      BY <2>2, <3>1
    <3>3. Good(i + 1)
      BY <1>14, <3>1, <3>2
    <3> QED
      BY <2>1, <3>3
  <2>4. CASE i + 1 \in S
    <3>1. Upto(i + 1) = Upto(i) \cup {i + 1} /\ part[i + 1] = score[i + 1]
          /\ score[i + 1] \in Nat
      BY <1>2, <1>9, <2>1, <2>4
    <3>2. Cardinality(Upto(i + 1)) = Cardinality(Upto(i)) + 1
      <4>1. IsFiniteSet(Upto(i)) /\ i + 1 \notin Upto(i)
        BY <1>7, <1>10, <2>1
      <4> QED
        BY <3>1, <4>1, FS_AddElement
    <3>3. CASE Upto(i) = {} /\ sums[i] = 0
      <4>1. Cardinality(Upto(i + 1)) = 1
        BY <3>2, <3>3, FS_EmptySet
      <4>2. sums[i + 1] = score[i + 1] /\ i + 1 \in Upto(i + 1)
        BY <2>2, <3>1, <3>3
      <4>3. score[i + 1] * 1 = score[i + 1]
        BY <3>1
      <4>4. Bounded(score, Upto(i + 1), Cardinality(Upto(i + 1)), sums[i + 1])
        BY <3>1, <4>1, <4>2, <4>3 DEF Bounded
      <4> QED
        BY <2>1, <4>4
    <3>4. CASE Bounded(score, Upto(i), Cardinality(Upto(i)), sums[i])
      <4>1. PICK c \in Nat, s \in Nat : c = Cardinality(Upto(i)) /\ s = sums[i]
        BY <1>7, <2>1, <2>2
      <4>2. \A k \in Upto(i) : score[k] \in Nat
        BY <1>12, <2>1
      <4>3. Bounded(score, Upto(i) \cup {i + 1}, c + 1, s + score[i + 1])
        BY <3>1, <3>4, <4>1, <4>2, OneMoreScore
      <4>4. Bounded(score, Upto(i + 1), Cardinality(Upto(i + 1)), sums[i + 1])
        BY <2>2, <3>1, <3>2, <4>1, <4>3
      <4> QED
        BY <2>1, <4>4
    <3> QED
      BY <1>14, <3>3, <3>4
  <2> QED
    BY <2>3, <2>4
<1> HIDE DEF G
<1>15. \A i \in 0..n : i \in G
  BY <1>13, <1>14, UpTo
<1>16. n \in G
  BY <1>15
<1>17. Bounded(score, S, Cardinality(S), sums[n])
  BY <1>11, <1>16 DEF G
<1>18. sums[n] \in Nat /\ Cardinality(S) \in Nat \ {0}
  BY <1>5, <1>6, FS_CardinalityType, FS_EmptySet
<1> QED
  BY <1>4, <1>17, <1>18 DEF Average

-----------------------------------------------------------------------------
(* The results of a run *)

Scoring(r) == r \in ExampleResult /\ Agree(r.retrieval, r.example.relevant)
AnsweredUnlessFailed(r) == r.answer # None <=> run.answers /\ ~r.error

ResultsInv ==
    /\ run \in EvaluationRun /\ IsFiniteSet(run.corpus)
    /\ \A i \in DOMAIN run.results :
         Scoring(run.results[i]) /\ AnsweredUnlessFailed(run.results[i])
    /\ run.step = "answering" =>
         run.answers /\ Scoring(run.current) /\ ~run.current.error
    /\ run.step = "done" =>
         run.summary = [retrieval |-> AggregateRetrieval(run.results),
                        answers |-> AggregateAnswers(run.results)]

\* The step changes, and with it perhaps what the run keeps for it.
LEMMA RunGoesOn ==
  ASSUME ResultsInv, run' \in EvaluationRun, IsFiniteSet(run'.corpus),
         run'.results = run.results, run'.answers = run.answers,
         run'.step = "answering" =>
            run.answers /\ Scoring(run'.current) /\ ~run'.current.error,
         run'.step = "done" =>
            run'.summary = [retrieval |-> AggregateRetrieval(run.results),
                            answers |-> AggregateAnswers(run.results)]
  PROVE  ResultsInv'
BY DEF ResultsInv, AnsweredUnlessFailed

LEMMA RecordKeepsResults ==
  ASSUME ResultsInv, NEW r, Scoring(r), AnsweredUnlessFailed(r), Record(r)
  PROVE  ResultsInv'
<1>1. run \in EvaluationRun /\ r \in ExampleResult
  BY DEF ResultsInv, Scoring
<1>2. PICK n \in Nat : n = Len(run.results) /\ DOMAIN run.results = 1..n
  BY <1>1 DEF EvaluationRun
<1>3. PICK results : results = Append(run.results, r)
  OBVIOUS
<1>4. /\ results \in Seq(ExampleResult) /\ DOMAIN results = 1..(n + 1)
      /\ results[n + 1] = r /\ \A i \in 1..n : results[i] = run.results[i]
  BY <1>1, <1>2, <1>3 DEF EvaluationRun
<1> DEFINE r1 == [run EXCEPT !.step = "next"]
           r2 == [r1 EXCEPT !.current = None]
           r3 == [r2 EXCEPT !.results = results]
<1>5. r1 \in EvaluationRun /\ r1.step = "next" /\ r1.answers = run.answers
      /\ r1.corpus = run.corpus /\ r1.results = run.results
  BY <1>1 DEF EvaluationRun
<1>6. r2 \in EvaluationRun /\ r2.step = "next" /\ r2.answers = run.answers
      /\ r2.corpus = run.corpus /\ r2.results = run.results
  BY <1>5 DEF EvaluationRun
<1>7. r3 \in EvaluationRun /\ r3.step = "next" /\ r3.answers = run.answers
      /\ r3.corpus = run.corpus /\ r3.results = results
  BY <1>4, <1>6 DEF EvaluationRun
<1>8. run' = r3
  BY <1>3, <1>6 DEF Record
<1> HIDE DEF r3
<1>9. ASSUME NEW i \in 1..(n + 1)
      PROVE  Scoring(results[i]) /\ (results[i].answer # None <=>
                                        run.answers /\ ~results[i].error)
  <2>1. i = n + 1 \/ i \in 1..n
    BY <1>2
  <2> QED
    BY <1>2, <1>4, <2>1 DEF ResultsInv, AnsweredUnlessFailed
<1>10. IsFiniteSet(run.corpus)
  BY DEF ResultsInv
<1> QED
  BY <1>4, <1>7, <1>8, <1>9, <1>10 DEF ResultsInv, AnsweredUnlessFailed

\* The ground truth is finite and divides the whole.
LEMMA QuestionIs ==
  ASSUME RunInv, Len(run.results) < Len(Dataset)
  PROVE  /\ Question \in Example /\ IsFiniteSet(Question.relevant)
         /\ Question.relevant # {} => Whole % Cardinality(Question.relevant) = 0
<1>1. Question \in Example
  BY QuestionOfDataset DEF RunInv
<1>2. PICK k : k \in DOMAIN Dataset /\ Question = Dataset[k]
  <2>1. Len(run.results) + 1 \in DOMAIN Dataset
    BY ResultsAreNumbered, DatasetAssumption DEF RunInv
  <2> QED
    BY <2>1 DEF Question
<1>3. IsFiniteSet(Question.relevant)
  <2>1. 1 \in Int /\ MaxId \in Int
    BY BoundAssumption
  <2>2. IsFiniteSet(1..MaxId)
    BY <2>1, FS_Interval
  <2> QED
    BY <1>1, <2>2, FS_Subset DEF Example
<1> QED
  BY <1>1, <1>2, <1>3, WholeAssumption

LEMMA ScoreExampleKeepsResults ==
  ASSUME RunInv, SearchInv, ResultsInv, ScoreExample
  PROVE  ResultsInv'
<1>1. Running("searching") /\ At(Evaluator, "answered")
  BY DEF ScoreExample
<1>2. Len(run.results) < Len(Dataset)
  BY <1>1 DEF RunInv, Running
<1>3. /\ Question \in Example /\ IsFiniteSet(Question.relevant)
      /\ Question.relevant # {} => Whole % Cardinality(Question.relevant) = 0
  BY <1>2, QuestionIs
<1>4. PICK context : /\ context = search[Evaluator].list
                     /\ context \in Seq(Hit) /\ Len(context) <= RerankK
  <2>1. Going(search[Evaluator]) /\ search[Evaluator].step = "answered"
    BY <1>1, EvaluatorAssumption, SearchIs DEF At
  <2> QED
    BY <2>1, ContextOfShortlist DEF Going, ListsFit
<1>5. PICK ids : ids = [i \in DOMAIN context |-> context[i].id]
  OBVIOUS
<1>6. ids \in Seq(Nat) /\ Len(ids) <= RerankK
  <2>1. PICK n \in Nat : n = Len(context) /\ DOMAIN context = 1..n /\ n <= RerankK
    BY <1>4
  <2>2. \A i \in 1..n : context[i] \in Hit
    BY <1>4, <2>1
  <2>3. \A i \in 1..n : context[i].id \in Nat
    BY <2>2 DEF Hit
  <2>4. ids \in [1..n -> Nat]
    BY <1>5, <2>1, <2>3
  <2> QED
    BY <2>1, <2>4
<1>7. PICK scores : /\ scores = ScoreRetrieval(ids, Question.relevant)
                    /\ scores \in RetrievalScores
                    /\ Agree(scores, Question.relevant)
  BY <1>3, <1>6, ScoresAgree
<1>8. PICK r : r = [example |-> Question, answer |-> None, error |-> FALSE,
                    retrieval |-> scores]
  OBVIOUS
<1>9. IF run.answers
      THEN run' = [run EXCEPT !.step = "answering", !.current = r]
      ELSE Record(r)
  BY <1>4, <1>5, <1>7, <1>8 DEF ScoreExample
<1>10. Scoring(r) /\ r.answer = None /\ ~r.error
  <2>1. r \in ExampleResult
    BY <1>3, <1>7, <1>8 DEF ExampleResult
  <2> QED
    BY <1>7, <1>8, <2>1 DEF Scoring
<1>11. CASE run.answers
  <2> DEFINE r1 == [run EXCEPT !.step = "answering"]
             r2 == [r1 EXCEPT !.current = r]
  <2>1. run \in EvaluationRun /\ IsFiniteSet(run.corpus) /\ r \in ExampleResult
    BY <1>10 DEF ResultsInv, Scoring
  <2>2. r1 \in EvaluationRun /\ r1.step = "answering" /\ r1.answers = run.answers
        /\ r1.corpus = run.corpus /\ r1.results = run.results
    BY <2>1 DEF EvaluationRun
  <2>3. r2 \in EvaluationRun /\ r2.step = "answering" /\ r2.answers = run.answers
        /\ r2.corpus = run.corpus /\ r2.results = run.results /\ r2.current = r
    BY <2>1, <2>2 DEF EvaluationRun
  <2>4. run' = r2
    BY <1>9, <1>11
  <2> HIDE DEF r2
  <2> QED
    BY <1>10, <1>11, <2>1, <2>3, <2>4, RunGoesOn
<1>12. CASE ~run.answers
  BY <1>9, <1>10, <1>12, RecordKeepsResults DEF AnsweredUnlessFailed
<1> QED
  BY <1>11, <1>12

LEMMA AnswerKeepsResults ==
  ASSUME ResultsInv, NEW j \in Judgements \cup {0}, AnswerExample(j)
  PROVE  ResultsInv'
<1>1. run.answers /\ Scoring(run.current) /\ ~run.current.error
  BY DEF AnswerExample, Running, ResultsInv
<1>2. PICK r : r = [run.current EXCEPT !.answer = j]
  OBVIOUS
<1>3. j \in Nat /\ j # None
  BY JudgementsAssumption, NoScoreAssumption
<1>4. r \in ExampleResult /\ r.answer = j /\ r.error = run.current.error
      /\ r.retrieval = run.current.retrieval /\ r.example = run.current.example
  BY <1>1, <1>2, <1>3 DEF Scoring, ExampleResult
<1>5. Scoring(r) /\ AnsweredUnlessFailed(r)
  BY <1>1, <1>3, <1>4 DEF Scoring, AnsweredUnlessFailed
<1> QED
  BY <1>2, <1>5, RecordKeepsResults DEF AnswerExample

LEMMA FailureKeepsResults ==
  ASSUME RunInv, ResultsInv, SearchFails \/ AnswerFails
  PROVE  ResultsInv'
<1>1. Question \in Example
  <2>1. Len(run.results) < Len(Dataset)
    BY DEF SearchFails, AnswerFails, Running, RunInv
  <2> QED
    BY <2>1, QuestionIs
<1>2. PICK q, z : q = Question /\ z = Zeros
  OBVIOUS
<1>a. q \in Example /\ z \in RetrievalScores /\ Agree(z, q.relevant)
  BY <1>1, <1>2, ZerosAgree
<1>b. PICK f : f = [example |-> q, retrieval |-> z, answer |-> None, error |-> TRUE]
  OBVIOUS
<1>c. f \in ExampleResult /\ f.example = q /\ f.retrieval = z /\ f.answer = None
      /\ f.error
  BY <1>a, <1>b DEF ExampleResult
<1>3. Scoring(f) /\ AnsweredUnlessFailed(f)
  BY <1>a, <1>c DEF Scoring, AnsweredUnlessFailed
<1>4. Record(f)
  BY <1>2, <1>b DEF SearchFails, AnswerFails, Failed
<1> QED
  BY <1>3, <1>4, RecordKeepsResults

-----------------------------------------------------------------------------
(* The summary *)

LEMMA AggregatesAre ==
  ASSUME NEW results \in Seq(ExampleResult)
  PROVE  /\ [retrieval |-> AggregateRetrieval(results),
             answers |-> AggregateAnswers(results)] \in Summary
         /\ Scored(results) # {} =>
              /\ AggregateRetrieval(results) # None
              /\ \A m \in Metrics :
                   LET a == AggregateRetrieval(results)[m]
                       score == [i \in DOMAIN results |-> results[i].retrieval[m]]
                   IN Bounded(score, Scored(results), a.count, a.sum)
         /\ Scored(results) = {} => AggregateRetrieval(results) = None
         /\ Judged(results) # {} =>
              LET a == AggregateAnswers(results)
                  score == [i \in DOMAIN results |-> results[i].answer]
              IN a # None /\ Bounded(score, Judged(results), a.count, a.sum)
         /\ Judged(results) = {} => AggregateAnswers(results) = None
<1>1. PICK n \in Nat : n = Len(results) /\ DOMAIN results = 1..n
  OBVIOUS
<1>2. \A i \in 1..n : results[i] \in ExampleResult
  BY <1>1
<1> DEFINE Of(m) == [i \in DOMAIN results |-> results[i].retrieval[m]]
           answers == [i \in DOMAIN results |-> results[i].answer]
<1>3. ASSUME NEW m \in Metrics, Scored(results) # {}
      PROVE  LET a == AverageOf(Of(m), Scored(results)) IN
             a \in Average /\ Bounded(Of(m), Scored(results), a.count, a.sum)
  <2>1. \A i \in 1..n : results[i].retrieval[m] \in 0..Whole
    BY <1>2, <1>3 DEF ExampleResult, RetrievalScores
  <2>2. Of(m) \in Seq(0..Whole) /\ Len(Of(m)) = n
        /\ \A i \in 1..n : Of(m)[i] \in Nat
    BY <1>1, <2>1
  <2>3. Scored(results) \subseteq 1..n
    BY <1>1 DEF Scored
  <2>4. \A i \in Scored(results) : Of(m)[i] \in Nat
    BY <2>2, <2>3
  <2> HIDE DEF Of
  <2> QED
    BY <1>3, <2>2, <2>3, <2>4, AverageIs
<1>4. ASSUME Judged(results) # {}
      PROVE  LET a == AverageOf(answers, Judged(results)) IN
             a \in Average /\ Bounded(answers, Judged(results), a.count, a.sum)
  <2>1. \A i \in 1..n : results[i].answer \in Nat \cup {None}
    BY <1>2 DEF ExampleResult
  <2>2. answers \in Seq(Nat \cup {None}) /\ Len(answers) = n
    BY <1>1, <2>1
  <2>3. Judged(results) \subseteq 1..n
        /\ \A i \in Judged(results) : answers[i] \in Nat
    BY <1>1, <2>1 DEF Judged
  <2> HIDE DEF answers
  <2> QED
    BY <1>4, <2>2, <2>3, AverageIs
<1>5. AggregateRetrieval(results) =
        IF Scored(results) = {} THEN None
        ELSE [m \in Metrics |-> AverageOf(Of(m), Scored(results))]
  BY DEF AggregateRetrieval
<1>6. AggregateAnswers(results) = AverageOf(answers, Judged(results))
  BY DEF AggregateAnswers
<1>7. Judged(results) = {} => AggregateAnswers(results) = None
  BY <1>6 DEF AverageOf
<1>8. AggregateRetrieval(results) \in [Metrics -> Average] \cup {None}
  <2>1. CASE Scored(results) = {}
    BY <1>5, <2>1
  <2>2. CASE Scored(results) # {}
    <3>1. \A m \in Metrics : AverageOf(Of(m), Scored(results)) \in Average
      BY <1>3, <2>2
    <3> HIDE DEF Of
    <3> QED
      BY <1>5, <2>2, <3>1
  <2> QED
    BY <2>1, <2>2
<1>9. AggregateAnswers(results) \in Average \cup {None}
  BY <1>4, <1>6, <1>7
<1>10. Scored(results) # {} => AggregateRetrieval(results) # None
  <2> SUFFICES ASSUME Scored(results) # {}, AggregateRetrieval(results) = None
               PROVE  FALSE
    OBVIOUS
  <2>1. \A m \in Metrics : AverageOf(Of(m), Scored(results)) \in Average
    BY <1>3
  <2> HIDE DEF Of
  <2>2. AggregateRetrieval(results) \in [Metrics -> Average]
    BY <1>5, <2>1
  <2> QED
    BY <2>2, NoScoreAssumption
<1>11. Judged(results) # {} => AggregateAnswers(results) # None
  BY <1>4, <1>6, NoScoreAssumption
<1>12. [retrieval |-> AggregateRetrieval(results),
        answers |-> AggregateAnswers(results)] \in Summary
  BY <1>8, <1>9 DEF Summary
<1>13. ASSUME Scored(results) # {}, NEW m \in Metrics
       PROVE  LET a == AggregateRetrieval(results)[m]
              IN Bounded(Of(m), Scored(results), a.count, a.sum)
  <2>1. Bounded(Of(m), Scored(results), AverageOf(Of(m), Scored(results)).count,
                AverageOf(Of(m), Scored(results)).sum)
    BY <1>3, <1>13
  <2> HIDE DEF Of
  <2>2. AggregateRetrieval(results)[m] = AverageOf(Of(m), Scored(results))
    BY <1>5, <1>13
  <2> QED
    BY <2>1, <2>2
<1> QED
  BY <1>4, <1>5, <1>6, <1>7, <1>10, <1>11, <1>12, <1>13

LEMMA SummariseKeepsResults ==
  ASSUME ResultsInv, Summarise PROVE ResultsInv'
<1>1. run \in EvaluationRun /\ run.results \in Seq(ExampleResult)
  BY DEF ResultsInv, EvaluationRun
<1>2. PICK summary :
        /\ summary = [retrieval |-> AggregateRetrieval(run.results),
                      answers |-> AggregateAnswers(run.results)]
        /\ summary \in Summary
  BY <1>1, AggregatesAre
<1> DEFINE r1 == [run EXCEPT !.step = "done"]
           r2 == [r1 EXCEPT !.corpus = {}]
           r3 == [r2 EXCEPT !.summary = summary]
<1>3. r1 \in EvaluationRun /\ r1.step = "done" /\ r1.answers = run.answers
      /\ r1.results = run.results
  BY <1>1 DEF EvaluationRun
<1>4. r2 \in EvaluationRun /\ r2.step = "done" /\ r2.answers = run.answers
      /\ r2.results = run.results /\ r2.corpus = {}
  BY <1>3 DEF EvaluationRun
<1>5. r3 \in EvaluationRun /\ r3.step = "done" /\ r3.answers = run.answers
      /\ r3.results = run.results /\ r3.corpus = {} /\ r3.summary = summary
  BY <1>2, <1>4 DEF EvaluationRun
<1>6. run' = r3
  BY <1>2 DEF Summarise
<1> HIDE DEF r3
<1> QED
  BY <1>2, <1>5, <1>6, FS_EmptySet, RunGoesOn

-----------------------------------------------------------------------------
TypedInv == EvaluationInv /\ TypeInv /\ ResultsInv

LEMMA SameRunKeepsResults ==
  ASSUME ResultsInv, UNCHANGED run PROVE ResultsInv'
BY DEF ResultsInv, AnsweredUnlessFailed

LEMMA LoadCorpusKeepsTypes ==
  ASSUME TypedInv, LoadCorpus PROVE TypeInv' /\ ResultsInv'
<1>1. TypeInv'
  BY NothingKeepsTypes DEF LoadCorpus, TypedInv
<1>2. run \in EvaluationRun /\ rows \subseteq Hit /\ IsFiniteSet(rows) /\ ResultsInv
  BY DEF TypedInv, ResultsInv, TypeInv, TypeOK
<1> DEFINE r1 == [run EXCEPT !.step = "next"]
           r2 == [r1 EXCEPT !.corpus = rows]
<1>3. r1 \in EvaluationRun /\ r1.step = "next" /\ r1.answers = run.answers
      /\ r1.results = run.results
  BY <1>2 DEF EvaluationRun
<1>4. r2 \in EvaluationRun /\ r2.step = "next" /\ r2.answers = run.answers
      /\ r2.results = run.results /\ r2.corpus = rows
  BY <1>2, <1>3 DEF EvaluationRun
<1>5. run' = r2
  BY DEF LoadCorpus
<1> HIDE DEF r2
<1> QED
  BY <1>1, <1>2, <1>4, <1>5, RunGoesOn

LEMMA EvaluateExampleKeepsTypes ==
  ASSUME TypedInv, EvaluateExample PROVE TypeInv' /\ ResultsInv'
<1>1. /\ TypeInv /\ ResultsInv /\ RunShaped
      /\ run \in EvaluationRun /\ IsFiniteSet(run.corpus)
  BY DEF TypedInv, EvaluationInv, RunInv, ResultsInv
<1>2. TypeInv'
  <2>1. Question.q \in Queries
    BY <1>1, QuestionOfDataset DEF EvaluateExample
  <2>2. Load(Evaluator, Question.q, run.corpus) /\ run.corpus \in SUBSET Hit
        /\ changes' \in 0..MaxChanges
    BY <1>1 DEF EvaluateExample, EvaluationRun, TypeInv, TypeOK
  <2> QED
    BY <1>1, <2>1, <2>2, EvaluatorAssumption, LoadKeepsTypes
<1>3. PICK r : r = [run EXCEPT !.step = "searching"]
  OBVIOUS
<1>4. r \in EvaluationRun /\ r.step = "searching" /\ r.answers = run.answers
      /\ r.results = run.results /\ r.corpus = run.corpus
  BY <1>1, <1>3 DEF EvaluationRun
<1> QED
  BY <1>1, <1>2, <1>3, <1>4, RunGoesOn DEF EvaluateExample

LEMMA EvaluateKeepsTypes ==
  ASSUME TypedInv, Evaluate PROVE TypeInv' /\ ResultsInv'
<1>1. TypeInv /\ SearchInv /\ RunInv /\ ResultsInv
  BY DEF TypedInv, EvaluationInv, TypeInv
<1>2. CASE LoadCorpus \/ EvaluateExample
  BY <1>2, LoadCorpusKeepsTypes, EvaluateExampleKeepsTypes
<1>3. CASE Continue
  <2>1. UNCHANGED changes
    BY <1>3 DEF Continue, Proceed, EmbedCached, EmbedQuery, Compress, Retrieve,
       RetrieveFails, Rerank, RerankFails
  <2> QED
    BY <1>1, <1>3, <2>1, EvaluatorAssumption, ProceedKeepsTypes, SameRunKeepsResults
    DEF Continue
<1>4. CASE ScoreExample
  BY <1>1, <1>4, EvaluatorAssumption, ReturnKeepsTypes, ScoreExampleKeepsResults
  DEF ScoreExample
<1>5. ASSUME NEW j \in Judgements \cup {0}, AnswerExample(j)
      PROVE  TypeInv' /\ ResultsInv'
  BY <1>1, <1>5, NothingKeepsTypes, AnswerKeepsResults DEF AnswerExample
<1>6. CASE SearchFails
  BY <1>1, <1>6, EvaluatorAssumption, ReturnKeepsTypes, FailureKeepsResults
  DEF SearchFails
<1>7. CASE AnswerFails
  BY <1>1, <1>7, NothingKeepsTypes, FailureKeepsResults DEF AnswerFails
<1>8. CASE Summarise
  BY <1>1, <1>8, NothingKeepsTypes, SummariseKeepsResults DEF Summarise
<1> QED
  BY <1>2, <1>3, <1>4, <1>5, <1>6, <1>7, <1>8 DEF Evaluate

LEMMA ServeKeepsTypes ==
  ASSUME TypedInv, NEW p \in Searchers, Serve(p) PROVE TypeInv' /\ ResultsInv'
<1>1. TypeInv /\ ResultsInv'
  BY SameRunKeepsResults DEF TypedInv, Serve
<1>2. CASE Request(p)
  <2>1. PICK q \in Queries : Load(p, q, rows)
    BY <1>2 DEF Request
  <2>2. rows \in SUBSET Hit /\ IsFiniteSet(rows) /\ changes' \in 0..MaxChanges
    BY <1>1, <1>2, BoundAssumption DEF Request, TypeInv, TypeOK
  <2> QED
    BY <1>1, <2>1, <2>2, LoadKeepsTypes
<1>3. CASE Proceed(p)
  <2>1. UNCHANGED changes
    BY <1>3 DEF Proceed, EmbedCached, EmbedQuery, Compress, Retrieve,
       RetrieveFails, Rerank, RerankFails
  <2> QED
    BY <1>1, <1>3, <2>1, ProceedKeepsTypes
<1>4. CASE Return(p)
  BY <1>1, <1>4, ReturnKeepsTypes
<1> QED
  BY <1>2, <1>3, <1>4 DEF Serve

LEMMA TypesInitially == EvaluationInit => TypeInv /\ ResultsInv
<1> SUFFICES ASSUME EvaluationInit PROVE TypeInv /\ ResultsInv
  OBVIOUS
<1>1. Init
  BY DEF EvaluationInit
<1>2. TypeOK
  BY <1>1, BoundAssumption DEF Init, TypeOK
<1>3. SearchInv
  BY <1>1, IdleTask DEF Init, SearchInv, At
<1>4. IdsReserved
  BY <1>1, IdleTask DEF Init, IdsReserved, AtTask
<1>5. rows = {} /\ Stored = {}
  BY <1>1 DEF Init, Stored
<1>6. TypeInv
  BY <1>2, <1>3, <1>4, <1>5, FS_EmptySet DEF TypeInv
<1>7. PICK b \in BOOLEAN :
        run = [step |-> "started", answers |-> b, corpus |-> {},
               results |-> <<>>, current |-> None, summary |-> None]
  BY DEF EvaluationInit
<1>8. run \in EvaluationRun /\ run.step = "started" /\ run.corpus = {}
      /\ run.results = <<>>
  BY <1>7 DEF EvaluationRun
<1>9. ResultsInv
  BY <1>8, FS_EmptySet DEF ResultsInv
<1> QED
  BY <1>6, <1>9

LEMMA TypesStep == TypedInv /\ [Next]_evars => TypeInv' /\ ResultsInv'
<1> SUFFICES ASSUME TypedInv, [Next]_evars PROVE TypeInv' /\ ResultsInv'
  OBVIOUS
<1>1. TypeInv /\ ResultsInv
  BY DEF TypedInv
<1>2. CASE Evaluate
  BY <1>2, EvaluateKeepsTypes
<1>3. ASSUME NEW p \in Searchers, Serve(p) PROVE TypeInv' /\ ResultsInv'
  BY <1>3, ServeKeepsTypes
<1>4. CASE Environment /\ UNCHANGED run
  BY <1>1, <1>4, EnvironmentKeepsTypes, SameRunKeepsResults
<1>5. CASE UNCHANGED evars
  BY <1>1, <1>5, NothingKeepsTypes, SameRunKeepsResults DEF evars
<1> QED
  BY <1>2, <1>3, <1>4, <1>5 DEF Next

\* The inductive invariant of types, lists, scores and summary.
THEOREM TypedCorrect == Spec => []TypedInv
<1>1. EvaluationInit => TypedInv
  BY EvaluationInitHolds, TypesInitially DEF TypedInv
<1>2. TypedInv /\ [Next]_evars => TypedInv'
  BY EvaluationStep, TypesStep DEF TypedInv
<1> QED
  BY <1>1, <1>2, PTL DEF Spec

\* EvaluationTypeOK: every variable of the stores, the searches and the
\* evaluation keeps its type.
THEOREM EvaluationTypes == Spec => []EvaluationTypeOK
<1>1. TypedInv => EvaluationTypeOK
  BY DEF TypedInv, TypeInv, ResultsInv, EvaluationTypeOK
<1> QED
  BY <1>1, TypedCorrect, PTL

\* AgreementWins: the fusion of any two searches, whatever their orders and
\* lengths, ranks what both found before what one found alone.
THEOREM AgreementAlwaysWins == Spec => []AgreementWins
<1>1. ASSUME TypedInv, NEW p \in Searchers, At(p, "fused")
      PROVE  FusionSound(search[p].dense, search[p].keyword, search[p].list)
  <2>1. ListsFit(search[p]) /\ search[p].step = "fused"
    BY <1>1, SearchIs DEF TypedInv, TypeInv, Going, At
  <2> QED
    BY <2>1, FusionIsSound DEF ListsFit
<1>2. TypedInv => AgreementWins
  BY <1>1 DEF AgreementWins
<1> QED
  BY <1>2, TypedCorrect, PTL

\* ContextIsBest: the context of every search is the best of its ranking
\* without near duplicates, as far as the token budget goes.
THEOREM ContextAlwaysBest == Spec => []ContextIsBest
<1>1. ASSUME TypedInv, NEW p \in Searchers, At(p, "answered")
      PROVE  ContextSound(search[p].pool, search[p].list)
  <2>1. ListsFit(search[p]) /\ search[p].step = "answered"
    BY <1>1, SearchIs DEF TypedInv, TypeInv, Going, At
  <2> QED
    BY <2>1, ContextOfShortlist DEF ListsFit
<1>2. TypedInv => ContextIsBest
  BY <1>1 DEF ContextIsBest
<1> QED
  BY <1>2, TypedCorrect, PTL

\* MetricsAgree: hit rate, recall, precision and reciprocal rank of an
\* example are positive together, and none exceeds the whole.
THEOREM MetricsAlwaysAgree == Spec => []MetricsAgree
<1>1. ASSUME TypedInv, NEW i \in DOMAIN run.results
      PROVE  Agree(run.results[i].retrieval, Dataset[i].relevant)
  BY <1>1 DEF TypedInv, EvaluationInv, RunInv, OneResultPerExample, ResultsInv, Scoring
<1>2. TypedInv => MetricsAgree
  BY <1>1 DEF MetricsAgree, Agree
<1> QED
  BY <1>2, TypedCorrect, PTL

LEMMA SummaryIsWithin ==
  ASSUME ResultsInv, run.step = "done" PROVE AveragesWithinScores
<1>1. PICK results : results = run.results /\ results \in Seq(ExampleResult)
  BY DEF ResultsInv, EvaluationRun
<1> DEFINE good == {i \in DOMAIN results : ~results[i].error}
           judged == Judged(results)
<1>2. good = Scored(results)
  BY DEF Scored
<1>3. judged = IF run.answers THEN good ELSE {}
  BY <1>1 DEF ResultsInv, AnsweredUnlessFailed, Judged
<1>4. PICK R, A : R = AggregateRetrieval(results) /\ A = AggregateAnswers(results)
  OBVIOUS
<1>5. run.summary.retrieval = R /\ run.summary.answers = A
  BY <1>1, <1>4 DEF ResultsInv
<1>6. (R = None <=> good = {}) /\ (A = None <=> judged = {})
  BY <1>1, <1>2, <1>4, AggregatesAre
<1>7. ASSUME good # {}, NEW m \in Metrics
      PROVE  /\ \E i \in good : results[i].retrieval[m] * R[m].count <= R[m].sum
             /\ \E i \in good : results[i].retrieval[m] * R[m].count >= R[m].sum
  <2> DEFINE score == [i \in DOMAIN results |-> results[i].retrieval[m]]
  <2>1. Bounded(score, good, R[m].count, R[m].sum)
    BY <1>1, <1>2, <1>4, <1>7, AggregatesAre
  <2>2. \A i \in good : score[i] = results[i].retrieval[m]
    OBVIOUS
  <2> HIDE DEF score, good
  <2> QED
    BY <2>1, <2>2 DEF Bounded
<1>8. ASSUME judged # {}
      PROVE  /\ \E i \in judged : results[i].answer * A.count <= A.sum
             /\ \E i \in judged : results[i].answer * A.count >= A.sum
  <2> DEFINE score == [i \in DOMAIN results |-> results[i].answer]
  <2>1. Bounded(score, judged, A.count, A.sum)
    BY <1>1, <1>4, <1>8, AggregatesAre
  <2>2. \A i \in judged : score[i] = results[i].answer
    BY DEF Judged
  <2> HIDE DEF score, judged
  <2> QED
    BY <2>1, <2>2 DEF Bounded
<1>9. good # {} =>
        \A m \in Metrics :
            Within(run.summary.retrieval[m], good,
                   LAMBDA i : run.results[i].retrieval[m])
  BY <1>1, <1>5, <1>7 DEF Within
<1>10. good # {} /\ run.answers =>
         Within(run.summary.answers, good, LAMBDA i : run.results[i].answer)
  BY <1>1, <1>3, <1>5, <1>8 DEF Within
<1>11. /\ run.summary.retrieval = None <=> good = {}
       /\ run.summary.answers = None <=> good = {} \/ ~run.answers
  BY <1>3, <1>5, <1>6
<1>12. good = {i \in DOMAIN run.results : ~run.results[i].error}
  BY <1>1
<1> HIDE DEF good
<1> QED
  BY <1>9, <1>10, <1>11, <1>12 DEF AveragesWithinScores, Within

\* AveragesWithinScores: an average lies between two scores of an example
\* that worked, and there is one as soon as one did.
THEOREM AveragesAlwaysWithinScores == Spec => []AveragesWithinScores
<1>1. TypedInv => AveragesWithinScores
  <2>1. TypedInv /\ run.step # "done" => AveragesWithinScores
    BY DEF AveragesWithinScores
  <2> QED
    BY <2>1, SummaryIsWithin DEF TypedInv
<1> QED
  BY <1>1, TypedCorrect, PTL
=============================================================================
