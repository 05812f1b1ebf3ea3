----------------------------- MODULE Retrieval -----------------------------
(***************************************************************************)
(* One knowledge base's chunks in PostgreSQL and in Qdrant, the processes  *)
(* that embed texts, and the searches that combine both stores:            *)
(* EmbeddingService, QdrantVectorStore, HybridRetriever, RerankingService, *)
(* ContextCompressor, and the part of a processing task that writes what   *)
(* they read.                                                              *)
(*                                                                         *)
(* The two embedding models have different dimensions, so a collection's   *)
(* model stands for the dimension it was created with, and a vector for    *)
(* the model that made it.                                                 *)
(***************************************************************************)
EXTENDS Ranking

CONSTANTS
    Docs, Content,  \* Content[d]: the chunk texts of document d
    Queries,
    Searchers,      \* processes that search, one search each at a time
    Workers,        \* processes that run a processing task at a time
    None,
    MaxId,          \* bound: chunk rows ever inserted
    MaxChanges,     \* bound: tasks, deletions, restarts, requests ever begun
    Fallible,       \* processes whose embedding models may fail
    Faults          \* which other faults may happen

FaultKinds == {"qdrant", "redis", "reranker", "restart"}

ASSUME ContentAssumption == Content \in [Docs -> Seq(Texts) \ {<<>>}]
ASSUME NoneAssumption ==
    /\ None \notin {"primary", "fallback"}
    /\ None \notin [id : Nat, model : {"primary", "fallback"}]
ASSUME ProcessAssumption == Searchers \cap Workers = {}
ASSUME BoundAssumption == MaxId \in Nat /\ MaxChanges \in Nat
ASSUME FaultAssumption == Faults \subseteq FaultKinds

VARIABLES
    fallen,      \* processes whose _primary_marked_unavailable is set
    collection,  \* the model the collection was created for, or None
    points,      \* points[slot]: the point last upserted there, or None
    rows,        \* the committed chunk rows
    live,        \* documents whose rows are not deleted
    vectors,     \* vectors[q]: the model of the cached vector, or None
    lastId,      \* the last chunk row id handed out
    changes,
    task,        \* task[w]: the processing task worker w runs
    search       \* search[p]: the search process p runs

stores == <<collection, points, rows, live, lastId, task>>
vars == <<fallen, collection, points, rows, live, vectors, lastId, changes,
          task, search>>

Processes == Searchers \cup Workers
Models == {"primary", "fallback"}

\* A point's id is derived from its document and chunk index.
Slots == UNION {{d} \X DOMAIN Content[d] : d \in Docs}
TextOf(s) == Content[s[1]][s[2]]

Hit == [id : 1..MaxId, slot : Slots, text : Texts]
HitOf(id, s) == [id |-> id, slot |-> s, text |-> TextOf(s)]

Point == [id : 1..MaxId, model : Models]

TaskSteps == {"inserted", "missing", "ready", "upserted"}
Task == [step : TaskSteps, doc : Docs, model : Models, base : 0..MaxId]

SearchSteps == {"loaded", "embedded", "fused", "ranked", "answered", "failed"}
Search == [step : SearchSteps, q : Queries, model : Models \cup {None},
           corpus : SUBSET Hit, dense : Seq(Hit), keyword : Seq(Hit),
           pool : Seq(Hit), list : Seq(Hit)]
Idle == [step |-> "idle"]

TypeOK ==
    /\ fallen \subseteq Processes
    /\ collection \in Models \cup {None}
    /\ points \in [Slots -> Point \cup {None}]
    /\ rows \subseteq Hit
    /\ live \subseteq Docs
    /\ vectors \in [Queries -> Models \cup {None}]
    /\ lastId \in 0..MaxId
    /\ changes \in 0..MaxChanges
    /\ task \in [Workers -> Task \cup {Idle}]
    /\ DOMAIN search = Searchers
    /\ \A p \in Searchers : search[p] \in Search \cup {Idle}

Init ==
    /\ fallen = {}
    /\ collection = None
    /\ points = [s \in Slots |-> None]
    /\ rows = {}
    /\ live = Docs
    /\ vectors = [q \in Queries |-> None]
    /\ lastId = 0
    /\ changes = 0
    /\ task = [w \in Workers |-> Idle]
    /\ search = [p \in Searchers |-> Idle]

-----------------------------------------------------------------------------
(* EmbeddingService *)

\* Mutant: one failure of the primary is forgotten.
EmbedForgetful(p, m) ==
    /\ m = "primary" \/ (p \in Fallible /\ m = "fallback")
    /\ UNCHANGED fallen

\* embed_texts: the primary until its first failure in this process, the
\* fallback from then on; None when the fallback fails as well.
Embed(p, m) ==
    \/ (m = "primary" /\ p \notin fallen /\ UNCHANGED fallen)
    \/ /\ p \in Fallible /\ m \in {"fallback", None}
       /\ fallen' = fallen \cup {p}

\* A new process has new providers.
Restart(p) ==
    /\ "restart" \in Faults /\ changes < MaxChanges
    /\ p \in fallen
    /\ p \in Searchers => search[p] = Idle
    /\ p \in Workers => task[p] = Idle
    /\ fallen' = fallen \ {p}
    /\ changes' = changes + 1
    /\ UNCHANGED <<collection, points, rows, live, vectors, lastId, task, search>>

\* The time-to-live of a cached vector ends, or Redis evicts it.
Expire(q) ==
    /\ vectors[q] # None
    /\ vectors' = [vectors EXCEPT ![q] = None]
    /\ UNCHANGED <<fallen, stores, changes, search>>

-----------------------------------------------------------------------------
(* The writing half of a processing task *)

AtTask(w, s) == task[w].step = s
MoveTask(w, s) == task' = [task EXCEPT ![w].step = s]
EndTask(w) == task' = [task EXCEPT ![w] = Idle]

\* The chunks are embedded in one batch, their rows inserted and flushed.
\* Each row gets a new id, whatever earlier tasks inserted.
Insert(w, d, m) ==
    /\ AtTask(w, "idle") /\ d \in live
    /\ changes < MaxChanges /\ lastId + Len(Content[d]) <= MaxId
    /\ changes' = changes + 1
    /\ Embed(w, m)
    /\ IF m = None
       THEN UNCHANGED <<lastId, task>>
       ELSE /\ lastId' = lastId + Len(Content[d])
            /\ task' = [task EXCEPT ![w] = [step |-> "inserted", doc |-> d,
                                            model |-> m, base |-> lastId]]
    /\ UNCHANGED <<collection, points, rows, live, vectors, search>>

\* _ensure_collection_exists asks first ...
CheckCollection(w) ==
    /\ AtTask(w, "inserted")
    /\ MoveTask(w, IF collection = None THEN "missing" ELSE "ready")
    /\ UNCHANGED <<fallen, collection, points, rows, live, vectors, lastId,
                   changes, search>>

\* Mutant: recreate_collection.
RecreateCollection(w) ==
    /\ AtTask(w, "missing")
    /\ collection' = task[w].model
    /\ points' = [s \in Slots |-> None]
    /\ MoveTask(w, "ready")
    /\ UNCHANGED <<fallen, rows, live, vectors, lastId, changes, search>>

\* ... and creates what was missing; Qdrant refuses to create it twice.
CreateCollection(w) ==
    /\ AtTask(w, "missing")
    /\ IF collection = None
       THEN collection' = task[w].model /\ MoveTask(w, "ready")
       ELSE EndTask(w) /\ UNCHANGED collection
    /\ UNCHANGED <<fallen, points, rows, live, vectors, lastId, changes, search>>

RowId(t, s) == t.base + s[2]
SlotsOf(d) == {d} \X DOMAIN Content[d]

\* Mutant: a collection takes vectors of any dimension.
FitsAny(m) == collection # None
\* Qdrant compares the dimension of a vector with the collection's.
Fits(m) == collection = m

Upsert(w) ==
    /\ AtTask(w, "ready") /\ Fits(task[w].model)
    /\ points' = [s \in Slots |->
                    IF s \in SlotsOf(task[w].doc)
                    THEN [id |-> RowId(task[w], s), model |-> task[w].model]
                    ELSE points[s]]
    /\ MoveTask(w, "upserted")
    /\ UNCHANGED <<fallen, collection, rows, live, vectors, lastId, changes, search>>

\* READY and the rows are committed together.
CommitRows(w) ==
    /\ AtTask(w, "upserted")
    /\ rows' = rows \cup {HitOf(RowId(task[w], s), s) : s \in SlotsOf(task[w].doc)}
    /\ EndTask(w)
    /\ UNCHANGED <<fallen, collection, points, live, vectors, lastId, changes, search>>

\* VectorStoreError, a crash, or a commit that fails: the rows are rolled
\* back, the points stay.
Rollback(w) ==
    /\ ~AtTask(w, "idle")
    /\ \/ "qdrant" \in Faults
       \/ AtTask(w, "ready") /\ ~Fits(task[w].model)
    /\ EndTask(w)
    /\ UNCHANGED <<fallen, collection, points, rows, live, vectors, lastId,
                   changes, search>>

\* A document is deleted with its rows; its points stay.  The flushed rows
\* of a task lock the document.
DeleteDocument(d) ==
    /\ d \in live /\ changes < MaxChanges
    /\ \A w \in Workers : ~AtTask(w, "idle") => task[w].doc # d
    /\ live' = live \ {d}
    /\ rows' = {h \in rows : h.slot[1] # d}
    /\ changes' = changes + 1
    /\ UNCHANGED <<fallen, collection, points, vectors, lastId, task, search>>

-----------------------------------------------------------------------------
(* _retrieve_context *)

At(p, s) == search[p].step = s
Move(p, s) == search' = [search EXCEPT ![p].step = s]

Orders(S) == SetToSeqs(S)
Top(s) == Cut(s, PerMethod)

\* The rows are read before anything else is.
Load(p, q, corpus) ==
    /\ At(p, "idle")
    /\ search' = [search EXCEPT ![p] =
                    [step |-> "loaded", q |-> q, model |-> None,
                     corpus |-> corpus, dense |-> <<>>, keyword |-> <<>>,
                     pool |-> <<>>, list |-> <<>>]]
    /\ UNCHANGED <<fallen, stores, vectors>>

\* embed_text: the key of a cached vector is the query's text alone.
EmbedCached(p) ==
    /\ At(p, "loaded") /\ vectors[search[p].q] # None
    /\ search' = [search EXCEPT ![p].step = "embedded",
                                ![p].model = vectors[search[p].q]]
    /\ UNCHANGED <<fallen, stores, changes, vectors>>

EmbedQuery(p, m) ==
    /\ At(p, "loaded")
    /\ vectors[search[p].q] = None \/ "redis" \in Faults
    /\ Embed(p, m)
    /\ IF m = None
       THEN Move(p, "failed") /\ UNCHANGED vectors
       ELSE /\ search' = [search EXCEPT ![p].step = "embedded", ![p].model = m]
            /\ \/ vectors' = [vectors EXCEPT ![search[p].q] = m]
               \/ "redis" \in Faults /\ UNCHANGED vectors
    /\ UNCHANGED <<stores, changes>>

\* QdrantVectorStore.search: the payload names the row of the last upsert.
DenseResults(p) ==
    LET stored == {s \in Slots : points[s] # None}
        hits == {HitOf(points[s].id, s) : s \in stored}
    IN {Top(o) : o \in Orders(hits)}

\* BM25Store.search: equal texts have equal scores, and what scores nothing
\* is left out.
KeywordResults(p) ==
    LET corpus == search[p].corpus
        Relevant(T) == {h \in corpus : h.text \in T}
    IN UNION {{Top(o) : o \in Orders(Relevant(T))} : T \in SUBSET Texts}

Retrieve(p) ==
    /\ At(p, "embedded")
    /\ collection # None => Fits(search[p].model)
    /\ \E dense \in IF collection = None THEN {<<>>} ELSE DenseResults(p),
          keyword \in KeywordResults(p) :
         search' = [search EXCEPT ![p].step = "fused", ![p].corpus = {},
                                  ![p].dense = dense, ![p].keyword = keyword,
                                  ![p].list = Fused(dense, keyword)]
    /\ UNCHANGED <<fallen, stores, changes, vectors>>

\* VectorStoreError: Qdrant is away, or refuses the query's dimension.
RetrieveFails(p) ==
    /\ At(p, "embedded")
    /\ \/ "qdrant" \in Faults
       \/ collection # None /\ ~Fits(search[p].model)
    /\ Move(p, "failed")
    /\ UNCHANGED <<fallen, stores, changes, vectors>>

Ranks(p, list) ==
    search' = [search EXCEPT ![p].step = "ranked", ![p].pool = list,
                             ![p].dense = <<>>, ![p].keyword = <<>>,
                             ![p].list = list]

Rerank(p, score) ==
    /\ At(p, "fused")
    /\ Ranks(p, Reranked(search[p].list, score))
    /\ UNCHANGED <<fallen, stores, changes, vectors>>

RerankFails(p) ==
    /\ "reranker" \in Faults /\ At(p, "fused")
    /\ Ranks(p, FallbackWithoutScores(search[p].list))
    /\ UNCHANGED <<fallen, stores, changes, vectors>>

\* The ranked texts are embedded again to compare them, unless there is
\* nothing to compare; that error is not caught.
Compress(p, m) ==
    /\ At(p, "ranked")
    /\ IF Len(search[p].list) <= 1 THEN m # None /\ UNCHANGED fallen
                                   ELSE Embed(p, m)
    /\ IF m = None THEN Move(p, "failed")
       ELSE search' = [search EXCEPT ![p].step = "answered",
                                     ![p].list = Compressed(search[p].list)]
    /\ UNCHANGED <<stores, changes, vectors>>

\* The names of the documents are looked up and the search returns, or its
\* error ends the request.
Return(p) ==
    /\ At(p, "answered") \/ At(p, "failed")
    /\ search' = [search EXCEPT ![p] = Idle]
    /\ UNCHANGED <<fallen, stores, changes, vectors>>

-----------------------------------------------------------------------------
Scores == [Texts -> {0, 1}]

Request(p) ==
    /\ changes < MaxChanges /\ changes' = changes + 1
    /\ \E q \in Queries : Load(p, q, rows)

Proceed(p) ==
    \/ EmbedCached(p)
    \/ \E m \in {None} \cup Models : EmbedQuery(p, m) \/ Compress(p, m)
    \/ RetrieveFails(p) \/ Retrieve(p)
    \/ RerankFails(p)
    \/ \E score \in Scores : Rerank(p, score)

Ingest(w) ==
    \/ \E d \in Docs, m \in Models \cup {None} : Insert(w, d, m)
    \/ CheckCollection(w) \/ CreateCollection(w) \/ Upsert(w)
    \/ CommitRows(w) \/ Rollback(w)

Environment ==
    \/ \E w \in Workers : Ingest(w)
    \/ \E d \in Docs : DeleteDocument(d)
    \/ \E p \in Processes : Restart(p)
    \/ \E q \in Queries : Expire(q)
=============================================================================
