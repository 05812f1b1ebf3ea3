----------------------------- MODULE Evaluation -----------------------------
(***************************************************************************)
(* The evaluation script beside the running system: EvaluationRunner takes *)
(* the questions of a dataset through the same retrieval pipeline as a     *)
(* request, one after the other, scores what reaches the prompt against    *)
(* the known relevant chunks, has an answer judged, and averages.          *)
(*                                                                         *)
(* Fractions are counted in parts of Whole.                                *)
(***************************************************************************)
EXTENDS Retrieval

CONSTANTS
    Evaluator,  \* the script's process, one of the searchers
    Dataset,    \* a sequence of questions with their relevant chunk ids
    Judgements, \* the scores a judge's reply may parse to
    Whole

Example == [q : Queries, relevant : SUBSET (1..MaxId)]

ASSUME EvaluatorAssumption == Evaluator \in Searchers
ASSUME DatasetAssumption == Dataset \in Seq(Example)
ASSUME JudgementsAssumption == Judgements \subseteq Nat
ASSUME WholeAssumption ==
    /\ Whole \in Nat \ {0}
    /\ \A n \in 1..RerankK : Whole % n = 0
    /\ \A i \in DOMAIN Dataset :
         Dataset[i].relevant # {} => Whole % Cardinality(Dataset[i].relevant) = 0

VARIABLE run   \* the evaluation in progress

evars == <<vars, run>>

Metrics == {"hit_rate", "recall_at_k", "precision_at_k", "mrr"}
RetrievalScores == [Metrics -> 0..Whole]
ExampleResult == [example : Example, retrieval : RetrievalScores,
                  answer : Nat \cup {None}, error : BOOLEAN]
Average == [sum : Nat, count : Nat \ {0}]
Summary == [retrieval : [Metrics -> Average] \cup {None},
            answers : Average \cup {None}]

EvaluationRun ==
    [step : {"started", "next", "searching", "answering", "done"},
     answers : BOOLEAN, corpus : SUBSET Hit, results : Seq(ExampleResult),
     current : ExampleResult \cup {None}, summary : Summary \cup {None}]

\* None is no score and no average.
ASSUME NoScoreAssumption ==
    None \notin Nat /\ None \notin Average /\ None \notin [Metrics -> Average]

EvaluationTypeOK == TypeOK /\ run \in EvaluationRun

EvaluationInit ==
    /\ Init
    /\ \E b \in BOOLEAN :
         run = [step |-> "started", answers |-> b, corpus |-> {},
                results |-> <<>>, current |-> None, summary |-> None]

-----------------------------------------------------------------------------
(* score_retrieval *)

Zeros == [m \in Metrics |-> 0]

FirstRelevant(ids, relevant) ==
    CHOOSE r \in DOMAIN ids :
        ids[r] \in relevant /\ \A k \in 1..(r - 1) : ids[k] \notin relevant

\* Mutant: without ground truth every chunk counts as relevant.
ScoreAnything(ids, relevant) ==
    IF ids = <<>> THEN Zeros
    ELSE [Zeros EXCEPT !["precision_at_k"] = Whole, !["mrr"] = Whole]
ScoreRetrieval(ids, relevant) ==
    LET listed == {r \in DOMAIN ids : ids[r] \in relevant}
    IN IF listed = {} THEN Zeros
       ELSE [hit_rate |-> Whole,
             recall_at_k |-> (Whole * Cardinality({ids[r] : r \in listed}))
                                \div Cardinality(relevant),
             precision_at_k |-> (Whole * Cardinality(listed)) \div Len(ids),
             mrr |-> Whole \div FirstRelevant(ids, relevant)]

\* AnswerJudge.judge: a reply without usable scores, or no reply, is a 0.
Judge(j) == j \in Judgements \cup {0}

-----------------------------------------------------------------------------
(* aggregate_retrieval and aggregate_answers *)

\* The scores of the results in S, added up.
SumOf(score, S) ==
    Sums([i \in DOMAIN score |-> IF i \in S THEN score[i] ELSE 0])[Len(score)]

\* Mutant: the average of nothing is a division by zero.
AverageUnguarded(score, S) ==
    [sum |-> SumOf(score, S), count |-> Cardinality(S)]
AverageOf(score, S) ==
    IF S = {} THEN None
    ELSE [sum |-> SumOf(score, S), count |-> Cardinality(S)]

\* Mutant: failed examples count as zeros.
ScoredWithFailures(results) == DOMAIN results
Scored(results) == {i \in DOMAIN results : ~results[i].error}
Judged(results) == {i \in DOMAIN results : results[i].answer # None}

AggregateRetrieval(results) ==
    IF Scored(results) = {} THEN None
    ELSE [m \in Metrics |->
            AverageOf([i \in DOMAIN results |-> results[i].retrieval[m]],
                      Scored(results))]
AggregateAnswers(results) ==
    AverageOf([i \in DOMAIN results |-> results[i].answer], Judged(results))

-----------------------------------------------------------------------------
(* EvaluationRunner.run *)

Running(s) == run.step = s
Question == Dataset[Len(run.results) + 1]

Record(result) ==
    run' = [run EXCEPT !.step = "next", !.current = None,
                       !.results = Append(@, result)]

\* The rows to search are read once, before the first example.  Bound: the
\* script starts when the last change has begun, but tasks may still be going
\* on.
LoadCorpus ==
    /\ Running("started")
    /\ changes = MaxChanges /\ \A p \in Searchers : At(p, "idle")
    /\ run' = [run EXCEPT !.step = "next", !.corpus = rows]
    /\ UNCHANGED vars

EvaluateExample ==
    /\ Running("next") /\ Len(run.results) < Len(Dataset)
    /\ Load(Evaluator, Question.q, run.corpus)
    /\ run' = [run EXCEPT !.step = "searching"]
    /\ UNCHANGED changes

Continue ==
    /\ Running("searching")
    /\ Proceed(Evaluator)
    /\ UNCHANGED run

\* What is scored is what survived the compression.
ScoreExample ==
    /\ Running("searching") /\ At(Evaluator, "answered")
    /\ LET context == search[Evaluator].list
           result == [example |-> Question, answer |-> None, error |-> FALSE,
                      retrieval |-> ScoreRetrieval(
                          [i \in DOMAIN context |-> context[i].id],
                          Question.relevant)]
       IN IF run.answers
          THEN run' = [run EXCEPT !.step = "answering", !.current = result]
          ELSE Record(result)
    /\ Return(Evaluator)

AnswerExample(j) ==
    /\ Running("answering") /\ Judge(j)
    /\ Record([run.current EXCEPT !.answer = j])
    /\ UNCHANGED vars

Failed == [example |-> Question, retrieval |-> Zeros, answer |-> None,
           error |-> TRUE]

\* Mutant: the loop goes on to the next example that works.
SearchFailsUnrecorded ==
    /\ Running("searching") /\ At(Evaluator, "failed")
    /\ run' = [run EXCEPT !.step = "next"]
    /\ Return(Evaluator)

\* Whatever fails becomes the example's result, without scores.
SearchFails ==
    /\ Running("searching") /\ At(Evaluator, "failed")
    /\ Record(Failed)
    /\ Return(Evaluator)

\* Mutant: a result is appended before its answer is known.
AnswerFailsTwice ==
    /\ Running("answering")
    /\ run' = [run EXCEPT !.step = "next", !.current = None,
                          !.results = Append(Append(@, run.current), Failed)]
    /\ UNCHANGED vars
\* AllLLMProvidersFailedError
AnswerFails ==
    /\ Running("answering")
    /\ Record(Failed)
    /\ UNCHANGED vars

\* The averages are printed and written to a file.
Summarise ==
    /\ Running("next") /\ Len(run.results) = Len(Dataset)
    /\ run' = [run EXCEPT !.step = "done", !.corpus = {},
                 !.summary = [retrieval |-> AggregateRetrieval(run.results),
                              answers |-> AggregateAnswers(run.results)]]
    /\ UNCHANGED vars

Evaluate ==
    \/ LoadCorpus \/ EvaluateExample \/ Continue \/ ScoreExample
    \/ \E j \in Judgements \cup {0} : AnswerExample(j)
    \/ SearchFails \/ AnswerFails \/ Summarise

Serve(p) ==
    /\ Request(p) \/ Proceed(p) \/ Return(p)
    /\ UNCHANGED run

Next ==
    \/ Evaluate
    \/ \E p \in Searchers \ {Evaluator} : Serve(p)
    \/ Environment /\ UNCHANGED run

Spec == EvaluationInit /\ [][Next]_evars

\* The script awaits one call at a time, and each call returns or raises.
Fairness == WF_evars(Evaluate)
FairSpec == Spec /\ Fairness

-----------------------------------------------------------------------------
(* Properties *)

\* No collection ever holds or is searched with vectors of two models, even
\* when two tasks that embedded with different ones race to create it.
VectorsComparable ==
    /\ \A s \in Slots : points[s] # None => points[s].model = collection
    /\ \A p \in Searchers :
         At(p, "fused") /\ search[p].dense # <<>> => search[p].model = collection

\* A committed row can be found by its vector: losing the race to create
\* the collection, or failing after the upsert, never leaves one without.
RowsAreIndexed == \A h \in rows : points[h.slot] # None

\* Hybrid search boosts what both methods agree on, whatever their orders.
AgreementWins ==
    \A p \in Searchers : At(p, "fused") =>
        FusionSound(search[p].dense, search[p].keyword, search[p].list)

\* The context is the best of the ranking without near duplicates within
\* the token budget, also when reprocessing has multiplied the rows.
ContextIsBest ==
    \A p \in Searchers : At(p, "answered") =>
        ContextSound(search[p].pool, search[p].list)

\* As long as no process has switched to the fallback model no search and
\* no task is refused for the dimension of its vectors.
NoMismatch ==
    /\ \A w \in Workers : AtTask(w, "ready") => Fits(task[w].model)
    /\ \A p \in Searchers :
         At(p, "embedded") /\ collection # None => Fits(search[p].model)
NoMismatchWithoutFailover == [](fallen = {}) => []NoMismatch

\* A hit, a positive recall, precision and reciprocal rank are the same
\* thing, and no chunk is counted twice.
MetricsAgree ==
    \A i \in DOMAIN run.results : LET r == run.results[i].retrieval IN
        /\ \A m, n \in Metrics : r[m] > 0 => r[n] > 0
        /\ \A m \in Metrics : r[m] <= Whole
        /\ r["precision_at_k"] = Whole => r["mrr"] = Whole
        /\ Dataset[i].relevant = {} => r = Zeros

\* Every question has its own result, in the order of the dataset, whether
\* its search, its answer or its judgement failed or not.
OneResultPerExample ==
    /\ Len(run.results) <= Len(Dataset)
    /\ \A i \in DOMAIN run.results : run.results[i].example = Dataset[i]
    /\ run.step = "done" => Len(run.results) = Len(Dataset)

\* The averages are those of the examples that worked, and of the answers
\* that were judged: each lies between the least and the greatest score of
\* one, and there is one as soon as one example worked.
Within(a, S, score(_)) ==
    /\ \E i \in S : score(i) * a.count <= a.sum
    /\ \E i \in S : score(i) * a.count >= a.sum

AveragesWithinScores ==
    run.step = "done" =>
        LET good == {i \in DOMAIN run.results : ~run.results[i].error} IN
        /\ (run.summary.retrieval = None <=> good = {})
        /\ (run.summary.answers = None <=> good = {} \/ ~run.answers)
        /\ good # {} =>
             \A m \in Metrics :
                 Within(run.summary.retrieval[m], good,
                        LAMBDA i : run.results[i].retrieval[m])
        /\ good # {} /\ run.answers =>
             Within(run.summary.answers, good, LAMBDA i : run.results[i].answer)

\* An evaluation ends, with a summary, whatever fails on its way.
EvaluationEnds == Running("next") ~> Running("done")
=============================================================================
