CONSTANTS
    d1 = d1
    d2 = d2
    tA = tA
    tB = tB
    tC = tC
    q1 = q1
    Texts = {tA, tB, tC}
    Tokens <- Lengths
    Similar <- Overlapping
    Damping = 60
    Scale <- Exact
    PerMethod = 3
    RerankK = 3
    MaxContextTokens = 3
    Docs = {d1, d2}
    Content <- TwoDocs
    Queries = {q1}
    Searchers = {api, evaluator}
    Workers = {w1, w2}
    None = None
    MaxId = 3
    MaxChanges = 2
    Fallible = {w2, evaluator}
    Faults <- AllFaults
    Evaluator = evaluator
    Dataset <- TwoQuestions
    Judgements = {5}
    Whole = 6
SPECIFICATION FairSpec
INVARIANTS
    EvaluationTypeOK
    VectorsComparable
    RowsAreIndexed
    AgreementWins
    ContextIsBest
    MetricsAgree
    OneResultPerExample
    AveragesWithinScores
PROPERTIES
    NoMismatchWithoutFailover
    EvaluationEnds
CHECK_DEADLOCK FALSE
