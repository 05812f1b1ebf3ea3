CONSTANTS
    k1 = k1
    k2 = k2
    v1 = v1
    v2 = v2
    Kbs = {k1, k2}
    Convs = {v1, v2}
    Questions = {q1}
    KbOf <- OneEach
    Blank = Blank
    None = None
    Clients = {c1, c2}
    MaxRetries = 1
    MaxTurns = 2
    MaxChanges = 0
    Faults <- AllFaults
SPECIFICATION FairSpec
INVARIANTS
    TypeOK
    RepliesBelong
    JsonTurnsAreWhole
    CacheHoldsFirstAnswers
    StoredTextIsChecked
    NoOrphanMessages
PROPERTY TurnsEnd
CHECK_DEADLOCK FALSE
