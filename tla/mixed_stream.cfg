CONSTANTS
    k1 = k1
    k2 = k2
    v1 = v1
    v2 = v2
    Kbs = {k1}
    Convs = {v1, v2}
    Questions = {q1}
    KbOf <- OneKb
    Blank = Blank
    None = None
    Clients = {c1}
    MaxRetries = 0
    MaxTurns = 2
    MaxChanges = 1
    Faults <- AllFaults
SPECIFICATION Spec
INVARIANT OneAuthor
CHECK_DEADLOCK FALSE
