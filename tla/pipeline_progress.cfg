CONSTANTS
    Docs = {d1}
    NoDoc = NoDoc
    Clients = {c1}
    Workers = {w1, w2}
    MaxRetries = 1
    MaxMsgs = 2
    MaxRedeliveries = 1
    Faults <- KeepingFaults
SPECIFICATION FairSpec
INVARIANT ProcessingHasTask
PROPERTY Settles
CHECK_DEADLOCK FALSE
