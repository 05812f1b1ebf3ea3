CONSTANTS
    Docs = {d1}
    NoDoc = NoDoc
    Clients = {c1, c2}
    Workers = {w1}
    MaxRetries = 1
    MaxMsgs = 2
    MaxRedeliveries = 1
    Faults <- NoFaults
SPECIFICATION Spec
INVARIANT NoOrphanVectors
CHECK_DEADLOCK FALSE
