CONSTANTS
    NoDoc = NoDoc
    Docs = {d1}
    Clients = {c1, c2}
    Workers = {w1, w2}
    MaxRetries = 1
    MaxMsgs = 2
    MaxRedeliveries = 1
    Faults <- AllFaults
SPECIFICATION Spec
SYMMETRY Symmetry
INVARIANTS
    TypeOK
    ChunksHaveVectors
    ReadyIsSearchable
    NoOrphanRows
    KbDeletionTotal
    IInv
PROPERTIES
    DeletedStays
    ImplementsLifecycle
CHECK_DEADLOCK FALSE
