CONSTANTS
    Users = {u1, u2}
    Requests = {r1, r2}
    Clients = {c1}
    Client = c1
    None = None
    Window = 1
    GeneralLimit = 2
    AuthLimit = 1
    MaxTime = 2
    MaxRequests = 4
SPECIFICATION AccessSpec
SYMMETRY Alike
INVARIANTS
    AccessTypeOK
    LimitKept
    ExchangedOnce
    InactiveGetsNothing
CHECK_DEADLOCK FALSE
