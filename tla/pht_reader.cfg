SPECIFICATION Spec
CONSTANTS
    c1 = c1
    c2 = c2
    BIT_DOMAIN = 4
    B = 2
    Client = {c1, c2}
    Key <- Apart
    Query <- Queries
    OpsOf <- WriterAndReader
    MaxCalls <- ThreeCalls
    MaxCrashed = 1
    Rooted = TRUE
    None = None
    Stray = Stray
INVARIANTS RangeExact NeverLost
CHECK_DEADLOCK FALSE
