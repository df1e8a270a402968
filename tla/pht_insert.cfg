SPECIFICATION Spec
CONSTANTS
    c1 = c1
    c2 = c2
    BIT_DOMAIN = 4
    B = 1
    Client = {c1}
    Key <- Spread
    Query <- Queries
    OpsOf <- Querying
    MaxCalls <- FiveCalls
    MaxCrashed = 0
    Rooted = FALSE
    None = None
    Stray = Stray
INVARIANTS FoundAtRest RangeExact TrieAtRest BlockSize NeverCorrupted
CHECK_DEADLOCK FALSE
