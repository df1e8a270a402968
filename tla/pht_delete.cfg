SPECIFICATION FairSpec
CONSTANTS
    c1 = c1
    c2 = c2
    BIT_DOMAIN = 4
    B = 1
    Client = {c1, c2}
    Key <- Three
    Query <- Cell
    OpsOf <- UpdaterAndReader
    MaxCalls <- ReaderOnce
    MaxCrashed = 0
    Rooted = TRUE
    None = None
    Stray = Stray
INVARIANTS TypeOK DepthBounded
PROPERTIES EveryCallReturns
CHECK_DEADLOCK FALSE
