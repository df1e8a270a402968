SPECIFICATION FairSpec
CONSTANTS
    a = a
    b = b
    c1 = c1
    c2 = c2
    Node = {a, b}
    Call = {c1, c2}
    From <- MCFrom
    To <- MCTo
    GEN_MAX = 3
    MaxRestarts = 1
    None = None
INVARIANTS
    TypeOK
    SecureFirst
    NothingStuck
PROPERTIES
    ImplementsRpc
    EveryCallSettles
CHECK_DEADLOCK FALSE
