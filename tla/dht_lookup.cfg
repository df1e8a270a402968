SPECIFICATION FairSpec
CONSTANTS
    self = self
    other = other
    far = far
    last = last
    Contact = {self, other, far, last}
    Self = self
    Width = 3
    IdOf <- MCIdOf
    K_SIZE = 2
    MAX_LOCK_ATTEMPTS = 2
    None = None
    Target <- MCTarget
    Net <- MCNet
    From <- MCFrom
    Lists <- MCLists
    Holders = {other}
    ALPHA = 2
INVARIANTS
    TypeOK
    OneLeaf
    Placed
    NeighboursKept
    Exhaustive
    AskedOnce
    CachedAway
PROPERTIES
    ContactsKept
    LookupEnds
CHECK_DEADLOCK FALSE
