SPECIFICATION Spec
CONSTANTS
    n1 = n1
    n2 = n2
    n3 = n3
    n4 = n4
    v1 = v1
    write = write
    read = read
    Node = {n1, n2}
    Call = {write, read}
    ClientOf <- MCClientOf
    OpOf <- MCOpOf
    TimeOf <- Later
    ReplicaSets <- Two
    Value = {v1}
    NoValue = NoValue
    H = 1
    MaxDuplicated = 0
    MaxLost = 0
    MaxCrashed = 0
    Offline = {}
    MaxCount = 1
    MaxCopies = 2
    MaxCommits = 1
INVARIANTS
    SameOrder
CHECK_DEADLOCK FALSE
