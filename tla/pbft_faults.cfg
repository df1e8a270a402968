SPECIFICATION Spec
CONSTANTS
    n1 = n1
    n2 = n2
    n3 = n3
    n4 = n4
    v1 = v1
    write = write
    read = read
    Node = {n1, n2}
    Call = {write}
    ClientOf <- MCClientOf
    OpOf <- MCOpOf
    TimeOf <- Later
    ReplicaSets <- Two
    Value = {v1}
    NoValue = NoValue
    H = 1
    MaxDuplicated = 1
    MaxLost = 1
    MaxCrashed = 1
    Offline = {}
    MaxCount = 1
    MaxCopies = 2
    MaxCommits = 2
INVARIANTS
    TypeOK
    ExecOnce
CHECK_DEADLOCK FALSE
