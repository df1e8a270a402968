SPECIFICATION FairSpec
CONSTANTS
    n1 = n1
    n2 = n2
    n3 = n3
    n4 = n4
    v1 = v1
    write = write
    read = read
    Node = {n1, n2, n3, n4}
    Call = {write}
    ClientOf <- MCClientOf
    OpOf <- MCOpOf
    TimeOf <- Later
    ReplicaSets <- Four
    Value = {v1}
    NoValue = NoValue
    H = 1
    MaxDuplicated = 0
    MaxLost = 0
    MaxCrashed = 0
    Offline = {n4}
    MaxCount = 4
    MaxCopies = 3
    MaxCommits = 3
PROPERTIES
    EveryCallResolves
    EveryReplicaExecutes
CHECK_DEADLOCK FALSE
