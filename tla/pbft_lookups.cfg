SPECIFICATION Spec
CONSTANTS
    n1 = n1
    n2 = n2
    n3 = n3
    n4 = n4
    v1 = v1
    write = write
    read = read
    Node = {n1, n2, n3, n4}
    Call = {write}
    ClientOf <- MCClientOf
    OpOf <- MCOpOf
    TimeOf <- Later
    ReplicaSets <- Disagreeing
    Value = {v1}
    NoValue = NoValue
    H = 1
    MaxDuplicated = 0
    MaxLost = 0
    MaxCrashed = 0
    Offline = {n4}
    MaxCount = 3
    MaxCopies = 2
    MaxCommits = 2
INVARIANTS
    AnswerBacked
    PreparedCertificate
CHECK_DEADLOCK FALSE
