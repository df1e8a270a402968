SPECIFICATION FairSpec
CONSTANTS
    peerA = peerA
    peerB = peerB
    small = small
    big = big
    huge = huge
    Peer = {peerA, peerB}
    Msg = {small, big}
    ByteLen <- MCByteLen
    Checksum <- MCChecksum
    SLICE_SZ = 2
    Traffic <- OneWay
    MAX_SLICES = 4
    MAX_CHUNKS = 4
    WAIT_UNTIL_RETRY = 1
    MaxTries = 1
    MaxSends = 2
    MaxReboots = 0
    NetDuplicates = FALSE
    GcEnabled = FALSE
INVARIANTS
    ReceivedIsKept
PROPERTIES
    AckedWasReceived
    SendersDrain
CHECK_DEADLOCK FALSE
