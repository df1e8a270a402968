SPECIFICATION Spec
CONSTANTS
    peerA = peerA
    peerB = peerB
    small = small
    big = big
    huge = huge
    Peer = {peerA, peerB}
    Msg = {small, big, huge}
    ByteLen <- MCByteLen
    Checksum <- MCChecksum
    SLICE_SZ = 2
    Traffic <- AndHuge
    MAX_SLICES = 3
    MAX_CHUNKS = 4
    WAIT_UNTIL_RETRY = 2
    MaxTries = 1
    MaxSends = 2
    MaxReboots = 1
    NetDuplicates = TRUE
    GcEnabled = TRUE
INVARIANTS
    TypeOK
    Integrity
    Provenance
PROPERTIES
    ImplementsChannel
CHECK_DEADLOCK FALSE
