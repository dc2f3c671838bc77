\* Two partitions of two records each, batches of two, two faults.
SPECIFICATION Spec
CONSTANTS
    p1 = p1
    p2 = p2
    Partitions <- MCPartitions
    LogLen = 2
    Kinds = {"valid", "wide", "corrupt"}
    BatchSize = 2
    MaxMessages = 3
    QueueLimit = 2
    MaxFaults = 2
SYMMETRY Symmetry
INVARIANTS
    CommittedAreAccounted
    ReadIsHeldOrLanded
    ReplayIsBounded
    WideRecordBlocksPartition
PROPERTIES
    CommittedNeverRewinds
    ImplementsHandoff
