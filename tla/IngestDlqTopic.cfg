SPECIFICATION Spec
CONSTANTS
    p1 = p1
    p2 = p2
    Partitions <- MCPartitions
    LogLen = 1
    Kinds = {"valid", "corrupt"}
    BatchSize = 2
    MaxMessages = 3
    QueueLimit = 2
    MaxFaults = 0
INVARIANTS
    RejectedReachDlqTopic
