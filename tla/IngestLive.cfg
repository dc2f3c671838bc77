\* One partition, finitely many faults, no wide record, a local queue the rejects fit in.
SPECIFICATION FairSpec
CONSTANTS
    p1 = p1
    p2 = p2
    Partitions = {p1}
    LogLen = 3
    Kinds = {"valid", "corrupt"}
    BatchSize = 2
    MaxMessages = 3
    QueueLimit = 4
    MaxFaults = 2
PROPERTIES
    EveryRecordIsCommitted
