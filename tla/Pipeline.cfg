\* Two runs of any config, one fault, two tasks at once; three rows are too many.
SPECIFICATION FairSpec
CONSTANTS
    Retries = 2
    Parallelism = 2
    MaxRuns = 2
    MaxFaults = 1
    Readings = {1, 2}
    Requests = {"a", "b"}
    Confs <- MCConfs
    BronzeMin = 2
    SilverMin = 2
    MaxRows = 3
INVARIANTS
    PublishedIsValidated
    SuccessIsUpToDate
PROPERTIES
    PublishOnlyWhileSound
    EveryRunEnds
CHECK_DEADLOCK FALSE
