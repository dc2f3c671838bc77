\* One run, whose ingestion dies once after its append.
SPECIFICATION Spec
CONSTANTS
    Retries = 2
    Parallelism = 1
    MaxRuns = 1
    MaxFaults = 1
    Readings = {1, 2}
    Requests = {"a"}
    Confs <- OnlyHealthy
    BronzeMin = 2
    SilverMin = 1
    MaxRows = 9
INVARIANTS
    DuplicatesAreLegitimate
CHECK_DEADLOCK FALSE
