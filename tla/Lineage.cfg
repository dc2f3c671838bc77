\* One run of the DAG, one retry, and two attempts that fail.
SPECIFICATION FairLineageSpec
CONSTANTS
    Retries = 1
    Parallelism = 2
    MaxRuns = 1
    MaxFaults = 2
INVARIANTS
    RunsAreClosed
    StartsAfterInputs
PROPERTIES
    FailuresAppear
CHECK_DEADLOCK FALSE
