\* Two emissions of three messages, two ingestions, one reset, two times.
SPECIFICATION Spec
CONSTANTS
    Zones <- MCZones
    Capacity <- MCCapacity
    Payload <- MCPayload
    Start = 0
    MaxClock = 30
    Step = 30
    MaxEmissions = 2
    MaxProcesses = 2
    MaxResets = 1
INVARIANTS
    CommittedHaveOnePlace
    GoldIsBackedByBronze
    RateIndependent
PROPERTIES
    StableRows
CHECK_DEADLOCK FALSE
