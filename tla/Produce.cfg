\* A round cut short and sixty rounds of eight zones; two requests and ten messages.
SPECIFICATION FairSpec
CONSTANTS
    Zones <- MCZones
    Capacity <- MCCapacity
    ZoneType <- MCZoneType
    zone_ids <- MCzone_ids
    SimDays = 7
    Budgets = {3, 484}
    Wall = 20000
    Clocks = {3000, 20000, 24314, 24315}
    NRequests = 2
    MaxBudget = 10
    Minutes = {1, 6}
    Now = 30
INVARIANTS
    AcceptedMeetsEverySuite
    GeneratedIsAccepted
    OneRulePerCorruption
    ContractSeparates
    UpdatedAtRises
PROPERTIES
    EndsWithReason
CHECK_DEADLOCK FALSE
