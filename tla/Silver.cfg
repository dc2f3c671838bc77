\* Three events of two requests in any order and with any ties; four rows.
SPECIFICATION FairSpec
CONSTANTS
    e1 = e1
    e2 = e2
    e3 = e3
    r1 = r1
    r2 = r2
    Events <- MCEvents
    Requests <- MCRequests
    MaxTime = 1
    MaxOffset = 4
    MaxCrashes = 1
INVARIANTS
    OneRowPerRequest
    UntiedSilverEqualsStaging
PROPERTIES
    SilverNeverRegresses
    RebuildChangesNothing
    EveryEventIsReflected
