\* Two chunks of which each search finds one, one edit, one kill, two models.
SPECIFICATION FairSpec
CONSTANTS
    Ids = {"c1", "c2"}
    Askers = {"a1"}
    Models = {1, 2}
    MaxRetries = 2
    RetrieveTopK = 1
    RerankTopK = 1
    MaxEdits = 1
    MaxFaults = 1
INVARIANTS
    AnswersStandOnCitations
    IndexIsOneReading
    DegradedMeansAllRefused
PROPERTIES
    IndexCatchesUp
    EveryAskEnds
CHECK_DEADLOCK FALSE
