\* A target of four tokens and an overlap of two: up to four paragraphs a section.
SPECIFICATION Spec
CONSTANTS
    TargetTokens = 4
    OverlapTokens = 2
    Documents <- MCDocuments
INVARIANTS
    NothingIsLost
    InReadingOrder
    OverlapCarriesBoundary
    ChunksAreBounded
CHECK_DEADLOCK FALSE
