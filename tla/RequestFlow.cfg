\* Two runs at one corruption rate: the second repeats the first and may go further.
SPECIFICATION FlowSpec
CONSTANTS
    Minutes = {1, 6}
    Requests = {"REQ-1"}
    Variants = {"v1"}
    Events <- Messages
    MaxTime = 30
    MaxRuns = 2
    MaxOffset = 5
    MaxCrashes = 1
INVARIANTS
    SilverShowsFurthestState
PROPERTIES
    TerminalIsFinal
CHECK_DEADLOCK FALSE
