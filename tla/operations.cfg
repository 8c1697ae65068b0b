SPECIFICATION FairSpec
CONSTANTS
    Actions = {a1, a2}
    NoAction = none
    MaxRuns = 2
    MaxTools = 1
    MaxAttempts = 2
    Max <- OneOfEach
INVARIANTS
    ToolsInv
    DoneIsSettled
PROPERTIES
    NoBlindRerun
    OnlyUnknownBlocks
CHECK_DEADLOCK FALSE
