SPECIFICATION FairSpec
CONSTANTS
    Triggers <- Plans
    MaxTime = 3
    Grace = 0
    Max <- Twice
INVARIANTS
    OccurrencesInv
    NoStaleExecution
PROPERTIES
    CompletedWasExecuted
    RunEnds
    OneShotRuns
CHECK_DEADLOCK FALSE
