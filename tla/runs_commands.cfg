SPECIFICATION Spec
CONSTANTS
    WorkItems = {"w1"}
    Actions = {1}
    ItemOf <- OneItem
    WorkspaceOf <- OneWorkspace
    PlannedMode <- IsolatedThenIntegrate
    DeliverActions = {}
    MaxAttempts = 2
    MaxLifetime = 1
    Limit = 2
    MaxRuns = 2
    MaxBoot = 1
    MaxCommands = 2
    MaxDecisions = 1
    MaxStops = 2
INVARIANTS
    ClosedItemIsQuiet
    DoneHasEvidence
    AttemptsBounded
PROPERTIES
    HistoryIsFinal
CHECK_DEADLOCK FALSE
