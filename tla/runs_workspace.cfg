SPECIFICATION Spec
CONSTANTS
    WorkItems = {"w1", "w2"}
    Actions = {1, 2, 3}
    ItemOf <- TwoItems
    WorkspaceOf <- OneWorkspace
    PlannedMode <- IsolatedAndShared
    DeliverActions = {}
    MaxAttempts = 1
    MaxLifetime = 3
    Limit = 3
    MaxRuns = 3
    MaxBoot = 1
    MaxCommands = 0
    MaxDecisions = 0
    MaxStops = 0
INVARIANTS
    WorkspaceExclusion
    ResultIsCanonical
CHECK_DEADLOCK FALSE
