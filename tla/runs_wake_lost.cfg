SPECIFICATION Spec
CONSTANTS
    WorkItems = {"w1"}
    Actions = {1, 2}
    ItemOf <- OneItem
    WorkspaceOf <- OneWorkspace
    PlannedMode <- IsolatedAll
    DeliverActions = {}
    MaxAttempts = 1
    MaxLifetime = 3
    Limit = 2
    MaxRuns = 2
    MaxBoot = 2
    MaxCommands = 0
    MaxDecisions = 0
    MaxStops = 0
PROPERTIES
    ExhaustionWakesCoordinator
CHECK_DEADLOCK FALSE
