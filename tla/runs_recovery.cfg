SPECIFICATION FairSpec
CONSTANTS
    WorkItems = {"w1"}
    Actions = {1, 2}
    ItemOf <- OneItem
    WorkspaceOf <- OneWorkspace
    PlannedMode <- IsolatedThenIntegrate
    DeliverActions = {2}
    MaxAttempts = 2
    MaxLifetime = 3
    Limit = 2
    MaxRuns = 2
    MaxBoot = 2
    MaxCommands = 1
    MaxDecisions = 0
    MaxStops = 0
INVARIANTS
    TypeOK
    RunFence
    NoBlindRedelivery
PROPERTIES
    ReservationHolds
    LostRunIsLetGo
CHECK_DEADLOCK FALSE
