SPECIFICATION Spec
CONSTANTS
    Estimates = {2}
    Costs = {1, 3}
    Limits <- Small
    Additions <- Extra
    OriginalAttempts = 1
    Adapters <- Crossed
    MaxCallers = 2
    Max <- Bounds
INVARIANTS
    BudgetInv
    NothingIsFree
PROPERTIES
    StopHolds
    LedgerIsKept
CHECK_DEADLOCK FALSE
