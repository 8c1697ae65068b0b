SPECIFICATION Spec
CONSTANTS
    Epochs = {1, 2, 3, 4}
    Failures = 2
    Loads <- CrashOrStalls
INVARIANTS
    TurnsInv
    OneExecutorActs
PROPERTIES
    DecisionMatchesRequest
    WakeIsKept
CHECK_DEADLOCK FALSE
