SPECIFICATION FairSpec
CONSTANTS
    Inputs = {1, 2}
    MaxRuns = 2
    MaxAttempts = 2
    Loads <- OneOrBoth
INVARIANTS
    InputsInv
    WithdrawnStaysOut
PROPERTIES
    DeliversInputs
    InputSettles
CHECK_DEADLOCK FALSE
