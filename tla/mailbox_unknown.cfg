SPECIFICATION FairSpec
CONSTANTS
    Epochs = {1, 2, 3, 4}
    Failures = 2
    Loads <- OnlyCrash
PROPERTY
    UnknownTurnSettles
CHECK_DEADLOCK FALSE
