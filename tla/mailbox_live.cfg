SPECIFICATION FairSpec
CONSTANTS
    Epochs = {1, 2, 3, 4}
    Failures = 2
    Loads <- Orderly
PROPERTIES
    TurnSettles
    WakeIsAnswered
CHECK_DEADLOCK FALSE
