SPECIFICATION FairSpec
CONSTANTS
    Loads <- Mixed
    QueueSize = 1
    BufferSize = 2
    MaxCopies = 1
INVARIANTS
    PlacesInv
    OvertakenWereBuffered
    ChunkStaysOnConnection
PROPERTIES
    TerminalsOutlive
    ImageArrives
CHECK_DEADLOCK FALSE
