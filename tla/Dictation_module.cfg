SPECIFICATION FairSpec
CONSTANTS
    CHUNK_SAMPLES = 2
    SendRejects = TRUE
    MaxHeard = 4
    MaxDictations = 2
INVARIANTS
    TypeOK
    StreamIsPrefix
    OwnSession
PROPERTIES
    StopDelivers
    StopEnds
CHECK_DEADLOCK FALSE
