SPECIFICATION Spec
CONSTANTS
    CHUNK_SAMPLES = 2
    SendRejects = FALSE
    MaxHeard = 4
    MaxDictations = 1
INVARIANTS
    StreamIsPrefix
CHECK_DEADLOCK FALSE
