CONSTANTS
    InitialCapacity = 2
    ReadMax = 3
    PipeSize = 4
    MaxOutput = 8
    NULL = NULL
SPECIFICATION FairSpec
INVARIANTS RoomForTerminator ResultIsOutput
PROPERTY Returns
\* After an early stop the parent and a blocked command wait for each other.
CHECK_DEADLOCK FALSE
