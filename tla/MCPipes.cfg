CONSTANTS
    PipeSize = 2
    MaxWrites = 4
SPECIFICATION FairSpec
INVARIANTS AliveAfterSigpipe OneNumber
PROPERTY MainEnds
\* A pipeline without its second command hangs.
CHECK_DEADLOCK FALSE
