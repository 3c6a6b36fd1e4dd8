CONSTANTS
    Timeouts <- MCTimeouts
    NsPerMs = 4
    NsPerSec = 12
    IntMod = 32
    InputLen = 3
    PipeSize = 2
    Codes = {0, 1}
    Signals = {6, 9}
SPECIFICATION FairSpec
INVARIANTS FailureReleasesAll CodeTellsWhy EofAfterAllInput
PROPERTIES EndedIsNotTimedOut Returns
