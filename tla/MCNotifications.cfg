CONSTANTS
    MaxSent = 4
    MaxTicks = 6
SPECIFICATION MCSpec
INVARIANTS HandlersContained NothingLeftBehind
\* A read of a counter that is used up blocks for ever, and so does pause.
CHECK_DEADLOCK FALSE
