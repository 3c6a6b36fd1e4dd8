CONSTANT End = 15
SPECIFICATION FairSpec
INVARIANTS OneTurn PrintedInTurn
PROPERTY BothExit
\* Without a child the parent waits for a turn that never comes back.
CHECK_DEADLOCK FALSE
