CONSTANTS
    Threads = 4
    Node = {n1, n2, n3}
    NULL = NULL
    MaxSize = 3
SPECIFICATION MCSpec
INVARIANTS WhatIsPrinted CallbackAfterAll
PROPERTIES ImplementsPush CallbackRuns
\* The parts come to an end.
CHECK_DEADLOCK FALSE
