CONSTANTS
    Producers = {p1, p2}
    Consumers = {c1, c2}
    Values = {0, 1}
    None = None
SPECIFICATION QueueSpec
SYMMETRY Symmetry
INVARIANTS TypeOK MutualExclusion
PROPERTY ImplementsChannel
\* A producer cancelled in cond_wait keeps the mutex for ever: everybody may stop.
CHECK_DEADLOCK FALSE
