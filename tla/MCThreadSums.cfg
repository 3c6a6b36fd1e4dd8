CONSTANTS
    ThreadCount = 3
    Iterations = 2
    Magic = 2
    Stdin <- NumbersRead
    Garbage = {0, 7}
SPECIFICATION SumsSpec
INVARIANTS SumsExact NothingInvented
