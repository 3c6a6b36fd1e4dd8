CONSTANTS
    BufferSize = 2
    Inputs <- AllInputs
    MaxNotes = 1
SPECIFICATION Spec
INVARIANTS InOrder CompleteOrReported
