CONSTANTS
    Width = 3
    ArgLimit = 2
    MaxLine = 6
    MaxString = 3
    MaxArray = 6
    HalfRange = 8
    MaxObject = 7
    MaxFds = 3
SPECIFICATION MCSpec
INVARIANTS ReturnsPromised StringIntact OnlyListingLeaks
\* A routine is called once.
CHECK_DEADLOCK FALSE
