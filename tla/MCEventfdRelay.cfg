CONSTANTS
    N = 3
    Inputs <- MCInputs
    MaxInputs = 3
SPECIFICATION FairSpec
INVARIANTS TypeOK OneToken ExitIsFinal FdsUsable RoutedByResidue
PROPERTY MainExits
