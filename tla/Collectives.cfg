SPECIFICATION FairSpec
CONSTANTS
    N = 4
    NodeSize = 2
    CST_W = 2
    CmiReductionsNumChildren = 2
    CmiMaxReductions = 4
    Multiplier = 2
    IdRange = 4
    Window = 2
    List <- ThreePes
    MaxReduce = 3
    MaxListReduce = 1
INVARIANT ResultsAreWhole
PROPERTIES EveryResultHeard
CHECK_DEADLOCK FALSE
