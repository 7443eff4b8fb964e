CONSTANTS
    Node <- MCNode
    MaxNodes = 5
    Kinds <- MCKindsSpatial
    RepeatedInputs = FALSE
    SharedConsts = FALSE
SPECIFICATION LSpec
INVARIANTS EdgeSymmetry  StaticMirrorsGraph
CHECK_DEADLOCK FALSE
