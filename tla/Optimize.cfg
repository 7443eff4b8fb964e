CONSTANTS
    Node <- MCNode
    MaxNodes = 5
    Kinds <- MCKindsFuse
    RepeatedInputs = FALSE
    SharedConsts = FALSE
SPECIFICATION LSpec
INVARIANTS TypeOK EdgeSymmetry DataOperandFirst
CHECK_DEADLOCK FALSE
