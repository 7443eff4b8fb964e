CONSTANTS
    Node <- MCNode
    MaxIn = 2
    Precondition = "dag"
SPECIFICATION Spec
INVARIANTS
    EdgeSymmetry
PROPERTIES
    MergeConservation
CHECK_DEADLOCK FALSE
