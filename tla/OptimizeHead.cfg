\* The prediction head and input queue; a dropped ArgMax or Squeeze leaves
\* dead code that gives the restart loop of the last scan work to do.
CONSTANTS
    Node <- MCNode
    MaxNodes = 5
    Kinds <- MCKindsHead
    RepeatedInputs = FALSE
    SharedConsts = FALSE
SPECIFICATION LSpec
INVARIANTS EdgeSymmetry LoweringClosed
PROPERTY Terminates
CHECK_DEADLOCK FALSE
