CONSTANTS
    Node <- MCNode
    MaxNodes = 7
    MaxLayers = 2
    Defs <- MCDefsTopLevel
    AddrOrders <- MCAddrOrders
SPECIFICATION Spec
CHECK_DEADLOCK FALSE
INVARIANT AllLayersExtracted
