CONSTANTS
    Node <- MCNode
    MaxNodes = 7
    MaxLayers = 2
    Defs <- MCDefsLayer
    AddrOrders <- MCAddrOrders
SPECIFICATION Spec
CHECK_DEADLOCK FALSE
INVARIANT DataFirst
