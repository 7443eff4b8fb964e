CONSTANTS
    Node <- MCNode
    MaxNodes = 7
    MaxLayers = 2
    Defs <- MCDefsLayer
    AddrOrders <- MCAddrOrders
SPECIFICATION Spec
\* OptimizeRNN returns, and the importer goes on to OptimizeGraph.
CHECK_DEADLOCK FALSE
INVARIANT TypeOK EdgeSymmetry SeqClosed KernelLoadable
PROPERTY Terminates
