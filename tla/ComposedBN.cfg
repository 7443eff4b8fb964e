CONSTANTS
    Node <- MCNode
    GraphDefs <- MCGraphDefs
SPECIFICATION Spec
INVARIANTS TypeOK EdgeSymmetry BNFusionSafe ComposedBNBinds
\* The scan ends and the importer goes on to the next scan.
CHECK_DEADLOCK FALSE
