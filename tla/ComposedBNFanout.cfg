\* A batch norm without scale whose add_1 feeds a swish (Sigmoid and Mul):
\* the type-0 cut meets add_1 with two consumers besides mul_1.
CONSTANTS
    Node <- MCNode
    GraphDefs <- MCGraphDefsSwish
SPECIFICATION Spec
INVARIANTS EdgeSymmetry
\* The scan ends and the importer goes on to the next scan.
CHECK_DEADLOCK FALSE
