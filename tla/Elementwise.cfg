CONSTANTS
    Kernel = "Sigmoid"
    Shapes <- MCShapes
SPECIFICATION Spec
INVARIANT TypeOK
PROPERTY Refinement
CHECK_DEADLOCK FALSE
