\* Two records with up to two references each: a producer referenced twice
\* by one consumer, forward references and self references all occur.
CONSTANTS
    Node <- MCNode
    Missing = Missing
    MaxRefs = 2
    Ops = {"Op"}
SPECIFICATION Spec
INVARIANTS
    TypeOK
    RoundTrip
CHECK_DEADLOCK FALSE
