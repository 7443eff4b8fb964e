\* Every reference form, including a control reference with a selector.
CONSTANTS
    Node <- MCNode3
    Missing = Missing
    MaxRefs = 1
    Ops = {"Op"}
SPECIFICATION Spec
INVARIANT FailsOnlyOnUndeclared
CHECK_DEADLOCK FALSE
