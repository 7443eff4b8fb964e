--------------------------- MODULE MCElementwise ---------------------------
EXTENDS Elementwise

\* Every 4-d shape with dims of at most 2 and at most one zero dim: every
\* loop runs zero, one and two times, and H*W = 4 differs from C = 2.
MCShapes == {d \in [1..4 -> 0..2] : \A a, b \in 1..4 : d[a] = 0 /\ d[b] = 0 => a = b}
=============================================================================
