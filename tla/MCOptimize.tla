----------------------------- MODULE MCOptimize -----------------------------
EXTENDS Lowering

MCNode == 1..5
MCNode3 == 1..3
MCNode6 == 1..6
MCNode4 == 1..4

\* Operator tags of the fusion patterns of scans 2, 5, 8 and 9.
MCKindsFuse == {"Const", "Placeholder", "Identity", "Conv2D", "BiasAdd", "Relu", "Minimum", "Reshape"}

\* The prediction head and the input queue: scans 1, 2, 3, 12 and 13, the
\* ConcatV2 axis of scan 2, and the prunes of scans 14 and 15 behind them.
MCKindsHead == {"Const", "Placeholder", "Reshape", "Softmax", "MatMul", "Squeeze", "Shape", "ArgMax",
                "ConcatV2", "FIFOQueueV2", "QueueDequeueManyV2"}

\* Spatial operators: scans 4, 7, 10 and 11.
MCKindsSpatial == {"Const", "Placeholder", "Pad", "Conv2D", "Mean", "ExpandDims",
                   "ResizeNearestNeighbor", "Mul", "StridedSlice", "Shape"}

\* A residual-style sum of a convolution and an Identity of it: Add(c, Identity(c)).
MCKindsResidual == {"Const", "Placeholder", "Conv2D", "Identity", "Add"}

\* A model whose output is a MatMul without bias.
MCKindsLogits == {"Const", "Placeholder", "MatMul"}

\* A dense layer written as tf.matmul(x, W) + b: scans 5 and 6.
MCKindsDense == {"Const", "Placeholder", "MatMul", "Add"}
=============================================================================
