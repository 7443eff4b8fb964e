------------------------------- MODULE TFGraph -------------------------------
(***************************************************************************)
(* The foreign-graph data model of the TensorFlow serializer (TFNode and  *)
(* TFGraph of tf_serializer.cpp) and the graph surgery primitives every   *)
(* rewrite pass is built from: DisconnectNode, MergeParentNode and        *)
(* MergeChildNode.                                                        *)
(*                                                                         *)
(* A TFNode is identified by its creation index idx (1..N, the position   *)
(* of its NodeDef in the GraphDef).  A graph value g is a record          *)
(*   gr.op[n]   the operator-type tag of n                                 *)
(*   gr.in[n]   the ordered inputs vector of n   (Seq(Node))               *)
(*   gr.out[n]  the ordered outputs vector of n  (Seq(Node))               *)
(*   gr.defs[n] the pb_defs vector of n: the NodeDefs n stands for, given  *)
(*             by the idx of the record they came from                    *)
(* The primitives are pure operators g -> g, so that every module that   *)
(* performs surgery (the passes, the RNN extraction) applies the same     *)
(* definitions.  Each primitive also has a Fault predicate: the states in *)
(* which the C++ code erases an end() iterator, which is undefined        *)
(* behaviour; callers turn it into a terminal fault.                      *)
(***************************************************************************)
EXTENDS Naturals, Sequences, SequencesExt

CONSTANT Node

\* How many times x occurs in the sequence s (edges are a multigraph: a node
\* may consume the same producer twice, e.g. a data and a control input).
Occurrences(s, x) == Len(SelectSeq(s, LAMBDA y : y = x))

\* One "find the first x and replace it by y, then break" loop, as in the
\* re-wiring loops of MergeParentNode and MergeChildNode; a loop that finds
\* no occurrence leaves the vector unchanged.
ReplaceFirst(s, x, y) ==
    IF Contains(s, x) THEN ReplaceAt(s, SelectInSeq(s, LAMBDA v : v = x), y) ELSE s

SetIn(gr, x, s)  == [gr EXCEPT !.in[x] = s]
SetOut(gr, x, s) == [gr EXCEPT !.out[x] = s]

\* The bag of edges of g, counted from the producer side and from the
\* consumer side.
OutEdgeCount(gr, a, b) == Occurrences(gr.out[a], b)
InEdgeCount(gr, a, b)  == Occurrences(gr.in[b], a)

\* Bidirectional edge consistency: b is k times in a's outputs iff a is k
\* times in b's inputs.
Symmetric(gr) ==
    \A a, b \in Node : OutEdgeCount(gr, a, b) = InEdgeCount(gr, a, b)

Isolated(gr, n) == gr.in[n] = <<>> /\ gr.out[n] = <<>>

\* The nodes reachable from the set S by one or more output edges.
RECURSIVE ReachFrom(_, _, _)
ReachFrom(gr, S, seen) ==
    LET next == UNION {ToSet(gr.out[x]) : x \in S} \ seen
    IN IF next = {} THEN seen ELSE ReachFrom(gr, next, seen \cup next)

Downstream(gr, n) == ReachFrom(gr, {n}, {})

Acyclic(gr) == \A n \in Node : n \notin Downstream(gr, n)

\* The nodes in creation (idx) order.
NodeOrder == [k \in 1..Cardinality(Node) |-> CHOOSE n \in Node : Cardinality({m \in Node : m < n}) = k - 1]

\* The outputs vectors that ConstructGraph's second scan derives from the
\* inputs vectors: it visits the records in idx order and, for every
\* resolved reference of consumer m to producer x, appends m to x's outputs.
BuiltOutputs(inl) ==
    [x \in Node |->
        FoldLeft(LAMBDA acc, m : acc \o [k \in 1..Occurrences(inl[m], x) |-> m],
                 <<>>, NodeOrder)]

\* The graph ConstructGraph yields for operator tags ops and resolved inputs
\* vectors inl: one node per record, pb_defs holding its own record.
BuiltGraph(ops, inl) ==
    [op |-> ops, in |-> inl, out |-> BuiltOutputs(inl), defs |-> [n \in Node |-> <<n>>]]

-----------------------------------------------------------------------------
(***************************************************************************)
(* DisconnectNode(cur_node): for every input x (with repetition) erase    *)
(* the first cur_node from x's outputs, clear the inputs; then for every  *)
(* output y erase the first cur_node from y's inputs, clear the outputs.  *)
(* A search that finds nothing logs "ERROR on node connection" and then   *)
(* erases end(): DisconnectFault.                                         *)
(***************************************************************************)
\* The first half of DisconnectNode: the loop over the inputs, then
\* inputs.clear().
DisconnectInputs(gr, n) ==
    SetIn(FoldLeft(LAMBDA acc, x : SetOut(acc, x, RemoveFirst(acc.out[x], n)), gr, gr.in[n]),
          n, <<>>)

DisconnectFault(gr, n) ==
    LET half == DisconnectInputs(gr, n)
    IN \/ \E x \in Node : Occurrences(gr.out[x], n) < Occurrences(gr.in[n], x)
       \/ \E y \in Node : Occurrences(half.in[y], n) < Occurrences(half.out[n], y)

\* Mutant: the neighbours drop n, but n's own vectors are not cleared.
DisconnectNodeNoClear(gr, n) ==
    LET half == DisconnectInputs(gr, n)
    IN [FoldLeft(LAMBDA acc, y : SetIn(acc, y, RemoveFirst(acc.in[y], n)), half, half.out[n])
          EXCEPT !.in[n] = gr.in[n]]

DisconnectNode(gr, n) ==
    LET half == DisconnectInputs(gr, n)
    IN SetOut(FoldLeft(LAMBDA acc, y : SetIn(acc, y, RemoveFirst(acc.in[y], n)), half, half.out[n]),
              n, <<>>)

(***************************************************************************)
(* MergeParentNode(base, parent): erase the first parent from base's      *)
(* inputs and append parent's inputs; for each input of parent replace    *)
(* the first parent in its outputs by base; for each output of parent     *)
(* other than base, push it on base's outputs and replace the first       *)
(* parent in its inputs by base; append parent's pb_defs; clear parent.   *)
(* Erasing a parent that is not an input of base erases end().           *)
(* Every loop is a FoldLeft over the vector the C++ loop walks, so the    *)
(* operator is exact also when merges have made the graph cyclic.        *)
(***************************************************************************)
MergeParentFault(gr, b, p) == ~Contains(gr.in[b], p)

\* Mutant: the grandparents' outputs are not re-pointed from parent to base.
MergeParentNodeNoRewire(gr, b, p) ==
    LET g1 == SetIn(gr, b, RemoveFirst(gr.in[b], p) \o gr.in[p])
        g3 == FoldLeft(LAMBDA acc, x :
                          IF x = b THEN acc
                          ELSE SetIn(SetOut(acc, b, Append(acc.out[b], x)),
                                     x, ReplaceFirst(acc.in[x], p, b)),
                       g1, g1.out[p])
    IN [g3 EXCEPT !.defs[b] = @ \o gr.defs[p], !.in[p] = <<>>, !.out[p] = <<>>]

MergeParentNode(gr, b, p) ==
    LET g1 == SetIn(gr, b, RemoveFirst(gr.in[b], p) \o gr.in[p])
        g2 == FoldLeft(LAMBDA acc, x : SetOut(acc, x, ReplaceFirst(acc.out[x], p, b)),
                       g1, gr.in[p])
        g3 == FoldLeft(LAMBDA acc, x :
                          IF x = b THEN acc
                          ELSE SetIn(SetOut(acc, b, Append(acc.out[b], x)),
                                     x, ReplaceFirst(acc.in[x], p, b)),
                       g2, g2.out[p])
    IN [g3 EXCEPT !.defs[b] = @ \o gr.defs[p], !.in[p] = <<>>, !.out[p] = <<>>]

(***************************************************************************)
(* MergeChildNode(base, child): the mirror image.  Erase the first child  *)
(* from base's outputs and append child's outputs; re-point each output   *)
(* of child at base; push every input of child other than base on base's  *)
(* inputs, re-pointing its outputs; append child's pb_defs; clear child.  *)
(***************************************************************************)
MergeChildFault(gr, b, c) == ~Contains(gr.out[b], c)

\* Mutant: child's pb_defs are not appended to base's.
MergeChildNodeNoDefs(gr, b, c) ==
    LET g1 == SetOut(gr, b, RemoveFirst(gr.out[b], c) \o gr.out[c])
        g2 == FoldLeft(LAMBDA acc, x : SetIn(acc, x, ReplaceFirst(acc.in[x], c, b)),
                       g1, g1.out[c])
        g3 == FoldLeft(LAMBDA acc, x :
                          IF x = b THEN acc
                          ELSE SetOut(SetIn(acc, b, Append(acc.in[b], x)),
                                      x, ReplaceFirst(acc.out[x], c, b)),
                       g2, g2.in[c])
    IN [g3 EXCEPT !.in[c] = <<>>, !.out[c] = <<>>]

\* Mutant: the grandchildren's inputs are not re-pointed from child to base.
MergeChildNodeNoRepoint(gr, b, c) ==
    LET g1 == SetOut(gr, b, RemoveFirst(gr.out[b], c) \o gr.out[c])
        g3 == FoldLeft(LAMBDA acc, x :
                          IF x = b THEN acc
                          ELSE SetOut(SetIn(acc, b, Append(acc.in[b], x)),
                                      x, ReplaceFirst(acc.out[x], c, b)),
                       g1, g1.in[c])
    IN [g3 EXCEPT !.defs[b] = @ \o gr.defs[c], !.in[c] = <<>>, !.out[c] = <<>>]

\* Mutant: child's inputs are pushed at the front of base's inputs.
MergeChildNodePrepend(gr, b, c) ==
    LET g1 == SetOut(gr, b, RemoveFirst(gr.out[b], c) \o gr.out[c])
        g2 == FoldLeft(LAMBDA acc, x : SetIn(acc, x, ReplaceFirst(acc.in[x], c, b)),
                       g1, g1.out[c])
        g3 == FoldLeft(LAMBDA acc, x :
                          IF x = b THEN acc
                          ELSE SetOut(SetIn(acc, b, <<x>> \o acc.in[b]),
                                      x, ReplaceFirst(acc.out[x], c, b)),
                       g2, g2.in[c])
    IN [g3 EXCEPT !.defs[b] = @ \o gr.defs[c], !.in[c] = <<>>, !.out[c] = <<>>]

MergeChildNode(gr, b, c) ==
    LET g1 == SetOut(gr, b, RemoveFirst(gr.out[b], c) \o gr.out[c])
        g2 == FoldLeft(LAMBDA acc, x : SetIn(acc, x, ReplaceFirst(acc.in[x], c, b)),
                       g1, g1.out[c])
        g3 == FoldLeft(LAMBDA acc, x :
                          IF x = b THEN acc
                          ELSE SetOut(SetIn(acc, b, Append(acc.in[b], x)),
                                      x, ReplaceFirst(acc.out[x], c, b)),
                       g2, g2.in[c])
    IN [g3 EXCEPT !.defs[b] = @ \o gr.defs[c], !.in[c] = <<>>, !.out[c] = <<>>]

=============================================================================
