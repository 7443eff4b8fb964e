------------------------------- MODULE Surgery -------------------------------
(***************************************************************************)
(* The contract of the graph surgery primitives (tf_serializer.cpp        *)
(* DisconnectNode, MergeParentNode, MergeChildNode): starting from any    *)
(* graph ConstructGraph can build, a client calls the primitives in any   *)
(* order on any arguments that meet their stated precondition ("parent    *)
(* must currently be an input of base", "child must be an output of       *)
(* base").  lastCall records the call just made, so that what a single    *)
(* call may do can be stated as an action property.                      *)
(*                                                                         *)
(* Precondition says what a caller guarantees beyond the stated one:     *)
(*   "single"  the merged edge occurs once (no node consumes the other    *)
(*             twice, as a data and a "^" control input of one record     *)
(*             would make it);                                            *)
(*   "dag"     in addition, the edge is the only path between the two    *)
(*             nodes, so contracting it cannot close a cycle.             *)
(***************************************************************************)
EXTENDS TFGraph

CONSTANTS
    MaxIn,          \* the most inputs a record declares
    Precondition    \* "single" or "dag", see above

ASSUME Node = 1..Cardinality(Node) /\ MaxIn \in Nat /\ Precondition \in {"single", "dag"}

VARIABLES g, lastCall

vars == <<g, lastCall>>

NoCall == [kind |-> "none", base |-> CHOOSE n \in Node : TRUE, other |-> CHOOSE n \in Node : TRUE]

\* Inputs vectors of a well-formed GraphDef: every reference names an earlier
\* record (a DAG in idx order), at most MaxIn references per record.  Built
\* record by record (Node is 1..N) rather than filtered from [Node -> ...].
RECURSIVE InputListsUpTo(_)
InputListsUpTo(k) ==
    IF k = 0 THEN {<<>>}
    ELSE {l \o <<s>> : l \in InputListsUpTo(k - 1), s \in BoundedSeq(1..(k - 1), MaxIn)}

InputLists == InputListsUpTo(Cardinality(Node))

\* The merges the client may ask for, along the edge from u to v.
MergeAllowed(u, v) ==
    /\ Occurrences(g.out[u], v) = 1
    /\ Precondition = "dag" =>
          \A x \in ToSet(g.out[u]) \ {v} : x # v /\ v \notin Downstream(g, x)

Init ==
    /\ \E inl \in InputLists : g = BuiltGraph([n \in Node |-> "Op"], inl)
    /\ lastCall = NoCall

Disconnect(n) ==
    /\ ~Isolated(g, n)
    /\ ~DisconnectFault(g, n)
    /\ g' = DisconnectNode(g, n)
    /\ lastCall' = [kind |-> "Disconnect", base |-> n, other |-> n]

MergeParent(b, p) ==
    /\ b # p
    /\ Contains(g.in[b], p)
    /\ MergeAllowed(p, b)
    /\ g' = MergeParentNode(g, b, p)
    /\ lastCall' = [kind |-> "MergeParent", base |-> b, other |-> p]

MergeChild(b, c) ==
    /\ b # c
    /\ Contains(g.out[b], c)
    /\ MergeAllowed(b, c)
    /\ g' = MergeChildNode(g, b, c)
    /\ lastCall' = [kind |-> "MergeChild", base |-> b, other |-> c]

Next ==
    \/ \E n \in Node : Disconnect(n)
    \/ \E b, p \in Node : MergeParent(b, p)
    \/ \E b, c \in Node : MergeChild(b, c)

Spec == Init /\ [][Next]_vars

-----------------------------------------------------------------------------
\* Edge symmetry (spec 8): after any sequence of primitive calls, b occurs k
\* times in a's outputs exactly when a occurs k times in b's inputs.  A
\* broken count is a pointer to a node that will be deleted, read later by
\* DisconnectNode or a pass (use after free).
EdgeSymmetry == Symmetric(g)

\* The neighbours of the nodes of S that are not in X, as a bag, on the input
\* and on the output side.
ExternalIn(gr, S, X)  == FoldSet(LAMBDA n, acc : acc (+) ToBag(SelectSeq(gr.in[n], LAMBDA y : y \notin X)),
                                 EmptyBag, S)
ExternalOut(gr, S, X) == FoldSet(LAMBDA n, acc : acc (+) ToBag(SelectSeq(gr.out[n], LAMBDA y : y \notin X)),
                                 EmptyBag, S)

\* Merge conservation (spec 8): a merge of x into base leaves base connected
\* to exactly the neighbours base and x had outside {base, x}, with the same
\* multiplicities; x ends with no edges; base's pb_defs are its own followed
\* by x's, so attribute lookups still find every absorbed NodeDef.
MergeConservation ==
    [][lastCall'.kind \in {"MergeParent", "MergeChild"} =>
        LET b == lastCall'.base
            x == lastCall'.other
            S == {b, x}
        IN /\ ExternalIn(g', {b}, S) = ExternalIn(g, S, S)
           /\ ExternalOut(g', {b}, S) = ExternalOut(g, S, S)
           /\ Isolated(g', x)
           /\ g'.defs[b] = g.defs[b] \o g.defs[x]]_vars
=============================================================================
