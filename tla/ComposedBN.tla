----------------------------- MODULE ComposedBN -----------------------------
(***************************************************************************)
(* The "merge composed BatchNormal" scan of OptimizeGraph on graphs that  *)
(* hold a tf.nn.batch_normalization expansion, with node names, followed  *)
(* by what LoadComposedBN binds when GenerateStaticGraph translates the   *)
(* fused node.                                                             *)
(*                                                                         *)
(* The scan walks seq_nodes with ir++ only and erases nothing: the nodes  *)
(* merged into the add_1 node stay in seq_nodes, cleared, for the prunes  *)
(* of the last scans.  The graph the scan starts from is the one the      *)
(* earlier scans leave (the variables' read Identities merged into their  *)
(* Const).                                                                 *)
(***************************************************************************)
EXTENDS BNFusion, FiniteSets

CONSTANT GraphDefs  \* the GraphDefs: sequences over Node of [name, op, in]

VARIABLES
    g,         \* the TFGraph
    name,      \* name[n]: the name of node n
    seq,       \* tf_graph.seq_nodes
    i,         \* the iterator ir, as an index into seq
    bnType,    \* BNAddType of the fused nodes (the field is read nowhere else)
    noStatic,  \* the nodes flagged no_static_node
    status     \* "running", "done", "fault"

vars == <<g, name, seq, i, bnType, noStatic, status>>

Init ==
    /\ \E gd \in GraphDefs :
          /\ g = BuiltGraph([n \in Node |-> gd[n].op], [n \in Node |-> gd[n].in])
          /\ name = [n \in Node |-> gd[n].name]
    /\ seq = NodeOrder
    /\ i = 1
    /\ bnType = <<>>
    /\ noStatic = {}
    /\ status = "running"

\* One iteration: if (CheckComposedBNAdd(cur_node)) FuseComposedBN(cur_node);
\* ir++.
ScanStep ==
    /\ status = "running"
    /\ i <= Len(seq)
    /\ LET n == seq[i]
           c == CheckComposedBNAdd(g, name, n)
           f == FuseComposedBN(g, name, n, c.type)
       IN CASE c.ub \/ (c.bn /\ f.ub) ->
                 status' = "fault" /\ UNCHANGED <<g, name, i, bnType, noStatic>>
            [] c.bn ->
                 /\ g' = f.g
                 /\ name' = [name EXCEPT ![n] = f.name]
                 /\ bnType' = (n :> c.type) @@ bnType
                 /\ noStatic' = noStatic \cup f.noStatic
                 /\ i' = i + 1
                 /\ UNCHANGED status
            [] OTHER -> i' = i + 1 /\ UNCHANGED <<g, name, bnType, noStatic, status>>
    /\ UNCHANGED seq

ScanEnd ==
    /\ status = "running"
    /\ i > Len(seq)
    /\ status' = "done"
    /\ UNCHANGED <<g, name, seq, i, bnType, noStatic>>

Next == ScanStep \/ ScanEnd

\* The scan runs on one thread to its end.
Spec == Init /\ [][Next]_vars /\ WF_vars(Next)

-----------------------------------------------------------------------------
\* What a producer is to the batch norm, told by its name: a parameter
\* variable, the epsilon add/y, another constant (weights, paddings), or
\* the data.
Role(n) ==
    CASE Finds(name[n], <<"add", "y">>) -> "epsilon"
      [] name[n][Len(name[n])] \in {"gamma", "beta", "moving_mean", "moving_variance"} ->
            name[n][Len(name[n])]
      [] g.op[n] = "Const" -> "constant"
      [] OTHER -> "data"

\* LoadComposedBN takes inputs[i++] in this order; without scale there is
\* no gamma input (CreatePresetNode makes a Const of ones, shaped as the
\* variance read at the same index).
LoadComposedBN(t) ==
    IF t = 1 THEN <<"data", "gamma", "moving_variance", "epsilon", "beta", "moving_mean">>
    ELSE <<"data", "moving_variance", "epsilon", "beta", "moving_mean">>

Fused == DOMAIN bnType

TypeOK ==
    /\ g.op \in [Node -> {gd[n].op : gd \in GraphDefs, n \in Node} \cup {"ComposedBN"}]
    /\ g.in \in [Node -> Seq(Node)] /\ g.out \in [Node -> Seq(Node)]
    /\ i \in 1..(Len(seq) + 1)
    /\ bnType \in [Fused -> {0, 1}]
    /\ noStatic \subseteq Node
    /\ status \in {"running", "done", "fault"}

\* The recursive merge, its name-probed cuts included, never dereferences
\* or erases end() and never recurses without end.
BNFusionSafe == status # "fault"

\* The fusion keeps every edge recorded at both ends: the cuts erase the
\* edges they mean (mul -> mul_2, add_1 -> mul_1) and no other.
EdgeSymmetry == Symmetric(g)

\* When the scan ends, every fused node has, at the positions LoadComposedBN
\* reads, producers of the roles it binds them to: the data, the scale, the
\* variance, epsilon, the offset and the mean, in that order.
ComposedBNBinds ==
    status = "done" =>
        \A n \in Fused :
            LET want == LoadComposedBN(bnType[n])
            IN /\ Len(g.in[n]) >= Len(want)
               /\ \A k \in 1..Len(want) : Role(g.in[n][k]) = want[k]

=============================================================================
