------------------------------ MODULE BNFusion ------------------------------
(***************************************************************************)
(* The composed batch-norm fusion of OptimizeGraph: CheckComposedBNAdd,   *)
(* BNRecursiveInputMerge and FuseComposedBN, as pure operators on a graph *)
(* value and the node names, so that Optimize (the scan in the pipeline)  *)
(* and ComposedBN (the scan on named batch-norm graphs) apply the same    *)
(* definitions.                                                            *)
(*                                                                         *)
(* tf.nn.batch_normalization expands, under the scope .../batchnorm/, to  *)
(*   add = var + add/y; Rsqrt = rsqrt(add);                               *)
(*   with scale:    mul = Rsqrt * gamma; mul_1 = x * mul; mul_2 = mean * mul*)
(*                  sub = beta - mul_2; add_1 = mul_1 + sub               *)
(*   without scale: mul = x * Rsqrt; mul_1 = mean * Rsqrt;               *)
(*                  sub = beta - mul_1; add_1 = mul + sub                 *)
(* and the code recognises the parts by std::string::find on names.      *)
(*                                                                         *)
(* Names.  A name is a sequence of path segments; name.find("/w1/../wk")  *)
(* holds where a segment after the first equals w1, ... and the last one *)
(* begins with wk (Finds).  SegPrefixes lists the segments of the alphabet  *)
(* that begin with another one ("mul_1" begins with "mul").               *)
(*                                                                         *)
(* A call returns the graph and whether it reached undefined behaviour   *)
(* (ub): a dereference of end() or an erase of it.                        *)
(***************************************************************************)
EXTENDS TFGraph

SegPrefixes == {<<"mul_1", "mul">>, <<"mul_2", "mul">>, <<"add_1", "add">>}

StartsWith(a, w) == a = w \/ <<a, w>> \in SegPrefixes

\* name.find("/" \o pat[1] \o "/" \o ... \o pat[k]) != npos.
Finds(nm, pat) ==
    \E k \in 2..Len(nm) :
        /\ k + Len(pat) - 1 <= Len(nm)
        /\ \A t \in 1..(Len(pat) - 1) : nm[k + t - 1] = pat[t]
        /\ StartsWith(nm[k + Len(pat) - 1], pat[Len(pat)])

Ok(gr)   == [g |-> gr, ub |-> FALSE]
Fail(gr) == [g |-> gr, ub |-> TRUE]

\* The recursion of BNRecursiveInputMerge on a batch-norm expansion is at
\* most five calls deep (add_1, mul_1, mul, Rsqrt, add); deeper means the
\* walk has left the subgraph, and is cut here as a stack overflow.
BNMaxDepth == 8

-----------------------------------------------------------------------------
\* CheckComposedBNAdd: an Add whose inputs are a Mul and a Sub and whose
\* name holds "/add_1"; BNAddType is 1 when one of them holds "/mul_1".
\* inputs[0] and inputs[1] are read whatever the vector's size.
CheckComposedBNAdd(gr, nm, n) ==
    LET ins == gr.in[n]
    IN CASE gr.op[n] # "Add" -> [ub |-> FALSE, bn |-> FALSE, type |-> 0]
         [] Len(ins) < 2 -> [ub |-> TRUE, bn |-> FALSE, type |-> 0]
         [] gr.op[ins[1]] # "Mul" \/ gr.op[ins[2]] # "Sub" \/ ~Finds(nm[n], <<"add_1">>) ->
              [ub |-> FALSE, bn |-> FALSE, type |-> 0]
         [] OTHER ->
              [ub |-> FALSE, bn |-> TRUE,
               type |-> IF Finds(nm[ins[1]], <<"mul_1">>) \/ Finds(nm[ins[2]], <<"mul_1">>)
                        THEN 1 ELSE 0]

\* Scale variant, a "/mul" node that is neither mul_1 nor mul_2: erase the
\* edge mul -> mul2.  The output probe looks for "/mul2", which no node of
\* the expansion holds, so the second output is taken when the first does
\* not match; the input probe takes the first input holding "/mul", else
\* the second.
CutMul2(gr, nm, n) ==
    LET outs == gr.out[n]
        k    == IF outs # <<>> /\ Finds(nm[outs[1]], <<"mul2">>) THEN 1 ELSE 2
        m2   == outs[k]
        ins  == gr.in[m2]
        k2   == IF ins # <<>> /\ Finds(nm[ins[1]], <<"mul">>) THEN 1 ELSE 2
    IN IF Len(outs) < k \/ Len(ins) < k2 THEN Fail(gr)
       ELSE Ok(SetIn(SetOut(gr, n, RemoveAt(outs, k)), m2, RemoveAt(ins, k2)))

\* Mutant: the add_1 -> mul_1 edge is erased on the mul_1 side only.
CutAdd1OneSided(gr, nm, n) ==
    LET ins == gr.in[n]
        k   == IF ins # <<>> /\ Finds(nm[ins[1]], <<"add_1">>) THEN 1 ELSE 2
    IN CASE Len(ins) < k -> Fail(gr)
         [] ~Finds(nm[ins[k]], <<"add_1">>) -> Ok(gr)
         [] OTHER -> Ok(SetIn(gr, n, RemoveAt(ins, k)))

\* Variant without scale, the "/mul_1" node: erase the edge add_1 -> mul_1
\* (which the merge of mul into add_1 has made) when the first input, else
\* the second, holds "/add_1"; on the add_1 side the first output holding
\* "/mul_1", else the second, is erased.
CutAdd1(gr, nm, n) ==
    LET ins  == gr.in[n]
        k    == IF ins # <<>> /\ Finds(nm[ins[1]], <<"add_1">>) THEN 1 ELSE 2
        a1   == ins[k]
        outs == gr.out[a1]
        k3   == IF outs # <<>> /\ Finds(nm[outs[1]], <<"mul_1">>) THEN 1 ELSE 2
    IN CASE Len(ins) < k -> Fail(gr)
         [] ~Finds(nm[a1], <<"add_1">>) -> Ok(gr)
         [] Len(outs) < k3 -> Fail(gr)
         [] OTHER -> Ok(SetOut(SetIn(gr, n, RemoveAt(ins, k)), a1, RemoveAt(outs, k3)))

\* Mutant: the scale variant cuts at mul_2 too (the "/mul_2" test dropped).
MergeHeadCutsMul2(gr, nm, n, t) ==
    CASE ~Finds(nm[n], <<"mul">>) -> [r |-> Ok(gr), skip |-> FALSE]
      [] t = 1 /\ Finds(nm[n], <<"mul_1">>) -> [r |-> Ok(gr), skip |-> TRUE]
      [] t = 1 -> [r |-> CutMul2(gr, nm, n), skip |-> FALSE]
      [] Finds(nm[n], <<"mul_1">>) -> [r |-> CutAdd1(gr, nm, n), skip |-> FALSE]
      [] OTHER -> [r |-> Ok(gr), skip |-> TRUE]

\* Mutant: without scale, the mul node does not skip its data input.
MergeHeadNoSkip(gr, nm, n, t) ==
    CASE ~Finds(nm[n], <<"mul">>) -> [r |-> Ok(gr), skip |-> FALSE]
      [] t = 1 /\ Finds(nm[n], <<"mul_1">>) -> [r |-> Ok(gr), skip |-> TRUE]
      [] t = 1 /\ ~Finds(nm[n], <<"mul_2">>) -> [r |-> CutMul2(gr, nm, n), skip |-> FALSE]
      [] t = 1 -> [r |-> Ok(gr), skip |-> FALSE]
      [] Finds(nm[n], <<"mul_1">>) -> [r |-> CutAdd1(gr, nm, n), skip |-> FALSE]
      [] OTHER -> [r |-> Ok(gr), skip |-> FALSE]

\* The head of BNRecursiveInputMerge: the name tests, the cut they call for,
\* and whether the loop skips inputs[0] (mul_1_node or mul_node).
MergeHead(gr, nm, n, t) ==
    CASE ~Finds(nm[n], <<"mul">>) -> [r |-> Ok(gr), skip |-> FALSE]
      [] t = 1 /\ Finds(nm[n], <<"mul_1">>) -> [r |-> Ok(gr), skip |-> TRUE]
      [] t = 1 /\ ~Finds(nm[n], <<"mul_2">>) -> [r |-> CutMul2(gr, nm, n), skip |-> FALSE]
      [] t = 1 -> [r |-> Ok(gr), skip |-> FALSE]
      [] Finds(nm[n], <<"mul_1">>) -> [r |-> CutAdd1(gr, nm, n), skip |-> FALSE]
      [] OTHER -> [r |-> Ok(gr), skip |-> TRUE]

\* BNRecursiveInputMerge(node): after the head, walk a copy of the inputs;
\* every input but a skipped inputs[0] and the Consts inherits BNAddType,
\* is merged recursively and then MergeParentNode'd into node.
RECURSIVE BNRecursiveInputMerge(_, _, _, _, _)
BNRecursiveInputMerge(gr, nm, n, t, depth) ==
    LET h   == MergeHead(gr, nm, n, t)
        cpy == h.r.g.in[n]
        Body(acc, k) ==
            LET x == cpy[k]
                r == BNRecursiveInputMerge(acc.g, nm, x, t, depth + 1)
            IN CASE acc.ub \/ (h.skip /\ k = 1) \/ acc.g.op[x] = "Const" -> acc
                 [] r.ub \/ MergeParentFault(r.g, n, x) -> Fail(r.g)
                 [] OTHER -> Ok(MergeParentNode(r.g, n, x))
    IN IF depth > BNMaxDepth \/ h.r.ub THEN Fail(gr)
       ELSE FoldLeft(Body, h.r, [k \in 1..Len(cpy) |-> k])

\* name.replace(find("/add_1"), 6, "bn.fused"): the segment before add_1
\* and "bn.fused" become one segment.
Renamed(nm) ==
    LET k == CHOOSE k \in 2..Len(nm) : StartsWith(nm[k], "add_1")
                                       /\ \A m \in 2..(k - 1) : ~StartsWith(nm[m], "add_1")
    IN SubSeq(nm, 1, k - 2) \o << <<nm[k - 1], "bn.fused">> >> \o SubSeq(nm, k + 1, Len(nm))

\* Mutant: the fused node is retyped to TensorFlow's own FusedBatchNorm.
FuseComposedBNAsFused(gr, nm, n, t) ==
    LET r == BNRecursiveInputMerge(gr, nm, n, t, 1)
    IN [g        |-> [r.g EXCEPT !.op[n] = "FusedBatchNorm"],
        ub       |-> r.ub,
        name     |-> Renamed(nm[n]),
        noStatic |-> {x \in ToSet(r.g.in[n]) : Finds(nm[x], <<"add", "y">>)}]

\* FuseComposedBN: merge the expansion into the add_1 node, retype it and
\* rename it, and flag its inputs holding "/add/y" as no_static_node.
FuseComposedBN(gr, nm, n, t) ==
    LET r == BNRecursiveInputMerge(gr, nm, n, t, 1)
    IN [g        |-> [r.g EXCEPT !.op[n] = "ComposedBN"],
        ub       |-> r.ub,
        name     |-> Renamed(nm[n]),
        noStatic |-> {x \in ToSet(r.g.in[n]) : Finds(nm[x], <<"add", "y">>)}]
=============================================================================
