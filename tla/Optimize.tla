------------------------------ MODULE Optimize ------------------------------
(***************************************************************************)
(* TFSerializer::OptimizeGraph and the two helpers it calls               *)
(* (CleanupResizeNearestNeighbor, MergeReluMinimum): the fixed sequence   *)
(* of scans over tf_graph.seq_nodes that fuse and prune the foreign       *)
(* graph before lowering.                                                 *)
(*                                                                         *)
(* Each scan is a loop of the C++ code over seq_nodes with an iterator;   *)
(* here the iterator is the index i into seq and one step of the model is *)
(* one iteration of the loop body, the whole body: its guards, every      *)
(* surgery primitive it calls, the erase from seq_nodes and the delete.   *)
(* "ir = erase(ir); continue" keeps i, "ir++" advances it, "break" ends   *)
(* the scan, "ir = begin()" restarts it.                                  *)
(*                                                                         *)
(* A body that indexes past the end of an inputs/outputs vector, erases   *)
(* an end() iterator inside a primitive or dereferences a null pointer    *)
(* has undefined behaviour; the model stops in status "fault" there.      *)
(* freed holds the deleted TFNodes: a pointer to one of them left in some *)
(* live node's vectors is a dangling pointer.                             *)
(*                                                                         *)
(* The composed batch-norm fusion (scan 6) applies the operators of      *)
(* module BNFusion; the names here carry no batch-norm scope (OptName).   *)
(***************************************************************************)
EXTENDS BNFusion, FiniteSets

CONSTANTS
    Kinds,        \* the operator-type tags the records may carry
    MaxNodes,     \* Node = 1..MaxNodes
    RepeatedInputs, \* may a node consume the same producer twice (x + x)
    SharedConsts    \* may a Const feed several consumers

ASSUME Node = 1..MaxNodes

\* nullptr (nodes are 1..N).
Null == 0

\* The scans of OptimizeGraph, in program order.
Scans == <<"ReshapeHead", "SqueezeIdentity", "FIFOQueue", "ExpandDims", "BiasAdd",
           "ComposedBN", "Resize", "ReluMinimum", "InputReshape", "ShapeSlice", "PadMean",
           "ArgMax", "LastSqueeze", "Isolated", "Sourceless">>

VARIABLES
    g,        \* the TFGraph: op, in, out, defs of every TFNode ever created
    seq,      \* tf_graph.seq_nodes
    freed,    \* TFNodes deleted so far
    scan,     \* index into Scans of the running loop
    i,        \* the loop iterator, as an index into seq
    status    \* "running", "done" (OptimizeGraph returned), "fault" (UB)

vars == <<g, seq, freed, scan, i, status>>

-----------------------------------------------------------------------------
(***************************************************************************)
(* The outcome of one loop body: the graph after it, whether it erased    *)
(* the current element from seq_nodes, whether it deleted it, and how the *)
(* loop goes on ("next", "stay", "break", "restart", or "ub").            *)
(***************************************************************************)
Outcome(gr, erase, delete, then) == [g |-> gr, erase |-> erase, delete |-> delete, then |-> then]
Next_(gr)     == Outcome(gr, FALSE, FALSE, "next")
Deleted(gr)   == Outcome(gr, TRUE, TRUE, "stay")
UB            == Outcome(g, FALSE, FALSE, "ub")

Op(n) == g.op[n]

\* The last element of s whose op is o (the "remember the last match" loop
\* of the Squeeze scan), or Null.
LastOfOp(gr, s, o) ==
    LET k == SelectLastInSeq(s, LAMBDA x : gr.op[x] = o) IN IF k = 0 THEN Null ELSE s[k]

\* The first element of s whose op is o, or Null.
FirstOfOp(gr, s, o) ==
    LET k == SelectInSeq(s, LAMBDA x : gr.op[x] = o) IN IF k = 0 THEN Null ELSE s[k]

-----------------------------------------------------------------------------
(***************************************************************************)
(* Scan 1, "clean up the predictions module": a Reshape fed by a Softmax  *)
(* is disconnected and deleted; a Reshape feeding a Softmax or MatMul     *)
(* loses its Const operand (else its second operand) and is merged into   *)
(* its remaining producer.                                                *)
(***************************************************************************)
ReshapeHeadStep(cur) ==
    LET ins == g.in[cur]
    IN CASE Op(cur) # "Reshape" -> Next_(g)
         [] Len(ins) < 2 -> UB
         [] Op(ins[1]) = "Softmax" \/ Op(ins[2]) = "Softmax" ->
              IF DisconnectFault(g, cur) THEN UB ELSE Deleted(DisconnectNode(g, cur))
         [] g.out[cur] = <<>> -> UB
         [] Op(g.out[cur][1]) \in {"Softmax", "MatMul"} ->
              LET dropped == IF Op(ins[1]) = "Const" THEN ins[1] ELSE ins[2]
                  kept    == IF Op(ins[1]) = "Const" THEN ins[2] ELSE ins[1]
                  g1      == DisconnectNode(g, dropped)
              IN IF DisconnectFault(g, dropped) \/ MergeChildFault(g1, kept, cur) THEN UB
                 ELSE Deleted(MergeChildNode(g1, kept, cur))
         [] OTHER -> Next_(g)

(***************************************************************************)
(* Scan 2: a Squeeze feeding a Softmax (its Shape consumer disconnected   *)
(* first) is merged into its producer; a Squeeze with one consumer is     *)
(* merged into that consumer; an Identity is merged into its producer;    *)
(* a ConcatV2 records its first Const input's NodeDef and disconnects it. *)
(***************************************************************************)
SqueezeIdentityStep(cur) ==
    LET ins     == g.in[cur]
        outs    == g.out[cur]
        softmax == LastOfOp(g, outs, "Softmax")
        shape   == LastOfOp(g, outs, "Shape")
        g1      == IF shape # Null THEN DisconnectNode(g, shape) ELSE g
        axis    == FirstOfOp(g, ins, "Const")
    IN CASE Op(cur) = "Squeeze" /\ softmax # Null ->
              IF (shape # Null /\ DisconnectFault(g, shape)) \/ g1.in[cur] = <<>>
                 \/ MergeChildFault(g1, g1.in[cur][1], cur) THEN UB
              ELSE Deleted(MergeChildNode(g1, g1.in[cur][1], cur))
         [] Op(cur) = "Squeeze" /\ Len(outs) = 1 ->
              IF MergeParentFault(g, outs[1], cur) THEN UB
              ELSE Deleted(MergeParentNode(g, outs[1], cur))
         [] Op(cur) = "Identity" ->
              IF ins = <<>> \/ MergeChildFault(g, ins[1], cur) THEN UB
              ELSE Deleted(MergeChildNode(g, ins[1], cur))
         [] Op(cur) = "ConcatV2" /\ axis # Null ->
              IF DisconnectFault(g, axis) THEN UB
              ELSE Next_(DisconnectNode([g EXCEPT !.defs[cur] = Append(@, g.defs[axis][1])], axis))
         [] OTHER -> Next_(g)

(***************************************************************************)
(* Scan 3: the first FIFOQueueV2 absorbs its first consumer, after that   *)
(* consumer, if a QueueDequeueManyV2, absorbed its second operand; break. *)
(***************************************************************************)
FIFOQueueStep(cur) ==
    LET q   == g.out[cur][1]
        deq == Op(q) = "QueueDequeueManyV2"
        g1  == IF deq THEN MergeParentNode(g, q, g.in[q][2]) ELSE g
    IN CASE Op(cur) # "FIFOQueueV2" -> Next_(g)
         [] g.out[cur] = <<>> -> UB
         [] (deq /\ Len(g.in[q]) < 2) \/ MergeChildFault(g1, cur, q) -> UB
         [] OTHER -> Outcome(MergeChildNode(g1, cur, q), FALSE, FALSE, "break")

(***************************************************************************)
(* Scan 4: every ExpandDims is removed.  The branch for two constant      *)
(* operands tests the tag "Constant", which no TensorFlow op carries.     *)
(* Otherwise the Const operand (else the first) is disconnected and the   *)
(* ExpandDims is merged into its first consumer.                          *)
(***************************************************************************)
ExpandDimsStep(cur) ==
    LET ins     == g.in[cur]
        dropped == IF Op(ins[2]) = "Const" THEN ins[2] ELSE ins[1]
        g1      == DisconnectNode(g, dropped)
        child   == g1.out[cur][1]
    IN CASE Op(cur) # "ExpandDims" -> Next_(g)
         [] Len(ins) < 2 -> UB
         [] Op(ins[1]) = "Constant" /\ Op(ins[2]) = "Const" ->
              LET c  == g.out[cur][1]
                  h1 == DisconnectNode(g, ins[2])
                  h2 == DisconnectNode(h1, cur)
              IN IF g.out[cur] = <<>> \/ DisconnectFault(g, ins[2]) \/ DisconnectFault(h1, cur) THEN UB
                 ELSE Deleted([h2 EXCEPT !.in[c] = Append(@, ins[2]), !.out[ins[2]] = Append(@, c)])
         [] DisconnectFault(g, dropped) \/ g1.out[cur] = <<>> \/ MergeParentFault(g1, child, cur) -> UB
         [] OTHER -> Deleted(MergeParentNode(g1, child, cur))

(***************************************************************************)
(* Scan 5: a Conv2D, DepthwiseConv2dNative or MatMul absorbs its first    *)
(* consumer when that is a BiasAdd or an Add.                             *)
(***************************************************************************)
BiasAddStep(cur) ==
    LET c == g.out[cur][1]
    IN CASE Op(cur) \notin {"Conv2D", "DepthwiseConv2dNative", "MatMul"} -> Next_(g)
         [] g.out[cur] = <<>> -> UB
         [] Op(c) \in {"BiasAdd", "Add"} ->
              IF MergeChildFault(g, cur, c) THEN UB ELSE Next_(MergeChildNode(g, cur, c))
         [] OTHER -> Next_(g)

(***************************************************************************)
(* Scan 6: every node CheckComposedBNAdd accepts is fused by              *)
(* FuseComposedBN (module BNFusion).  The graphs of this module carry no  *)
(* batch-norm scope in their names (OptName), so the check only tells an  *)
(* Add apart, and reads inputs[0] and inputs[1] of it; the fusion itself  *)
(* is checked on named graphs by module ComposedBN.                       *)
(***************************************************************************)
OptName == [n \in Node |-> <<"model", "node">>]

ComposedBNStep(cur) ==
    LET c == CheckComposedBNAdd(g, OptName, cur)
        f == FuseComposedBN(g, OptName, cur, c.type)
    IN CASE c.ub \/ (c.bn /\ f.ub) -> UB
         [] c.bn -> Next_(f.g)
         [] OTHER -> Next_(g)

(***************************************************************************)
(* Scan 7, CleanupResizeNearestNeighbor: disconnect the data input's      *)
(* Shape consumer (the loop leaves the LAST consumer selected when none   *)
(* is a Shape, and nullptr when there is none), then the scale input's    *)
(* producer chain: StridedSlice first, then the Mul.                      *)
(***************************************************************************)
ResizeStep(cur) ==
    LET data  == g.in[cur][1]
        douts == g.out[data]
        shape == IF FirstOfOp(g, douts, "Shape") # Null THEN FirstOfOp(g, douts, "Shape")
                 ELSE IF douts = <<>> THEN Null ELSE douts[Len(douts)]
        g1    == DisconnectNode(g, shape)
        mul   == g1.in[cur][2]
        ss    == g1.in[mul][1]
        g2    == DisconnectNode(g1, ss)
    IN CASE Op(cur) # "ResizeNearestNeighbor" -> Next_(g)
         [] g.in[cur] = <<>> \/ shape = Null \/ DisconnectFault(g, shape) -> UB
         [] Len(g1.in[cur]) < 2 \/ g1.in[mul] = <<>> -> UB
         [] DisconnectFault(g1, ss) \/ DisconnectFault(g2, mul) -> UB
         [] OTHER -> Next_(DisconnectNode(g2, mul))

(***************************************************************************)
(* Scan 8, MergeReluMinimum: a Minimum whose first input is a Relu loses  *)
(* its second operand (disconnected), is merged into the Relu, and the    *)
(* Relu becomes a Relu6.  The Minimum stays in seq_nodes, isolated.       *)
(***************************************************************************)
ReluMinimumStep(cur) ==
    LET ins  == g.in[cur]
        relu == ins[1]
        g1   == DisconnectNode(g, ins[2])
    IN CASE ins = <<>> -> Next_(g)
         [] Op(cur) # "Minimum" \/ Op(relu) # "Relu" -> Next_(g)
         [] Len(ins) < 2 \/ DisconnectFault(g, ins[2]) \/ MergeChildFault(g1, relu, cur) -> UB
         [] OTHER -> Next_([MergeChildNode(g1, relu, cur) EXCEPT !.op[relu] = "Relu6"])

(***************************************************************************)
(* Scan 9: the first Reshape with a Placeholder operand loses its other   *)
(* (Const) operand, is merged into the Placeholder, which records the     *)
(* shape NodeDef, and is deleted; break.                                  *)
(***************************************************************************)
InputReshapeStep(cur) ==
    LET ins   == g.in[cur]
        cst   == IF Op(ins[1]) = "Const" THEN ins[1] ELSE ins[2]
        input == IF Op(ins[1]) = "Const" THEN ins[2] ELSE ins[1]
        g1    == DisconnectNode(g, cst)
    IN CASE Op(cur) # "Reshape" -> Next_(g)
         [] Len(ins) < 2 -> UB
         [] Op(ins[1]) # "Placeholder" /\ Op(ins[2]) # "Placeholder" -> Next_(g)
         [] DisconnectFault(g, cst) \/ MergeChildFault(g1, input, cur) -> UB
         [] OTHER -> Outcome([MergeChildNode(g1, input, cur) EXCEPT
                                 !.defs[input] = Append(@, g.defs[cst][1])],
                             TRUE, TRUE, "break")

(***************************************************************************)
(* Scan 10: the first StridedSlice fed by a Shape is disconnected, then   *)
(* the Shape; break.  Both stay in seq_nodes.                             *)
(***************************************************************************)
ShapeSliceStep(cur) ==
    LET x  == g.in[cur][1]
        g1 == DisconnectNode(g, cur)
    IN CASE Op(cur) # "StridedSlice" -> Next_(g)
         [] g.in[cur] = <<>> -> UB
         [] Op(x) # "Shape" -> Next_(g)
         [] DisconnectFault(g, cur) \/ DisconnectFault(g1, x) -> UB
         [] OTHER -> Outcome(DisconnectNode(g1, x), FALSE, FALSE, "break")

(***************************************************************************)
(* Scan 11: a convolution fed by a Pad absorbs it: the Pad records its    *)
(* paddings NodeDef, the paddings Const is disconnected, the convolution  *)
(* merges the Pad as parent and moves the input MergeParentNode appended  *)
(* last back to the front.  A Mean disconnects its reduction-indices      *)
(* operand and records its NodeDef.                                       *)
(***************************************************************************)
PadStep(cur) ==
    LET pad  == g.in[cur][1]
        args == g.in[pad][2]
        g1   == DisconnectNode([g EXCEPT !.defs[pad] = Append(@, g.defs[args][1])], args)
        g2   == MergeParentNode(g1, cur, pad)
        ins2 == g2.in[cur]
    IN CASE g.in[cur] = <<>> -> UB
         [] Op(pad) # "Pad" -> Next_(g)
         [] Len(g.in[pad]) < 2 \/ DisconnectFault(g, args) \/ MergeParentFault(g1, cur, pad) -> UB
         [] ins2 = <<>> -> UB
         [] OTHER -> Next_([g2 EXCEPT !.in[cur] = <<Last(ins2)>> \o Front(ins2)])

MeanStepNoDisconnect(cur) ==
    LET idx == g.in[cur][2]
    IN IF Len(g.in[cur]) < 2 \/ DisconnectFault(g, idx) THEN UB
       ELSE Next_([g EXCEPT !.defs[cur] = Append(@, g.defs[idx][1])])

MeanStep(cur) ==
    LET idx == g.in[cur][2]
    IN IF Len(g.in[cur]) < 2 \/ DisconnectFault(g, idx) THEN UB
       ELSE Next_([DisconnectNode(g, idx) EXCEPT !.defs[cur] = Append(@, g.defs[idx][1])])

PadMeanStep(cur) ==
    CASE Op(cur) \in {"Conv2D", "DepthwiseConv2dNative"} -> PadStep(cur)
      [] Op(cur) = "Mean" -> MeanStep(cur)
      [] OTHER -> Next_(g)

(***************************************************************************)
(* Scans 12-15: the first ArgMax is disconnected and erased (not          *)
(* deleted); the first Squeeze without consumers is disconnected; every   *)
(* node without edges is erased and deleted; a node without inputs that   *)
(* is not a Const, Placeholder or FIFOQueueV2 is disconnected, erased and *)
(* deleted, and the scan restarts from the beginning.                     *)
(***************************************************************************)
\* Mutant: the ArgMax is erased from seq_nodes without being disconnected.
ArgMaxStepNoDisconnect(cur) ==
    CASE Op(cur) # "ArgMax" -> Next_(g)
      [] DisconnectFault(g, cur) -> UB
      [] OTHER -> Outcome(g, TRUE, FALSE, "break")

ArgMaxStep(cur) ==
    CASE Op(cur) # "ArgMax" -> Next_(g)
      [] DisconnectFault(g, cur) -> UB
      [] OTHER -> Outcome(DisconnectNode(g, cur), TRUE, FALSE, "break")

LastSqueezeStep(cur) ==
    CASE Op(cur) # "Squeeze" \/ g.out[cur] # <<>> -> Next_(g)
      [] DisconnectFault(g, cur) -> UB
      [] OTHER -> Outcome(DisconnectNode(g, cur), FALSE, FALSE, "break")

\* Mutant: a node without inputs counts as isolated.
IsolatedStepSourceOnly(cur) ==
    IF g.in[cur] = <<>> THEN Deleted(g) ELSE Next_(g)

IsolatedStep(cur) ==
    IF Isolated(g, cur) THEN Deleted(g) ELSE Next_(g)

SourceKinds == {"Const", "Placeholder", "FIFOQueueV2"}

\* Mutant: the node is disconnected but not erased before the restart.
SourcelessStepNoErase(cur) ==
    CASE g.in[cur] # <<>> \/ Op(cur) \in SourceKinds -> Next_(g)
      [] DisconnectFault(g, cur) -> UB
      [] OTHER -> Outcome(DisconnectNode(g, cur), FALSE, FALSE, "restart")

SourcelessStep(cur) ==
    CASE g.in[cur] # <<>> \/ Op(cur) \in SourceKinds -> Next_(g)
      [] DisconnectFault(g, cur) -> UB
      [] OTHER -> Outcome(DisconnectNode(g, cur), TRUE, TRUE, "restart")

-----------------------------------------------------------------------------
(***************************************************************************)
(* Applying an outcome to the loop state.                                 *)
(***************************************************************************)
\* Mutant: "erase(ir); ir++", the iterator advances past an erased element.
ApplyEraseAdvance(r) ==
    IF r.then = "ub"
    THEN status' = "fault" /\ UNCHANGED <<g, seq, freed, scan, i>>
    ELSE /\ g' = r.g
         /\ seq' = IF r.erase THEN RemoveAt(seq, i) ELSE seq
         /\ freed' = IF r.delete THEN freed \cup {seq[i]} ELSE freed
         /\ CASE r.then \in {"next", "stay"} -> i' = i + 1 /\ scan' = scan
              [] r.then = "restart" -> i' = 1 /\ scan' = scan
              [] r.then = "break"   -> i' = 1 /\ scan' = scan + 1
         /\ status' = IF r.then = "break" /\ scan = Len(Scans) THEN "done" ELSE status

Apply(r) ==
    IF r.then = "ub"
    THEN status' = "fault" /\ UNCHANGED <<g, seq, freed, scan, i>>
    ELSE /\ g' = r.g
         /\ seq' = IF r.erase THEN RemoveAt(seq, i) ELSE seq
         /\ freed' = IF r.delete THEN freed \cup {seq[i]} ELSE freed
         /\ CASE r.then = "next"    -> i' = i + 1 /\ scan' = scan
              [] r.then = "stay"    -> i' = i /\ scan' = scan
              [] r.then = "restart" -> i' = 1 /\ scan' = scan
              [] r.then = "break"   -> i' = 1 /\ scan' = scan + 1
         /\ status' = IF r.then = "break" /\ scan = Len(Scans) THEN "done" ELSE status

\* The loop of scan s is at an element.
\* (The outcome is bound once, so that TLC evaluates the body once.)
Scanning(s) == status = "running" /\ Scans[scan] = s /\ i <= Len(seq)

ReshapeHead     == Scanning("ReshapeHead")     /\ \E r \in {ReshapeHeadStep(seq[i])} : Apply(r)
SqueezeIdentity == Scanning("SqueezeIdentity") /\ \E r \in {SqueezeIdentityStep(seq[i])} : Apply(r)
FIFOQueue       == Scanning("FIFOQueue")       /\ \E r \in {FIFOQueueStep(seq[i])} : Apply(r)
ExpandDims      == Scanning("ExpandDims")      /\ \E r \in {ExpandDimsStep(seq[i])} : Apply(r)
BiasAdd         == Scanning("BiasAdd")         /\ \E r \in {BiasAddStep(seq[i])} : Apply(r)
ComposedBN      == Scanning("ComposedBN")      /\ \E r \in {ComposedBNStep(seq[i])} : Apply(r)
Resize          == Scanning("Resize")          /\ \E r \in {ResizeStep(seq[i])} : Apply(r)
ReluMinimum     == Scanning("ReluMinimum")     /\ \E r \in {ReluMinimumStep(seq[i])} : Apply(r)
InputReshape    == Scanning("InputReshape")    /\ \E r \in {InputReshapeStep(seq[i])} : Apply(r)
ShapeSlice      == Scanning("ShapeSlice")      /\ \E r \in {ShapeSliceStep(seq[i])} : Apply(r)
PadMean         == Scanning("PadMean")         /\ \E r \in {PadMeanStep(seq[i])} : Apply(r)
ArgMax          == Scanning("ArgMax")          /\ \E r \in {ArgMaxStep(seq[i])} : Apply(r)
LastSqueeze     == Scanning("LastSqueeze")     /\ \E r \in {LastSqueezeStep(seq[i])} : Apply(r)
PruneIsolated   == Scanning("Isolated")        /\ \E r \in {IsolatedStep(seq[i])} : Apply(r)
PruneSourceless == Scanning("Sourceless")      /\ \E r \in {SourcelessStep(seq[i])} : Apply(r)

\* The iterator reached end(): the next scan starts; after the last one
\* OptimizeGraph returns true.
EndScan ==
    /\ status = "running"
    /\ i > Len(seq)
    /\ i' = 1
    /\ IF scan = Len(Scans)
         THEN status' = "done" /\ scan' = scan
         ELSE status' = status /\ scan' = scan + 1
    /\ UNCHANGED <<g, seq, freed>>

-----------------------------------------------------------------------------
(***************************************************************************)
(* The graphs OptimizeGraph is given: every node's op is one of Kinds and *)
(* its inputs vector has one producer per operand of that TensorFlow op,  *)
(* chosen among the nodes before it (a GraphDef in topological order, as  *)
(* ConstructGraph builds it, BuiltGraph).                                 *)
(***************************************************************************)
\* The operands of each TensorFlow op: "data" is any tensor producer,
\* "const" an operand TensorFlow models feed from a Const (weights, shapes,
\* axes, paddings, reduction indices), "queue" a queue handle.
Operands(o) ==
    CASE o \in {"Const", "Placeholder", "FIFOQueueV2"} -> <<>>
      [] o \in {"Softmax", "Squeeze", "Identity", "Shape", "Relu"} -> <<"data">>
      [] o \in {"Add", "Mul", "Sub", "ResizeNearestNeighbor"} -> <<"data", "data">>
      [] o = "ConcatV2" -> <<"data", "data", "const">>
      [] o = "StridedSlice" -> <<"data", "const", "const", "const">>
      [] o = "QueueDequeueManyV2" -> <<"queue", "const">>
      [] OTHER -> <<"data", "const">>

RoleOf(o) == CASE o = "Const" -> "const" [] o = "FIFOQueueV2" -> "queue" [] OTHER -> "data"

\* A frozen inference graph holds only the ancestors of its output (the
\* freezing tools prune the rest): every node but the last has a consumer.
\* Without SharedConsts every Const has at most one consumer.  Both are
\* enforced while the record list is built, so that prefixes that cannot
\* be completed are dropped early.
Consumed(p) == UNION {ToSet(p[m].in) : m \in DOMAIN p}

Unconsumed(p) == {c \in DOMAIN p : c \notin Consumed(p)}

MostOperands == 4

Fits(p, o, ins) ==
    /\ \A r \in DOMAIN ins :
          CASE Operands(o)[r] = "data" -> RoleOf(p[ins[r]].op) \in {"data", "const"}
            [] OTHER -> RoleOf(p[ins[r]].op) = Operands(o)[r]
    /\ ~RepeatedInputs => IsInjective(ins)
    /\ ~SharedConsts => \A r \in DOMAIN ins : p[ins[r]].op = "Const" => ins[r] \notin Consumed(p)

\* A prefix of k records whose unconsumed nodes the remaining ones can
\* still consume (the last record is the output).
Completable(p) ==
    Cardinality(Unconsumed(p) \ {Len(p)}) <= MostOperands * (MaxNodes - Len(p))
    /\ (Len(p) = MaxNodes => Unconsumed(p) \subseteq {MaxNodes})

RECURSIVE GraphsUpTo(_)
GraphsUpTo(k) ==
    IF k = 0 THEN {<<>>}
    ELSE {p \in UNION {{Append(p, [op |-> o, in |-> ins]) :
                         ins \in {f \in [1..Len(Operands(o)) -> 1..(k-1)] : Fits(p, o, f)}} :
                       p \in GraphsUpTo(k - 1), o \in Kinds} :
            Completable(p)}

InitGraphs ==
    {BuiltGraph([n \in Node |-> p[n].op], [n \in Node |-> p[n].in]) : p \in GraphsUpTo(MaxNodes)}

Init ==
    /\ g \in InitGraphs
    /\ seq = NodeOrder
    /\ freed = {}
    /\ scan = 1
    /\ i = 1
    /\ status = "running"

Next ==
    \/ ReshapeHead \/ SqueezeIdentity \/ FIFOQueue \/ ExpandDims \/ BiasAdd
    \/ ComposedBN \/ Resize \/ ReluMinimum \/ InputReshape \/ ShapeSlice \/ PadMean
    \/ ArgMax \/ LastSqueeze \/ PruneIsolated \/ PruneSourceless
    \/ EndScan

\* OptimizeGraph runs on one thread to completion: every enabled loop step
\* is eventually taken.
Spec == Init /\ [][Next]_vars /\ WF_vars(Next)

-----------------------------------------------------------------------------
\* Type invariant; the loop iterator of every scan stays between begin()
\* and end() of seq_nodes, also across erase().
TypeOK ==
    /\ g.op \in [Node -> Kinds \cup {"Relu6"}]
    /\ g.in \in [Node -> Seq(Node)]
    /\ g.out \in [Node -> Seq(Node)]
    /\ seq \in Seq(Node)
    /\ freed \subseteq Node
    /\ scan \in 1..Len(Scans)
    /\ i \in 1..(Len(seq) + 1)
    /\ status \in {"running", "done", "fault"}

\* The graph as memory holds it: a deleted TFNode has no vectors.
Live(gr) == [gr EXCEPT !.in  = [n \in Node |-> IF n \in freed THEN <<>> ELSE gr.in[n]],
                       !.out = [n \in Node |-> IF n \in freed THEN <<>> ELSE gr.out[n]]]

\* Every edge is recorded at both ends as often (spec 4.2: "both merges
\* preserve edge symmetry"), counting a deleted TFNode as edgeless, so that
\* no live TFNode holds a pointer to a deleted one: what every scan of
\* OptimizeGraph, erasing and deleting nodes between its merges, must keep.
EdgeSymmetry == Symmetric(Live(g))

\* When OptimizeGraph returns, every node GenerateStaticGraph will visit
\* (seq_nodes) is alive and its producers are in seq_nodes too, so that
\* every input tensor it looks up has been created.
LoweringClosed ==
    status = "done" =>
        \A k \in 1..Len(seq) : seq[k] \notin freed /\ ToSet(g.in[seq[k]]) \subseteq ToSet(seq)

\* The scans never index past a vector, erase end() or dereference null.
NoFault == status # "fault"

\* The composed-BN scan only inspects Adds that still have the two operands
\* it reads: the BiasAdd scan before it must not leave an Add it merged
\* into a Conv2D or MatMul (op "Add", inputs cleared) in seq_nodes.
BNScanSafe == ~(status = "fault" /\ Scans[scan] = "ComposedBN")

\* OptimizeGraph returns (or reaches undefined behaviour): the restart
\* loop of the last scan terminates.
Terminates == <>(status \in {"done", "fault"})
=============================================================================
