------------------------------ MODULE Lowering ------------------------------
(***************************************************************************)
(* TFSerializer::GenerateStaticGraph, run on the graph OptimizeGraph       *)
(* returns: the last stage of LoadGraph, composed here after the rewrite  *)
(* scans of Optimize.                                                      *)
(*                                                                         *)
(* The first loop over seq_nodes gives every node its static_tensor       *)
(* (LoadConstTensor, CreateInputNode, or an empty node and tensor).  The  *)
(* second loop looks the op of every other node up in the registry of     *)
(* TFSerializerRegisterOpLoader and calls its loader, breaking on a       *)
(* missing loader or a loader returning false.  A loader wires the       *)
(* static_tensor of some of the node's inputs onto the static node and   *)
(* reads attributes from its pb_defs.  The model keeps of each loader     *)
(* which positions of inputs and of pb_defs it reads, in which order it  *)
(* wires them, and where it may return false; the attribute values it    *)
(* decodes are abstracted to whether decoding succeeds.                   *)
(*                                                                         *)
(* A static tensor is named by the TFNode it belongs to.  Reading past    *)
(* the end of inputs or pb_defs, or reading the static_tensor of a TFNode *)
(* that was deleted or never materialised (nullptr), ends in "fault".     *)
(***************************************************************************)
EXTENDS Optimize

VARIABLES
    lpc,      \* "wait" (OptimizeGraph not returned), "translate", "ok", "failed", "fault"
    j,        \* the index i of the second loop, into seq
    tensor,   \* the TFNodes whose static_tensor is set
    wired,    \* the input tensors of each static node, in AddNodeInputTensor order
    orig      \* the graph ConstructGraph built (a history variable)

lvars == <<lpc, j, tensor, wired, orig>>

allvars == <<vars, lvars>>

\* TFSerializerRegisterOpLoader: the loader registered for each op tag.
Registry ==
    ("AvgPool" :> "Pool") @@ ("MaxPool" :> "Pool") @@ ("Conv2D" :> "Conv2D")
    @@ ("DepthwiseConv2dNative" :> "Conv2D") @@ ("FusedBatchNorm" :> "BatchNorm")
    @@ ("Relu6" :> "Relu6") @@ ("Relu" :> "Relu") @@ ("Softmax" :> "Softmax")
    @@ ("ConcatV2" :> "Concat") @@ ("Add" :> "Eltwise") @@ ("Sub" :> "Eltwise")
    @@ ("Mul" :> "Eltwise") @@ ("Minimum" :> "Eltwise") @@ ("Rsqrt" :> "Eltwise")
    @@ ("ResizeNearestNeighbor" :> "Resize") @@ ("ComposedBN" :> "ComposedBN")
    @@ ("Reshape" :> "Reshape") @@ ("MatMul" :> "Gemm") @@ ("AddN" :> "Eltwise")
    @@ ("FIFOQueueV2" :> "FIFOQueue") @@ ("Mean" :> "Mean") @@ ("DecodeWav" :> "Generic")
    @@ ("AudioSpectrogram" :> "Generic") @@ ("Mfcc" :> "Generic") @@ ("LSTM" :> "LSTM")

\* ComposedBN nodes are made by FuseComposedBN and LSTM nodes by
\* OptimizeRNN; neither stage runs before this one here.
ASSUME Kinds \cap {"ComposedBN", "LSTM"} = {}

(***************************************************************************)
(* What a loader does with the node's vectors.  reads: the positions of   *)
(* inputs it wires, in wiring order (before the swap of LoadGemm); defs:  *)
(* the number of pb_defs entries it needs; arity: the inputs.size() it    *)
(* insists on (0: none); decode: where decoding an attribute may make it  *)
(* return false ("before" or "after" the wiring, or "never").             *)
(***************************************************************************)
LoaderUse(reads, defs, arity, decode) ==
    [reads |-> reads, defs |-> defs, arity |-> arity, decode |-> decode]

AllInputs(ins) == [k \in 1..Len(ins) |-> k]

LoadConv2D(ins)    == LoaderUse(IF Len(ins) > 2 THEN <<1, 2, 3>> ELSE <<1, 2>>, 1, 0, "never")
LoadPool(ins)      == LoaderUse(<<1>>, 1, 0, "never")
LoadBatchNorm(ins) == LoaderUse(<<1, 2, 3, 4, 5>>, 1, 0, "never")
LoadSoftmax(ins)   == LoaderUse(<<1>>, 1, 0, "never")
LoadRelu(ins)      == LoaderUse(<<1>>, 1, 0, "never")
LoadResize(ins)    == LoaderUse(<<1>>, 1, 0, "never")
LoadRelu6(ins)     == LoaderUse(<<1>>, 1, 0, "never")
LoadConcat(ins)    == LoaderUse(AllInputs(ins), 2, 0, "never")
LoadMean(ins)      == LoaderUse(<<1>>, 2, 0, "before")
LoadFIFOQueue(ins) == LoaderUse(<<>>, 1, 0, "never")
LoadReshape(ins)   == LoaderUse(<<1, 2>>, 1, 0, "after")
LoadGemm(ins)      == LoaderUse(IF Len(ins) > 2 THEN <<1, 2, 3>> ELSE <<1, 2>>, 1, 0, "never")
LoadGeneric(ins)   == LoaderUse(AllInputs(ins), 1, 0, "never")

\* LoadEltwise insists on two inputs (one for Rsqrt) and wires them all.
LoadEltwise(o, ins) == LoaderUse(AllInputs(ins), 1, IF o = "Rsqrt" THEN 1 ELSE 2, "never")

Loader(o, ins) ==
    CASE Registry[o] = "Conv2D"    -> LoadConv2D(ins)
      [] Registry[o] = "Pool"      -> LoadPool(ins)
      [] Registry[o] = "BatchNorm" -> LoadBatchNorm(ins)
      [] Registry[o] = "Softmax"   -> LoadSoftmax(ins)
      [] Registry[o] = "Relu"      -> LoadRelu(ins)
      [] Registry[o] = "Resize"    -> LoadResize(ins)
      [] Registry[o] = "Relu6"     -> LoadRelu6(ins)
      [] Registry[o] = "Concat"    -> LoadConcat(ins)
      [] Registry[o] = "Eltwise"   -> LoadEltwise(o, ins)
      [] Registry[o] = "Mean"      -> LoadMean(ins)
      [] Registry[o] = "FIFOQueue" -> LoadFIFOQueue(ins)
      [] Registry[o] = "Reshape"   -> LoadReshape(ins)
      [] Registry[o] = "Gemm"      -> LoadGemm(ins)
      [] Registry[o] = "Generic"   -> LoadGeneric(ins)

\* The tensors the loader wires, in order: LoadGemm swaps its first two
\* operands when the first is a Const.
Wires(o, ins, u) ==
    LET w == [k \in DOMAIN u.reads |-> ins[u.reads[k]]]
    IN IF Registry[o] = "Gemm" /\ g.op[ins[1]] = "Const" THEN <<w[2], w[1]>> \o SubSeq(w, 3, Len(w))
       ELSE w

Sources == {"Placeholder", "Const"}

-----------------------------------------------------------------------------
\* The first loop of GenerateStaticGraph, once OptimizeGraph returned: every
\* node of seq_nodes gets its static_tensor (no_static_node is set only by
\* FuseComposedBN, which does not run here).
Materialize ==
    /\ status = "done"
    /\ lpc = "wait"
    /\ IF \E k \in 1..Len(seq) : seq[k] \in freed
          THEN lpc' = "fault" /\ UNCHANGED <<j, tensor>>
          ELSE lpc' = "translate" /\ j' = 1 /\ tensor' = ToSet(seq)
    /\ UNCHANGED <<vars, wired, orig>>

\* The second loop: a Placeholder or Const is skipped.
SkipSource ==
    /\ lpc = "translate"
    /\ j <= Len(seq)
    /\ g.op[seq[j]] \in Sources
    /\ j' = j + 1
    /\ UNCHANGED <<vars, lpc, tensor, wired, orig>>

\* FindOpLoadMethod fails: break, and GenerateStaticGraph returns false.
MissingLoader ==
    /\ lpc = "translate"
    /\ j <= Len(seq)
    /\ g.op[seq[j]] \notin Sources \cup DOMAIN Registry
    /\ lpc' = "failed"
    /\ UNCHANGED <<vars, j, tensor, wired, orig>>

\* The loader of the node runs; decoded is whether the attributes it
\* decodes have the values it accepts.
Load ==
    /\ lpc = "translate"
    /\ j <= Len(seq)
    /\ g.op[seq[j]] \in DOMAIN Registry
    /\ LET n   == seq[j]
           ins == g.in[n]
           u   == Loader(g.op[n], ins)
           bad == \E k \in DOMAIN u.reads : u.reads[k] > Len(ins) \/ ins[u.reads[k]] \notin tensor
       IN \E decoded \in IF u.decode = "never" THEN {TRUE} ELSE BOOLEAN :
            CASE u.defs > Len(g.defs[n]) -> lpc' = "fault" /\ UNCHANGED <<j, wired>>
              [] u.arity # 0 /\ Len(ins) # u.arity -> lpc' = "failed" /\ UNCHANGED <<j, wired>>
              [] u.decode = "before" /\ ~decoded -> lpc' = "failed" /\ UNCHANGED <<j, wired>>
              [] bad -> lpc' = "fault" /\ UNCHANGED <<j, wired>>
              [] OTHER -> /\ wired' = [wired EXCEPT ![n] = Wires(g.op[n], ins, u)]
                          /\ IF decoded THEN j' = j + 1 /\ UNCHANGED lpc
                             ELSE lpc' = "failed" /\ UNCHANGED j
    /\ UNCHANGED <<vars, tensor, orig>>

\* The second loop reached the end: GenerateStaticGraph returns true.
TranslateEnd ==
    /\ lpc = "translate"
    /\ j > Len(seq)
    /\ lpc' = "ok"
    /\ UNCHANGED <<vars, j, tensor, wired, orig>>

LInit ==
    /\ Init
    /\ lpc = "wait"
    /\ j = 1
    /\ tensor = {}
    /\ wired = [n \in Node |-> <<>>]
    /\ orig = g

LNext ==
    \/ Next /\ UNCHANGED lvars
    \/ Materialize \/ SkipSource \/ MissingLoader \/ Load \/ TranslateEnd

\* LoadGraph runs OptimizeGraph and GenerateStaticGraph one after the other
\* on one thread: every enabled step is eventually taken.
LSpec == LInit /\ [][LNext]_allvars /\ WF_allvars(LNext)

-----------------------------------------------------------------------------
\* The nodes the second loop has translated so far.
Translated ==
    IF lpc = "wait" THEN {}
    ELSE {seq[k] : k \in 1..(j - 1)} \ {n \in Node : g.op[n] \in Sources}

StaticMirrorsGraph == \A n \in Translated : ToBag(wired[n]) = ToBag(g.in[n])

\* The producers the GraphDef feeds to an operand TensorFlow takes from a
\* Const (weights, shapes, axes, paddings, reduction indices).
AttributeFed ==
    {p \in Node : \E c \in Node : \E k \in DOMAIN orig.in[c] :
                      orig.in[c][k] = p /\ Operands(orig.op[c])[k] = "const"}

\* Every loader reads its data tensor at inputs[0]: no node the loaders
\* translated has as first static input a producer the GraphDef fed to an
\* attribute operand.  The scans that elide a producer append its inputs
\* at the end (MergeParentNode) and the Pad fusion moves them back; every
\* such rewrite must leave the data operand in front.
DataOperandFirst ==
    \A n \in Translated : wired[n] # <<>> => wired[n][1] \notin AttributeFed
=============================================================================
