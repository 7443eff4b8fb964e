--------------------------------- MODULE RNN ---------------------------------
(***************************************************************************)
(* TFSerializer::OptimizeRNN: the loop that, before the rewrite scans,    *)
(* finds the name scope of a recurrent layer (FindRNNScope), absorbs all  *)
(* its nodes into one new LSTM node (StripRNNScope) and fills the LSTM's  *)
(* parameter slots from node names (ParseLSTMGraph).                      *)
(*                                                                         *)
(* Names.  A node name is a sequence of path segments ("m/rnn/while/..."  *)
(* is <<"m", "rnn", "while", ...>>) over a small alphabet.  The code only *)
(* ever asks std::string::find questions of names, and each is answered  *)
(* on segments:                                                            *)
(*   - a one-word marker ("while", "lstm_cell", "gru") is found in a      *)
(*     segment that is, or contains, it (Within);                          *)
(*   - a string "a/b/.../z" occurs in a name where a run of segments      *)
(*     ends with a, continues with b, ... and starts with z (the match   *)
(*     may begin inside a segment, so only its first word is a suffix    *)
(*     test: EndsWith);                                                    *)
(*   - a scope is such a string with a trailing "/".                      *)
(* The scope string is a sequence of segments too; the empty sequence is  *)
(* the empty string.                                                       *)
(*                                                                         *)
(* Sets.  rnn_graph, rnn_inputs and rnn_outputs are std::set<TFNode*>,    *)
(* iterated in the order of the nodes' heap addresses; addr is that order *)
(* (a permutation of the nodes, fixed for the run).                       *)
(*                                                                         *)
(* One step is one iteration of the while(1) loop of OptimizeRNN: the    *)
(* FindRNNScope call and, for a non-empty scope, the whole StripRNNScope. *)
(***************************************************************************)
EXTENDS TFGraph, FiniteSets

CONSTANTS
    MaxNodes,     \* the records of the GraphDef are the nodes 1..MaxNodes
    MaxLayers,    \* the LSTM nodes the loop may create: MaxNodes+1..
    Defs,         \* the NodeDefs a record may be: [name, op, feeds], feeds
                  \* being the names of the defs that may be its operands
    AddrOrders    \* the heap-address orders of the nodes a run may have

ASSUME Node = 1..(MaxNodes + MaxLayers)

Null == 0

\* Segments that contain, or end with, another word of the alphabet.
Within == {<<"basic_lstm_cell", "lstm_cell">>, <<"gru_cell", "gru">>, <<"birnn", "rnn">>,
           <<"norm", "m">>}
SegHas(a, w)   == a = w \/ <<a, w>> \in Within
EndsWith(a, w) == a = w \/ (<<a, w>> \in Within /\ w # "gru")

\* The string pat (segments, no trailing "/") occurs in the name nm at p.
OccursAt(nm, pat, p) ==
    /\ p + Len(pat) - 1 <= Len(nm)
    /\ IF Len(pat) = 1 THEN SegHas(nm[p], pat[1])
       ELSE EndsWith(nm[p], pat[1]) /\ \A t \in 2..Len(pat) : nm[p + t - 1] = pat[t]

Occurs(nm, pat) == \E p \in 1..Len(nm) : OccursAt(nm, pat, p)

\* name.find(pat, name_len - pat.size()) != npos: nm ends with pat.
EndsWithStr(nm, pat) == Len(nm) >= Len(pat) /\ OccursAt(nm, pat, Len(nm) - Len(pat) + 1)

\* name.find(scope, 0, scope.size()) != npos, scope being "s1/.../sk/".
InScope(nm, scope) ==
    \E p \in 1..Len(nm) :
        /\ p + Len(scope) - 1 < Len(nm)
        /\ EndsWith(nm[p], scope[1])
        /\ \A t \in 2..Len(scope) : nm[p + t - 1] = scope[t]

VARIABLES
    g,         \* the TFGraph (op, in, out, defs) of the records and LSTMs
    name,      \* name[n]: the name of node n
    seq,       \* tf_graph.seq_nodes
    layers,    \* the LSTM nodes created so far
    absorbed,  \* absorbed[L]: the rnn_graph of LSTM node L
    slot,      \* slot[L]: the parameter slots ParseLSTMGraph filled
    freed,     \* the nodes deleted by the cleanup loop
    addr,      \* the heap-address order of the nodes
    status     \* "running", "done" (OptimizeRNN returned), "fault" (UB)

vars == <<g, name, seq, layers, absorbed, slot, freed, addr, status>>

-----------------------------------------------------------------------------
(***************************************************************************)
(* FindRNNScope: the first node of seq_nodes whose name contains "while"  *)
(* and, from there on, "lstm_cell" (TF_RNN_LSTM), else "gru"             *)
(* (TF_RNN_GRU), else "basic_lstm_cell" (TF_RNN_BASIC_LSTM).  Its scope  *)
(* is rnn_layer = name.substr(0, while_pos - 1) cut after its last "/".  *)
(***************************************************************************)
WhilePos(nm) == SelectInSeq(nm, LAMBDA w : w = "while")

CellKind(nm) ==
    LET from == {k \in 1..Len(nm) : k >= WhilePos(nm)}
    IN CASE WhilePos(nm) = 0 -> "none"
         [] \E k \in from : SegHas(nm[k], "lstm_cell") -> "LSTM"
         [] \E k \in from : SegHas(nm[k], "gru") -> "GRU"
         [] \E k \in from : SegHas(nm[k], "basic_lstm_cell") -> "BASIC_LSTM"
         [] OTHER -> "none"

\* "while" opening the name: while_pos - 1 wraps to npos and rnn_layer is
\* the whole name; a layer without "/" gives rfind == npos, so that
\* substr(0, npos + 1) is empty.
\* Mutant: rnn_layer cut from the node's own name instead of before while.
ScopeOfNode(nm) == SubSeq(nm, 1, Len(nm) - 1)

ScopeOf(nm) ==
    LET j == WhilePos(nm)
    IN CASE j = 1 -> SubSeq(nm, 1, Len(nm) - 1)
         [] j >= 3 -> SubSeq(nm, 1, j - 2)
         [] OTHER -> <<>>

FindRNNScope(s) ==
    LET k == SelectInSeq(s, LAMBDA n : CellKind(name[n]) # "none")
    IN IF k = 0 THEN [type |-> "none", scope |-> <<>>]
       ELSE [type |-> CellKind(name[s[k]]), scope |-> ScopeOf(name[s[k]])]

\* The elements of the set X in heap-address order.
InAddrOrder(X) == SelectSeq(addr, LAMBDA n : n \in X)
-----------------------------------------------------------------------------
(***************************************************************************)
(* ParseLSTMGraph: the Const inputs of the LSTM are matched, in inputs    *)
(* order, against the if/else-if chain of InputProbes; then the absorbed  *)
(* nodes, in address order, against the name-suffix chain of             *)
(* StateProbes.  A later match overwrites an earlier one.                 *)
(***************************************************************************)
Slots == {"kernel", "bias", "w_f_diag", "w_o_diag", "w_i_diag", "projection",
          "init_c", "init_h", "forget_bias"}

NoSlots == [s \in Slots |-> Null]

InputProbes ==
    << <<"kernel", <<"lstm_cell", "kernel">>>>,
       <<"bias", <<"lstm_cell", "bias">>>>,
       <<"w_f_diag", <<"lstm_cell", "w_f_diag">>>>,
       <<"w_o_diag", <<"lstm_cell", "w_o_diag">>>>,
       <<"w_i_diag", <<"lstm_cell", "w_i_diag">>>>,
       <<"projection", <<"lstm_cell", "projection", "kernel">>>> >>

StateProbes ==
    << <<"init_c", <<"LSTMCellZeroState", "zeros">>>>,
       <<"init_h", <<"LSTMCellZeroState", "zeros_1">>>>,
       <<"forget_bias", <<"lstm_cell", "add", "y">>>> >>

\* The slot of the first input probe whose pattern occurs in nm, or "none".
FirstInputProbe(nm) ==
    LET k == SelectInSeq(InputProbes, LAMBDA pr : Occurs(nm, pr[2]))
    IN IF k = 0 THEN "none" ELSE InputProbes[k][1]

\* The slot of the first state probe whose pattern ends nm, or "none".
FirstStateProbe(nm) ==
    LET k == SelectInSeq(StateProbes, LAMBDA pr : EndsWithStr(nm, pr[2]))
    IN IF k = 0 THEN "none" ELSE StateProbes[k][1]

Fill(sl, s, x) == IF s = "none" THEN sl ELSE [sl EXCEPT ![s] = x]

ParseLSTMGraph(gr, L, rnn) ==
    LET fromInputs ==
            FoldLeft(LAMBDA sl, x :
                        IF gr.op[x] # "Const" THEN sl
                        ELSE Fill(sl, FirstInputProbe(name[x]), x),
                     NoSlots, gr.in[L])
    IN FoldLeft(LAMBDA sl, x :
                   Fill(sl, FirstStateProbe(name[x]), x),
                fromInputs, InAddrOrder(rnn))

-----------------------------------------------------------------------------
(***************************************************************************)
(* StripRNNScope(scope, type), with L the new LSTM node named scope+"lstm":*)
(*  1. erase every seq node whose name contains scope; they are rnn_graph;*)
(*  2. rnn_inputs / rnn_outputs: the nodes outside rnn_graph that feed / *)
(*     consume one inside;                                                 *)
(*  3. insert L before the first seq node in rnn_inputs (if any);        *)
(*  4. for each input x (address order): its outputs inside rnn_graph     *)
(*     become L, x is pushed on L's inputs, and an Identity x is merged   *)
(*     into its inputs[0] by MergeChildNode;                               *)
(*  5. for each output y: its inputs inside rnn_graph become L, y is      *)
(*     pushed on L's outputs;                                              *)
(*  6. for TF_RNN_LSTM, ParseLSTMGraph;                                    *)
(*  7. every seq node without inputs and outputs is deleted and erased.   *)
(* The result is a record; ub marks inputs[0] of an Identity without     *)
(* inputs or a MergeChildNode that erases end().                          *)
(***************************************************************************)
\* Lines 285-302: the seq nodes whose name contains the scope; they are
\* erased from seq_nodes and form rnn_graph.
RnnGraph(s, scope) == {n \in ToSet(s) : InScope(name[n], scope)}

\* Mutant: the scope's nodes are collected but not erased.
EraseScopeNone(s, rnn) == s

EraseScope(s, rnn) == SelectSeq(s, LAMBDA n : n \notin rnn)

\* Lines 330-344: L goes before the first seq node that is an rnn input.
\* Mutant: no break after the insert.
InsertLSTMEvery(s, ins, L) ==
    FoldLeft(LAMBDA acc, n : IF n \in ins THEN acc \o <<L, n>> ELSE Append(acc, n), <<>>, s)

InsertLSTM(s, ins, L) ==
    LET k == SelectInSeq(s, LAMBDA n : n \in ins)
    IN IF k = 0 THEN s ELSE InsertAt(s, k, L)

\* A vector with every node of rnn replaced by L.
ToL(v, rnn, L) == [j \in DOMAIN v |-> IF v[j] \in rnn THEN L ELSE v[j]]

\* Lines 346-372, for each rnn input x in address order: outputs of x in
\* rnn_graph become L, x is pushed on L's inputs, and an Identity x is
\* merged into its inputs[0].  ub: inputs[0] of an Identity without
\* inputs, or a MergeChildNode that erases end().
\* Mutant: the Identity inputs are not merged.
ConnectInputsNoMerge(gr, ins, rnn, L) ==
    FoldLeft(LAMBDA acc, x :
                [acc EXCEPT !.g = [acc.g EXCEPT !.out[x] = ToL(@, rnn, L), !.in[L] = Append(@, x)]],
             [g |-> gr, ub |-> FALSE], InAddrOrder(ins))

ConnectInputs(gr, ins, rnn, L) ==
    LET Connect(acc, x) ==
            LET g1 == [acc.g EXCEPT !.out[x] = ToL(@, rnn, L), !.in[L] = Append(@, x)]
            IN CASE acc.ub \/ g1.op[x] # "Identity" -> [acc EXCEPT !.g = g1]
                 [] g1.in[x] = <<>> \/ MergeChildFault(g1, g1.in[x][1], x) -> [acc EXCEPT !.ub = TRUE]
                 [] OTHER -> [acc EXCEPT !.g = MergeChildNode(g1, g1.in[x][1], x)]
    IN FoldLeft(Connect, [g |-> gr, ub |-> FALSE], InAddrOrder(ins))

\* Lines 374-391, for each rnn output y: its inputs in rnn_graph become L
\* and y is pushed on L's outputs.
\* Mutants: y is not pushed on L's outputs; y's inputs are not rewritten.
ConnectOutputsOneWay(gr, outs, rnn, L) ==
    FoldLeft(LAMBDA g1, y : [g1 EXCEPT !.in[y] = ToL(@, rnn, L)], gr, InAddrOrder(outs))

ConnectOutputsNoRewrite(gr, outs, rnn, L) ==
    FoldLeft(LAMBDA g1, y : [g1 EXCEPT !.out[L] = Append(@, y)], gr, InAddrOrder(outs))

ConnectOutputs(gr, outs, rnn, L) ==
    FoldLeft(LAMBDA g1, y : [g1 EXCEPT !.in[y] = ToL(@, rnn, L), !.out[L] = Append(@, y)],
             gr, InAddrOrder(outs))

Strip(scope, type) ==
    LET L    == MaxNodes + layers + 1
        rnn  == RnnGraph(seq, scope)
        ins  == UNION {ToSet(g.in[n]) : n \in rnn} \ rnn
        outs == UNION {ToSet(g.out[n]) : n \in rnn} \ rnn
        seq2 == InsertLSTM(EraseScope(seq, rnn), ins, L)
        r1   == ConnectInputs([g EXCEPT !.op[L] = "LSTM"], ins, rnn, L)
        g2   == ConnectOutputs(r1.g, outs, rnn, L)
        dead == {n \in ToSet(seq2) : Isolated(g2, n)}
    IN [g     |-> g2,
        ub    |-> r1.ub,
        L     |-> L,
        rnn   |-> rnn,
        slots |-> IF type = "LSTM" THEN ParseLSTMGraph(g2, L, rnn) ELSE NoSlots,
        seq   |-> SelectSeq(seq2, LAMBDA n : n \notin dead),
        dead  |-> dead]

\* The loop goes on to StripRNNScope: FindRNNScope found a non-empty scope
\* (and the model's bound on the LSTM nodes is not reached).
StripEnabled ==
    /\ status = "running"
    /\ FindRNNScope(seq).scope # <<>>
    /\ layers < MaxLayers

\* One loop iteration that finds a scope: StripRNNScope.
StripLayer ==
    /\ StripEnabled
    /\ LET f == FindRNNScope(seq)
           r == Strip(f.scope, f.type)
       IN IF r.ub THEN status' = "fault" /\ UNCHANGED <<g, name, seq, layers, absorbed, slot, freed>>
          ELSE /\ g' = r.g
               /\ name' = [name EXCEPT ![r.L] = f.scope \o <<"lstm">>]
               /\ seq' = r.seq
               /\ layers' = layers + 1
               /\ absorbed' = [absorbed EXCEPT ![r.L] = r.rnn]
               /\ slot' = [slot EXCEPT ![r.L] = r.slots]
               /\ freed' = freed \cup r.dead
               /\ UNCHANGED status
    /\ UNCHANGED addr

\* One loop iteration whose rnn_scope is empty: break.
Finish ==
    /\ status = "running"
    /\ FindRNNScope(seq).scope = <<>>
    /\ status' = "done"
    /\ UNCHANGED <<g, name, seq, layers, absorbed, slot, freed, addr>>

-----------------------------------------------------------------------------
(***************************************************************************)
(* The GraphDefs: MaxNodes distinct NodeDefs of Defs, each consuming      *)
(* earlier ones (inputs of a frozen graph are produced before they are   *)
(* consumed) among its feeds, by its operator's arity, and every node    *)
(* but the last is consumed.                                              *)
(***************************************************************************)
Arity(o) ==
    CASE o \in {"Const", "Placeholder"} -> 0
      [] o \in {"Identity", "Softmax", "Relu"} -> 1
      [] OTHER -> 2

Consumed(p) == UNION {ToSet(p[m].in) : m \in DOMAIN p}

RECURSIVE GraphsUpTo(_)
GraphsUpTo(k) ==
    IF k = 0 THEN {<<>>}
    ELSE UNION {UNION {{Append(p, [def |-> d, in |-> ins]) :
                          ins \in {f \in [1..Arity(d.op) -> 1..(k-1)] :
                                     IsInjective(f) /\ \A t \in DOMAIN f : p[f[t]].def.name \in d.feeds}} :
                        d \in {e \in Defs : \A m \in DOMAIN p : p[m].def # e}} :
                 p \in GraphsUpTo(k - 1)}

Frozen(p) == \A m \in 1..(MaxNodes - 1) : m \in Consumed(p)

Records == {p \in GraphsUpTo(MaxNodes) : Frozen(p)}

LSTMs == (MaxNodes + 1)..(MaxNodes + MaxLayers)

Init ==
    /\ \E p \in Records :
          /\ g = BuiltGraph([n \in Node |-> IF n \in LSTMs THEN "none" ELSE p[n].def.op],
                            [n \in Node |-> IF n \in LSTMs THEN <<>> ELSE p[n].in])
          /\ name = [n \in Node |-> IF n \in LSTMs THEN <<>> ELSE p[n].def.name]
    /\ seq = SubSeq(NodeOrder, 1, MaxNodes)
    /\ layers = 0
    /\ absorbed = [n \in Node |-> {}]
    /\ slot = [n \in Node |-> NoSlots]
    /\ freed = {}
    /\ addr \in AddrOrders
    /\ status = "running"

Next == StripLayer \/ Finish

\* OptimizeRNN runs on one thread and never waits: each action is weakly
\* fair.  StripLayer changes layers or status whenever StripEnabled holds,
\* so StripEnabled is ENABLED <<StripLayer>>_vars; the weak fairness of
\* StripLayer is spelled out with it because TLC's own evaluation of that
\* ENABLED re-evaluates the folds of Strip without caching.
Fairness ==
    /\ <>[]StripEnabled => []<><<StripLayer>>_vars
    /\ WF_vars(Finish)

Spec == Init /\ [][Next]_vars /\ Fairness
-----------------------------------------------------------------------------
\* The LSTM nodes created so far.
Created == {L \in LSTMs : L <= MaxNodes + layers}

\* The nodes still in the graph: neither deleted by a cleanup loop nor
\* absorbed into an LSTM (absorbed nodes keep their stale vectors in
\* rnn_graph, by design).
Main == Node \ (freed \cup UNION {absorbed[L] : L \in LSTMs})

\* Types; seq_nodes holds every node at most once.
TypeOK ==
    /\ g.in \in [Node -> Seq(Node)]
    /\ g.out \in [Node -> Seq(Node)]
    /\ seq \in Seq(Node) /\ IsInjective(seq)
    /\ layers \in 0..MaxLayers
    /\ \A L \in LSTMs : slot[L] \in [Slots -> Node \cup {Null}]
    /\ status \in {"running", "done", "fault"}

\* Among the nodes left in the graph, every edge is recorded as often at
\* both ends (spec 8) after every StripRNNScope: the rewiring of the
\* boundary inputs and outputs to the new LSTM node and the MergeChildNode
\* of Identity boundary inputs must together keep the multigraph
\* consistent.
EdgeSymmetry == \A a, b \in Main : OutEdgeCount(g, a, b) = InEdgeCount(g, a, b)

\* After every iteration, the nodes of seq_nodes point only at nodes of
\* seq_nodes: no boundary edge is left pointing into rnn_graph, at a
\* deleted node, or at an LSTM node that was not inserted, which is what
\* GenerateStaticGraph needs to find every input tensor.
SeqClosed == \A n \in ToSet(seq) : ToSet(g.in[n]) \cup ToSet(g.out[n]) \subseteq ToSet(seq)

\* LoadLSTM takes inputs[0] of an LSTM node as its data input: the first
\* input of every LSTM node in seq_nodes is a data node, not a Const.
DataFirst == \A L \in Created \cap ToSet(seq) : g.in[L] # <<>> /\ g.op[g.in[L][1]] # "Const"

\* LoadLSTM dereferences the kernel slot of every LSTM node it lowers
\* (line 2578): every LSTM node left in seq_nodes has its kernel set.
KernelLoadable == \A L \in Created \cap ToSet(seq) : slot[L].kernel # Null

\* The scope string of LSTM node L (its name is scope + "lstm").
LayerScope(L) == SubSeq(name[L], 1, Len(name[L]) - 1)

\* Spec 4.4 step 2: a node is absorbed into a layer only when its name
\* starts with the layer's scope.
OnlyLayerAbsorbed ==
    \A L \in Created : \A x \in absorbed[L] :
        Len(name[x]) > Len(LayerScope(L)) /\ SubSeq(name[x], 1, Len(LayerScope(L))) = LayerScope(L)

\* Spec 4.4 steps 1 and 4: the loop ends only when no recurrent-cell
\* marker is left: when OptimizeRNN returns, no node of seq_nodes has
\* "while" followed by a cell marker in its name.
AllLayersExtracted ==
    status = "done" => \A n \in ToSet(seq) : CellKind(name[n]) = "none"

\* Every iteration of the OptimizeRNN loop absorbs at least one node of
\* the GraphDef (and never only LSTM nodes it created itself), the
\* variant that makes the loop finite.
AbsorbsRecord ==
    [][\A L \in LSTMs : absorbed'[L] # absorbed[L] => absorbed'[L] \cap 1..MaxNodes # {}]_vars

\* OptimizeRNN returns.
Terminates == <>(status \in {"done", "fault"})
=============================================================================
