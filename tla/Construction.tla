----------------------------- MODULE Construction -----------------------------
(***************************************************************************)
(* TFSerializer::ConstructGraph: the two scans that build the foreign     *)
(* graph from the GraphDef's NodeDef list.  The first scan creates one    *)
(* TFNode per record (idx, name, op, pb_defs = <<its record>>), appends   *)
(* it to seq_nodes and enters it in node_map; the second scan resolves    *)
(* every input reference string of every record through node_map and     *)
(* adds the edge in both directions, failing on the first reference that  *)
(* resolves to nothing.                                                   *)
(*                                                                         *)
(* A record's name is its node (names are unique in a GraphDef); a        *)
(* reference string is abstracted to what the parser looks at:           *)
(*   ctrl  it starts with the control-dependency marker '^'               *)
(*   name  the node name it spells, or Missing for an undeclared one      *)
(*   port  it ends with an output selector ":<k>"                         *)
(***************************************************************************)
EXTENDS TFGraph

CONSTANTS
    Missing,     \* a name no record declares
    MaxRefs,     \* the most input references per record
    Ops          \* operator-type tags a record may carry

ASSUME Node = 1..Cardinality(Node) /\ Missing \notin Node /\ MaxRefs \in Nat

\* nullptr (nodes are 1..N).
Null == 0

Refs == [ctrl : BOOLEAN, name : Node \cup {Missing}, port : BOOLEAN]

Records == [op : Ops, refs : BoundedSeq(Refs, MaxRefs)]

VARIABLES
    records,    \* the GraphDef: Node -> Records (fixed)
    g,          \* the TFGraph being built
    seq,        \* tf_graph.seq_nodes
    nodeMap,    \* node_map: the names entered so far -> node
    pc,         \* "nodes" (first scan), "edges" (second scan), "done", "error"
    i,          \* the record being scanned
    j           \* the reference of record i being resolved

vars == <<records, g, seq, nodeMap, pc, i, j>>

(***************************************************************************)
(* The key the second scan looks up: pos is the index of ':' or the       *)
(* length; a '^' reference takes substr(1, pos), any other substr(0, pos).*)
(* substr(1, pos) keeps pos characters from index 1, one more than the    *)
(* name has when a selector follows, so "^x:0" yields "x:" (colon = TRUE) *)
(* while "^x" yields "x" and "x:0" yields "x".                            *)
(***************************************************************************)
CleanupName(ref) == [name |-> ref.name, colon |-> ref.ctrl /\ ref.port]

\* node_map[cleanup_name]: an absent key reads as nullptr.
Lookup(map, key) ==
    IF ~key.colon /\ key.name \in DOMAIN map THEN map[key.name] ELSE Null

Init ==
    /\ records \in [Node -> Records]
    /\ g = [op |-> [n \in Node |-> CHOOSE o \in Ops : TRUE],
            in |-> [n \in Node |-> <<>>], out |-> [n \in Node |-> <<>>],
            defs |-> [n \in Node |-> <<>>]]
    /\ seq = <<>>
    /\ nodeMap = <<>>
    /\ pc = "nodes"
    /\ i = 1
    /\ j = 1

\* First scan: new TFNode with idx, name, op and pb_defs; push to seq_nodes;
\* node_map[name] = node.
CreateNode ==
    /\ pc = "nodes"
    /\ g' = [g EXCEPT !.op[i] = records[i].op, !.defs[i] = <<i>>]
    /\ seq' = Append(seq, i)
    /\ nodeMap' = [x \in DOMAIN nodeMap \cup {i} |-> IF x = i THEN i ELSE nodeMap[x]]
    /\ IF i = Cardinality(Node)
         THEN pc' = "edges" /\ i' = 1
         ELSE pc' = "nodes" /\ i' = i + 1
    /\ UNCHANGED <<records, j>>

\* Mutant: after the last reference of the last record the scan steps past it.
NextRefPastEnd ==
    IF j < Len(records[i].refs) THEN i' = i /\ j' = j + 1
    ELSE i' = i + 1 /\ j' = 1

\* Advance the second scan past reference j of record i.
NextRef ==
    IF j < Len(records[i].refs) THEN i' = i /\ j' = j + 1
    ELSE IF i = Cardinality(Node) THEN i' = i /\ j' = j
    ELSE i' = i + 1 /\ j' = 1

ScanDone == j >= Len(records[i].refs) /\ i = Cardinality(Node)

\* Mutant: the producer's outputs vector is not extended.
ConnectInputNoReverse ==
    /\ pc = "edges"
    /\ j <= Len(records[i].refs)
    /\ LET src == Lookup(nodeMap, CleanupName(records[i].refs[j]))
       IN /\ src # Null
          /\ g' = [g EXCEPT !.in[i] = Append(@, src)]
    /\ NextRef
    /\ pc' = IF ScanDone THEN "done" ELSE "edges"
    /\ UNCHANGED <<records, seq, nodeMap>>

\* Second scan, reference j of record i resolves: push both directions.
ConnectInput ==
    /\ pc = "edges"
    /\ j <= Len(records[i].refs)
    /\ LET src == Lookup(nodeMap, CleanupName(records[i].refs[j]))
       IN /\ src # Null
          /\ g' = [g EXCEPT !.in[i] = Append(@, src), !.out[src] = Append(@, i)]
    /\ NextRef
    /\ pc' = IF ScanDone THEN "done" ELSE "edges"
    /\ UNCHANGED <<records, seq, nodeMap>>

\* Second scan, a record with no references.
SkipRecord ==
    /\ pc = "edges"
    /\ records[i].refs = <<>>
    /\ NextRef
    /\ pc' = IF ScanDone THEN "done" ELSE "edges"
    /\ UNCHANGED <<records, g, seq, nodeMap>>

\* "cannot find input": ConstructGraph returns false.
ResolutionError ==
    /\ pc = "edges"
    /\ j <= Len(records[i].refs)
    /\ Lookup(nodeMap, CleanupName(records[i].refs[j])) = Null
    /\ pc' = "error"
    /\ UNCHANGED <<records, g, seq, nodeMap, i, j>>

Next == CreateNode \/ ConnectInput \/ SkipRecord \/ ResolutionError

Spec == Init /\ [][Next]_vars /\ WF_vars(Next)

-----------------------------------------------------------------------------
TypeOK ==
    /\ records \in [Node -> Records]
    /\ seq \in Seq(Node)
    /\ pc \in {"nodes", "edges", "done", "error"}
    /\ i \in Node /\ j \in 1..(MaxRefs + 1)
    /\ g.in \in [Node -> Seq(Node)] /\ g.out \in [Node -> Seq(Node)]

\* What the spec says a reference denotes: the declared node it names, the
\* control marker and the output selector stripped.
Declared(ref) == ref.name \in Node

\* Construction round trip (spec 8): a successful build has one node per
\* record in record order, every reference declared, and exactly one edge per
\* reference: the graph BuiltGraph derives from the references' targets, with
\* inputs in reference order and outputs in consumer order.
RoundTrip ==
    pc = "done" =>
        /\ seq = NodeOrder
        /\ \A n \in Node : \A k \in DOMAIN records[n].refs : Declared(records[n].refs[k])
        /\ g = BuiltGraph([n \in Node |-> records[n].op],
                          [n \in Node |-> [k \in DOMAIN records[n].refs |-> records[n].refs[k].name]])

\* Resolution failure (spec 4.1): construction fails only on a reference that
\* names no declared node; a reference to a declared node, with or without
\* the '^' marker and the ":<k>" selector, always resolves.
FailsOnlyOnUndeclared ==
    pc = "error" => \E n \in Node : \E k \in DOMAIN records[n].refs : ~Declared(records[n].refs[k])

=============================================================================
