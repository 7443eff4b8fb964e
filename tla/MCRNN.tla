------------------------------- MODULE MCRNN -------------------------------
EXTENDS RNN

MCNode == 1..9

\* Heap addresses in allocation order and in its reverse.
MCAddrOrders == {NodeOrder, Reverse(NodeOrder)}

Def(nm, o, fs) == [name |-> nm, op |-> o, feeds |-> fs]

\* A frozen dynamic_rnn built under tf.name_scope("m") with its variables
\* from tf.get_variable, so that the variables and their read Identities
\* are named outside the scope "m/": the input x, the kernel and its read,
\* the cell MatMul and add inside the while loop, the zero state, and a
\* Softmax consuming the layer.  prefix names the layer's ops.
Layer(prefix, var, cell) ==
    LET x     == <<"x">>
        k     == var \o <<cell, "kernel">>
        read  == var \o <<cell, "kernel", "read">>
        mm    == prefix \o <<"while", cell, "MatMul">>
        zeros == prefix \o <<"LSTMCellZeroState", "zeros">>
        add   == prefix \o <<"while", cell, "add">>
    IN { Def(x, "Placeholder", {}),
         Def(k, "Const", {}),
         Def(read, "Identity", {k}),
         Def(mm, "MatMul", {x, read}),
         Def(zeros, "Const", {}),
         Def(add, "Add", {mm, zeros}),
         Def(<<"y">>, "Softmax", {add, mm}) }

\* The layer of the passing run: ops under "m/rnn/", variables under "rnn/".
MCDefsLayer == Layer(<<"m", "rnn">>, <<"rnn">>, "lstm_cell")

\* tf.variable_scope("m"): the variables are named inside the scope too.
MCDefsVarScope == Layer(<<"m", "rnn">>, <<"m", "rnn">>, "lstm_cell")

\* A GRU layer: the cell is gru_cell.
MCDefsGRU == Layer(<<"m", "rnn">>, <<"rnn">>, "gru_cell")

\* dynamic_rnn outside any name scope: ops under "rnn/while/".
MCDefsTopLevel == Layer(<<"rnn">>, <<"rnn">>, "lstm_cell")

\* A cell called in a tf.while_loop of default name: ops under "while/".
MCDefsWhile == Layer(<<>>, <<"rnn">>, "lstm_cell")

\* The layer of the passing run consumed by a layer-norm add named
\* "norm/add" instead of the Softmax.
MCDefsNorm ==
    (MCDefsLayer \ {Def(<<"y">>, "Softmax", {<<"m", "rnn", "while", "lstm_cell", "add">>,
                                             <<"m", "rnn", "while", "lstm_cell", "MatMul">>})})
    \cup {Def(<<"norm", "add">>, "Softmax", {<<"m", "rnn", "while", "lstm_cell", "add">>,
                                              <<"m", "rnn", "while", "lstm_cell", "MatMul">>})}
=============================================================================
