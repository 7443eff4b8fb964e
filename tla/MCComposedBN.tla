---------------------------- MODULE MCComposedBN ----------------------------
EXTENDS ComposedBN

MCNode == 1..17

R(nm, o, ins) == [name |-> nm, op |-> o, in |-> ins]

\* A GraphDef given with its inputs as names, resolved to record indices.
Resolved(recs) ==
    [n \in 1..Len(recs) |->
        [recs[n] EXCEPT !.in = [k \in DOMAIN recs[n].in |->
                                   CHOOSE m \in 1..Len(recs) : recs[m].name = recs[n].in[k]]]]

BN(v) == <<"bn", v>>
S(v)  == <<"bn", "batchnorm", v>>
Eps   == <<"bn", "batchnorm", "add", "y">>
X     == <<"block", "out">>

\* The producer of the normalised tensor: a convolution or a Pad.
Heads ==
    { << R(<<"input">>, "Placeholder", <<>>), R(<<"conv", "weights">>, "Const", <<>>),
         R(X, "Conv2D", << <<"input">>, <<"conv", "weights">> >>) >>,
      << R(<<"input">>, "Placeholder", <<>>), R(<<"pad", "paddings">>, "Const", <<>>),
         R(X, "Pad", << <<"input">>, <<"pad", "paddings">> >>) >> }

\* The variables, in the order tf.layers and tf.contrib.slim create them.
Params(scale) ==
    IF scale THEN { << R(BN("gamma"), "Const", <<>>), R(BN("beta"), "Const", <<>>) >>,
                    << R(BN("beta"), "Const", <<>>), R(BN("gamma"), "Const", <<>>) >> }
    ELSE { << R(BN("beta"), "Const", <<>>) >> }

Stats == << R(BN("moving_mean"), "Const", <<>>), R(BN("moving_variance"), "Const", <<>>) >>

\* tf.nn.batch_normalization(x, mean, variance, beta, gamma or None, eps).
Expansion(scale) ==
    << R(Eps, "Const", <<>>),
       R(S("add"), "Add", <<BN("moving_variance"), Eps>>),
       R(S("Rsqrt"), "Rsqrt", <<S("add")>>) >> \o
    IF scale
    THEN << R(S("mul"), "Mul", <<S("Rsqrt"), BN("gamma")>>),
            R(S("mul_1"), "Mul", <<X, S("mul")>>),
            R(S("mul_2"), "Mul", <<BN("moving_mean"), S("mul")>>),
            R(S("sub"), "Sub", <<BN("beta"), S("mul_2")>>),
            R(S("add_1"), "Add", <<S("mul_1"), S("sub")>>) >>
    ELSE << R(S("mul"), "Mul", <<X, S("Rsqrt")>>),
            R(S("mul_1"), "Mul", <<BN("moving_mean"), S("Rsqrt")>>),
            R(S("sub"), "Sub", <<BN("beta"), S("mul_1")>>),
            R(S("add_1"), "Add", <<S("mul"), S("sub")>>) >>

\* The consumers of the batch norm: a Relu and a classifier, or (with
\* scale) a Relu and a residual Add that both read the batch norm.
Tails(scale) ==
    IF scale
    THEN { << R(<<"relu", "Relu">>, "Relu", <<S("add_1")>>),
              R(<<"prob", "Softmax">>, "Softmax", << <<"relu", "Relu">> >>) >>,
           << R(<<"relu", "Relu">>, "Relu", <<S("add_1")>>),
              R(<<"res", "add">>, "Add", <<S("add_1"), <<"relu", "Relu">> >>) >> }
    ELSE { << R(<<"relu", "Relu">>, "Relu", <<S("add_1")>>),
              R(<<"pool", "MaxPool">>, "MaxPool", << <<"relu", "Relu">> >>),
              R(<<"fc", "weights">>, "Const", <<>>),
              R(<<"fc", "MatMul">>, "MatMul", << <<"pool", "MaxPool">>, <<"fc", "weights">> >>) >> }

MCGraphDefs ==
    UNION { { Resolved(h \o p \o Stats \o Expansion(sc) \o t) :
                h \in Heads, p \in Params(sc), t \in Tails(sc) } : sc \in BOOLEAN }

\* Without scale, the batch norm read by a swish activation: a Sigmoid and
\* a Mul both consume it.
MCGraphDefsSwish ==
    { Resolved(h \o p \o Stats \o Expansion(FALSE) \o
               << R(<<"swish", "Sigmoid">>, "Sigmoid", <<S("add_1")>>),
                  R(<<"swish", "mul">>, "Mul", <<S("add_1"), <<"swish", "Sigmoid">> >>),
                  R(<<"fc", "weights">>, "Const", <<>>),
                  R(<<"fc", "MatMul">>, "MatMul", << <<"swish", "mul">>, <<"fc", "weights">> >>) >>) :
        h \in Heads, p \in Params(FALSE) }
=============================================================================
