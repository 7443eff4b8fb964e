------------------------------- MODULE Tensor -------------------------------
(***************************************************************************)
(* A float tensor of the executor as the activation kernels see it: a     *)
(* dims vector and a flat buffer of as many elements as their product.   *)
(* An element is identified by its flat position: the input tensor of    *)
(* shape d holds the element k at position k, so that a value read from  *)
(* the wrong position is told apart from the right one.                  *)
(***************************************************************************)
EXTENDS Naturals, Sequences, SequencesExt

\* The number of elements of a tensor of shape d: the product of its dims.
Elements(d) == FoldLeft(LAMBDA acc, x : acc * x, 1, d)

\* The memory of the input tensor of shape d.
InputMem(d) == [k \in 0..(Elements(d) - 1) |-> k]

\* An output buffer of which no element has been written yet.
Unwritten(d) == [k \in 0..(Elements(d) - 1) |-> <<"undef">>]
=============================================================================
