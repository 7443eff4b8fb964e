---------------------------- MODULE ElementwiseMap ----------------------------
(***************************************************************************)
(* What an element-wise activation kernel of the common executor          *)
(* (AbsVal, TanH, Sigmoid) promises: when Run returns, the output tensor  *)
(* holds F(x) for every element x of the input tensor, at the same       *)
(* position, where F is the kernel's scalar function.  The whole output   *)
(* appears in one step; how a kernel gets there is its own business.     *)
(* The scalar function F is a parameter of the module.                    *)
(***************************************************************************)
EXTENDS Tensor

CONSTANTS
    F(_),     \* the scalar function of the kernel
    Shapes    \* the tensor shapes (dims vectors) the kernel may be given

\* What the kernel is to compute.
Mapped(d) == [k \in 0..(Elements(d) - 1) |-> F(InputMem(d)[k])]

VARIABLES shape, result

vars == <<shape, result>>

Init == shape \in Shapes /\ result = Unwritten(shape)

Compute == result = Unwritten(shape) /\ result' = Mapped(shape) /\ UNCHANGED shape

\* The kernel is called once and returns.
Spec == Init /\ [][Compute]_vars /\ WF_vars(Compute)
=============================================================================
