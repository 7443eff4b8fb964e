----------------------------- MODULE Elementwise -----------------------------
(***************************************************************************)
(* The Run method of the element-wise activation kernels of the common    *)
(* executor: AbsValOps (absval.cpp), TanHOps (tanh.cpp), SigmoidOps       *)
(* (sigmoid.cpp).  The three are one loop nest over the input tensor      *)
(* read as N x C x (H*W), with a different scalar function in the body:  *)
(*                                                                         *)
(*   batch_number = dims[0]; channel_num = dims[1];                        *)
(*   channel_size = dims[2]*dims[3]; img_size = channel_num*channel_size;  *)
(*   for i < batch_number, for c < channel_num:                            *)
(*     offset = i*img_size + c*channel_size                                *)
(*     for l < channel_size: output[offset+l] = F(input[offset+l])         *)
(*                                                                         *)
(* One step is one test of a loop condition or one execution of the      *)
(* innermost body.  A dims vector shorter than four is read past its end  *)
(* (undefined behaviour, status "fault"), as is a write outside the      *)
(* output buffer.                                                         *)
(***************************************************************************)
EXTENDS Tensor

CONSTANTS
    Kernel,   \* "AbsVal", "TanH" or "Sigmoid": the registered operator
    Shapes    \* the input shapes Run may be given

\* The scalar functions of the three bodies (line 39 of each file), left
\* uninterpreted; abs is the <math.h> float overload.
AbsValElem(x)  == <<"fabs", x>>
TanHElem(x)    == <<"tanh", x>>
SigmoidElem(x) == <<"sigmoid", x>>

\* The kernel registered for each operator name by RegisterX_NodeExec.
KernelFn(x) ==
    CASE Kernel = "AbsVal" -> AbsValElem(x)
      [] Kernel = "TanH"   -> TanHElem(x)
      [] Kernel = "Sigmoid" -> SigmoidElem(x)

VARIABLES
    dims,     \* the shape of the input tensor
    output,   \* the output buffer, of as many elements as the input
    i, c, l,  \* the three loop counters
    pc        \* "setup", "outer", "middle", "inner", "done", "fault"

vars == <<dims, output, i, c, l, pc>>

\* The kernel as ElementwiseMap sees it: nothing is written until Run
\* returns, then the whole output buffer.
Abstract == INSTANCE ElementwiseMap
    WITH F <- KernelFn,
         shape <- dims,
         result <- IF pc = "done" THEN output ELSE Unwritten(dims)


batch_number == dims[1]
channel_num  == dims[2]
channel_size == dims[3] * dims[4]
img_size     == channel_num * channel_size
\* Mutant: the channel stride taken as the channel count.
OffsetByChannelNum == i * img_size + c * channel_num

offset == i * img_size + c * channel_size

Init ==
    /\ dims \in Shapes
    /\ output = Unwritten(dims)
    /\ i = 0 /\ c = 0 /\ l = 0
    /\ pc = "setup"

\* Lines 20-30: read the four dims of the input shape.
Setup ==
    /\ pc = "setup"
    /\ pc' = IF Len(dims) < 4 THEN "fault" ELSE "outer"
    /\ UNCHANGED <<dims, output, i, c, l>>

\* for(int i=0; i<batch_number; i++)
OuterTest ==
    /\ pc = "outer"
    /\ IF i < batch_number THEN c' = 0 /\ pc' = "middle" ELSE pc' = "done" /\ UNCHANGED c
    /\ UNCHANGED <<dims, output, i, l>>

\* Mutant: c <= channel_num.
MiddleTestLe ==
    /\ pc = "middle"
    /\ IF c <= channel_num
          THEN l' = 0 /\ pc' = "inner" /\ UNCHANGED i
          ELSE i' = i + 1 /\ pc' = "outer" /\ UNCHANGED l
    /\ UNCHANGED <<dims, output, c>>

\* for(int c=0; c<channel_num; c++), with the offset of the channel.
MiddleTest ==
    /\ pc = "middle"
    /\ IF c < channel_num
          THEN l' = 0 /\ pc' = "inner" /\ UNCHANGED i
          ELSE i' = i + 1 /\ pc' = "outer" /\ UNCHANGED l
    /\ UNCHANGED <<dims, output, c>>

\* output[offset+l] = F(input[offset+l]); l++.
InnerBody ==
    /\ pc = "inner"
    /\ l < channel_size
    /\ IF offset + l \in DOMAIN output
          THEN output' = [output EXCEPT ![offset + l] = KernelFn(InputMem(dims)[offset + l])]
               /\ l' = l + 1 /\ UNCHANGED pc
          ELSE pc' = "fault" /\ UNCHANGED <<output, l>>
    /\ UNCHANGED <<dims, i, c>>

\* The innermost loop ends: c++.
InnerExit ==
    /\ pc = "inner"
    /\ l >= channel_size
    /\ c' = c + 1
    /\ pc' = "middle"
    /\ UNCHANGED <<dims, output, i, l>>

Next == Setup \/ OuterTest \/ MiddleTest \/ InnerBody \/ InnerExit

\* Run executes on one thread and never waits.
Spec == Init /\ [][Next]_vars /\ WF_vars(Next)

-----------------------------------------------------------------------------
\* Types; once the dims are read, every loop counter stays within its
\* bound, the loop condition's limit included.
TypeOK ==
    /\ pc \in {"setup", "outer", "middle", "inner", "done", "fault"}
    /\ {i, c, l} \subseteq Nat
    /\ DOMAIN output = 0..(Elements(dims) - 1)
    /\ pc \in {"outer", "middle", "inner", "done"} =>
          i \in 0..batch_number /\ c \in 0..channel_num /\ l \in 0..channel_size

\* Every Run refines ElementwiseMap: when the loop nest ends, every element
\* of the output buffer holds F of the input element at the same position
\* (no element skipped, written twice from another position or outside the
\* buffer), and the loop nest does end.
Refinement == Abstract!Spec
=============================================================================
