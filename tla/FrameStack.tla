------------------------------ MODULE FrameStack ------------------------------
(***************************************************************************)
(* What the frame store of the spectrometer board promises ("Treat Flash   *)
(* Memory as a stack"): frames come back last in, first out, until an      *)
(* operation of the memory device has failed.                              *)
(***************************************************************************)
EXTENDS Naturals, Sequences

CONSTANTS
  Frame,       \* the frames
  Capacity,    \* how many of them there is room for
  Interleaved  \* TRUE: frames may be added while others are retrieved

VARIABLES
  stack,     \* the frames, the last one on top
  emptying,  \* frames have been retrieved and others are left
  result,    \* what the last call returned
  failed     \* an operation of the device has failed

vars == <<stack, emptying, result, failed>>

Error == "error"
Ok == "ok"

Init == stack = <<>> /\ emptying = FALSE /\ result = Ok /\ failed = FALSE

Add(f) ==
  /\ ~emptying \/ Interleaved
  /\ Len(stack) < Capacity
  /\ stack' = Append(stack, f)
  /\ emptying' = FALSE
  /\ result' = Ok
  /\ UNCHANGED failed

AddRefused ==
  /\ Len(stack) = Capacity
  /\ result' = Error
  /\ UNCHANGED <<stack, emptying, failed>>

Retrieve ==
  /\ stack # <<>>
  /\ result' = stack[Len(stack)]
  /\ stack' = SubSeq(stack, 1, Len(stack) - 1)
  /\ emptying' = (Len(stack) > 1)
  /\ UNCHANGED failed

RetrieveRefused ==
  /\ result' = Error
  /\ UNCHANGED <<stack, emptying, failed>>

(* Nothing is promised from the first failure on.                           *)
Fail == failed'

Next ==
  \/ \E f \in Frame : Add(f)
  \/ AddRefused \/ Retrieve \/ RetrieveRefused \/ Fail

Spec == Init /\ [][Next]_vars
=============================================================================
