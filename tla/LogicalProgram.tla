--------------------------- MODULE LogicalProgram ---------------------------
(***************************************************************************)
(* What qubit mapping promises to the author of a kernel: whatever happens *)
(* to the wires on the device, the effect is that of performing the        *)
(* kernel's own gates, in their order, on the wires they were written for. *)
(* Module SabrePass is shown to implement this.                            *)
(***************************************************************************)
EXTENDS Integers, Sequences

CONSTANT Programs        \* sequences of gates

VARIABLES program,       \* the gates of the kernel
          trace          \* the gates performed so far

vars == <<program, trace>>

Init == program \in Programs /\ trace = <<>>

Perform ==
  /\ Len(trace) < Len(program)
  /\ trace' = Append(trace, program[Len(trace) + 1])
  /\ UNCHANGED program

Spec == Init /\ [][Perform]_vars
=============================================================================
