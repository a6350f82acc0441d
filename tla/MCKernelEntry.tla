---------------------------- MODULE MCKernelEntry ----------------------------
(***************************************************************************)
(* Exceptions with and without an error code, the line of the timer and a  *)
(* line without a handler; INT with a number of an exception, of a line,   *)
(* and without a gate.  The stubs treat the vectors of a kind alike, and   *)
(* the theorems of Kernel_proofs hold for all of them; with more vectors   *)
(* TLC visits the same states under more numbers.                          *)
(***************************************************************************)
EXTENDS KernelEntry
=============================================================================
