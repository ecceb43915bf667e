------------------------------ MODULE MCKernel ------------------------------
(* Kernel for TLC: the idle thread and two or three others. *)
EXTENDS Kernel
=============================================================================
