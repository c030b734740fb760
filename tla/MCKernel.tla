------------------------------ MODULE MCKernel ------------------------------
(* Small instances of Kernel for TLC: the constants are given in the cfg files. *)
EXTENDS Kernel
=============================================================================
