------------------------------ MODULE MCKernel ------------------------------
(* The kernel on a small machine; the configurations say how many tasks,   *)
(* TIDs and PIDs there are and what the user programs do.                  *)
EXTENDS Kernel
=============================================================================
