------------------------------ MODULE MCSched ------------------------------
(* Sched for TLC: the constants are given by the configurations. *)
EXTENDS Sched
=============================================================================
