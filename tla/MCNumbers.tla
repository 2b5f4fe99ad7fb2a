----------------------------- MODULE MCNumbers ------------------------------
(***************************************************************************)
(* Ints of eight bits, and the ticks of the clock as they are, in the first *)
(* seconds and when its four digits are used up.                           *)
(***************************************************************************)
EXTENDS Numbers
=============================================================================
