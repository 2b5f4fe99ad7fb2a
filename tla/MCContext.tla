----------------------------- MODULE MCContext ------------------------------
(***************************************************************************)
(* Two threads: the first calls every stub, and so makes the second one,   *)
(* by fork or as a thread, which writes and waits.                         *)
(***************************************************************************)
EXTENDS Context

MC_All == {write, gettime, getpid, fork, exit, block, unblock, ThreadCreate, ThreadExit, gettid,
           KeyboardEvent, WaitForTick}
MC_Stubs == [t \in Threads |-> IF t = 1 THEN MC_All ELSE {write, WaitForTick}]
=============================================================================
