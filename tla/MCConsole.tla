----------------------------- MODULE MCConsole ------------------------------
(***************************************************************************)
(* A screen of three rows of three columns, pages of four bytes of which    *)
(* the third and fourth belong to the user, and a kernel buffer of two     *)
(* bytes.                                                                  *)
(***************************************************************************)
EXTENDS Console

MC_UserByte(a) == CASE a % 4 = 3 -> "\n" [] a % 2 = 0 -> "a" [] OTHER -> "b"

MC_Calls ==
  {[fd |-> 1, buffer |-> 8, size |-> 1], [fd |-> 1, buffer |-> 9, size |-> 5]}
    \cup [fd : {2}, buffer : {10}, size : {0, 4}]
    \cup [fd : {10}, buffer : {8}, size : {7}]
    \cup {[fd |-> 3, buffer |-> 8, size |-> 1], [fd |-> 1, buffer |-> 8, size |-> -1],
           [fd |-> 1, buffer |-> 14, size |-> 2], [fd |-> 1, buffer |-> 4, size |-> 2], [fd |-> 1, buffer |-> 14, size |-> 4],
           [fd |-> 1, buffer |-> 60, size |-> 15]}

MC_KernelTexts == {<<"k", "\n">>}
MC_BootText == <<"e", "\n", "\n">>
=============================================================================
