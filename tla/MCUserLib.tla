----------------------------- MODULE MCUserLib ------------------------------
(***************************************************************************)
(* Two threads, a buffer of four bytes, and texts that fill and pass it.   *)
(***************************************************************************)
EXTENDS UserLib, TLC

Ch(c) == [kind |-> "char", text |-> <<c>>]
Txt(s) == [kind |-> "text", text |-> s]
Unknown(c) == [kind |-> "unknown", text |-> <<c>>]

P(fn, fmt) == [fn |-> fn, fmt |-> fmt]
Fail(e) == [fn |-> "fail", errno |-> e]
Do(fn) == [fn |-> fn]

Some(fn, a, b) == {P(fn, <<Ch(a), Txt(<<a, b>>)>>), P(fn, <<Txt(<<b, a, b, a>>), Ch(b)>>)}
Odd(fn, a, b) == {P(fn, <<Txt(<<b>>), Unknown(a), Ch(b)>>), P(fn, <<Ch(a), Ch(b), Unknown(b)>>), P(fn, <<>>)}

\* Each prints and prints for the debugger.
MC_Calls == (1 :> (Some("prints", "a", "b") \cup Odd("printd", "a", "b") \cup {Fail(9), Do("perror")}))
         @@ (2 :> (Some("prints", "c", "d") \cup Odd("printd", "c", "d") \cup {Fail(11), Do("clear")}))
=============================================================================
