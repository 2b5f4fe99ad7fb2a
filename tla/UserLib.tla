------------------------------ MODULE UserLib -------------------------------
(***************************************************************************)
(* The user library (libc.c) as the threads of one process use it: prints  *)
(* and printd put a text together byte by byte in a static buffer and then *)
(* write it, perror writes the message of errno, clear_screen_buffer a     *)
(* blank screen.  A thread may lose the processor between any two bytes.   *)
(*                                                                         *)
(* A format is a sequence of pieces: a character of the format, a          *)
(* conversion and the text it stands for (Numbers has how %d and %u make   *)
(* it), or a letter after % that is no conversion.                         *)
(***************************************************************************)
EXTENDS Integers, Sequences, FiniteSets
LOCAL INSTANCE SequencesExt

CONSTANTS
  Threads, Calls,                 \* Calls[t]: the calls that thread t makes
  PRINTF_BUFFER_SIZE, MAX_CALLS,
  KnownErrors, OtherErrors        \* the values of errno with and without a message

ASSUME UserLibAssumption == PRINTF_BUFFER_SIZE \in Nat \ {0}

VARIABLES
  thread,                         \* thread[t]: the call of t and how far it is
  buffer,                         \* the static buffers of prints and printd
  errno,
  out,                            \* the writes, in their order
  screen,                         \* the attribute of the cells of the screen
  calls                           \* calls[t]: how many calls t has made

vars == <<thread, buffer, errno, out, screen, calls>>

NoByte == "-"
PERCENT == "%"
Idle == [at |-> "idle"]
LightGray == 7
Black == 0

\* A buffer for each of the two functions; there is one for the whole process.
FdOf == [prints |-> 1, printd |-> 2]

-----------------------------------------------------------------------------
(* prints and printd *)

\* The other threads that are in the same function.
Others(t, fn) == {u \in Threads \ {t} : thread[u].at = "format" /\ thread[u].fn = fn}

\* What is meant, and what the calls of other threads mean that are in the function meanwhile
\* (met), are history.
Start(t, fn, fmt) ==
  thread' = [u \in Threads |->
               IF u = t THEN [at |-> "format", fn |-> fn, fmt |-> fmt, rest |-> <<>>, buf_idx |-> 0,
                              meant |-> fmt, met |-> {thread[v].meant : v \in Others(t, fn)}]
               ELSE IF u \in Others(t, fn) THEN [thread[u] EXCEPT !.met = @ \cup {fmt}]
               ELSE thread[u]]

\* printd with the buffer of prints.
PutIn_OneBuffer(fn, i, b) == buffer' = [buffer EXCEPT !["prints"][i + 1] = b, !["printd"][i + 1] = b]

PutIn(fn, i, b) == buffer' = [buffer EXCEPT ![fn][i + 1] = b]

RoomInText(t) == thread[t].buf_idx < PRINTF_BUFFER_SIZE - 1
RoomForPiece(t) == thread[t].buf_idx < PRINTF_BUFFER_SIZE - 1

\* A character of the format, of %c or of %%, or the % of what is no conversion.
PutChar(t) ==
  /\ thread[t].at = "format" /\ thread[t].rest = <<>> /\ thread[t].fmt # <<>> /\ RoomForPiece(t)
  /\ LET p == Head(thread[t].fmt) IN
     /\ p.kind # "text"
     /\ PutIn(thread[t].fn, thread[t].buf_idx, IF p.kind = "unknown" THEN PERCENT ELSE p.text[1])
     /\ thread' = [thread EXCEPT ![t].fmt = Tail(@), ![t].buf_idx = @ + 1,
                                 ![t].rest = IF p.kind = "unknown" THEN p.text ELSE <<>>]
  /\ UNCHANGED <<errno, out, screen, calls>>

\* %d, %u and %s: the text is there, its bytes follow.
Convert(t) ==
  /\ thread[t].at = "format" /\ thread[t].rest = <<>> /\ thread[t].fmt # <<>> /\ RoomForPiece(t)
  /\ Head(thread[t].fmt).kind = "text"
  /\ thread' = [thread EXCEPT ![t].fmt = Tail(@), ![t].rest = Head(thread[t].fmt).text]
  /\ UNCHANGED <<buffer, errno, out, screen, calls>>

\* The next byte of a text, or the end of it when the buffer is full.
PutText(t) ==
  /\ thread[t].at = "format" /\ thread[t].rest # <<>>
  /\ IF RoomInText(t)
     THEN /\ PutIn(thread[t].fn, thread[t].buf_idx, Head(thread[t].rest))
          /\ thread' = [thread EXCEPT ![t].rest = Tail(@), ![t].buf_idx = @ + 1]
     ELSE thread' = [thread EXCEPT ![t].rest = <<>>] /\ UNCHANGED buffer
  /\ UNCHANGED <<errno, out, screen, calls>>

Written(t, fn) == SubSeq(buffer[fn], 1, thread[t].buf_idx)

\* The write: the kernel takes the bytes from the buffer in one step.
WriteText(t) ==
  /\ thread[t].at = "format" /\ thread[t].rest = <<>>
  /\ thread[t].fmt = <<>> \/ ~RoomForPiece(t)
  /\ out' = IF thread[t].buf_idx = 0 THEN out
            ELSE Append(out, [by |-> t, fd |-> FdOf[thread[t].fn], bytes |-> Written(t, thread[t].fn),
                              meant |-> thread[t].meant, met |-> thread[t].met])
  /\ thread' = [thread EXCEPT ![t] = Idle]
  /\ UNCHANGED <<buffer, errno, screen, calls>>

-----------------------------------------------------------------------------
(* perror and clear_screen_buffer *)

Say(t, what) == Append(out, [by |-> t, fd |-> 1, bytes |-> what, meant |-> <<>>, met |-> {}])

\* The message of errno, or the first of three writes.  With -O2 errno is read once.
perror(t) ==
  /\ thread[t].at = "perror"
  /\ out' = Say(t, IF errno \in KnownErrors THEN <<"message", errno>> ELSE <<"Message for error">>)
  /\ thread' = [thread EXCEPT ![t] = IF errno \in KnownErrors THEN Idle
                                     ELSE [at |-> "perror_number", of |-> errno]]
  /\ UNCHANGED <<buffer, errno, screen, calls>>

perror_number(t) ==
  /\ thread[t].at = "perror_number"
  /\ out' = Say(t, <<"number", thread[t].of>>)
  /\ thread' = [thread EXCEPT ![t] = [at |-> "perror_end"]]
  /\ UNCHANGED <<buffer, errno, screen, calls>>

perror_end(t) ==
  /\ thread[t].at = "perror_end"
  /\ out' = Say(t, <<"not found">>)
  /\ thread' = [thread EXCEPT ![t] = Idle]
  /\ UNCHANGED <<buffer, errno, screen, calls>>

clear_screen_buffer(t) ==
  /\ thread[t].at = "clear"
  /\ screen' = Black
  /\ thread' = [thread EXCEPT ![t] = Idle]
  /\ UNCHANGED <<buffer, errno, out, calls>>

-----------------------------------------------------------------------------
(* The program *)

Init ==
  /\ thread = [t \in Threads |-> Idle]
  /\ buffer = [fn \in DOMAIN FdOf |-> [i \in 1..PRINTF_BUFFER_SIZE |-> NoByte]]
  /\ errno = 0 /\ out = <<>> /\ screen = LightGray
  /\ calls = [t \in Threads |-> 0]

\* A thread makes a call, or a system call of it fails.
Call(t) ==
  /\ thread[t].at = "idle" /\ calls[t] < MAX_CALLS
  /\ calls' = [calls EXCEPT ![t] = @ + 1]
  /\ \E c \in Calls[t] :
       CASE c.fn \in DOMAIN FdOf -> Start(t, c.fn, c.fmt) /\ UNCHANGED errno
         [] c.fn = "fail" -> errno' = c.errno /\ UNCHANGED thread
         [] OTHER -> thread' = [thread EXCEPT ![t] = [at |-> c.fn]] /\ UNCHANGED errno
  /\ UNCHANGED <<buffer, out, screen>>

\* printd is prints with its own buffer and descriptor.
Step(t) == PutChar(t) \/ Convert(t) \/ PutText(t) \/ WriteText(t)
           \/ perror(t) \/ perror_number(t) \/ perror_end(t) \/ clear_screen_buffer(t)

Done == (\A t \in Threads : thread[t].at = "idle" /\ calls[t] = MAX_CALLS) /\ UNCHANGED vars

Next == (\E t \in Threads : Call(t) \/ Step(t)) \/ Done

\* The round robin gives every thread the processor again and again.
Fairness == \A t \in Threads : WF_vars(Step(t)) /\ WF_vars(Call(t))
Spec == Init /\ [][Next]_vars /\ Fairness

-----------------------------------------------------------------------------
(* Properties *)

\* What a format stands for, as much of it as the buffer holds.
Text(fmt) ==
  LET all == FlattenSeq([i \in 1..Len(fmt) |-> IF fmt[i].kind = "unknown" THEN <<PERCENT>> \o fmt[i].text
                                                ELSE fmt[i].text])
  IN SubSeq(all, 1, IF Len(all) < PRINTF_BUFFER_SIZE - 1 THEN Len(all) ELSE PRINTF_BUFFER_SIZE - 1)

\* prints and printd put no byte past the end of the buffer and write as many bytes as the text
\* of the format has, up to the size of the buffer.  The text is whole, whatever other threads do,
\* unless one of them is in the same function meanwhile: the two share its static buffer, and any
\* byte may then be the one that the other text has at that place, and none else.
WholeMessages ==
  /\ \A t \in Threads : thread[t].at = "format" => thread[t].buf_idx \in 0..(PRINTF_BUFFER_SIZE - 1)
  /\ \A i \in 1..Len(out) : out[i].meant # <<>> =>
       LET bytes == out[i].bytes
           own == Text(out[i].meant)
       IN /\ Len(bytes) = Len(own)
          /\ \A j \in 1..Len(own) :
               bytes[j] = own[j] \/ \E m \in out[i].met : j <= Len(Text(m)) /\ bytes[j] = Text(m)[j]
=============================================================================
