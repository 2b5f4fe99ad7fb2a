------------------------------ MODULE Keyboard ------------------------------
(***************************************************************************)
(* Keyboard events: keyboard.c, the entries of entry.S and the gates of    *)
(* interrupt.c that lead to it, kbd_wrapper and sys_keyboard_event.        *)
(*                                                                         *)
(* A user context is where the task is (eip) and what its registers hold.  *)
(* The program of a task is a ring of points whose registers are known at  *)
(* each point, so that a register that is not given back is noticed.       *)
(* Scheduling is reduced to what a handler can see of it: who runs, and    *)
(* who cannot.  Frames of the auxiliary stack are counted in Memory.       *)
(***************************************************************************)
EXTENDS Integers

CONSTANTS Tasks,           \* task_structs of user tasks
          Dirs,            \* page directories
          Keys,            \* scancodes with their pressed flag
          Points,          \* points of a user program: 0..Points-1
          Idle

ASSUME KeyboardConstants == Points \in Nat \ {0} /\ Idle \notin Tasks

Program == 0..(Points - 1)
Junk == -1                        \* a register that no longer holds its value
InWrapper == -2                   \* kbd_wrapper, before it calls the handler
InCallback == -3                  \* the user's handler
AtInt2b == -4                     \* kbd_wrapper at int $0x2b
NoKey == "none"
Eips == Program \cup {InWrapper, InCallback, AtInt2b}
Context == [eip : Eips, regs : Program \cup {Junk}]

VARIABLES
  dir,             \* the page directory of each task: threads of a process share it
  cur,             \* current_task
  status,          \* "ready" (or running), "blocked", "tick" or "gone"
  cpu,             \* user context of each task, while it is in user mode
  frame,           \* the 16 words at the top of its kernel stack, inside int 0x2b
  mode,            \* "user", or inside int 0x2b: "restored", then "popped"
  kbd_handler,     \* TRUE when not NULL
  in_kbd_context,
  kbd_saved_ctx,   \* while in_kbd_context: the stale copy is not kept afterwards
  aux,             \* parameters on the auxiliary stack of each address space
  due,             \* the key for which each task's handler was entered
  got,             \* the key that the callback received
  shared           \* address spaces in which two threads have listened at a time

vars == <<dir, cur, status, cpu, frame, mode, kbd_handler, in_kbd_context, kbd_saved_ctx,
          aux, due, got, shared>>
sched == <<dir, cur, status>>
keyboard == <<kbd_handler, in_kbd_context, kbd_saved_ctx, aux, due, got, shared>>

Start == [eip |-> 0, regs |-> 0]

Init ==
  /\ dir \in [Tasks -> Dirs]
  /\ cur \in Tasks
  /\ status = [t \in Tasks |-> "ready"]
  /\ cpu = [t \in Tasks |-> Start] /\ frame = [t \in Tasks |-> Start]
  /\ mode = [t \in Tasks |-> "user"]
  /\ kbd_handler = [t \in Tasks |-> FALSE]
  /\ in_kbd_context = [t \in Tasks |-> FALSE]
  /\ kbd_saved_ctx = [t \in Tasks |-> Start]
  /\ aux = [d \in Dirs |-> NoKey]
  /\ due = [t \in Tasks |-> NoKey] /\ got = [t \in Tasks |-> NoKey]
  /\ shared = {}

InUser(t) == cur = t /\ mode[t] = "user"
InProgram(t) == InUser(t) /\ cpu[t].eip \in Program

\* The scheduler picks a ready task, or idle when there is none.
PickNext(st) ==
  LET ready == {t \in Tasks : st[t] = "ready"}
  IN cur' \in IF ready = {} THEN {Idle} ELSE ready

-----------------------------------------------------------------------------
(* Interrupts *)

\* A trap gate (0x8F00) leaves the interrupt flag set.
setTrapHandler_TrapGate == TRUE

\* Whether int 0x2b leaves interrupts on: setTrapHandler makes interrupt gates.
setTrapHandler == FALSE

\* An interrupt is taken in user mode, and inside int 0x2b if its gate lets it.
InterruptsOn == setTrapHandler \/ \A t \in Tasks : cur = t => mode[t] = "user"

\* What SAVE_ALL and the processor leave in the top 16 words of the kernel stack.
\* An interrupt taken when the words have been popped overwrites the registers.
SavedFrame(t) ==
  CASE mode[t] = "user" -> cpu[t]
    [] mode[t] = "restored" -> frame[t]
    [] OTHER -> [frame[t] EXCEPT !.regs = Junk]

\* clock_routine: the tick waiters wake, the running task may be preempted.
clock_routine ==
  /\ InterruptsOn
  /\ status' = [t \in Tasks |-> IF status[t] = "tick" THEN "ready" ELSE status[t]]
  /\ PickNext(status')
  /\ UNCHANGED <<dir, cpu, frame, mode, keyboard>>

\* The key does not look whether the handler is running.
KeyGoesTo_NoContext(t) == t \in Tasks /\ kbd_handler[t]

\* The early return of kbd_irq_handler.
KeyGoesTo(t) == t \in Tasks /\ kbd_handler[t] /\ ~in_kbd_context[t]

\* One page for all address spaces.
PushParameters_OnePage(t, k) == [d \in DOMAIN aux |-> k]

\* The handler, the key and the pressed flag on the auxiliary stack.
PushParameters(t, k) == [aux EXCEPT ![dir[t]] = k]

\* kbd_irq_entry: save the context, put the key on the auxiliary stack, and return
\* to kbd_wrapper instead of the interrupted code.
kbd_irq_handler(k) ==
  LET t == cur IN
  /\ InterruptsOn
  /\ KeyGoesTo(t)
  /\ in_kbd_context' = [in_kbd_context EXCEPT ![t] = TRUE]
  /\ kbd_saved_ctx' = [kbd_saved_ctx EXCEPT ![t] = SavedFrame(t)]
  /\ aux' = PushParameters(t, k)
  /\ due' = [due EXCEPT ![t] = k]
  /\ LET words == [SavedFrame(t) EXCEPT !.eip = InWrapper]
     IN IF mode[t] = "user"
        THEN cpu' = [cpu EXCEPT ![t] = words] /\ UNCHANGED frame
        ELSE frame' = [frame EXCEPT ![t] = words] /\ UNCHANGED cpu
  /\ UNCHANGED <<sched, mode, kbd_handler, got, shared>>

\* The key is dropped: the running task has no handler, or is inside it.
KeyDropped ==
  /\ InterruptsOn
  /\ ~KeyGoesTo(cur)
  /\ UNCHANGED vars

\* kbd_resume_handler puts the saved context back in the frame; outside the handler
\* context it leaves the frame alone.
Resumed(t) == IF in_kbd_context[t] THEN kbd_saved_ctx[t] ELSE cpu[t]

kbd_resume_handler(t) ==
  /\ InUser(t) /\ cpu[t].eip = AtInt2b
  /\ frame' = [frame EXCEPT ![t] = Resumed(t)]
  /\ mode' = [mode EXCEPT ![t] = "restored"]
  /\ in_kbd_context' = [in_kbd_context EXCEPT ![t] = FALSE]
  /\ kbd_saved_ctx' = [kbd_saved_ctx EXCEPT ![t] = Start]
  /\ due' = [due EXCEPT ![t] = NoKey] /\ got' = [got EXCEPT ![t] = NoKey]
  /\ UNCHANGED <<sched, cpu, kbd_handler, aux, shared>>

\* RESTORE_ALL of kbd_resume_entry.
RestoreAll(t) ==
  /\ cur = t /\ mode[t] = "restored"
  /\ cpu' = [cpu EXCEPT ![t].regs = frame[t].regs]
  /\ mode' = [mode EXCEPT ![t] = "popped"]
  /\ UNCHANGED <<sched, frame, keyboard>>

\* iret of kbd_resume_entry.
Iret(t) ==
  /\ cur = t /\ mode[t] = "popped"
  /\ cpu' = [cpu EXCEPT ![t].eip = frame[t].eip]
  /\ mode' = [mode EXCEPT ![t] = "user"]
  /\ frame' = [frame EXCEPT ![t] = Start]
  /\ UNCHANGED <<sched, keyboard>>

-----------------------------------------------------------------------------
(* User code *)

\* The program goes on to its next point.
ProgramRuns(t) ==
  /\ InProgram(t)
  /\ LET n == (cpu[t].eip + 1) % Points
     IN cpu' = [cpu EXCEPT ![t] = [eip |-> n, regs |-> n]]
  /\ UNCHANGED <<sched, frame, mode, keyboard>>

\* kbd_wrapper pushes the parameters again and calls the handler.
CallHandler(t) ==
  /\ InUser(t) /\ cpu[t].eip = InWrapper
  /\ got' = [got EXCEPT ![t] = aux[dir[t]]]
  /\ cpu' = [cpu EXCEPT ![t] = [eip |-> InCallback, regs |-> Junk]]
  /\ UNCHANGED <<sched, frame, mode, kbd_handler, in_kbd_context, kbd_saved_ctx, aux,
                 due, shared>>

\* The callback returns to kbd_wrapper.
HandlerReturns(t) ==
  /\ InUser(t) /\ cpu[t].eip = InCallback
  /\ cpu' = [cpu EXCEPT ![t].eip = AtInt2b]
  /\ UNCHANGED <<sched, frame, mode, keyboard>>

-----------------------------------------------------------------------------
(* System calls.  One that returns -EINPROGRESS changes nothing. *)

\* A program or a callback calls.
Calls(t) == InUser(t) /\ cpu[t].eip \in Program \cup {InCallback}

in_keyboard_context(t) == in_kbd_context[t]

\* Blocking without a look at the context.
sys_block_Anywhere(t) ==
  /\ Calls(t)
  /\ status' = [status EXCEPT ![t] = "blocked"]
  /\ PickNext(status')
  /\ UNCHANGED <<dir, cpu, frame, mode, keyboard>>

\* sys_block with no pending unblock.
sys_block(t) ==
  /\ Calls(t) /\ ~in_keyboard_context(t)
  /\ status' = [status EXCEPT ![t] = "blocked"]
  /\ PickNext(status')
  /\ UNCHANGED <<dir, cpu, frame, mode, keyboard>>

sys_waitfortick(t) ==
  /\ Calls(t) /\ ~in_keyboard_context(t)
  /\ status' = [status EXCEPT ![t] = "tick"]
  /\ PickNext(status')
  /\ UNCHANGED <<dir, cpu, frame, mode, keyboard>>

\* sys_unblock by a parent.
sys_unblock(t, child) ==
  /\ Calls(t) /\ ~in_keyboard_context(t)
  /\ status[child] = "blocked"
  /\ status' = [status EXCEPT ![child] = "ready"]
  /\ UNCHANGED <<dir, cur, cpu, frame, mode, keyboard>>

\* sys_keyboard_event(func, wrapper), with a frame for the auxiliary stack.
KeyboardEvent(t) ==
  /\ Calls(t) /\ ~in_keyboard_context(t)
  /\ kbd_handler' = [kbd_handler EXCEPT ![t] = TRUE]
  /\ shared' = IF \E u \in Tasks \ {t} : dir[u] = dir[t] /\ kbd_handler[u]
               THEN shared \cup {dir[t]} ELSE shared
  /\ UNCHANGED <<sched, cpu, frame, mode, in_kbd_context, kbd_saved_ctx, aux, due, got>>

\* cleanup_kbd_handler: no handler, no context, no auxiliary stack.
cleanup_kbd_handler(t) ==
  /\ kbd_handler' = [kbd_handler EXCEPT ![t] = FALSE]
  /\ in_kbd_context' = [in_kbd_context EXCEPT ![t] = FALSE]
  /\ kbd_saved_ctx' = [kbd_saved_ctx EXCEPT ![t] = Start]

\* sys_keyboard_event(NULL).
KeyboardEventNull(t) ==
  /\ Calls(t) /\ ~in_keyboard_context(t)
  /\ cleanup_kbd_handler(t)
  /\ UNCHANGED <<sched, cpu, frame, mode, aux, due, got, shared>>

\* sys_exit, which cleans up, and sys_exit_thread, which does not.  Neither looks at
\* the handler context.  init_keyboard_fields clears the fields when the
\* task_struct is used again: here it is not.
Exit(t) ==
  /\ Calls(t)
  /\ status' = [status EXCEPT ![t] = "gone"]
  /\ PickNext(status')
  /\ cleanup_kbd_handler(t) \/ UNCHANGED <<kbd_handler, in_kbd_context, kbd_saved_ctx>>
  /\ UNCHANGED <<dir, cpu, frame, mode, aux, due, got, shared>>

-----------------------------------------------------------------------------
\* What a task does by itself whenever it has the processor.
Goes(t) ==
  \/ ProgramRuns(t) \/ CallHandler(t) \/ HandlerReturns(t)
  \/ kbd_resume_handler(t) \/ RestoreAll(t) \/ Iret(t)

SystemCall(t) ==
  \/ sys_block(t) \/ sys_waitfortick(t) \/ (\E c \in Tasks : sys_unblock(t, c))
  \/ KeyboardEvent(t) \/ KeyboardEventNull(t) \/ Exit(t)

Next ==
  \/ clock_routine
  \/ \E k \in Keys : kbd_irq_handler(k)
  \/ KeyDropped
  \/ \E t \in Tasks : Goes(t) \/ SystemCall(t)

Spec == Init /\ [][Next]_vars

\* The clock does not stop, round robin gives every ready task the processor
\* again and again (ReadyRuns of Sched), and there the task goes on.
FairSpec ==
  /\ Spec
  /\ \A t \in Tasks : SF_vars(clock_routine /\ cur' = t) /\ SF_vars(Goes(t))
-----------------------------------------------------------------------------
\* Types; the running task is one that can run.
TypeOK ==
  /\ dir \in [Tasks -> Dirs]
  /\ cur \in {t \in Tasks : status[t] = "ready"} \cup {Idle}
  /\ status \in [Tasks -> {"ready", "blocked", "tick", "gone"}]
  /\ cpu \in [Tasks -> Context] /\ frame \in [Tasks -> Context]
  /\ mode \in [Tasks -> {"user", "restored", "popped"}]
  /\ kbd_handler \in [Tasks -> BOOLEAN] /\ in_kbd_context \in [Tasks -> BOOLEAN]
  /\ kbd_saved_ctx \in [Tasks -> Context]
  /\ \A t \in Tasks : {aux[dir[t]], due[t], got[t]} \subseteq Keys \cup {NoKey}
  /\ shared \subseteq Dirs

\* A program always finds its registers as it left them, whatever keys arrived
\* meanwhile and whatever the callbacks did: the handler is transparent.
Transparent ==
  \A t \in Tasks : mode[t] = "user" /\ cpu[t].eip \in Program => cpu[t].regs = cpu[t].eip

\* Where a program is, or will go on after the handler.
Position(t) ==
  IF in_kbd_context[t] THEN kbd_saved_ctx[t].eip
  ELSE IF mode[t] = "user" THEN cpu[t].eip ELSE frame[t].eip

\* A key, its handler and the resume never move a program: it goes on exactly
\* where it was interrupted.
GoesOnWhereInterrupted ==
  [][\A t \in Tasks : status'[t] # "gone" => Position(t)' = Position(t) \/ ProgramRuns(t)]_vars

\* The callback receives the key for which its task was interrupted, in every
\* process where at most one thread listens: the threads of a process share the
\* page of the auxiliary stack, and only they do.
CallbackGetsItsKey ==
  \A t \in Tasks :
    cur = t /\ cpu[t].eip = InCallback /\ dir[t] \notin shared => got[t] = due[t]

\* A handler always ends: it cannot block, because the blocking calls refuse to
\* from the handler context, and a handler that is preempted goes on later.
HandlerEnds ==
  \A t \in Tasks : in_kbd_context[t] /\ status[t] # "gone"
                     ~> ~in_kbd_context[t] \/ status[t] = "gone"
=============================================================================
