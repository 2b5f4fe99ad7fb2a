--------------------------- MODULE KeyboardProofs ---------------------------
(***************************************************************************)
(* A keyboard handler is transparent to the program it interrupts, for     *)
(* every number of tasks, address spaces and keys, and also when threads   *)
(* share the auxiliary page or callbacks exit.                             *)
(*                                                                         *)
(* Transparent is not inductive: the context must also be intact where it  *)
(* waits, in kbd_saved_ctx during the handler and in the frame inside      *)
(* int 0x2b, and a live task that is in the wrapper or the callback must   *)
(* be marked as such, so that no key is accepted there.                    *)
(***************************************************************************)
EXTENDS Keyboard, TLAPS

\* A context of the program with its own registers.
Intact(c) == c.eip \in Program /\ c.regs = c.eip

\* The context of task t is intact wherever it is kept.
ContextKept(t) ==
  /\ mode[t] = "user" /\ cpu[t].eip \in Program => cpu[t].regs = cpu[t].eip
  /\ status[t] # "gone" =>
       /\ in_kbd_context[t] => /\ Intact(kbd_saved_ctx[t])
                               /\ mode[t] = "user" /\ cpu[t].eip \notin Program
       /\ ~in_kbd_context[t] /\ mode[t] = "user" => cpu[t].eip \in Program
       /\ mode[t] = "restored" => Intact(frame[t])
       /\ mode[t] = "popped" => frame[t].eip \in Program /\ cpu[t].regs = frame[t].eip

Fields(f) == f \in [Tasks -> [eip : Int, regs : Int]]

KInv ==
  /\ Fields(cpu) /\ Fields(frame) /\ Fields(kbd_saved_ctx)
  /\ status \in [Tasks -> {"ready", "blocked", "tick", "gone"}]
  /\ mode \in [Tasks -> {"user", "restored", "popped"}]
  /\ in_kbd_context \in [Tasks -> BOOLEAN]
  /\ cur \in Tasks => status[cur] = "ready"
  /\ cur \in Tasks \cup {Idle}
  /\ \A t \in Tasks : ContextKept(t)

\* The points of a program, the wrapper and the callback are different places.
LEMMA Places ==
  /\ Program \subseteq Int /\ 0 \in Program /\ Junk \in Int
  /\ InWrapper \in Int \ Program /\ InCallback \in Int \ Program /\ AtInt2b \in Int \ Program
  /\ \A p \in Program : (p + 1) % Points \in Program
BY KeyboardConstants DEF Program, Junk, InWrapper, InCallback, AtInt2b

LEMMA HandlerPlaces ==
  /\ InWrapper # InCallback /\ AtInt2b \notin {InWrapper, InCallback}
  /\ \A p \in Program : p \notin {InWrapper, InCallback}
BY KeyboardConstants DEF Program, InWrapper, InCallback, AtInt2b

\* Every task starts at the beginning of its program.
LEMMA KInvInit == Init => KInv
BY Places DEF Init, KInv, Fields, ContextKept, Start, Intact

\* Another task runs: nothing that a context is kept in changes.
LEMMA Dispatched ==
  ASSUME KInv, UNCHANGED <<cpu, frame, mode, in_kbd_context, kbd_saved_ctx>>,
         status' \in [Tasks -> {"ready", "blocked", "tick", "gone"}],
         \A t \in Tasks : status'[t] # "gone" => status[t] # "gone",
         PickNext(status')
  PROVE  KInv'
<1>1. cur' \in Tasks \cup {Idle} /\ (cur' \in Tasks => status'[cur'] = "ready")
  BY KeyboardConstants DEF PickNext
<1>2. \A t \in Tasks : ContextKept(t)' BY DEF KInv, ContextKept
<1> QED BY <1>1, <1>2 DEF KInv, Fields

\* One task changes its context, keeps its status and the processor.
Changes(t) ==
  /\ UNCHANGED <<cur, status>>
  /\ Fields(cpu') /\ Fields(frame') /\ Fields(kbd_saved_ctx')
  /\ mode' \in [Tasks -> {"user", "restored", "popped"}]
  /\ in_kbd_context' \in [Tasks -> BOOLEAN]
  /\ \A u \in Tasks \ {t} : /\ cpu'[u] = cpu[u] /\ frame'[u] = frame[u]
                            /\ kbd_saved_ctx'[u] = kbd_saved_ctx[u] /\ mode'[u] = mode[u]
                            /\ in_kbd_context'[u] = in_kbd_context[u]

\* The contexts of the other tasks are kept.
LEMMA OneTask ==
  ASSUME KInv, NEW t \in Tasks, Changes(t), ContextKept(t)'
  PROVE  KInv'
<1> USE DEF Changes
<1>1. \A u \in Tasks \ {t} : ContextKept(u)' BY DEF KInv, ContextKept
<1> QED BY <1>1 DEF KInv, Fields

\* A key is taken in the program of the running task.
LEMMA KeyStep == ASSUME KInv, NEW k \in Keys, kbd_irq_handler(k) PROVE KInv'
<1> DEFINE t == cur
<1>1. t \in Tasks /\ ~in_kbd_context[t] BY DEF kbd_irq_handler, KeyGoesTo
<1>2. mode[t] = "user" BY <1>1 DEF kbd_irq_handler, InterruptsOn, setTrapHandler
<1>3. SavedFrame(t) = cpu[t] BY <1>2 DEF SavedFrame
<1>4. Intact(cpu[t]) /\ status[t] = "ready"
  BY <1>1, <1>2 DEF KInv, ContextKept, Intact
<1>5. cpu[t] \in [eip : Int, regs : Int] BY <1>1 DEF KInv, Fields
<1> DEFINE w == [cpu[t] EXCEPT !.eip = InWrapper]
<1>6. w \in [eip : Int, regs : Int] /\ w.eip = InWrapper BY <1>5, Places
<1>7. /\ kbd_saved_ctx' = [kbd_saved_ctx EXCEPT ![t] = cpu[t]]
      /\ frame' = frame /\ cpu' = [cpu EXCEPT ![t] = w]
      /\ in_kbd_context' = [in_kbd_context EXCEPT ![t] = TRUE]
      /\ mode' = mode /\ UNCHANGED <<cur, status>>
  <2>1. /\ kbd_saved_ctx' = [kbd_saved_ctx EXCEPT ![t] = cpu[t]]
        /\ in_kbd_context' = [in_kbd_context EXCEPT ![t] = TRUE]
        /\ mode' = mode /\ UNCHANGED <<cur, status>>
    BY <1>3, Zenon DEF kbd_irq_handler, sched
  <2>2. frame' = frame /\ cpu' = [cpu EXCEPT ![t] = w]
    BY <1>2, <1>3, Zenon DEF kbd_irq_handler
  <2> QED BY <2>1, <2>2
<1> HIDE DEF w
<1>8. Fields(cpu') /\ Fields(frame') /\ Fields(kbd_saved_ctx')
  BY <1>1, <1>5, <1>6, <1>7 DEF KInv, Fields
<1>9. in_kbd_context' \in [Tasks -> BOOLEAN] BY <1>1, <1>7 DEF KInv
<1>10. /\ cpu'[t] = w /\ kbd_saved_ctx'[t] = cpu[t] /\ in_kbd_context'[t] = TRUE
  BY <1>1, <1>7 DEF KInv, Fields
<1>11. ContextKept(t)'
  <2>1. \A u : u = t => ContextKept(u)'
    BY <1>1, <1>2, <1>4, <1>6, <1>7, <1>10, Places DEF ContextKept, Intact
  <2> QED BY <1>7, <2>1 DEF ContextKept
<1> QED
  <2>1. \A u \in Tasks \ {t} : /\ cpu'[u] = cpu[u] /\ frame'[u] = frame[u]
                               /\ kbd_saved_ctx'[u] = kbd_saved_ctx[u] /\ mode'[u] = mode[u]
                               /\ in_kbd_context'[u] = in_kbd_context[u]
    BY <1>1, <1>7 DEF KInv, Fields
  <2>2. \A u \in Tasks : ContextKept(u)'
    BY <1>11, <2>1, <1>7 DEF KInv, ContextKept
  <2> QED BY <1>7, <1>8, <1>9, <2>2 DEF KInv, Fields

\* The program, the wrapper, the callback and the return from them.
LEMMA GoesStep == ASSUME KInv, NEW t \in Tasks, Goes(t) PROVE KInv'
<1>0. /\ cur = t /\ status[t] # "gone" /\ UNCHANGED <<cur, status>>
      /\ Fields(cpu) /\ Fields(frame) /\ Fields(kbd_saved_ctx)
      /\ mode \in [Tasks -> {"user", "restored", "popped"}]
      /\ in_kbd_context \in [Tasks -> BOOLEAN] /\ ContextKept(t)
  BY DEF KInv, Goes, ProgramRuns, CallHandler, HandlerReturns, kbd_resume_handler,
     RestoreAll, Iret, InProgram, InUser, sched
<1>1. CASE ProgramRuns(t)
  <2>1. /\ cpu[t].eip \in Program /\ mode[t] = "user"
        /\ UNCHANGED <<frame, mode, in_kbd_context, kbd_saved_ctx>>
        /\ cpu' = [cpu EXCEPT ![t] = [eip |-> (cpu[t].eip + 1) % Points,
                                      regs |-> (cpu[t].eip + 1) % Points]]
    BY <1>1 DEF ProgramRuns, InProgram, InUser, keyboard
  <2>2. (cpu[t].eip + 1) % Points \in Program BY <2>1, Places
  <2>3. cpu'[t].eip = (cpu[t].eip + 1) % Points /\ cpu'[t].regs = cpu'[t].eip
        /\ Fields(cpu')
    BY <1>0, <2>1, <2>2, Places DEF Fields
  <2>4. ContextKept(t)' BY <1>0, <2>1, <2>2, <2>3 DEF ContextKept
  <2>9. Changes(t) BY <1>0, <2>1, <2>3, <2>4 DEF Changes, Fields
  <2> QED BY <2>9, <2>4, OneTask
<1>2. CASE CallHandler(t)
  <2>1. /\ cpu[t].eip = InWrapper /\ mode[t] = "user"
        /\ UNCHANGED <<frame, mode, in_kbd_context, kbd_saved_ctx>>
        /\ cpu' = [cpu EXCEPT ![t] = [eip |-> InCallback, regs |-> Junk]]
    BY <1>2 DEF CallHandler, InUser
  <2>2. cpu'[t].eip = InCallback /\ Fields(cpu') BY <1>0, <2>1, Places DEF Fields
  <2>3. ContextKept(t)' BY <1>0, <2>1, <2>2, Places DEF ContextKept
  <2>9. Changes(t) BY <1>0, <2>1, <2>2, <2>3 DEF Changes, Fields
  <2> QED BY <2>9, <2>3, OneTask
<1>3. CASE HandlerReturns(t)
  <2>1. /\ cpu[t].eip = InCallback /\ mode[t] = "user"
        /\ UNCHANGED <<frame, mode, in_kbd_context, kbd_saved_ctx>>
        /\ cpu' = [cpu EXCEPT ![t].eip = AtInt2b]
    BY <1>3 DEF HandlerReturns, InUser, keyboard
  <2>2. cpu'[t].eip = AtInt2b /\ Fields(cpu') BY <1>0, <2>1, Places DEF Fields
  <2>3. ContextKept(t)' BY <1>0, <2>1, <2>2, Places DEF ContextKept
  <2>9. Changes(t) BY <1>0, <2>1, <2>2, <2>3 DEF Changes, Fields
  <2> QED BY <2>9, <2>3, OneTask
<1>4. CASE kbd_resume_handler(t)
  <2>1. /\ cpu[t].eip = AtInt2b /\ mode[t] = "user" /\ UNCHANGED cpu
        /\ kbd_saved_ctx' = [kbd_saved_ctx EXCEPT ![t] = Start]
        /\ frame' = [frame EXCEPT ![t] = Resumed(t)]
        /\ mode' = [mode EXCEPT ![t] = "restored"]
        /\ in_kbd_context' = [in_kbd_context EXCEPT ![t] = FALSE]
    BY <1>4 DEF kbd_resume_handler, InUser
  <2>2. in_kbd_context[t] /\ Intact(kbd_saved_ctx[t]) BY <1>0, <2>1, Places DEF ContextKept
  <2>3. Resumed(t) = kbd_saved_ctx[t] BY <2>2 DEF Resumed
  <2>4. /\ frame'[t] = kbd_saved_ctx[t] /\ mode'[t] = "restored" /\ ~in_kbd_context'[t]
        /\ Fields(frame') /\ mode' \in [Tasks -> {"user", "restored", "popped"}]
        /\ in_kbd_context' \in [Tasks -> BOOLEAN] /\ Fields(kbd_saved_ctx')
    BY <1>0, <2>1, <2>3, Places DEF Fields, Start
  <2>5. ContextKept(t)' BY <1>0, <2>1, <2>2, <2>4 DEF ContextKept, Intact
  <2>9. Changes(t) BY <1>0, <2>1, <2>4, <2>5 DEF Changes, Fields
  <2> QED BY <2>9, <2>5, OneTask
<1>5. CASE RestoreAll(t)
  <2>1. /\ mode[t] = "restored" /\ UNCHANGED <<frame, in_kbd_context, kbd_saved_ctx>>
        /\ cpu' = [cpu EXCEPT ![t].regs = frame[t].regs]
        /\ mode' = [mode EXCEPT ![t] = "popped"]
    BY <1>5 DEF RestoreAll, keyboard
  <2>2. /\ cpu'[t].regs = frame[t].regs /\ Fields(cpu') /\ mode'[t] = "popped"
        /\ mode' \in [Tasks -> {"user", "restored", "popped"}]
    BY <1>0, <2>1 DEF Fields
  <2>3. ContextKept(t)' BY <1>0, <2>1, <2>2 DEF ContextKept, Intact
  <2>9. Changes(t) BY <1>0, <2>1, <2>2, <2>3 DEF Changes, Fields
  <2> QED BY <2>9, <2>3, OneTask
<1>6. CASE Iret(t)
  <2>1. /\ mode[t] = "popped" /\ UNCHANGED <<in_kbd_context, kbd_saved_ctx>>
        /\ frame' = [frame EXCEPT ![t] = Start]
        /\ cpu' = [cpu EXCEPT ![t].eip = frame[t].eip]
        /\ mode' = [mode EXCEPT ![t] = "user"]
    BY <1>6 DEF Iret, keyboard
  <2>2. /\ cpu'[t].eip = frame[t].eip /\ cpu'[t].regs = cpu[t].regs /\ Fields(cpu')
        /\ mode'[t] = "user" /\ mode' \in [Tasks -> {"user", "restored", "popped"}]
        /\ Fields(frame')
    BY <1>0, <2>1, Places DEF Fields, Start
  <2>3. ContextKept(t)' BY <1>0, <2>1, <2>2 DEF ContextKept, Intact
  <2>9. Changes(t) BY <1>0, <2>1, <2>2, <2>3 DEF Changes, Fields
  <2> QED BY <2>9, <2>3, OneTask
<1> QED BY <1>1, <1>2, <1>3, <1>4, <1>5, <1>6 DEF Goes

\* The system calls that change something are made outside the handler, or end the task.
LEMMA SystemCallStep == ASSUME KInv, NEW t \in Tasks, SystemCall(t) PROVE KInv'
<1> USE DEF Calls, InUser, in_keyboard_context, keyboard, sched
<1>0. status \in [Tasks -> {"ready", "blocked", "tick", "gone"}] /\ cur = t
      /\ status[t] = "ready"
  BY DEF KInv, SystemCall, sys_block, sys_waitfortick, sys_unblock, KeyboardEvent,
     KeyboardEventNull, Exit
<1>1. CASE sys_block(t) BY <1>0, <1>1, Dispatched DEF sys_block
<1>2. CASE sys_waitfortick(t) BY <1>0, <1>2, Dispatched DEF sys_waitfortick
<1>3. CASE \E c \in Tasks : sys_unblock(t, c)
  <2>1. PICK c \in Tasks : sys_unblock(t, c) BY <1>3
  <2>2. /\ UNCHANGED <<cur, cpu, frame, mode, in_kbd_context, kbd_saved_ctx>>
        /\ status[c] = "blocked" /\ status' = [status EXCEPT ![c] = "ready"]
    BY <2>1 DEF sys_unblock
  <2>3. \A u \in Tasks : ContextKept(u)' BY <1>0, <2>2 DEF KInv, ContextKept
  <2> QED BY <1>0, <2>2, <2>3 DEF KInv, Fields
<1>4. CASE KeyboardEvent(t)
  <2>1. UNCHANGED <<cur, status, cpu, frame, mode, in_kbd_context, kbd_saved_ctx>>
    BY <1>4 DEF KeyboardEvent
  <2> QED BY <2>1 DEF KInv, Fields, ContextKept
<1>5. CASE KeyboardEventNull(t)
  <2>1. /\ UNCHANGED <<cur, status, cpu, frame, mode>> /\ ~in_kbd_context[t]
        /\ in_kbd_context' = [in_kbd_context EXCEPT ![t] = FALSE]
        /\ kbd_saved_ctx' = [kbd_saved_ctx EXCEPT ![t] = Start]
    BY <1>5 DEF KeyboardEventNull, cleanup_kbd_handler
  <2>2. in_kbd_context' = in_kbd_context BY <2>1 DEF KInv
  <2>3. Fields(kbd_saved_ctx') BY <2>1, Places DEF KInv, Fields, Start
  <2>4. \A u \in Tasks : ContextKept(u)' BY <2>1, <2>2 DEF KInv, ContextKept, Fields
  <2> QED BY <2>1, <2>2, <2>3, <2>4 DEF KInv, Fields
<1>6. CASE Exit(t)
  <2>1. /\ UNCHANGED <<cpu, frame, mode>> /\ status' = [status EXCEPT ![t] = "gone"]
        /\ PickNext(status')
        /\ \/ /\ in_kbd_context' = [in_kbd_context EXCEPT ![t] = FALSE]
              /\ kbd_saved_ctx' = [kbd_saved_ctx EXCEPT ![t] = Start]
           \/ UNCHANGED <<in_kbd_context, kbd_saved_ctx>>
    BY <1>6 DEF Exit, cleanup_kbd_handler
  <2>2. status' \in [Tasks -> {"ready", "blocked", "tick", "gone"}] /\ status'[t] = "gone"
        /\ \A u \in Tasks \ {t} : status'[u] = status[u]
    BY <1>0, <2>1
  <2>3. /\ in_kbd_context' \in [Tasks -> BOOLEAN] /\ Fields(kbd_saved_ctx')
        /\ \A u \in Tasks \ {t} : /\ in_kbd_context'[u] = in_kbd_context[u]
                                   /\ kbd_saved_ctx'[u] = kbd_saved_ctx[u]
    <3>1. Start \in [eip : Int, regs : Int] BY Places DEF Start
    <3>2. CASE UNCHANGED <<in_kbd_context, kbd_saved_ctx>> BY <3>2 DEF KInv, Fields
    <3>3. CASE /\ in_kbd_context' = [in_kbd_context EXCEPT ![t] = FALSE]
               /\ kbd_saved_ctx' = [kbd_saved_ctx EXCEPT ![t] = Start]
      BY <3>1, <3>3 DEF KInv, Fields
    <3> QED BY <2>1, <3>2, <3>3
  <2>4. cur' \in Tasks \cup {Idle} /\ (cur' \in Tasks => status'[cur'] = "ready")
    BY <2>1, KeyboardConstants DEF PickNext
  <2>5. \A u \in Tasks : ContextKept(u)' BY <2>1, <2>2, <2>3 DEF KInv, ContextKept
  <2> QED BY <2>1, <2>2, <2>3, <2>4, <2>5 DEF KInv, Fields
<1> QED BY <1>1, <1>2, <1>3, <1>4, <1>5, <1>6 DEF SystemCall

\* Every step keeps the contexts.
LEMMA KInvStep == KInv /\ [Next]_vars => KInv'
<1> SUFFICES ASSUME KInv, [Next]_vars PROVE KInv' OBVIOUS
<1>1. CASE clock_routine
  <2>1. status' \in [Tasks -> {"ready", "blocked", "tick", "gone"}]
        /\ \A t \in Tasks : status'[t] # "gone" => status[t] # "gone"
    BY <1>1 DEF clock_routine, KInv
  <2>2. UNCHANGED <<cpu, frame, mode, in_kbd_context, kbd_saved_ctx>> /\ PickNext(status')
    BY <1>1 DEF clock_routine, keyboard
  <2> QED BY <2>1, <2>2, Dispatched
<1>2. ASSUME NEW k \in Keys, kbd_irq_handler(k) PROVE KInv' BY <1>2, KeyStep
<1>3. CASE UNCHANGED <<cur, status, cpu, frame, mode, in_kbd_context, kbd_saved_ctx>>
  BY <1>3 DEF KInv, Fields, ContextKept
<1>4. ASSUME NEW t \in Tasks, Goes(t) PROVE KInv' BY <1>4, GoesStep
<1>5. ASSUME NEW t \in Tasks, SystemCall(t) PROVE KInv' BY <1>5, SystemCallStep
<1> QED BY <1>1, <1>2, <1>3, <1>4, <1>5 DEF Next, vars, KeyDropped, sched

\* Whatever keys arrive and whatever callbacks do, a program finds its registers as
\* it left them: kbd_irq_handler saves all 16 words, accepts no key before
\* kbd_resume_handler has put them back, and int 0x2b cannot be interrupted.
THEOREM HandlersAreTransparent == Spec => []Transparent
<1>1. KInv => Transparent BY DEF KInv, ContextKept, Transparent
<1> QED BY <1>1, KInvInit, KInvStep, PTL DEF Spec

-----------------------------------------------------------------------------
(* A handler does not move the program *)

\* Position only reads the context of its task.
LEMMA SamePosition ==
  ASSUME NEW t \in Tasks, cpu'[t] = cpu[t], frame'[t] = frame[t], mode'[t] = mode[t],
         in_kbd_context'[t] = in_kbd_context[t], kbd_saved_ctx'[t] = kbd_saved_ctx[t]
  PROVE  Position(t)' = Position(t)
BY DEF Position

\* The step of one task leaves the position of another.
LEMMA OtherPosition ==
  ASSUME KInv, NEW t \in Tasks, NEW u \in Tasks, u # t, Goes(u)
  PROVE  Position(t)' = Position(t)
<1>1. Fields(cpu) /\ Fields(frame) /\ Fields(kbd_saved_ctx)
      /\ mode \in [Tasks -> {"user", "restored", "popped"}]
      /\ in_kbd_context \in [Tasks -> BOOLEAN]
  BY DEF KInv
<1>2. cpu'[t] = cpu[t] /\ frame'[t] = frame[t] /\ mode'[t] = mode[t]
      /\ in_kbd_context'[t] = in_kbd_context[t] /\ kbd_saved_ctx'[t] = kbd_saved_ctx[t]
  <2> USE <1>1 DEF Fields
  <2>1. CASE ProgramRuns(u) BY <2>1 DEF ProgramRuns, keyboard
  <2>2. CASE CallHandler(u) BY <2>2 DEF CallHandler
  <2>3. CASE HandlerReturns(u) BY <2>3 DEF HandlerReturns, keyboard
  <2>4. CASE kbd_resume_handler(u) BY <2>4 DEF kbd_resume_handler
  <2>5. CASE RestoreAll(u) BY <2>5 DEF RestoreAll, keyboard
  <2>6. CASE Iret(u) BY <2>6 DEF Iret, keyboard
  <2> QED BY <2>1, <2>2, <2>3, <2>4, <2>5, <2>6 DEF Goes
<1> QED BY <1>2, SamePosition

\* The wrapper, the callback and the return from them: the program is where it was.
LEMMA OwnPosition ==
  ASSUME KInv, NEW t \in Tasks, Goes(t)
  PROVE  Position(t)' = Position(t) \/ ProgramRuns(t)
<1>0. /\ status[t] # "gone" /\ ContextKept(t)
      /\ Fields(cpu) /\ Fields(frame) /\ Fields(kbd_saved_ctx)
      /\ mode \in [Tasks -> {"user", "restored", "popped"}]
      /\ in_kbd_context \in [Tasks -> BOOLEAN]
  BY DEF KInv, Goes, ProgramRuns, CallHandler, HandlerReturns, kbd_resume_handler,
     RestoreAll, Iret, InProgram, InUser
<1>1. CASE CallHandler(t) \/ HandlerReturns(t)
  <2>1. mode[t] = "user" /\ cpu[t].eip \in {InWrapper, InCallback}
        /\ UNCHANGED <<in_kbd_context, kbd_saved_ctx>>
    BY <1>1 DEF CallHandler, HandlerReturns, InUser, keyboard
  <2>2. in_kbd_context[t] BY <1>0, <2>1, Places DEF ContextKept
  <2> QED BY <2>1, <2>2 DEF Position
<1>2. CASE kbd_resume_handler(t)
  <2>1. /\ cpu[t].eip = AtInt2b /\ mode[t] = "user"
        /\ frame' = [frame EXCEPT ![t] = Resumed(t)]
        /\ mode' = [mode EXCEPT ![t] = "restored"]
        /\ in_kbd_context' = [in_kbd_context EXCEPT ![t] = FALSE]
    BY <1>2 DEF kbd_resume_handler, InUser
  <2>2. in_kbd_context[t] BY <1>0, <2>1, Places DEF ContextKept
  <2>3. frame'[t] = kbd_saved_ctx[t] /\ mode'[t] # "user" /\ ~in_kbd_context'[t]
    BY <1>0, <2>1, <2>2 DEF Resumed, Fields
  <2> QED BY <2>2, <2>3 DEF Position
<1>3. CASE RestoreAll(t)
  <2>1. mode[t] = "restored" /\ mode'[t] = "popped" /\ UNCHANGED <<frame, in_kbd_context>>
    BY <1>0, <1>3 DEF RestoreAll, keyboard
  <2>2. ~in_kbd_context[t] BY <1>0, <2>1 DEF ContextKept
  <2> QED BY <2>1, <2>2 DEF Position
<1>4. CASE Iret(t)
  <2>1. /\ mode[t] = "popped" /\ mode'[t] = "user" /\ UNCHANGED in_kbd_context
        /\ cpu'[t].eip = frame[t].eip
    BY <1>0, <1>4 DEF Iret, keyboard, Fields
  <2>2. ~in_kbd_context[t] BY <1>0, <2>1 DEF ContextKept
  <2> QED BY <2>1, <2>2 DEF Position
<1> QED BY <1>1, <1>2, <1>3, <1>4 DEF Goes

\* A key is noted where the program was.
LEMMA KeyPosition ==
  ASSUME KInv, NEW t \in Tasks, NEW k \in Keys, kbd_irq_handler(k)
  PROVE  Position(t)' = Position(t)
<1>1. cur \in Tasks /\ ~in_kbd_context[cur] BY DEF kbd_irq_handler, KeyGoesTo
<1>2. mode[cur] = "user" BY <1>1 DEF kbd_irq_handler, InterruptsOn, setTrapHandler
<1>3. SavedFrame(cur) = cpu[cur] BY <1>2 DEF SavedFrame
<1>4. /\ kbd_saved_ctx' = [kbd_saved_ctx EXCEPT ![cur] = cpu[cur]]
      /\ in_kbd_context' = [in_kbd_context EXCEPT ![cur] = TRUE]
      /\ mode' = mode /\ frame' = frame
      /\ cpu' = [cpu EXCEPT ![cur] = [cpu[cur] EXCEPT !.eip = InWrapper]]
  BY <1>2, <1>3, Zenon DEF kbd_irq_handler
<1>5. CASE t = cur
  <2>1. kbd_saved_ctx'[t] = cpu[t] /\ in_kbd_context'[t]
    BY <1>1, <1>4, <1>5 DEF KInv, Fields
  <2> QED BY <1>1, <1>2, <1>5, <2>1 DEF Position
<1>6. CASE t # cur
  BY <1>4, <1>6, SamePosition DEF KInv, Fields
<1> QED BY <1>5, <1>6

\* The system calls leave every live program where it is.
LEMMA SystemCallPosition ==
  ASSUME KInv, NEW t \in Tasks, NEW u \in Tasks, SystemCall(u), status'[t] # "gone"
  PROVE  Position(t)' = Position(t)
<1> USE DEF Calls, InUser, in_keyboard_context, keyboard, sched
<1>1. CASE sys_block(u) \/ sys_waitfortick(u) \/ (\E c \in Tasks : sys_unblock(u, c))
           \/ KeyboardEvent(u)
  <2>1. UNCHANGED <<cpu, frame, mode, in_kbd_context, kbd_saved_ctx>>
    BY <1>1 DEF sys_block, sys_waitfortick, sys_unblock, KeyboardEvent
  <2> QED BY <2>1 DEF Position
<1>2. CASE KeyboardEventNull(u)
  <2>1. /\ UNCHANGED <<cpu, frame, mode>> /\ ~in_kbd_context[u]
        /\ in_kbd_context' = [in_kbd_context EXCEPT ![u] = FALSE]
        /\ kbd_saved_ctx' = [kbd_saved_ctx EXCEPT ![u] = Start]
    BY <1>2 DEF KeyboardEventNull, cleanup_kbd_handler
  <2> QED BY <2>1 DEF Position, KInv, Fields
<1>3. CASE Exit(u)
  <2>1. status' = [status EXCEPT ![u] = "gone"] BY <1>3 DEF Exit
  <2>2. t # u BY <2>1 DEF KInv
  <2>3. cpu'[t] = cpu[t] /\ frame'[t] = frame[t] /\ mode'[t] = mode[t]
        /\ in_kbd_context'[t] = in_kbd_context[t] /\ kbd_saved_ctx'[t] = kbd_saved_ctx[t]
    BY <1>3, <2>2 DEF Exit, cleanup_kbd_handler, KInv, Fields
  <2> QED BY <2>3, SamePosition
<1> QED BY <1>1, <1>2, <1>3 DEF SystemCall

\* A key, its handler and the resume never move a program, whoever runs, blocks,
\* listens or leaves meanwhile: only the program's own steps do.
THEOREM HandlersKeepThePlace == Spec => GoesOnWhereInterrupted
<1> DEFINE Kept(t) == status'[t] # "gone" => Position(t)' = Position(t) \/ ProgramRuns(t)
<1>1. ASSUME KInv, Next, NEW t \in Tasks PROVE Kept(t)
  <2>1. CASE clock_routine \/ KeyDropped
    <3>1. UNCHANGED <<cpu, frame, mode, in_kbd_context, kbd_saved_ctx>>
      BY <2>1 DEF clock_routine, KeyDropped, vars, keyboard
    <3> QED BY <3>1 DEF Position
  <2>2. CASE \E k \in Keys : kbd_irq_handler(k) BY <1>1, <2>2, KeyPosition
  <2>3. ASSUME NEW u \in Tasks, Goes(u) PROVE Kept(t)
    BY <1>1, <2>3, OtherPosition, OwnPosition
  <2>4. ASSUME NEW u \in Tasks, SystemCall(u) PROVE Kept(t)
    BY <1>1, <2>4, SystemCallPosition
  <2> QED BY <1>1, <2>1, <2>2, <2>3, <2>4 DEF Next
<1>2. KInv /\ [Next]_vars => [\A t \in Tasks : Kept(t)]_vars BY <1>1
<1> QED BY <1>2, KInvInit, KInvStep, PTL DEF Spec, GoesOnWhereInterrupted

-----------------------------------------------------------------------------
(* The callback gets its key *)

Live(t) == status[t] # "gone"
Given == Keys \cup {NoKey}

\* The parameters on the auxiliary page, then those of the callback, are those of
\* the key that interrupted task t.
Delivered(t) ==
  Live(t) /\ dir[t] \notin shared =>
    /\ cpu[t].eip = InWrapper => aux[dir[t]] = due[t]
    /\ cpu[t].eip = InCallback => got[t] = due[t]

\* Nobody is inside the wrapper or the callback in int 0x2b, a handler in progress
\* stays registered, and two listening threads of a process are noted.
Registered(t) ==
  Live(t) => /\ in_kbd_context[t] => kbd_handler[t]
             /\ mode[t] # "user" => cpu[t].eip \notin {InWrapper, InCallback}

Noted(t, u) ==
  t # u /\ Live(t) /\ Live(u) /\ dir[t] = dir[u] /\ kbd_handler[t] /\ kbd_handler[u]
    => dir[t] \in shared

DTypes ==
  /\ dir \in [Tasks -> Dirs] /\ kbd_handler \in [Tasks -> BOOLEAN]
  /\ aux \in [Dirs -> Given] /\ due \in [Tasks -> Given] /\ got \in [Tasks -> Given]

DInv ==
  /\ DTypes
  /\ \A t \in Tasks : Registered(t) /\ Delivered(t)
  /\ \A t, u \in Tasks : Noted(t, u)

\* Nobody listens at first.
LEMMA DInvInit == Init => DInv
BY Places DEF Init, DInv, DTypes, Registered, Noted, Live, Delivered, Start, Given

\* Tasks are dispatched, and some leave: what the others were given is untouched.
LEMMA DispatchDelivers ==
  ASSUME DInv, UNCHANGED <<dir, cpu, mode, aux, due, got, shared>>,
         \A t \in Tasks : status'[t] # "gone" => /\ status[t] # "gone"
                                                  /\ kbd_handler'[t] = kbd_handler[t]
                                                  /\ in_kbd_context'[t] = in_kbd_context[t],
         kbd_handler' \in [Tasks -> BOOLEAN]
  PROVE  DInv'
BY DEF DInv, DTypes, Registered, Noted, Live, Delivered

\* The key of the running task reaches no other wrapper, unless the page is shared.
LEMMA KeyDelivers == ASSUME KInv, DInv, NEW k \in Keys, kbd_irq_handler(k) PROVE DInv'
<1> DEFINE c == cur
<1>1. c \in Tasks /\ kbd_handler[c] /\ ~in_kbd_context[c] BY DEF kbd_irq_handler, KeyGoesTo
<1>2. mode[c] = "user" BY <1>1 DEF kbd_irq_handler, InterruptsOn, setTrapHandler
<1>3. SavedFrame(c) = cpu[c] BY <1>2 DEF SavedFrame
<1>4. /\ in_kbd_context' = [in_kbd_context EXCEPT ![c] = TRUE]
      /\ aux' = [aux EXCEPT ![dir[c]] = k] /\ due' = [due EXCEPT ![c] = k]
      /\ UNCHANGED <<dir, status, mode, kbd_handler, got, shared>>
  BY Zenon DEF kbd_irq_handler, PushParameters, sched
<1>5. cpu' = [cpu EXCEPT ![c] = [cpu[c] EXCEPT !.eip = InWrapper]]
  BY <1>2, <1>3, Zenon DEF kbd_irq_handler
<1>6. cpu'[c].eip = InWrapper /\ \A t \in Tasks \ {c} : cpu'[t] = cpu[t]
  BY <1>1, <1>5 DEF KInv, Fields
<1>7. InWrapper # InCallback BY DEF InWrapper, InCallback
<1>8. dir[c] \in Dirs /\ Live(c) BY <1>1 DEF DInv, DTypes, Registered, Noted, KInv, Live
<1>9. aux'[dir[c]] = k /\ due'[c] = k BY <1>1, <1>4, <1>8 DEF DInv, DTypes, Registered, Noted
<1>10. ASSUME NEW t \in Tasks, t # c, Live(t), dir[t] \notin shared, cpu[t].eip = InWrapper
       PROVE  dir[t] # dir[c]
  <2>1. mode[t] = "user" /\ in_kbd_context[t] BY <1>10, Places DEF DInv, DTypes, Registered, Noted, KInv, ContextKept, Live
  <2>2. kbd_handler[t] BY <1>10, <2>1 DEF DInv, DTypes, Registered, Noted
  <2> QED BY <1>1, <1>8, <1>10, <2>2 DEF DInv, DTypes, Registered, Noted
<1>11. ASSUME NEW t \in Tasks PROVE Delivered(t)'
  <2>1. CASE t = c BY <1>4, <1>6, <1>7, <1>9, <2>1 DEF Delivered
  <2>2. CASE t # c
    <3>1. dir[t] \in Dirs BY DEF DInv, DTypes, Registered, Noted
    <3>2. Delivered(t) BY DEF DInv, DTypes, Registered, Noted
    <3> QED BY <1>1, <1>4, <1>6, <1>10, <2>2, <3>1, <3>2 DEF Delivered, DInv, DTypes, Registered, Noted, Live
  <2> QED BY <2>1, <2>2
<1>12. aux' \in [Dirs -> Given] /\ due' \in [Tasks -> Given] /\ got' \in [Tasks -> Given]
  BY <1>1, <1>4, <1>8 DEF DInv, DTypes, Registered, Noted, Given
<1>13. \A t \in Tasks : Registered(t)'
  BY <1>1, <1>2, <1>4, <1>6 DEF DInv, DTypes, Live, KInv, Registered
<1>14. \A t, u \in Tasks : Noted(t, u)' BY <1>4 DEF DInv, Live, Noted
<1>15. DTypes' BY <1>4, <1>12 DEF DInv, DTypes, Given
<1> QED BY <1>11, <1>13, <1>14, <1>15 DEF DInv

\* The wrapper hands the parameters on; the callback and int 0x2b leave them.
LEMMA GoesDelivers == ASSUME KInv, DInv, NEW t \in Tasks, Goes(t) PROVE DInv'
<1>0. /\ Fields(cpu) /\ Fields(frame) /\ mode \in [Tasks -> {"user", "restored", "popped"}]
      /\ in_kbd_context \in [Tasks -> BOOLEAN] /\ Delivered(t) /\ dir[t] \in Dirs
      /\ ContextKept(t) /\ Live(t)
  BY DEF KInv, DInv, DTypes, Registered, Noted, Live, Goes, ProgramRuns, CallHandler, HandlerReturns,
     kbd_resume_handler, RestoreAll, Iret, InProgram, InUser
<1>1. /\ UNCHANGED <<dir, status, kbd_handler, aux, shared>>
      /\ \A u \in Tasks \ {t} : /\ cpu'[u] = cpu[u] /\ mode'[u] = mode[u]
                                /\ in_kbd_context'[u] = in_kbd_context[u]
                                /\ due'[u] = due[u] /\ got'[u] = got[u]
      /\ in_kbd_context'[t] => in_kbd_context[t]
      /\ due' \in [Tasks -> Given] /\ got' \in [Tasks -> Given]
  <2> USE <1>0 DEF Fields, sched, keyboard, Given
  <2>1. CASE ProgramRuns(t) BY <2>1 DEF ProgramRuns, DInv, DTypes, Registered, Noted
  <2>2. CASE CallHandler(t) BY <2>2 DEF CallHandler, DInv, DTypes, Registered, Noted
  <2>3. CASE HandlerReturns(t) BY <2>3 DEF HandlerReturns, DInv, DTypes, Registered, Noted
  <2>4. CASE kbd_resume_handler(t) BY <2>4 DEF kbd_resume_handler, DInv, DTypes, Registered, Noted
  <2>5. CASE RestoreAll(t) BY <2>5 DEF RestoreAll, DInv, DTypes, Registered, Noted
  <2>6. CASE Iret(t) BY <2>6 DEF Iret, DInv, DTypes, Registered, Noted
  <2> QED BY <2>1, <2>2, <2>3, <2>4, <2>5, <2>6 DEF Goes
<1>2. /\ Delivered(t)'
      /\ mode'[t] # "user" => cpu'[t].eip \notin {InWrapper, InCallback}
  <2> USE <1>0, <1>1, HandlerPlaces DEF Fields, sched, keyboard, Delivered, Live, InUser
  <2>1. CASE ProgramRuns(t)
    <3>1. mode[t] = "user" /\ mode' = mode /\ cpu'[t].eip = (cpu[t].eip + 1) % Points /\ cpu[t].eip \in Program
      BY <2>1 DEF ProgramRuns, InProgram
    <3>2. cpu'[t].eip \in Program BY <3>1, Places
    <3> QED BY <3>1, <3>2
  <2>2. CASE CallHandler(t)
    <3>1. cpu[t].eip = InWrapper /\ mode[t] = "user" /\ mode' = mode /\ due' = due
          /\ got'[t] = aux[dir[t]] /\ cpu'[t].eip = InCallback
      BY <2>2 DEF CallHandler, DInv, DTypes, Registered, Noted
    <3> QED BY <3>1
  <2>3. CASE HandlerReturns(t)
    <3>1. cpu'[t].eip = AtInt2b /\ mode' = mode /\ mode[t] = "user"
      BY <2>3 DEF HandlerReturns
    <3> QED BY <3>1
  <2>4. CASE kbd_resume_handler(t)
    <3>1. cpu'[t].eip = AtInt2b BY <2>4 DEF kbd_resume_handler
    <3> QED BY <3>1
  <2>5. CASE RestoreAll(t)
    <3>1. cpu'[t].eip = cpu[t].eip /\ mode[t] = "restored" BY <2>5 DEF RestoreAll
    <3>2. cpu[t].eip \notin {InWrapper, InCallback} BY <3>1 DEF DInv, DTypes, Registered, Noted
    <3> QED BY <3>1, <3>2
  <2>6. CASE Iret(t)
    <3>1. cpu'[t].eip = frame[t].eip /\ mode[t] = "popped" /\ mode'[t] = "user"
      BY <2>6 DEF Iret
    <3>2. cpu'[t].eip \in Program BY <3>1 DEF ContextKept
    <3> QED BY <3>1, <3>2
  <2> QED BY <2>1, <2>2, <2>3, <2>4, <2>5, <2>6 DEF Goes
<1>3. \A u \in Tasks : Delivered(u)'
  <2>1. \A u \in Tasks \ {t} : Delivered(u) BY DEF DInv, DTypes, Registered, Noted
  <2>2. \A u \in Tasks \ {t} : Delivered(u)' BY <1>1, <2>1 DEF Delivered, Live
  <2> QED BY <1>2, <2>2
<1>4. \A u \in Tasks : Registered(u)' BY <1>1, <1>2 DEF DInv, DTypes, Registered, Noted, Live
<1>5. \A u, v \in Tasks : Noted(u, v)' BY <1>1 DEF DInv, Live, Noted
<1>6. DTypes' BY <1>1 DEF DInv, DTypes, Given
<1> QED BY <1>3, <1>4, <1>5, <1>6 DEF DInv

\* Registering notes that the page is shared; leaving off listening is refused inside
\* the handler.
LEMMA SystemCallDelivers == ASSUME KInv, DInv, NEW t \in Tasks, SystemCall(t) PROVE DInv'
<1> USE DEF Calls, InUser, in_keyboard_context, keyboard, sched
<1>0. status \in [Tasks -> {"ready", "blocked", "tick", "gone"}] /\ Live(t)
      /\ in_kbd_context \in [Tasks -> BOOLEAN] /\ kbd_handler \in [Tasks -> BOOLEAN]
  BY DEF KInv, DInv, DTypes, Registered, Noted, Live, SystemCall, sys_block, sys_waitfortick, sys_unblock, KeyboardEvent,
     KeyboardEventNull, Exit
<1>1. CASE sys_block(t) \/ sys_waitfortick(t) \/ (\E c \in Tasks : sys_unblock(t, c))
  <2>1. UNCHANGED <<dir, cpu, mode, aux, due, got, shared, kbd_handler, in_kbd_context>>
        /\ \A u \in Tasks : status'[u] # "gone" => status[u] # "gone"
    BY <1>0, <1>1 DEF sys_block, sys_waitfortick, sys_unblock, Live
  <2> QED BY <1>0, <2>1, DispatchDelivers
<1>2. CASE KeyboardEvent(t)
  <2>1. /\ UNCHANGED <<dir, status, cpu, mode, in_kbd_context, aux, due, got>>
        /\ kbd_handler' = [kbd_handler EXCEPT ![t] = TRUE]
        /\ shared' = IF \E u \in Tasks \ {t} : dir[u] = dir[t] /\ kbd_handler[u]
                     THEN shared \cup {dir[t]} ELSE shared
    BY <1>2 DEF KeyboardEvent
  <2>2. shared \subseteq shared'
        /\ \A u \in Tasks \ {t} : dir[u] = dir[t] /\ kbd_handler[u] => dir[t] \in shared'
    BY <2>1
  <2>3. \A u \in Tasks : Delivered(u)' BY <2>1, <2>2 DEF DInv, DTypes, Registered, Noted, Delivered, Live
  <2>4. \A u, v \in Tasks : Noted(u, v)' BY <1>0, <2>1, <2>2 DEF DInv, Live, Noted
  <2> QED BY <1>0, <2>1, <2>3, <2>4 DEF DInv, DTypes, Registered, Noted, Live
<1>3. CASE KeyboardEventNull(t)
  <2>1. /\ UNCHANGED <<dir, status, cpu, mode, aux, due, got, shared>>
        /\ ~in_kbd_context[t]
        /\ in_kbd_context' = [in_kbd_context EXCEPT ![t] = FALSE]
        /\ kbd_handler' = [kbd_handler EXCEPT ![t] = FALSE]
    BY <1>3 DEF KeyboardEventNull, cleanup_kbd_handler
  <2>2. \A u \in Tasks : Delivered(u)' BY <2>1 DEF DInv, DTypes, Registered, Noted, Delivered, Live
  <2> QED BY <1>0, <2>1, <2>2 DEF DInv, DTypes, Registered, Noted, Live
<1>4. CASE Exit(t)
  <2>1. /\ UNCHANGED <<dir, cpu, mode, aux, due, got, shared>>
        /\ status' = [status EXCEPT ![t] = "gone"]
        /\ \/ /\ in_kbd_context' = [in_kbd_context EXCEPT ![t] = FALSE]
              /\ kbd_handler' = [kbd_handler EXCEPT ![t] = FALSE]
           \/ UNCHANGED <<in_kbd_context, kbd_handler>>
    BY <1>4 DEF Exit, cleanup_kbd_handler
  <2>2. \A u \in Tasks : status'[u] # "gone" => u # t /\ status[u] # "gone"
    BY <1>0, <2>1
  <2> QED BY <1>0, <2>1, <2>2, DispatchDelivers
<1> QED BY <1>1, <1>2, <1>3, <1>4 DEF SystemCall

\* In every process in which at most one thread listens at a time, the callback
\* receives the key for which its task was interrupted, also when the task is
\* preempted before kbd_wrapper has read it.
THEOREM KeysReachTheirCallback == Spec => []CallbackGetsItsKey
<1>1. KInv /\ DInv /\ [Next]_vars => DInv'
  <2> SUFFICES ASSUME KInv, DInv, [Next]_vars PROVE DInv' OBVIOUS
  <2>1. CASE clock_routine
    <3>1. UNCHANGED <<dir, cpu, mode, aux, due, got, shared, kbd_handler, in_kbd_context>>
          /\ \A u \in Tasks : status'[u] # "gone" => status[u] # "gone"
      BY <2>1 DEF clock_routine, keyboard, KInv
    <3> QED BY <3>1, DispatchDelivers DEF DInv, DTypes, Registered, Noted
  <2>2. CASE KeyDropped \/ UNCHANGED vars
    BY <2>2 DEF KeyDropped, vars, DInv, DTypes, Registered, Noted, Live, Delivered
  <2>3. ASSUME NEW k \in Keys, kbd_irq_handler(k) PROVE DInv' BY <2>3, KeyDelivers
  <2>4. ASSUME NEW t \in Tasks, Goes(t) PROVE DInv' BY <2>4, GoesDelivers
  <2>5. ASSUME NEW t \in Tasks, SystemCall(t) PROVE DInv' BY <2>5, SystemCallDelivers
  <2> QED BY <2>1, <2>2, <2>3, <2>4, <2>5 DEF Next
<1>2. KInv /\ DInv => CallbackGetsItsKey
  BY DEF KInv, DInv, DTypes, Registered, Noted, Delivered, Live, CallbackGetsItsKey
<1> QED BY <1>1, <1>2, KInvInit, KInvStep, DInvInit, PTL DEF Spec
=============================================================================
