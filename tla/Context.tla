------------------------------ MODULE Context -------------------------------
(***************************************************************************)
(* How a thread leaves user mode and comes back: the stubs of              *)
(* sys_call_wrappers.S, the entry points of entry.S, task_switch and       *)
(* switch_context of kernel_asm.S, and the kernel stacks that sys_fork,    *)
(* sys_create_thread and init_idle lay out by hand for a task that has     *)
(* never run.  Which task is next, and what a service does besides, belong *)
(* to other modules and are left open here.                                *)
(*                                                                         *)
(* A stack is a sequence of words whose last one is at the lowest address, *)
(* so that n(%esp) is At(k, n \div 4), and an address on it is the number  *)
(* of words above it.  Words are integers, code labels included.           *)
(***************************************************************************)
EXTENDS Integers, Sequences, FiniteSets

CONSTANTS
  Threads,                        \* the user threads: positive integers; 1 is the first
  Stubs                           \* Stubs[t]: the stubs that the program of t calls

ASSUME ContextAssumption == 1 \in Threads /\ Threads \subseteq 1..9

Idle == 0
Tasks == Threads \cup {Idle}

VARIABLES
  current,                        \* current_task, whose context the processor has
  on,                             \* the task whose kernel stack esp is in, in kernel mode
  esp0, msr,                      \* tss.esp0 and MSR 0x175: the task at the top of whose kernel
                                  \* stack an interrupt and sysenter begin
  cr3,                            \* the page directory in use, by its process
  pc,                             \* where the processor is: one of the labels below
  regs,                           \* its registers; esp counts only in user mode
  stack,                          \* the kernel stack of every task
  kernel_esp,                     \* where a task that does not run left its kernel stack
  ustack,                         \* the user stack of every thread
  state,                          \* "free", "ready", "run" or "blocked"
  process, errno,                 \* the process of a thread, and errno of a process
  left, call                      \* history: the registers a thread left user mode with, and
                                  \* its last call: registers, service, and result

vars == <<current, on, esp0, msr, cr3, pc, regs, stack, kernel_esp, ustack, state, process, errno, left, call>>

\* What a switch of tasks writes, besides stacks and registers.
switched == <<current, kernel_esp, esp0, msr, cr3>>

-----------------------------------------------------------------------------
(* Labels and words *)

USER_CODE == 901                  \* the program
SYSENTER == 902                   \* the sysenter instruction of a stub
STUB_RETURN == 903                \* wr_return, gt_return, ...
THREAD_ENTRY == 904               \* thread_entry_wrapper
THREAD_DONE == 905                \* in thread_entry_wrapper, after the call
SERVICE == 911                    \* the routine of a system call
CLOCK == 912                      \* clock_routine
FAULT == 919                      \* pageFault_routine
FAULT_RETURN == 922               \* in pageFault_handler, after the call
SYSENTER_RETURN == 913
CLOCK_RETURN == 914               \* in clock_handler, after the call
TASK_SWITCH == 915                \* in task_switch, after the call of inner_task_switch
SCHEDULED == 916                  \* the C code that has called task_switch
RET_FROM_FORK == 917
CPU_IDLE == 918
UserLabels == {USER_CODE, SYSENTER, STUB_RETURN, THREAD_ENTRY, THREAD_DONE}

USER_SS == 43
USER_CS == 35
KERNEL_CS == 16
EFLAGS == 512
FUNCTION == 920
PARAMETER == 921

At(k, n) == k[Len(k) - n]
Drop(k, n) == SubSeq(k, 1, Len(k) - n)

\* The registers a thread computes with, and those of the C code of the kernel.
Own(t) == [eax |-> 10 * t, ebx |-> 10 * t + 1, ecx |-> 10 * t + 2, edx |-> 10 * t + 3,
           esi |-> 10 * t + 4, edi |-> 10 * t + 5]
Kernel(t) == 500 + t

\* The values in f, for the registers it names.
Load(r, f) == [x \in DOMAIN r |-> IF x \in DOMAIN f THEN f[x] ELSE r[x]]

\* History: nothing has happened yet, or it does not matter any more.
NoRegs == [eax |-> 0, ebx |-> 0, ecx |-> 0, edx |-> 0, esi |-> 0, edi |-> 0, ebp |-> 0, esp |-> 0]
Never == [pc |-> 0, regs |-> NoRegs]

-----------------------------------------------------------------------------
(* The stubs: the service, its number, how many arguments are passed, and   *)
(* whether the result is tested.                                            *)

Stub(service, eax, args, tested) == [service |-> service, eax |-> eax, args |-> args, tested |-> tested]

write         == Stub("sys_write", 4, 3, TRUE)
gettime       == Stub("sys_gettime", 10, 0, TRUE)
getpid        == Stub("sys_getpid", 20, 0, TRUE)
fork          == Stub("sys_fork", 2, 0, TRUE)
exit          == Stub("sys_exit", 1, 0, FALSE)
block         == Stub("sys_block", 12, 0, TRUE)
unblock       == Stub("sys_unblock", 13, 1, TRUE)
ThreadCreate  == Stub("sys_create_thread", 6, 3, TRUE)
ThreadExit    == Stub("sys_exit_thread", 5, 0, FALSE)
gettid        == Stub("sys_gettid", 21, 0, TRUE)
KeyboardEvent == Stub("sys_keyboard_event", 22, 2, TRUE)
WaitForTick   == Stub("sys_waitfortick", 23, 0, TRUE)

NoCall == [regs |-> NoRegs, stub |-> getpid, served |-> "none", result |-> 0]

\* The table has MAX_SYSCALL words; what is in the word after it is not known.
MAX_SYSCALL == 24
ENOSYS == 38

sys_call_table(n) ==
  CASE n = 1 -> "sys_exit" [] n = 2 -> "sys_fork" [] n = 4 -> "sys_write" [] n = 5 -> "sys_exit_thread"
    [] n = 6 -> "sys_create_thread" [] n = 10 -> "sys_gettime" [] n = 12 -> "sys_block"
    [] n = 13 -> "sys_unblock" [] n = 20 -> "sys_getpid" [] n = 21 -> "sys_gettid"
    [] n = 22 -> "sys_keyboard_event" [] n = 23 -> "sys_waitfortick" [] n = MAX_SYSCALL -> "unknown"
    [] OTHER -> "sys_ni_syscall"

\* A push on the user stack.
Pushed(u, esp, words) == SubSeq(u, 1, esp) \o words

\* The call of a stub and the stub up to sysenter: the return address, ebp, ebx when the
\* stub passes arguments, the address to come back to and ebp again.
EnterStub(s, back) ==
  LET r == regs
      frame == r.esp + 2
      u == Pushed(ustack[current], r.esp,
                  <<back, r.ebp>> \o (IF s.args > 0 THEN <<r.ebx>> ELSE <<>>) \o <<STUB_RETURN, frame>>)
  IN /\ ustack' = [ustack EXCEPT ![current] = u]
     /\ regs' = [r EXCEPT !.eax = s.eax, !.ebp = Len(u), !.esp = Len(u),
                          !.ebx = IF s.args > 0 THEN 801 ELSE @,
                          !.ecx = IF s.args > 1 THEN 802 ELSE @,
                          !.edx = IF s.args > 2 THEN 803 ELSE @]
     /\ pc' = SYSENTER
     /\ call' = [call EXCEPT ![current] = [regs |-> r, stub |-> s, served |-> "none", result |-> 0]]

\* After sysexit: ebp, the address, ebx and ebp come off the stack, and a negative result
\* goes to errno.
LeaveStub ==
  LET s == call[current].stub
      u == ustack[current]
      top == regs.esp - 2 - (IF s.args > 0 THEN 1 ELSE 0)
      failed == s.tested /\ regs.eax < 0
  IN /\ regs' = [regs EXCEPT !.ebx = IF s.args > 0 THEN u[regs.esp - 2] ELSE @, !.ebp = u[top],
                             !.esp = top - 2, !.eax = IF failed THEN -1 ELSE @]
     /\ errno' = IF failed THEN [errno EXCEPT ![process[current]] = -regs.eax] ELSE errno
     /\ pc' = u[top - 1]

-----------------------------------------------------------------------------
(* entry.S *)

\* esi and edi change places.
SAVE_ALL_Swapped(r) == <<0, 0, 0, 0, r.eax, r.ebp, r.esi, r.edi, r.edx, r.ecx, r.ebx>>

SAVE_ALL(r) == <<0, 0, 0, 0, r.eax, r.ebp, r.edi, r.esi, r.edx, r.ecx, r.ebx>>

RESTORE_ALL(k) ==
  [ebx |-> At(k, 0), ecx |-> At(k, 1), edx |-> At(k, 2), esi |-> At(k, 3), edi |-> At(k, 4),
   ebp |-> At(k, 5), eax |-> At(k, 6)]

\* The C function that is called: its return address, and its frame.
CallC(k, back, r) == Append(Append(k, back), r.ebp)
InC(k) == Load(NoRegs, [ebp |-> Len(k), ebx |-> Kernel(current), esi |-> Kernel(current), edi |-> Kernel(current)])

\* leave; ret
ReturnC(k, ebp) == [stack |-> SubSeq(k, 1, ebp - 2), ebp |-> k[ebp], pc |-> k[ebp - 1]]

\* A number below zero or above MAX_SYSCALL is answered at once.
syscall_handler_sysenter ==
  /\ pc = SYSENTER
  /\ LET hw == <<USER_SS, regs.ebp, EFLAGS, USER_CS, ustack[current][regs.ebp - 1]>>
         saved == hw \o SAVE_ALL(regs)
         k == CallC(saved, SYSENTER_RETURN, regs)
         served == regs.eax \in 0..MAX_SYSCALL
     IN /\ stack' = [stack EXCEPT ![msr] = IF served THEN k ELSE saved]
        /\ regs' = IF served THEN InC(k) ELSE [regs EXCEPT !.eax = -ENOSYS]
        /\ pc' = IF served THEN SERVICE ELSE SYSENTER_RETURN
        /\ call' = [call EXCEPT ![current].served = IF served THEN sys_call_table(regs.eax) ELSE "none"]
  /\ on' = msr
  /\ UNCHANGED <<switched, ustack, state, process, errno, left>>

\* The result is stored over the saved eax; sysexit takes eip from edx and esp from ecx.
sysenter_return ==
  /\ pc = SYSENTER_RETURN
  /\ LET k == [stack[on] EXCEPT ![Len(stack[on]) - 6] = regs.eax]
         r == RESTORE_ALL(k)
         hw == Drop(k, 11)
     IN /\ regs' = [Load(regs, r) EXCEPT !.edx = At(hw, 0), !.ecx = At(hw, 3), !.esp = At(hw, 3)]
        /\ pc' = At(hw, 0)
        /\ stack' = [stack EXCEPT ![on] = <<>>]
  /\ UNCHANGED <<switched, on, ustack, state, process, errno, left, call>>

\* The processor changes stacks when it was in user mode only.
clock_handler ==
  /\ pc \in UserLabels \cup {CPU_IDLE}
  /\ on' = IF pc = CPU_IDLE THEN on ELSE esp0
  /\ LET hw == IF pc = CPU_IDLE THEN stack[on] \o <<EFLAGS, KERNEL_CS, pc>>
               ELSE <<USER_SS, regs.esp, EFLAGS, USER_CS, pc>>
         k == CallC(hw \o SAVE_ALL(regs), CLOCK_RETURN, regs)
     IN stack' = [stack EXCEPT ![on'] = k] /\ regs' = InC(k)
  /\ pc' = CLOCK
  /\ left' = [left EXCEPT ![current] = [pc |-> pc, regs |-> regs]]
  /\ UNCHANGED <<switched, ustack, state, process, errno, call>>

\* iret
clock_return ==
  /\ pc = CLOCK_RETURN
  /\ LET k == stack[on]
         hw == Drop(k, 11)
         user == At(hw, 1) = USER_CS
     IN /\ regs' = [Load(regs, RESTORE_ALL(k)) EXCEPT !.esp = IF user THEN At(hw, 3) ELSE @]
        /\ pc' = At(hw, 0)
        /\ stack' = [stack EXCEPT ![on] = Drop(hw, IF user THEN 5 ELSE 3)]
  /\ left' = [left EXCEPT ![current] = Never]
  /\ UNCHANGED <<switched, on, ustack, state, process, errno, call>>

\* The error code of the processor is below the frame, and the routine gets the address that
\* was touched and the instruction that touched it.
FAULT_CODE == 6
CR2 == 930

pageFault_handler ==
  /\ pc = USER_CODE
  /\ LET hw == <<USER_SS, regs.esp, EFLAGS, USER_CS, pc, FAULT_CODE>>
         a == Append(hw \o SAVE_ALL(regs), CR2)
         k == CallC(Append(a, At(a, 13)), FAULT_RETURN, regs)
     IN stack' = [stack EXCEPT ![esp0] = k] /\ regs' = InC(k)
  /\ pc' = FAULT /\ on' = esp0
  /\ left' = [left EXCEPT ![current] = [pc |-> pc, regs |-> regs]]
  /\ UNCHANGED <<switched, ustack, state, process, errno, call>>

fault_return ==
  /\ pc = FAULT_RETURN
  /\ LET k == Drop(stack[on], 2)
         hw == Drop(k, 12)
     IN /\ regs' = [Load(regs, RESTORE_ALL(k)) EXCEPT !.esp = At(hw, 3)]
        /\ pc' = At(hw, 0)
        /\ stack' = [stack EXCEPT ![on] = Drop(hw, 5)]
  /\ left' = [left EXCEPT ![current] = Never]
  /\ UNCHANGED <<switched, on, ustack, state, process, errno, call>>

-----------------------------------------------------------------------------
(* kernel_asm.S and sched.c *)

\* task_switch(new) as far as the call of inner_task_switch.
task_switch(k, r) ==
  LET f == k \o <<1, SCHEDULED, r.ebp>>
  IN [stack |-> f \o <<r.edi, r.esi, r.ebx, 1, TASK_SWITCH>>, ebp |-> Len(f)]

\* The old task keeps its ebp as kernel_esp; from the stack of the new one come ebp and the
\* address to go on from.
switch_context(new, its) ==
  LET k == SubSeq(stack[new], 1, kernel_esp[new])
  IN /\ stack' = [stack EXCEPT ![on] = SubSeq(its.stack, 1, its.ebp), ![new] = Drop(k, 2)]
     /\ kernel_esp' = [kernel_esp EXCEPT ![on] = its.ebp]
     /\ regs' = [regs EXCEPT !.ebp = At(k, 0)]
     /\ pc' = At(k, 1)
     /\ on' = new

Directory(t) == IF t = Idle THEN Idle ELSE process[t]

\* The frame of inner_task_switch is where the task leaves its stack.
Framed(ts) == [stack |-> Append(ts.stack, ts.ebp), ebp |-> Len(ts.stack) + 1]

\* The MSR keeps the stack of the task that leaves.
inner_task_switch_OldMSR(new, ts) ==
  /\ current' = new /\ esp0' = new /\ msr' = msr /\ cr3' = Directory(new) /\ switch_context(new, Framed(ts))

inner_task_switch(new, ts) ==
  /\ current' = new /\ esp0' = new /\ msr' = new /\ cr3' = Directory(new)
  /\ switch_context(new, Framed(ts))

\* The registers that task_switch has pushed, and its frame.
task_switch_returns ==
  /\ pc = TASK_SWITCH
  /\ LET k == Drop(stack[on], 1)
         ret == SubSeq(k, 1, regs.ebp)
     IN /\ regs' = [regs EXCEPT !.ebx = At(k, 0), !.esi = At(k, 1), !.edi = At(k, 2), !.ebp = At(ret, 0)]
        /\ pc' = At(ret, 1)
        /\ stack' = [stack EXCEPT ![on] = Drop(ret, 3)]
  /\ UNCHANGED <<switched, on, ustack, state, process, errno, left, call>>

\* The routine of a service or of the clock returns r.
Returns(r) ==
  LET c == ReturnC(stack[on], regs.ebp)
  IN /\ stack' = [stack EXCEPT ![on] = c.stack]
     /\ regs' = [regs EXCEPT !.ebp = c.ebp, !.eax = r]
     /\ pc' = c.pc

\* The routine hands the processor to another task, with the tasks in these states: a ready
\* thread, or idle when there is none.
SwitchAway(after) ==
  \E new \in {t \in Tasks : after[t] = "ready" /\ t # current} :
    /\ new = Idle => \A t \in Threads \ {current} : after[t] # "ready"
    /\ inner_task_switch(new, task_switch(stack[on], regs))
    /\ state' = [after EXCEPT ![new] = "run"]

Leaving(s) == [state EXCEPT ![current] = s]

\* After a switch the routine that had called the scheduler returns: 0 from block and
\* WaitForTick, nothing from the clock.
scheduled ==
  /\ pc = SCHEDULED
  /\ Returns(0)
  /\ UNCHANGED <<switched, on, ustack, state, process, errno, left, call>>

\* In C: it returns 0 to what lies above it on the stack.
ret_from_fork ==
  /\ pc = RET_FROM_FORK
  /\ LET k == stack[on]
     IN pc' = At(k, 0) /\ stack' = [stack EXCEPT ![on] = Drop(k, 1)] /\ regs' = [regs EXCEPT !.eax = 0]
  /\ UNCHANGED <<switched, on, ustack, state, process, errno, left, call>>

\* A timer interrupt goes on with the task, or with another one; sleepers may wake.
clock_routine ==
  /\ pc = CLOCK
  /\ \/ /\ Returns(0)
        /\ \E w \in SUBSET {t \in Threads : state[t] = "blocked"} :
             Cardinality(w) <= 1 /\ state' = [t \in Tasks |-> IF t \in w THEN "ready" ELSE state[t]]
        /\ UNCHANGED <<switched, on>>
     \/ SwitchAway(Leaving("ready"))
  /\ UNCHANGED <<ustack, process, errno, left, call>>

-----------------------------------------------------------------------------
(* The services *)

Result(r) == call' = [call EXCEPT ![current].result = r]

Service(names) == pc = SERVICE /\ call[current].served \in names

\* A service that returns to the caller at once.
Plain ==
  /\ Service({"sys_write", "sys_gettime", "sys_getpid", "sys_gettid", "sys_unblock", "sys_keyboard_event",
              "sys_fork", "sys_create_thread", "sys_block", "sys_waitfortick", "sys_ni_syscall"})
  /\ \E r \in CASE call[current].served \in {"sys_gettime", "sys_getpid", "sys_gettid"} -> {7}
               [] call[current].served = "sys_write" -> {7, -9}
               [] OTHER -> {0, -22} :
       Returns(r) /\ Result(r)
  /\ UNCHANGED <<switched, on, ustack, state, process, errno, left>>

\* The child is a copy of the parent, stack and all; two words are put below the address
\* that the parent's routine returns to.
ForkedStack(k) == SubSeq(k, 1, 17) \o <<RET_FROM_FORK, 0>>

NewProcess == CHOOSE p \in Threads : \A t \in Threads : state[t] # "free" => process[t] # p

sys_fork ==
  /\ Service({"sys_fork"})
  /\ \E child \in {t \in Threads : state[t] = "free"} :
       LET c == ReturnC(stack[on], regs.ebp)
       IN /\ stack' = [stack EXCEPT ![on] = c.stack, ![child] = ForkedStack(stack[current])]
          /\ kernel_esp' = [kernel_esp EXCEPT ![child] = Len(ForkedStack(stack[current]))]
          /\ regs' = [regs EXCEPT !.ebp = c.ebp, !.eax = child]
          /\ pc' = c.pc
          /\ ustack' = [ustack EXCEPT ![child] = ustack[current]]
          /\ state' = [state EXCEPT ![child] = "ready"]
          /\ process' = [process EXCEPT ![child] = NewProcess]
          /\ errno' = [errno EXCEPT ![NewProcess] = errno[process[current]]]
          /\ call' = [call EXCEPT ![current].result = child, ![child] = [call[current] EXCEPT !.result = 0]]
  /\ UNCHANGED <<current, on, esp0, msr, cr3, left>>

\* The parameter, the function and an unused return address.
ThreadStack == <<PARAMETER, FUNCTION, 0>>

\* As in sys_fork, but that it starts at the wrapper, on a stack of its own.
sys_create_thread ==
  /\ Service({"sys_create_thread"})
  /\ \E new \in {t \in Threads : state[t] = "free"} :
       LET c == ReturnC(stack[on], regs.ebp)
           k == [ForkedStack(stack[current]) EXCEPT ![5] = THREAD_ENTRY, ![2] = Len(ThreadStack), ![10] = 0, ![11] = 0]
       IN /\ stack' = [stack EXCEPT ![on] = c.stack, ![new] = k]
          /\ kernel_esp' = [kernel_esp EXCEPT ![new] = Len(k)]
          /\ regs' = [regs EXCEPT !.ebp = c.ebp, !.eax = new]
          /\ pc' = c.pc
          /\ ustack' = [ustack EXCEPT ![new] = ThreadStack]
          /\ state' = [state EXCEPT ![new] = "ready"]
          /\ process' = [process EXCEPT ![new] = process[current]]
          /\ Result(new)
  /\ UNCHANGED <<current, on, esp0, msr, cr3, errno, left>>

\* WaitForTick, or a block that finds no pending unblock.
sys_block ==
  /\ Service({"sys_block", "sys_waitfortick"})
  /\ SwitchAway(Leaving("blocked"))
  /\ Result(0)
  /\ UNCHANGED <<ustack, process, errno, left>>

\* The thread, or all those of its process, never come back: what is on their stacks does
\* not matter any more.
Ends(gone) ==
  /\ SwitchAway([t \in Tasks |-> IF t \in gone THEN "free" ELSE state[t]])
  /\ ustack' = [t \in Threads |-> IF t \in gone THEN <<>> ELSE ustack[t]]
  /\ call' = [t \in Threads |-> IF t \in gone THEN NoCall ELSE call[t]]
  /\ left' = [t \in Tasks |-> IF t \in gone THEN Never ELSE left[t]]
  /\ UNCHANGED <<process, errno>>

sys_exit_thread == Service({"sys_exit_thread"}) /\ Ends({current})

EndsProcess == Ends({t \in Threads : process[t] = process[current]})

sys_exit == Service({"sys_exit"}) /\ EndsProcess

\* The stack has grown, and the instruction is tried again; or the process is ended, with a
\* message.
pageFault_routine ==
  /\ pc = FAULT
  /\ \/ Returns(0) /\ UNCHANGED <<switched, on, ustack, state, process, errno, left, call>>
     \/ EndsProcess

-----------------------------------------------------------------------------
(* Programs *)

UserUnchanged == UNCHANGED <<switched, on, stack, state, process, left>>

Compute ==
  /\ pc = USER_CODE /\ regs' = Load(regs, Own(current)) /\ regs' # regs
  /\ call' = [call EXCEPT ![current] = NoCall]
  /\ UserUnchanged /\ UNCHANGED <<pc, ustack, errno>>

CallStub ==
  /\ pc = USER_CODE /\ regs = Load(regs, Own(current)) /\ \E s \in Stubs[current] : EnterStub(s, USER_CODE)
  /\ UserUnchanged /\ UNCHANGED errno

StubReturns ==
  /\ pc = STUB_RETURN /\ LeaveStub
  /\ ustack' = [ustack EXCEPT ![current] = SubSeq(@, 1, regs'.esp)]
  /\ UserUnchanged /\ UNCHANGED call

\* The wrapper takes function and parameter from its stack and calls the function.
thread_entry_wrapper ==
  /\ pc = THREAD_ENTRY
  /\ LET u == ustack[current]
     IN /\ regs' = [regs EXCEPT !.eax = u[regs.esp - 1], !.ecx = u[regs.esp - 2], !.esp = @ + 2]
        /\ ustack' = [ustack EXCEPT ![current] = Pushed(u, regs.esp, <<u[regs.esp - 2], THREAD_DONE>>)]
  /\ pc' = USER_CODE
  /\ UserUnchanged /\ UNCHANGED <<errno, call>>

\* The function of a thread returns, and the wrapper leaves for it.
FunctionReturns ==
  /\ pc = USER_CODE /\ regs.esp > 0 /\ ustack[current][regs.esp] = THREAD_DONE
  /\ regs' = [regs EXCEPT !.esp = @ - 1] /\ pc' = THREAD_DONE
  /\ UserUnchanged /\ UNCHANGED <<ustack, errno, call>>

WrapperExits ==
  /\ pc = THREAD_DONE /\ EnterStub(ThreadExit, THREAD_DONE)
  /\ UserUnchanged /\ UNCHANGED errno

\* The first process enters its program by return_gate; idle has never run.
Init ==
  /\ current = 1 /\ on = 1 /\ esp0 = 1 /\ msr = 1 /\ cr3 = 1 /\ pc = USER_CODE /\ regs = Load(NoRegs, Own(1))
  /\ stack = [t \in Tasks |-> IF t = Idle THEN <<CPU_IDLE, 0>> ELSE <<>>]
  /\ kernel_esp = [t \in Tasks |-> IF t = Idle THEN 2 ELSE 0]
  /\ ustack = [t \in Threads |-> <<>>]
  /\ state = [t \in Tasks |-> IF t = 1 THEN "run" ELSE IF t = Idle THEN "ready" ELSE "free"]
  /\ process = [t \in Threads |-> t] /\ errno = [t \in Threads |-> 0]
  /\ left = [t \in Tasks |-> Never]
  /\ call = [t \in Threads |-> NoCall]

Next ==
  \/ syscall_handler_sysenter \/ sysenter_return \/ clock_handler \/ clock_return \/ pageFault_handler
  \/ pageFault_routine \/ fault_return \/ task_switch_returns
  \/ scheduled \/ ret_from_fork \/ clock_routine \/ Plain \/ sys_fork \/ sys_create_thread \/ sys_block
  \/ sys_exit_thread \/ sys_exit \/ Compute \/ CallStub \/ StubReturns \/ thread_entry_wrapper \/ FunctionReturns
  \/ WrapperExits

Spec == Init /\ [][Next]_vars

-----------------------------------------------------------------------------
(* Properties *)

\* The processor is always at code that exists.  In kernel mode it is on the kernel stack of
\* current_task, where tss.esp0 and MSR 0x175 have led it from user mode and switch_context from
\* another task; the stack of a thread in user mode is empty, and so is that of idle, with the
\* address it started from gone; and the page directory is that of its process.
\* There, a stub has reached the service it is named for (the number it passes is an index of
\* sys_call_table); kernel code that called the scheduler finds its registers again; and the page
\* fault routine is given the address that was touched and the instruction that touched it.
StacksLeadBack ==
  /\ IF pc \in UserLabels THEN current # Idle /\ stack[current] = <<>> ELSE on = current
  /\ cr3 = Directory(current)
  /\ pc = CPU_IDLE => current = Idle /\ stack[current] = <<>>
  /\ state[current] = "run" /\ \A t \in Tasks \ {current} : state[t] # "run"
  /\ pc \in {SERVICE, STUB_RETURN} => call[current].served = call[current].stub.service
  /\ pc = SCHEDULED => \A x \in {"ebx", "esi", "edi"} : regs[x] = Kernel(current)
  /\ pc = FAULT => LET k == stack[current] IN At(k, 3) = CR2 /\ At(k, 2) = left[current].pc

\* clock_handler and pageFault_handler, whatever ran in between: a task that a tick or a fault
\* has interrupted goes on where it was with every register it had.
Resumed ==
  pc = CLOCK_RETURN \/ pc = FAULT_RETURN =>
    /\ pc' = left[current].pc
    /\ \A x \in DOMAIN regs : x # "esp" \/ pc' # CPU_IDLE => left[current].regs[x] = regs'[x]

\* A stub gives back ebx, esi, edi, ebp and the stack as it found them and returns the
\* result of the service, or -1 with errno set: in the child of a fork, 0.
Returned ==
  pc = STUB_RETURN /\ pc' = USER_CODE =>
    LET c == call[current]
    IN /\ \A x \in {"ebx", "esi", "edi", "ebp", "esp"} : regs'[x] = c.regs[x]
       /\ IF c.result < 0 THEN regs'.eax = -1 /\ errno'[process[current]] = -c.result
          ELSE regs'.eax = c.result

\* sys_create_thread and thread_entry_wrapper: a thread starts in its function, with its
\* parameter where the function looks for it.
Started ==
  pc = THREAD_ENTRY /\ pc' = USER_CODE =>
    regs'.eax = FUNCTION /\ ustack'[current][regs'.esp - 1] = PARAMETER

\* What a program finds when it goes on after the kernel had the processor, and possibly gave
\* it to others: the registers and the stack it relies on.
UserFindsItsOwn == [][Resumed /\ Returned /\ Started]_vars
=============================================================================
