------------------------------- MODULE Sched -------------------------------
(***************************************************************************)
(* The round-robin scheduler of ZeOS (project/sched.c) and the effect that *)
(* each interrupt and system call of sys.c has on it.                      *)
(*                                                                         *)
(* A task is its index in tasks[]; the four kernel queues are sequences of *)
(* tasks in list order.  Every handler runs with interrupts off, so it is  *)
(* one atomic action.  This module is what the scheduler promises: who may *)
(* call which operation (threads, children, memory) is left open here, and *)
(* is fixed by the modules that use the same queues as pointer lists.      *)
(***************************************************************************)
EXTENDS Integers, Sequences

CONSTANTS NR_TASKS,         \* size of tasks[] (25 in sched.h)
          DEFAULT_QUANTUM,  \* ticks a task runs before it may be preempted
          TickMod,          \* zeos_ticks is kept modulo TickMod
          MaxPending        \* bound on pending_unblocks

ASSUME SchedConstants ==
  /\ NR_TASKS \in Nat /\ NR_TASKS >= 2
  /\ DEFAULT_QUANTUM \in Nat /\ DEFAULT_QUANTUM >= 1
  /\ TickMod \in Nat /\ TickMod >= 1
  /\ MaxPending \in Nat

VARIABLES current_task, status, readyqueue, blockedqueue, tick_blockedqueue,
          freequeue, current_quantum, pending_unblocks, zeos_ticks

vars == <<current_task, status, readyqueue, blockedqueue, tick_blockedqueue,
          freequeue, current_quantum, pending_unblocks, zeos_ticks>>

Tasks == 0 .. NR_TASKS - 1
idle_task == 0
init_task == 1

ST_RUN == "run"
ST_READY == "ready"
ST_BLOCKED == "blocked"
Statuses == {ST_RUN, ST_READY, ST_BLOCKED}

(* The tasks linked in a queue. *)
Members(q) == {q[i] : i \in DOMAIN q}

(* No task is linked twice in a queue. *)
Distinct(q) == \A i, j \in DOMAIN q : q[i] = q[j] => i = j

(* Task t stands somewhere before task u in queue q. *)
Before(q, t, u) == \E i, j \in DOMAIN q : i < j /\ q[i] = t /\ q[j] = u

(* What list_del leaves of queue q when the tasks in S are unlinked: the   *)
(* other tasks, in the order they had.                                     *)
Without(q, S) ==
  {r \in UNION {[1 .. n -> Members(q) \ S] : n \in 0 .. Len(q)} :
     /\ Distinct(r)
     /\ Members(r) = Members(q) \ S
     /\ \A i, j \in DOMAIN r : i < j => Before(q, r[i], r[j])}

-----------------------------------------------------------------------------
(* init_queues, init_idle and init_task1: the first two task_structs leave *)
(* the freequeue, init runs, and idle is parked outside every queue with   *)
(* the status the zeroed task_struct has (ST_RUN is 0).                    *)
Init ==
  /\ current_task = init_task
  /\ status = [t \in Tasks |-> ST_RUN]
  /\ readyqueue = <<>>
  /\ blockedqueue = <<>>
  /\ tick_blockedqueue = <<>>
  /\ freequeue = [i \in 1 .. NR_TASKS - 2 |-> i + 1]
  /\ current_quantum = DEFAULT_QUANTUM
  /\ pending_unblocks = [t \in Tasks |-> 0]
  /\ zeos_ticks = 0

(* sched_next_rr, entered with ready queue rq and task states st: the head *)
(* of the ready queue runs, or idle, whose state is left alone.            *)
sched_next_rr_NoUnlink(rq, st) ==
  /\ current_quantum' = DEFAULT_QUANTUM
  /\ current_task' = IF rq = <<>> THEN idle_task ELSE Head(rq)
  /\ readyqueue' = rq
  /\ status' = [st EXCEPT ![current_task'] = ST_RUN]

sched_next_rr(rq, st) ==
  /\ current_quantum' = DEFAULT_QUANTUM
  /\ \/ /\ rq = <<>>
        /\ current_task' = idle_task
        /\ readyqueue' = rq
        /\ status' = st
     \/ /\ rq # <<>>
        /\ current_task' = Head(rq)
        /\ readyqueue' = Tail(rq)
        /\ status' = [st EXCEPT ![Head(rq)] = ST_RUN]

(* The two ends of scheduler(): the running task goes to the tail of the   *)
(* ready queue and the next one is dispatched, or it keeps the processor,  *)
(* with a new quantum when the old one has run out.                        *)
Preempt_ToFront(rq, st) ==
  sched_next_rr(<<current_task>> \o rq, [st EXCEPT ![current_task] = ST_READY])

Preempt(rq, st) ==
  sched_next_rr(Append(rq, current_task), [st EXCEPT ![current_task] = ST_READY])

KeepRunning(rq, st) ==
  /\ current_quantum' = IF current_quantum > 1 THEN current_quantum - 1 ELSE DEFAULT_QUANTUM
  /\ readyqueue' = rq
  /\ status' = st
  /\ UNCHANGED current_task

(* needs_sched_rr and what scheduler() does with its answer. *)
Reschedule(rq, st) ==
  LET blocked == st[current_task] = ST_BLOCKED
      expired == current_quantum - 1 <= 0 /\ rq # <<>>
  IN \/ blocked /\ sched_next_rr(rq, st)
     \/ ~blocked /\ expired /\ Preempt(rq, st)
     \/ ~blocked /\ ~expired /\ KeepRunning(rq, st)

(* The task states after every task of tick_blockedqueue was made ready. *)
WokenStatus(st) ==
  [t \in Tasks |-> IF t \in Members(tick_blockedqueue) THEN ST_READY ELSE st[t]]

(* scheduler(), entered with task states st: charge the quantum, wake all  *)
(* tick waiters, then preempt an expired task or replace a blocked one.    *)
scheduler_WakesFirst(st) ==
  /\ tick_blockedqueue' = <<>>
  /\ Reschedule(tick_blockedqueue \o readyqueue, WokenStatus(st))

scheduler(st) ==
  /\ tick_blockedqueue' = <<>>
  /\ Reschedule(readyqueue \o tick_blockedqueue, WokenStatus(st))

(* clock_routine: the timer interrupt. *)
clock_routine_WakesBlocked ==
  /\ zeos_ticks' = (zeos_ticks + 1) % TickMod
  /\ blockedqueue' = <<>>
  /\ Reschedule(readyqueue \o blockedqueue,
                [t \in Tasks |-> IF t \in Members(blockedqueue) THEN ST_READY ELSE status[t]])
  /\ UNCHANGED <<tick_blockedqueue, freequeue, pending_unblocks>>

clock_routine ==
  /\ zeos_ticks' = (zeos_ticks + 1) % TickMod
  /\ scheduler(status)
  /\ UNCHANGED <<blockedqueue, freequeue, pending_unblocks>>

-----------------------------------------------------------------------------
(* System calls come from the running task; idle is a kernel loop and      *)
(* makes none.                                                             *)
InUser == current_task # idle_task

(* sys_block with an unblock pending: consume it and go on. *)
sys_block_pending ==
  /\ InUser
  /\ pending_unblocks[current_task] > 0
  /\ pending_unblocks' = [pending_unblocks EXCEPT ![current_task] = @ - 1]
  /\ UNCHANGED <<current_task, status, readyqueue, blockedqueue,
                 tick_blockedqueue, freequeue, current_quantum, zeos_ticks>>

(* sys_block with none pending: sleep in blockedqueue and run scheduler(). *)
sys_block_sleep_Unchecked ==
  /\ InUser
  /\ blockedqueue' = Append(blockedqueue, current_task)
  /\ scheduler([status EXCEPT ![current_task] = ST_BLOCKED])
  /\ UNCHANGED <<freequeue, pending_unblocks, zeos_ticks>>

sys_block_sleep ==
  /\ InUser
  /\ pending_unblocks[current_task] = 0
  /\ blockedqueue' = Append(blockedqueue, current_task)
  /\ scheduler([status EXCEPT ![current_task] = ST_BLOCKED])
  /\ UNCHANGED <<freequeue, pending_unblocks, zeos_ticks>>

sys_waitfortick ==
  /\ InUser
  /\ tick_blockedqueue' = Append(tick_blockedqueue, current_task)
  /\ sched_next_rr(readyqueue, [status EXCEPT ![current_task] = ST_BLOCKED])
  /\ UNCHANGED <<blockedqueue, freequeue, pending_unblocks, zeos_ticks>>

(* A task that has been created and not freed, other than idle. *)
Live(t) == t \in Tasks \ ({idle_task} \cup Members(freequeue))

(* sys_unblock of a child that is blocked, in either blocked queue. *)
sys_unblock_wake(c) ==
  /\ InUser
  /\ Live(c) /\ c # current_task
  /\ status[c] = ST_BLOCKED
  /\ blockedqueue' \in Without(blockedqueue, {c})
  /\ tick_blockedqueue' \in Without(tick_blockedqueue, {c})
  /\ readyqueue' = Append(readyqueue, c)
  /\ status' = [status EXCEPT ![c] = ST_READY]
  /\ UNCHANGED <<current_task, freequeue, current_quantum, pending_unblocks, zeos_ticks>>

(* sys_unblock of a child that is not blocked: remember it. *)
sys_unblock_pend(c) ==
  /\ InUser
  /\ Live(c) /\ c # current_task
  /\ status[c] # ST_BLOCKED
  /\ pending_unblocks[c] < MaxPending
  /\ pending_unblocks' = [pending_unblocks EXCEPT ![c] = @ + 1]
  /\ UNCHANGED <<current_task, status, readyqueue, blockedqueue,
                 tick_blockedqueue, freequeue, current_quantum, zeos_ticks>>

(* sys_fork and sys_create_thread: the first free task_struct becomes the  *)
(* last ready task.                                                        *)
Spawn ==
  /\ InUser
  /\ freequeue # <<>>
  /\ freequeue' = Tail(freequeue)
  /\ readyqueue' = Append(readyqueue, Head(freequeue))
  /\ status' = [status EXCEPT ![Head(freequeue)] = ST_READY]
  /\ pending_unblocks' = [pending_unblocks EXCEPT ![Head(freequeue)] = 0]
  /\ UNCHANGED <<current_task, blockedqueue, tick_blockedqueue, current_quantum, zeos_ticks>>

(* The error paths of sys_fork and sys_create_thread (no frame, no TID, no *)
(* stack region): the task_struct returns to the tail of the freequeue,    *)
(* overwritten with the caller's fields or with a new task's.              *)
SpawnFails ==
  /\ InUser
  /\ freequeue # <<>>
  /\ freequeue' = Append(Tail(freequeue), Head(freequeue))
  /\ \/ /\ status' = [status EXCEPT ![Head(freequeue)] = status[current_task]]
        /\ pending_unblocks' =
             [pending_unblocks EXCEPT ![Head(freequeue)] = pending_unblocks[current_task]]
     \/ /\ status' = [status EXCEPT ![Head(freequeue)] = ST_READY]
        /\ pending_unblocks' = [pending_unblocks EXCEPT ![Head(freequeue)] = 0]
  /\ UNCHANGED <<current_task, readyqueue, blockedqueue, tick_blockedqueue,
                 current_quantum, zeos_ticks>>

(* The lists of tasks that can die with the running one: its threads,      *)
(* which are not running and so are linked in some queue.                  *)
Siblings ==
  LET others == {t \in Tasks : Live(t) /\ t # current_task}
  IN {sq \in UNION {[1 .. n -> others] : n \in 0 .. NR_TASKS} : Distinct(sq)}

(* sys_exit by a master thread with the threads sq, and sys_exit_thread    *)
(* with sq = <<>>: each thread is unlinked from its queue, and all go to   *)
(* the freequeue, the running task last; then another task is dispatched.  *)
Exit(sq) ==
  /\ InUser
  /\ freequeue' = Append(freequeue \o sq, current_task)
  /\ blockedqueue' \in Without(blockedqueue, Members(sq))
  /\ tick_blockedqueue' \in Without(tick_blockedqueue, Members(sq))
  /\ \E rq \in Without(readyqueue, Members(sq)) : sched_next_rr(rq, status)
  /\ UNCHANGED <<pending_unblocks, zeos_ticks>>

Next ==
  \/ clock_routine
  \/ sys_block_pending
  \/ sys_block_sleep
  \/ sys_waitfortick
  \/ \E c \in Tasks : sys_unblock_wake(c)
  \/ \E c \in Tasks : sys_unblock_pend(c)
  \/ Spawn
  \/ SpawnFails
  \/ \E sq \in Siblings : Exit(sq)

Spec == Init /\ [][Next]_vars

(* The timer keeps interrupting: handlers end and user code runs with      *)
(* interrupts enabled.  Nothing forces a program to make a system call.    *)
FairSpec == Spec /\ WF_vars(clock_routine)
-----------------------------------------------------------------------------
(* Type invariant of the scheduler state. *)
TypeOK ==
  /\ current_task \in Tasks
  /\ status \in [Tasks -> Statuses]
  /\ readyqueue \in Seq(Tasks)
  /\ blockedqueue \in Seq(Tasks)
  /\ tick_blockedqueue \in Seq(Tasks)
  /\ freequeue \in Seq(Tasks)
  /\ current_quantum \in 1 .. DEFAULT_QUANTUM
  /\ pending_unblocks \in [Tasks -> 0 .. MaxPending]
  /\ zeos_ticks \in 0 .. TickMod - 1

Queues == <<readyqueue, blockedqueue, tick_blockedqueue, freequeue>>
Queued == UNION {Members(Queues[k]) : k \in 1 .. 4}

(* Each task_struct is in exactly one place: running, or linked once in    *)
(* exactly one queue.  Only idle may be parked outside; it is never        *)
(* blocked or freed.  This is what lets update_process_state_rr and        *)
(* sys_exit decide from status alone whether list_del is safe.             *)
OnePlace ==
  /\ \A k \in 1 .. 4 : Distinct(Queues[k])
  /\ \A k, l \in 1 .. 4 : k # l => Members(Queues[k]) \cap Members(Queues[l]) = {}
  /\ current_task \notin Queued
  /\ Tasks \ {idle_task, current_task} \subseteq Queued
  /\ idle_task \notin Members(blockedqueue)
  /\ idle_task \notin Members(tick_blockedqueue)
  /\ idle_task \notin Members(freequeue)

(* status tells which queue a task is in: ready tasks are ST_READY, both   *)
(* blocked queues hold exactly the ST_BLOCKED tasks, the running task and  *)
(* parked idle are ST_RUN.  sched.c never looks a task up in a queue; it   *)
(* trusts status.                                                          *)
StatusTellsQueue ==
  \A t \in Tasks \ Members(freequeue) :
    /\ status[t] = ST_READY <=> t \in Members(readyqueue)
    /\ status[t] = ST_BLOCKED <=>
         t \in Members(blockedqueue) \cup Members(tick_blockedqueue)

(* No wakeup is lost to a sleeper: a task asleep in blockedqueue has no    *)
(* unblock recorded for it, so sys_block's test and sys_unblock's two      *)
(* branches never leave a task sleeping on a pending wakeup.               *)
SleepersHaveNoPending ==
  \A t \in Members(blockedqueue) : pending_unblocks[t] = 0

(* The three together, with the types: what every handler of sched.c and   *)
(* sys.c finds and leaves.  OnePlace needs StatusTellsQueue: unblocking a  *)
(* task whose status lies would link it twice.  StatusTellsQueue needs     *)
(* OnePlace: dispatching a task queued twice would leave a running task    *)
(* in a queue.  No lost wakeup needs StatusTellsQueue: sys_unblock records *)
(* instead of waking by status.                                            *)
SchedInv == TypeOK /\ OnePlace /\ StatusTellsQueue /\ SleepersHaveNoPending

(* Round robin: whatever is forked, woken, preempted or killed, a task     *)
(* that stays ready is only ever preceded, in the ready queue or on the    *)
(* processor, by tasks that were ahead of it before the step.              *)
NoOvertaking ==
  [][\A t \in Members(readyqueue) \cap Members(readyqueue)', u \in Tasks :
       (Before(readyqueue, u, t)' \/ (u = current_task' /\ u # current_task))
         => Before(readyqueue, u, t)]_vars

(* A task asleep in blockedqueue leaves it only for the freequeue, killed  *)
(* with its process, or for the tail of the ready queue, unblocked by the  *)
(* running task: clock ticks, forks and dispatches never wake it.          *)
BlockedUntilUnblocked ==
  [][\A t \in Members(blockedqueue) \ Members(blockedqueue)' :
       \/ t \in Members(freequeue)'
       \/ readyqueue' = Append(readyqueue, t) /\ zeos_ticks' = zeos_ticks]_vars

(* WaitForTick returns and no ready task starves: a task that is ready or  *)
(* waits for the clock gets the processor or is killed by its process.     *)
WaitersRun ==
  \A t \in Tasks :
    t \in Members(readyqueue) \cup Members(tick_blockedqueue)
      ~> (t = current_task \/ t \in Members(freequeue))
=============================================================================
