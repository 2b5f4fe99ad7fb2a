------------------------------- MODULE Kernel -------------------------------
(***************************************************************************)
(* Processes and threads of ZeOS (sched.c, sys.c) over the pointer lists   *)
(* of list.c.  Each C function is an operator from a kernel state to a     *)
(* kernel state that makes the same calls in the same order, so an aliased *)
(* or stale list_head does here what it does in memory.                    *)
(*                                                                         *)
(* The kernel state k is a record: h is the heap of list_head nodes, the   *)
(* other fields are the globals of sched.c and the fields of tasks[].      *)
(* Page contents are reduced to data[d], the PID whose data frames page    *)
(* directory d maps, 0 when it maps none.                                  *)
(***************************************************************************)
EXTENDS Integers, Sequences, FiniteSets, SequencesExt, ListHead

CONSTANTS NR_TASKS, DEFAULT_QUANTUM,
          MAX_TIDS_PER_PROCESS,
          TickMod,         \* zeos_ticks is kept modulo TickMod
          MaxPending,      \* bound on pending_unblocks
          MaxPid,          \* bound on next_pid
          (* What user programs may do that the kernel does not refuse and    *)
          (* does not survive, and where the machine may fail:                *)
          ThreadsExit,     \* a thread that is not the master may call exit
          MasterLeaves,    \* a master may call ThreadExit before its threads have
          ThreadsFork,     \* a thread that is not the master may call fork
          FramesRunOut     \* where alloc_frame may fail, a subset of Shortages

(* The data pages or the user stack of a new process, the stack of a new   *)
(* thread.                                                                 *)
Shortages == {"data", "stack", "threadstack"}

ASSUME KernelConstants ==
  /\ NR_TASKS \in Nat /\ NR_TASKS >= 2
  /\ DEFAULT_QUANTUM \in Nat /\ DEFAULT_QUANTUM >= 1
  /\ MAX_TIDS_PER_PROCESS \in Nat /\ MAX_TIDS_PER_PROCESS >= 1
  /\ TickMod \in Nat /\ TickMod >= 1
  /\ MaxPending \in Nat /\ MaxPid \in Nat /\ MaxPid >= 1
  /\ {ThreadsExit, MasterLeaves, ThreadsFork} \subseteq BOOLEAN
  /\ FramesRunOut \subseteq Shortages

VARIABLE k

Tasks == 0 .. NR_TASKS - 1
idle_task == 0
init_task == 1
Slots == 0 .. MAX_TIDS_PER_PROCESS - 1
NoParent == NR_TASKS

ST_RUN == "run"
ST_READY == "ready"
ST_BLOCKED == "blocked"

(* The list_head nodes: the queue heads of sched.c and those inside each   *)
(* task_struct.                                                            *)
freequeue == <<"freequeue", 0>>
readyqueue == <<"readyqueue", 0>>
blockedqueue == <<"blockedqueue", 0>>
tick_blockedqueue == <<"tick_blockedqueue", 0>>
list(t) == <<"list", t>>
children(t) == <<"children", t>>
child_list(t) == <<"child_list", t>>
threads(t) == <<"threads", t>>
thread_list(t) == <<"thread_list", t>>

TaskFields == {"list", "children", "child_list", "threads", "thread_list"}
QueueHeads == {freequeue, readyqueue, blockedqueue, tick_blockedqueue}
Nodes == QueueHeads \cup (TaskFields \X Tasks) \cup {NULL}

(* list_entry: the task_struct a node is embedded in. *)
list_entry(n) == n[2]

(* The nodes and the tasks on a list; Broken(kk, head) if it has no end. *)
NodesOn(kk, head) == ListForEach(kk.h, head, NR_TASKS)
Broken(kk, head) == NodesOn(kk, head) = NotClosed
TasksOn(kk, head) ==
  LET ns == NodesOn(kk, head) IN [i \in DOMAIN ns |-> list_entry(ns[i])]

(* Run body over the tasks of a list, as list_for_each_safe does when the  *)
(* body unlinks only the entry it is at.                                   *)
ForEachTask(body(_, _), kk, head) ==
  IF Broken(kk, head) THEN [kk EXCEPT !.h.wild = TRUE]
  ELSE FoldLeft(body, kk, TasksOn(kk, head))

-----------------------------------------------------------------------------
(* sched.c *)

init_tid_slots == [s \in Slots |-> s = 0]

(* init_queues, then the first two task_structs become idle and init. The  *)
(* other task_structs are zero, but for their place in the freequeue; the  *)
(* master and directory of one that was never used are not read.           *)
InitHeap ==
  LET own == [n \in Nodes |-> IF n \in QueueHeads \cup ((TaskFields \ {"list"}) \X {idle_task, init_task})
                              THEN n ELSE NULL]
      empty == [next |-> own, prev |-> own, wild |-> FALSE]
      link(h, t) == list_add_tail(h, list(t), freequeue)
  IN FoldLeft(link, empty, [i \in 1 .. NR_TASKS - 2 |-> i + 1])

InitKernel ==
  [h |-> InitHeap,
   current_task |-> init_task,
   current_quantum |-> DEFAULT_QUANTUM,
   zeos_ticks |-> 0,
   next_pid |-> 1,
   status |-> [t \in Tasks |-> ST_RUN],
   PID |-> [t \in Tasks |-> IF t = init_task THEN 1 ELSE 0],
   TID |-> [t \in Tasks |-> IF t = init_task THEN MAX_TIDS_PER_PROCESS ELSE 0],
   parent |-> [t \in Tasks |-> NoParent],
   pending_unblocks |-> [t \in Tasks |-> 0],
   thread_count |-> [t \in Tasks |-> IF t \in {idle_task, init_task} THEN 1 ELSE 0],
   master_thread |-> [t \in Tasks |-> t],
   tid_slots |-> [t \in Tasks |-> IF t = init_task THEN init_tid_slots ELSE [s \in Slots |-> FALSE]],
   dir |-> [t \in Tasks |-> t],
   data |-> [d \in Tasks |-> IF d = init_task THEN 1 ELSE 0]]

(* allocate_DIR: the page directory with the index of the task_struct. *)
allocate_DIR_Inherited(kk, t) == kk

allocate_DIR(kk, t) == [kk EXCEPT !.dir[t] = t]

(* allocate_tid: the slot it would take, or -1. *)
FreeSlots(kk, master) == {s \in Slots : ~kk.tid_slots[master][s]}

allocate_tid(kk, master) ==
  IF FreeSlots(kk, master) = {} THEN -1
  ELSE CHOOSE s \in FreeSlots(kk, master) : \A r \in FreeSlots(kk, master) : s <= r

TidOf(pid, slot) == pid * MAX_TIDS_PER_PROCESS + slot

free_tid(kk, master, tid) ==
  LET slot == tid - kk.PID[master] * MAX_TIDS_PER_PROCESS
  IN IF slot \in Slots THEN [kk EXCEPT !.tid_slots[master][slot] = FALSE] ELSE kk

update_process_state_rr(kk, t, dest_queue) ==
  LET h1 == IF kk.status[t] # ST_RUN THEN list_del(kk.h, list(t)) ELSE kk.h
  IN IF dest_queue # NULL
     THEN [kk EXCEPT !.h = list_add_tail(h1, list(t), dest_queue),
                     !.status[t] = IF dest_queue = readyqueue THEN ST_READY ELSE ST_BLOCKED]
     ELSE [kk EXCEPT !.h = h1, !.status[t] = ST_RUN]

(* sched_next_rr.  A first node that is in no task_struct is a broken      *)
(* ready queue.                                                            *)
sched_next_rr(kk) ==
  LET first == list_first(kk.h, readyqueue)
      t == list_entry(first)
  IN IF list_empty(kk.h, readyqueue)
     THEN [kk EXCEPT !.current_task = idle_task, !.current_quantum = DEFAULT_QUANTUM]
     ELSE IF first[1] # "list" THEN [kk EXCEPT !.h.wild = TRUE]
     ELSE [update_process_state_rr(kk, t, NULL) EXCEPT
             !.current_task = t, !.current_quantum = DEFAULT_QUANTUM]

needs_sched_rr(kk) ==
  \/ kk.current_quantum <= 0 /\ ~list_empty(kk.h, readyqueue)
  \/ kk.status[kk.current_task] = ST_BLOCKED

(* The new quantum that needs_sched_rr gives when the old one is over. *)
RefillQuantum(kk) ==
  IF kk.current_quantum <= 0 THEN [kk EXCEPT !.current_quantum = DEFAULT_QUANTUM] ELSE kk

scheduler(kk) ==
  LET wake(x, t) == update_process_state_rr(x, t, readyqueue)
      k1 == ForEachTask(wake, [kk EXCEPT !.current_quantum = @ - 1], tick_blockedqueue)
      k2 == RefillQuantum(k1)
      k3 == IF k1.status[k1.current_task] # ST_BLOCKED
            THEN update_process_state_rr(k2, k1.current_task, readyqueue) ELSE k2
  IN IF needs_sched_rr(k1) THEN sched_next_rr(k3) ELSE k2

clock_routine(kk) == scheduler([kk EXCEPT !.zeos_ticks = (@ + 1) % TickMod])

-----------------------------------------------------------------------------
(* sys.c *)

sys_block(kk) ==
  LET c == kk.current_task
  IN IF kk.pending_unblocks[c] = 0
     THEN scheduler(update_process_state_rr(kk, c, blockedqueue))
     ELSE [kk EXCEPT !.pending_unblocks[c] = @ - 1]

sys_waitfortick_RunsScheduler(kk) ==
  scheduler(update_process_state_rr(kk, kk.current_task, tick_blockedqueue))

sys_waitfortick(kk) ==
  sched_next_rr(update_process_state_rr(kk, kk.current_task, tick_blockedqueue))

(* sys_unblock: the first child with that PID.  The walk is broken when it *)
(* does not end before finding one.                                        *)
Matching(kk, pid) ==
  LET cs == TasksOn(kk, children(kk.current_task))
  IN {i \in DOMAIN cs : kk.PID[cs[i]] = pid}

sys_unblock(kk, pid) ==
  LET cs == TasksOn(kk, children(kk.current_task))
      found == Matching(kk, pid)
      c == cs[CHOOSE i \in found : \A j \in found : i <= j]
  IN IF Broken(kk, children(kk.current_task)) THEN [kk EXCEPT !.h.wild = TRUE]
     ELSE IF found = {} THEN kk
     ELSE IF kk.status[c] = ST_BLOCKED THEN update_process_state_rr(kk, c, readyqueue)
     ELSE [kk EXCEPT !.pending_unblocks[c] = @ + 1]

(* copy_data of a whole task_union: every field and every list_head. *)
CopyTask(kk, from, to) ==
  LET nodes == [n \in Nodes |-> IF n[1] \in TaskFields /\ n[2] = to THEN <<n[1], from>> ELSE n]
      fields(f) == [f EXCEPT ![to] = f[from]]
  IN [kk EXCEPT !.h.next = [n \in Nodes |-> @[nodes[n]]],
                !.h.prev = [n \in Nodes |-> @[nodes[n]]],
                !.status = fields(@), !.PID = fields(@), !.TID = fields(@),
                !.parent = fields(@), !.pending_unblocks = fields(@),
                !.thread_count = fields(@), !.master_thread = fields(@),
                !.tid_slots = fields(@), !.dir = fields(@)]

ToFreeQueue(kk, t) == [kk EXCEPT !.h = list_add_tail(@, list(t), freequeue)]
InitNodes(h, t, fs) == FoldLeft(LAMBDA x, f : INIT_LIST_HEAD(x, <<f, t>>), h, fs)

(* sys_fork; out says where, if anywhere, alloc_frame fails.  A failure    *)
(* for the user stack comes after the child has been linked to its parent. *)
sys_fork(kk, out) ==
  LET cur == kk.current_task
      node == list_first(kk.h, freequeue)
      child == list_entry(node)
      pid == kk.next_pid + 1
      k1 == [kk EXCEPT !.h = list_del(@, node)]
      k2 == allocate_DIR(CopyTask(k1, cur, child), child)
      h3 == InitNodes(k2.h, child, <<"list", "children", "child_list">>)
      h4 == list_add_tail(h3, child_list(child), children(cur))
      k4 == [k2 EXCEPT !.h = InitNodes(h4, child, <<"threads", "thread_list">>),
                       !.next_pid = pid, !.PID[child] = pid,
                       !.TID[child] = TidOf(pid, 0),
                       !.data[child] = pid,
                       !.status[child] = ST_READY,
                       !.parent[child] = cur,
                       !.pending_unblocks[child] = 0,
                       !.thread_count[child] = 1,
                       !.master_thread[child] = child,
                       !.tid_slots[child] = init_tid_slots]
  IN IF list_empty(kk.h, freequeue) THEN kk
     ELSE CASE out = "data" -> ToFreeQueue(k2, child)
            [] out = "stack" -> ToFreeQueue([k4 EXCEPT !.data[child] = 0], child)
            [] out = "ok" -> [k4 EXCEPT !.h = list_add_tail(@, list(child), readyqueue)]

(* sys_create_thread; out = "threadstack" when there is no stack region or no    *)
(* frame for it.                                                           *)
sys_create_thread(kk, out) ==
  LET cur == kk.current_task
      master == kk.master_thread[cur]
      node == list_first(kk.h, freequeue)
      new == list_entry(node)
      k1 == [kk EXCEPT !.h = list_del(@, node)]
      k2 == CopyTask(k1, cur, new)
      slot == allocate_tid(k2, master)
      tid == TidOf(k2.PID[master], slot)
      k3 == [k2 EXCEPT !.h = InitNodes(@, new, <<"list", "children", "child_list", "threads", "thread_list">>),
                       !.tid_slots[master][slot] = TRUE,
                       !.dir[new] = k2.dir[master],
                       !.PID[new] = k2.PID[master],
                       !.TID[new] = tid,
                       !.parent[new] = master,
                       !.master_thread[new] = master,
                       !.status[new] = ST_READY,
                       !.pending_unblocks[new] = 0]
      h4 == list_add_tail(k3.h, thread_list(new), threads(master))
  IN IF list_empty(kk.h, freequeue) THEN kk
     ELSE IF slot = -1 THEN ToFreeQueue(k2, new)
     ELSE IF Broken(k3, threads(master)) THEN [k3 EXCEPT !.h.wild = TRUE]
     ELSE CASE out = "threadstack" -> ToFreeQueue(free_tid(k3, master, tid), new)
            [] out = "ok" -> [k3 EXCEPT !.thread_count[master] = @ + 1,
                                        !.h = list_add_tail(h4, list(new), readyqueue)]

(* One turn of sys_exit's loop over the threads of a dying process. *)
ReapThread(kk, master, t) ==
  LET k1 == free_tid(kk, master, kk.TID[t])
      h1 == list_del(k1.h, thread_list(t))
      h2 == IF k1.status[t] # ST_RUN THEN list_del(h1, list(t)) ELSE h1
  IN ToFreeQueue([k1 EXCEPT !.h = h2], t)

(* One turn of its loop over the orphans, which idle adopts. *)
AdoptOrphan_KeepsParent(kk, c) ==
  [kk EXCEPT !.h = list_add_tail(list_del(@, child_list(c)), child_list(c), children(idle_task))]

AdoptOrphan(kk, c) ==
  [kk EXCEPT !.h = list_add_tail(list_del(@, child_list(c)), child_list(c), children(idle_task)),
             !.parent[c] = idle_task]

(* sys_exit: the threads of the process, the orphans, the parent's list,   *)
(* the data frames, the master's task_struct, and the next task.           *)
sys_exit(kk) ==
  LET cur == kk.current_task
      master == kk.master_thread[cur]
      reap(x, t) == ReapThread(x, master, t)
      k1 == ForEachTask(reap, kk, threads(master))
      k2 == ForEachTask(AdoptOrphan, k1, children(cur))
      h3 == IF k2.parent[cur] # NoParent THEN list_del(k2.h, child_list(cur)) ELSE k2.h
      k4 == [k2 EXCEPT !.h = h3, !.data[k2.dir[master]] = 0]
  IN sched_next_rr(ToFreeQueue(k4, master))

(* What sys_exit_thread does for every thread that is not the last one:    *)
(* give back its TID, leave the count and the list of its process.         *)
LeaveProcess_KeepsTid(kk, t, master) ==
  [kk EXCEPT !.thread_count[master] = @ - 1, !.h = list_del(@, thread_list(t))]

LeaveProcess(kk, t, master) ==
  [free_tid(kk, master, kk.TID[t]) EXCEPT !.thread_count[master] = @ - 1,
                                          !.h = list_del(@, thread_list(t))]

(* sys_exit_thread: the last thread ends the process; the master hands its *)
(* role to the first thread on its list.                                   *)
sys_exit_thread(kk) ==
  LET t == kk.current_task
      master == kk.master_thread[t]
      k1 == LeaveProcess(kk, t, master)
      new == list_entry(list_first(k1.h, threads(master)))
      k2 == [k1 EXCEPT !.master_thread[new] = new,
                       !.thread_count[new] = k1.thread_count[master],
                       !.tid_slots[new] = k1.tid_slots[master]]
      k3 == free_tid(k2, new, k2.TID[master])
      k4 == [k3 EXCEPT !.h = INIT_LIST_HEAD(list_del(@, thread_list(new)), threads(new))]
      move(x, u) == [x EXCEPT !.master_thread[u] = new,
                              !.h = list_add_tail(list_del(@, thread_list(u)), thread_list(u), threads(new))]
      k5 == ForEachTask(move, k4, threads(master))
  IN IF kk.thread_count[master] = 1 THEN sys_exit(kk)
     ELSE IF t # master THEN sched_next_rr(ToFreeQueue(k1, t))
     ELSE IF list_empty(k1.h, threads(master)) THEN sys_exit(k1)
     ELSE sched_next_rr(ToFreeQueue(k5, master))

-----------------------------------------------------------------------------
Init == k = InitKernel

(* A handler runs on a kernel that is not wild; idle makes no system call. *)
Handler == ~k.h.wild
InUser == Handler /\ k.current_task # idle_task
IsMaster == k.master_thread[k.current_task] = k.current_task

Clock == Handler /\ k' = clock_routine(k)
Block == InUser /\ k' = sys_block(k)
WaitForTick == InUser /\ k' = sys_waitfortick(k)

Unblock(pid) ==
  /\ InUser
  /\ k' = sys_unblock(k, pid)
  /\ \A t \in Tasks : k'.pending_unblocks[t] <= MaxPending

Fork(out) ==
  /\ InUser
  /\ ThreadsFork \/ IsMaster
  /\ k.next_pid < MaxPid
  /\ k' = sys_fork(k, out)

ThreadCreate(out) == InUser /\ k' = sys_create_thread(k, out)

(* exit, or a page fault outside the stack: pageFault_routine calls        *)
(* sys_exit.                                                               *)
Exit == InUser /\ (ThreadsExit \/ IsMaster) /\ k' = sys_exit(k)

ThreadExit ==
  /\ InUser
  /\ MasterLeaves \/ ~IsMaster \/ k.thread_count[k.current_task] = 1
  /\ k' = sys_exit_thread(k)

Next ==
  \/ Clock
  \/ Block
  \/ WaitForTick
  \/ \E pid \in 0 .. MaxPid : Unblock(pid)
  \/ \E out \in {"ok"} \cup (FramesRunOut \ {"threadstack"}) : Fork(out)
  \/ \E out \in {"ok"} \cup (FramesRunOut \cap {"threadstack"}) : ThreadCreate(out)
  \/ Exit
  \/ ThreadExit

Spec == Init /\ [][Next]_k
-----------------------------------------------------------------------------
FreeTasks == ToSet(TasksOn(k, freequeue))
LiveTasks == Tasks \ (FreeTasks \cup {idle_task})
Masters == {t \in LiveTasks : k.master_thread[t] = t}

(* Type invariant of the kernel state. *)
TypeOK ==
  /\ k.h.next \in [Nodes -> Nodes] /\ k.h.prev \in [Nodes -> Nodes] /\ k.h.wild \in BOOLEAN
  /\ k.current_task \in Tasks /\ k.current_quantum \in 1 .. DEFAULT_QUANTUM
  /\ k.zeos_ticks \in 0 .. TickMod - 1 /\ k.next_pid \in 1 .. MaxPid
  /\ k.status \in [Tasks -> {ST_RUN, ST_READY, ST_BLOCKED}]
  /\ k.PID \in [Tasks -> 0 .. MaxPid]
  /\ k.TID \in [Tasks -> 0 .. TidOf(MaxPid, MAX_TIDS_PER_PROCESS - 1)]
  /\ k.parent \in [Tasks -> Tasks \cup {NoParent}]
  /\ k.pending_unblocks \in [Tasks -> 0 .. MaxPending]
  /\ k.thread_count \in [Tasks -> 0 .. MAX_TIDS_PER_PROCESS]
  /\ k.master_thread \in [Tasks -> Tasks]
  /\ k.tid_slots \in [Tasks -> [Slots -> BOOLEAN]]
  /\ k.dir \in [Tasks -> Tasks] /\ k.data \in [Tasks -> 0 .. MaxPid]

(* The list_heads in use form whole circular lists, consistent in both     *)
(* directions: the queues, the list of every task that is in a queue, and  *)
(* the four family lists of every live task and of idle.  A stale pointer  *)
(* into or out of a freed task_struct would break it.  The kernel has      *)
(* written through no NULL pointer (list_del leaves them behind), looped   *)
(* on no open list and put nothing in a field that does not belong there.  *)
ListsLinked ==
  /\ TypeOK /\ ~k.h.wild
  /\ LET queued == {t \in Tasks : t # k.current_task /\ ~(t = idle_task /\ k.status[t] = ST_RUN)}
         owned == (TaskFields \ {"list"}) \X (LiveTasks \cup {idle_task})
     IN WellLinked(k.h, QueueHeads \cup ({"list"} \X queued) \cup owned)

(* A process's thread bookkeeping agrees, whatever threads are created,    *)
(* refused, ended or killed: the threads on the master's list are exactly  *)
(* the live tasks that name it as master, they share its PID and page      *)
(* directory, thread_count counts them, the used TID slots are theirs, and *)
(* PID * 10 + slot never names a thread of another process too.            *)
ThreadTable ==
  /\ \A t, u \in LiveTasks : k.TID[t] = k.TID[u] => t = u
  /\ \A t \in LiveTasks : k.master_thread[t] \in Masters
  /\ \A m \in Masters :
       LET members == {m} \cup ToSet(TasksOn(k, threads(m)))
       IN /\ members = {t \in LiveTasks : k.master_thread[t] = m}
          /\ k.thread_count[m] = Cardinality(members)
          /\ \A t \in members : k.PID[t] = k.PID[m] /\ k.dir[t] = k.dir[m]
          /\ {s \in Slots : k.tid_slots[m][s]} = {k.TID[t] - TidOf(k.PID[m], 0) : t \in members}

(* The child list of every live task, and of idle, holds exactly the live  *)
(* processes that name it as parent: no dead child, no lost orphan.        *)
ProcessTree ==
  \A p \in LiveTasks \cup {idle_task} :
    /\ ~Broken(k, children(p))
    /\ ToSet(TasksOn(k, children(p))) = {c \in Masters : k.parent[c] = p}

(* The page directory of every live task maps its own process's data. *)
OwnAddressSpace == \A t \in LiveTasks : k.data[k.dir[t]] = k.PID[t]

(* The pointer-level kernel implements the queue-level scheduler: each     *)
(* queue is the list read from its head.                                   *)
S == INSTANCE Sched WITH
       current_task <- k.current_task,
       status <- k.status,
       readyqueue <- TasksOn(k, readyqueue),
       blockedqueue <- TasksOn(k, blockedqueue),
       tick_blockedqueue <- TasksOn(k, tick_blockedqueue),
       freequeue <- TasksOn(k, freequeue),
       current_quantum <- k.current_quantum,
       pending_unblocks <- k.pending_unblocks,
       zeos_ticks <- k.zeos_ticks

(* Every behaviour of sched.c and sys.c over pointer lists is one of the   *)
(* abstract scheduler.                                                     *)
ImplementsSched == S!Spec
=============================================================================
