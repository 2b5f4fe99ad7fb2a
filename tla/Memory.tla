------------------------------- MODULE Memory -------------------------------
(***************************************************************************)
(* Physical frames and address spaces: mm.c, the stack regions of          *)
(* kernel_helpers.c, the auxiliary stack of keyboard.c and the memory      *)
(* effects of the system calls of sys.c.                                   *)
(*                                                                         *)
(* A page table maps a logical page to a frame or to NONE (present = 0).   *)
(* Any live task may be the one that runs and calls: which one does is     *)
(* Sched's business.  Two uses of the system calls that break the kernel's *)
(* queues are left out here as in Kernel: exit by a thread that is not its *)
(* process's master, and ThreadExit by a master that leaves other threads. *)
(***************************************************************************)
EXTENDS Integers, Sequences, FiniteSets

CONSTANTS NR_TASKS, TOTAL_PAGES, NUM_PAG_KERNEL, NUM_PAG_DATA, NUM_PAG_CODE,
          THREAD_STACK_REGION_PAGES, THREAD_STACK_INITIAL_PAGES,
          MAX_TIDS_PER_PROCESS

ASSUME MemoryConstants ==
  /\ NR_TASKS \in Nat \ {0} /\ TOTAL_PAGES \in Nat /\ NUM_PAG_KERNEL \in Nat \ {0}
  /\ NUM_PAG_DATA \in Nat \ {0} /\ NUM_PAG_CODE \in Nat \ {0}
  /\ THREAD_STACK_REGION_PAGES \in Nat \ {0}
  /\ THREAD_STACK_INITIAL_PAGES = 1      \* init_task1 allocates one frame, whatever it is
  /\ MAX_TIDS_PER_PROCESS \in Nat
  /\ NUM_PAG_KERNEL + NUM_PAG_DATA + NUM_PAG_CODE
       + NR_TASKS * THREAD_STACK_REGION_PAGES <= TOTAL_PAGES - NUM_PAG_DATA - 2

NONE == -1
PAG_LOG_INIT_DATA == NUM_PAG_KERNEL
PAG_LOG_INIT_CODE == PAG_LOG_INIT_DATA + NUM_PAG_DATA
THREAD_STACK_BASE_PAGE == PAG_LOG_INIT_CODE + NUM_PAG_CODE
TEMP_STACK_MAPPING_PAGE == TOTAL_PAGES - THREAD_STACK_INITIAL_PAGES - 1
FORK_TEMP_MAPPING_PAGE == TOTAL_PAGES - NUM_PAG_DATA - 2
KBD_AUX_STACK_PAGE == TOTAL_PAGES - 3

Tasks == 1..NR_TASKS                \* task 0 is idle, task 1 is init
Pages == 0..(TOTAL_PAGES - 1)
KernelPages == 0..(NUM_PAG_KERNEL - 1)
DataPages == PAG_LOG_INIT_DATA..(PAG_LOG_INIT_DATA + NUM_PAG_DATA - 1)
CodePages == PAG_LOG_INIT_CODE..(PAG_LOG_INIT_CODE + NUM_PAG_CODE - 1)
\* The pages that a process shares with no other: its data, its stacks and the
\* pages at the end of its address space.
PrivatePages == Pages \ (KernelPages \cup CodePages)

VARIABLES
  phys_mem,    \* the frames marked USED_FRAME
  pt,          \* pagusr_table: one page table per task_struct
  task,        \* the fields of each task_struct that describe its memory
  freequeue,   \* the free task_structs, first to last
  lost,        \* history: the used frames that the code leaves behind and has no path
               \* to free (NoFrameLost names the four ways)
  torn         \* history: the tasks with a keyboard handler whose auxiliary stack
               \* page a fork or another thread of the process unmapped

vars == <<phys_mem, pt, task, freequeue, lost, torn>>

-----------------------------------------------------------------------------
(* Frames *)

\* alloc_frame called n times: it scans every second frame from the end of the
\* kernel for the first free one, so n calls return the n lowest free ones.
AllocCandidates == {f \in NUM_PAG_KERNEL..(TOTAL_PAGES - 1) :
                      (f - NUM_PAG_KERNEL) % 2 = 0}

FreeFrames(pm) == AllocCandidates \ pm

alloc_frame(pm, n) ==
  {s \in [1..n -> FreeFrames(pm)] :
     /\ \A i, j \in 1..n : i < j => s[i] < s[j]
     /\ \A f \in FreeFrames(pm) : \A i \in 1..n :
          f < s[i] => \E j \in 1..n : s[j] = f}

\* free_frame on each frame of S.
free_frame(pm, S) == pm \ {f \in S : f > NUM_PAG_KERNEL /\ f < TOTAL_PAGES}

-----------------------------------------------------------------------------
(* Page tables *)

\* set_ss_pag for consecutive pages from first on.
set_ss_pag(T, first, s) ==
  [p \in Pages |-> IF p - first + 1 \in 1..Len(s) THEN s[p - first + 1] ELSE T[p]]

\* del_ss_pag for n consecutive pages.
del_ss_pag(T, first, n) ==
  [p \in Pages |-> IF p \in first..(first + n - 1) THEN NONE ELSE T[p]]

\* get_frame: the base address field, which is 0 in an entry that is not present.
get_frame(T, p) == IF T[p] = NONE THEN 0 ELSE T[p]

get_PT(t) == pt[task[t].dir]

init_table_pages ==
  [p \in Pages |-> IF p \in KernelPages \ {0} THEN p ELSE NONE]

-----------------------------------------------------------------------------
(* Tasks *)

Free == {freequeue[i] : i \in 1..Len(freequeue)}
Live == Tasks \ Free
Master(t) == task[t].master = t
Threads(m) == {t \in Live : task[t].master = m /\ t # m}

\* A task_struct without stack region and keyboard handler.  One in the free queue
\* keeps what its last user left in it, which is never read: it is kept blank here.
NoStack == [start |-> 0, pages |-> 0, ptr |-> 0, frames |-> 0]
NewTask(m, dir, stack) == [master |-> m, dir |-> dir, stack |-> stack, aux |-> FALSE]
Blank(t) == NewTask(t, t, NoStack)

\* A region at start with n pages mapped at its top.
Region(start, n) == [start |-> start, pages |-> THREAD_STACK_REGION_PAGES,
                     ptr |-> start + THREAD_STACK_REGION_PAGES - n, frames |-> n]

stack_region_overlaps(t, start, pages) ==
  /\ task[t].stack.pages # 0
  /\ start + pages > task[t].stack.start
  /\ start < task[t].stack.start + task[t].stack.pages

\* The regions of the other threads are not looked at.
stack_region_in_use_OnlyMaster(m, start, pages) == stack_region_overlaps(m, start, pages)

stack_region_in_use(m, start, pages) ==
  \E t \in {m} \cup Threads(m) : stack_region_overlaps(t, start, pages)

\* find_free_stack_region returns the lowest free candidate; the empty set is -1.
FreeRegions(m) ==
  {p \in THREAD_STACK_BASE_PAGE..(TOTAL_PAGES - THREAD_STACK_REGION_PAGES) :
     /\ (p - THREAD_STACK_BASE_PAGE) % THREAD_STACK_REGION_PAGES = 0
     /\ ~stack_region_in_use(m, p, THREAD_STACK_REGION_PAGES)}

find_free_stack_region(m) ==
  {p \in FreeRegions(m) : \A q \in FreeRegions(m) : p <= q}

\* A free task_struct taken from the queue and given back after a failure.
Rotated == Append(Tail(freequeue), Head(freequeue))
-----------------------------------------------------------------------------
\* set_user_pages: code, then data, on the frames s in their order.
set_user_pages(s) ==
  set_ss_pag(set_ss_pag(init_table_pages, PAG_LOG_INIT_CODE, SubSeq(s, 1, NUM_PAG_CODE)),
             PAG_LOG_INIT_DATA, SubSeq(s, NUM_PAG_CODE + 1, NUM_PAG_CODE + NUM_PAG_DATA))

\* init_task1 also allocates the first page of init's stack, at the top of the first
\* region.
Init ==
  LET n == NUM_PAG_CODE + NUM_PAG_DATA
      first_mapped_page ==
        THREAD_STACK_BASE_PAGE + THREAD_STACK_REGION_PAGES - THREAD_STACK_INITIAL_PAGES
  IN
  /\ \E s \in alloc_frame(KernelPages, n + 1) :
       /\ phys_mem = KernelPages \cup {s[i] : i \in 1..(n + 1)}
       /\ pt = [t \in Tasks |->
                 IF t = 1 THEN set_ss_pag(set_user_pages(s), first_mapped_page, <<s[n + 1]>>)
                          ELSE init_table_pages]
  /\ task = [t \in Tasks |->
              IF t = 1 THEN NewTask(1, 1, Region(THREAD_STACK_BASE_PAGE,
                                                 THREAD_STACK_INITIAL_PAGES))
                       ELSE Blank(t)]
  /\ freequeue = [i \in 1..(NR_TASKS - 1) |-> i + 1]
  /\ lost = {} /\ torn = {}

\* The frames mapped on the pages P of t's address space, and the tasks that share
\* it and have a handler.
MappedOn(t, P) == {get_PT(t)[p] : p \in P} \ {NONE}
Listeners(t) == {u \in Live : task[u].dir = task[t].dir /\ task[u].aux}

\* A fork unmaps the temporary pages, the last of which is that of the auxiliary stack:
\* the frame mapped there is not freed.
Forget(t) ==
  /\ lost' = (lost \cup MappedOn(t, {KBD_AUX_STACK_PAGE})) \cap phys_mem'
  /\ torn' = torn \cup Listeners(t)

\* sys_fork.  d holds the frames of the child's data, s those of its copy of the
\* calling thread's stack.
ChildTable(t, c, d) ==
  [p \in Pages |->
     CASE p \in KernelPages \cup CodePages -> get_frame(get_PT(t), p)
       [] p \in DataPages -> d[p - PAG_LOG_INIT_DATA + 1]
       [] OTHER -> pt[c][p]]

CopiedStackPage(t) ==
  THREAD_STACK_BASE_PAGE + THREAD_STACK_REGION_PAGES - task[t].stack.frames

ParentTable(t) == del_ss_pag(get_PT(t), FORK_TEMP_MAPPING_PAGE, NUM_PAG_DATA)

ForkNoData(t) ==
  /\ alloc_frame(phys_mem, NUM_PAG_DATA) = {}
  /\ phys_mem' = free_frame(phys_mem \cup FreeFrames(phys_mem), FreeFrames(phys_mem))
  /\ freequeue' = Rotated
  /\ UNCHANGED <<pt, task, lost, torn>>

\* The frames run out while the stack is copied: both kinds of frames are freed.
\* The code and data entries written to the child's table are left there; the next
\* fork that takes this task_struct writes them anew before anything reads them,
\* so the model leaves them as they were.
ForkNoStack(t) ==
  LET c == Head(freequeue) IN
  /\ task[t].stack.frames > 0
  /\ \E d \in alloc_frame(phys_mem, NUM_PAG_DATA) :
       LET used == phys_mem \cup {d[i] : i \in 1..NUM_PAG_DATA}
           got == Cardinality(FreeFrames(used))
       IN /\ got < task[t].stack.frames
          /\ phys_mem' = free_frame(used, {d[i] : i \in 1..NUM_PAG_DATA})
          /\ pt' = [pt EXCEPT ![task[t].dir] = ParentTable(t),
                              ![c] = del_ss_pag(@, CopiedStackPage(t), got)]
  /\ freequeue' = Rotated
  /\ Forget(t)
  /\ UNCHANGED task

\* The stack is copied through the temporary pages a second time.  A caller without a
\* stack (n = 0) would have no copy: StacksApart says that there is none.
ForkWithStack(t) ==
  LET c == Head(freequeue)  n == task[t].stack.frames IN
  /\ n > 0
  /\ \E d \in alloc_frame(phys_mem, NUM_PAG_DATA) :
       LET used == phys_mem \cup {d[i] : i \in 1..NUM_PAG_DATA}
       IN \E s \in alloc_frame(used, n) :
            /\ phys_mem' = used \cup {s[i] : i \in 1..n}
            /\ pt' = [pt EXCEPT ![task[t].dir] = del_ss_pag(ParentTable(t),
                                                     FORK_TEMP_MAPPING_PAGE, n),
                                ![c] = set_ss_pag(ChildTable(t, c, d),
                                                  CopiedStackPage(t), s)]
  /\ task' = [task EXCEPT ![c] = NewTask(c, c, Region(THREAD_STACK_BASE_PAGE, n))]
  /\ freequeue' = Tail(freequeue)
  /\ Forget(t)

sys_fork(t) ==
  /\ freequeue # <<>>
  /\ ForkNoData(t) \/ ForkNoStack(t) \/ ForkWithStack(t)

\* sys_create_thread: a failure (no TID, no region, no frame) gives the
\* task_struct back.
CreateThreadFails(m) ==
  /\ \/ Cardinality(Threads(m)) + 1 >= MAX_TIDS_PER_PROCESS
     \/ find_free_stack_region(m) = {}
     \/ alloc_frame(phys_mem, THREAD_STACK_INITIAL_PAGES) = {}
  /\ freequeue' = Rotated
  /\ UNCHANGED <<phys_mem, pt, task, lost, torn>>

CreateThreadMaps(m) ==
  LET c == Head(freequeue)
      n == THREAD_STACK_INITIAL_PAGES
  IN
  /\ Cardinality(Threads(m)) + 1 < MAX_TIDS_PER_PROCESS
  /\ \E start \in find_free_stack_region(m), s \in alloc_frame(phys_mem, n) :
       LET first == start + THREAD_STACK_REGION_PAGES - n IN
       /\ phys_mem' = phys_mem \cup {s[i] : i \in 1..n}
       /\ pt' = [pt EXCEPT ![task[m].dir] =
                   del_ss_pag(set_ss_pag(pt[task[m].dir], first, s),
                              TEMP_STACK_MAPPING_PAGE, n)]
       /\ task' = [task EXCEPT ![c] = NewTask(m, task[m].dir, Region(start, n))]
  /\ freequeue' = Tail(freequeue)
  /\ UNCHANGED <<lost, torn>>

sys_create_thread(t) ==
  /\ freequeue # <<>>
  /\ CreateThreadFails(task[t].master) \/ CreateThreadMaps(task[t].master)

\* release_thread_stack: the pages it unmaps and frees.
StackPages(t) == task[t].stack.ptr..(task[t].stack.ptr + task[t].stack.frames - 1)

\* Frames are freed and stay mapped.
Released_StillMapped(T, P) == T

Released(T, P) == [p \in Pages |-> IF p \in P THEN NONE ELSE T[p]]
FramesOn(T, P) == {get_frame(T, p) : p \in P}

\* sys_exit_thread of a thread that is not the master.  The keyboard fields and
\* the auxiliary stack are not looked at.
sys_exit_thread(t) ==
  /\ ~Master(t)
  /\ phys_mem' = free_frame(phys_mem, FramesOn(get_PT(t), StackPages(t)))
  /\ pt' = [pt EXCEPT ![task[t].dir] = Released(@, StackPages(t))]
  /\ task' = [task EXCEPT ![t] = Blank(t)]
  /\ freequeue' = Append(freequeue, t)
  /\ lost' = lost \cap phys_mem' /\ torn' = torn \ {t}

\* The threads' stacks are forgotten.
ExitPages_NoStacks(t) ==
  DataPages \cup (IF task[t].aux THEN {KBD_AUX_STACK_PAGE} ELSE {})

\* sys_exit of a master: its threads' stacks, then its data, then its own
\* auxiliary stack.  Its threads join the free queue in list order, abstracted
\* to any order, then the master does.
ExitPages(t) ==
  (UNION {StackPages(u) : u \in Threads(t)}) \cup DataPages
    \cup (IF task[t].aux THEN {KBD_AUX_STACK_PAGE} ELSE {})

\* What it leaves mapped and used: the master's own stack, which is on no list of
\* threads, and the auxiliary stack of a thread, which the master does not know of.
LeftPages(t) ==
  StackPages(t) \cup (IF task[t].aux THEN {} ELSE {KBD_AUX_STACK_PAGE})

Orders(S) == {q \in UNION {[1..n -> S] : n \in 0..NR_TASKS} :
                /\ \A i, j \in DOMAIN q : q[i] = q[j] => i = j
                /\ \A t \in S : \E i \in DOMAIN q : q[i] = t}

ExitEffect(t) ==
  /\ phys_mem' = free_frame(phys_mem, FramesOn(get_PT(t), ExitPages(t)))
  /\ pt' = [pt EXCEPT ![task[t].dir] = Released(@, ExitPages(t))]
  /\ task' = [u \in Tasks |-> IF u \in Threads(t) \cup {t} THEN Blank(u) ELSE task[u]]
  /\ \E q \in Orders(Threads(t)) : freequeue' = freequeue \o q \o <<t>>
  /\ lost' = (lost \cup MappedOn(t, LeftPages(t))) \cap phys_mem'
  /\ torn' = torn \ ({t} \cup Threads(t))

sys_exit(t) ==
  /\ Master(t)
  /\ ExitEffect(t)

\* pageFault_routine: grow_user_stack maps the page below the stack; any other
\* fault ends the process.
CanGrow(t, page) ==
  /\ task[t].stack.pages # 0 /\ task[t].stack.ptr # 0
  /\ page \in task[t].stack.start..(task[t].stack.start + task[t].stack.pages - 1)
  /\ task[t].stack.frames < task[t].stack.pages
  /\ page = task[t].stack.ptr - 1

grow_user_stack(t, page) ==
  /\ CanGrow(t, page)
  /\ \E s \in alloc_frame(phys_mem, 1) :
       /\ phys_mem' = phys_mem \cup {s[1]}
       /\ pt' = [pt EXCEPT ![task[t].dir] = set_ss_pag(@, page, s)]
  /\ task' = [task EXCEPT ![t].stack.ptr = page, ![t].stack.frames = @ + 1]
  /\ UNCHANGED <<freequeue, lost, torn>>

pageFault_routine(t) ==
  LET Faults == {page \in Pages \ KernelPages : get_PT(t)[page] = NONE} IN
  \/ \E page \in Faults : grow_user_stack(t, page)
  \/ /\ {page \in Faults : CanGrow(t, page) => alloc_frame(phys_mem, 1) = {}} # {}
     /\ Master(t)
     /\ ExitEffect(t)

\* sys_keyboard_event(func): setup_kbd_aux_stack.
KeyboardOn(t) ==
  /\ ~task[t].aux
  /\ \E s \in alloc_frame(phys_mem, 1) :
       /\ phys_mem' = phys_mem \cup {s[1]}
       /\ pt' = [pt EXCEPT ![task[t].dir] = set_ss_pag(@, KBD_AUX_STACK_PAGE, s)]
  /\ task' = [task EXCEPT ![t].aux = TRUE]
  /\ lost' = lost \cup MappedOn(t, {KBD_AUX_STACK_PAGE})
  /\ torn' = torn \ Listeners(t)
  /\ UNCHANGED freequeue

\* The task still believes that it has an auxiliary stack.
KeyboardOff_KeepsPointer(t) ==
  /\ task[t].aux
  /\ phys_mem' = free_frame(phys_mem, {get_frame(get_PT(t), KBD_AUX_STACK_PAGE)})
  /\ pt' = [pt EXCEPT ![task[t].dir] = del_ss_pag(@, KBD_AUX_STACK_PAGE, 1)]
  /\ lost' = lost \cap phys_mem'
  /\ torn' = (torn \cup Listeners(t)) \ {t}
  /\ UNCHANGED <<task, freequeue>>

\* sys_keyboard_event(NULL): cleanup_kbd_handler, free_kbd_aux_stack.
KeyboardOff(t) ==
  /\ task[t].aux
  /\ phys_mem' = free_frame(phys_mem, {get_frame(get_PT(t), KBD_AUX_STACK_PAGE)})
  /\ pt' = [pt EXCEPT ![task[t].dir] = del_ss_pag(@, KBD_AUX_STACK_PAGE, 1)]
  /\ task' = [task EXCEPT ![t].aux = FALSE]
  /\ lost' = lost \cap phys_mem'
  /\ torn' = (torn \cup Listeners(t)) \ {t}
  /\ UNCHANGED freequeue

Next ==
  \E t \in Live :
    \/ sys_fork(t) \/ sys_create_thread(t) \/ sys_exit_thread(t) \/ sys_exit(t)
    \/ pageFault_routine(t) \/ KeyboardOn(t) \/ KeyboardOff(t)

Spec == Init /\ [][Next]_vars
-----------------------------------------------------------------------------
StackType == [start : Pages, pages : {0, THREAD_STACK_REGION_PAGES},
              ptr : Pages, frames : 0..THREAD_STACK_REGION_PAGES]

TypeOK ==
  /\ phys_mem \subseteq Pages
  /\ pt \in [Tasks -> [Pages -> Pages \cup {NONE}]]
  /\ task \in [Tasks -> [master : Tasks, dir : Tasks, stack : StackType, aux : BOOLEAN]]
  /\ freequeue \in Seq(Tasks)
  /\ lost \subseteq phys_mem /\ torn \subseteq Live

\* A frame behind a private page of a live address space is marked used and
\* backs no other private page of any live address space: fork, ThreadCreate,
\* stack growth, the keyboard stack and every release, rollbacks included, never
\* give one frame to two owners.
OwnedOnce ==
  LET Claims == {x \in {task[t].dir : t \in Live} \X PrivatePages : pt[x[1]][x[2]] # NONE}
  IN \A x, y \in Claims :
       /\ pt[x[1]][x[2]] \in phys_mem
       /\ pt[x[1]][x[2]] = pt[y[1]][y[2]] => x = y

CodeFrames == {pt[1][p] : p \in CodePages}

\* Every used frame is kernel, code or mapped on a private page of a live process, but
\* for these, which no path of the code frees: the stack of the master of a process that
\* exited (sys_exit releases the stacks of the other threads alone), and an auxiliary
\* stack that a fork of the process unmapped, that a second listener replaced, or whose
\* thread is not the master that exits.  Exits free all else that their process held,
\* ThreadExit its stack, rollbacks all that they had allocated, and the test
\* frame > NUM_PAG_KERNEL withholds none.
NoFrameLost ==
  phys_mem \subseteq KernelPages \cup CodeFrames \cup lost
                       \cup {pt[task[t].dir][p] : t \in Live, p \in PrivatePages}

\* Every task has a stack, mapped from its pointer to the top of its region, and the
\* regions of the threads of one process are disjoint, whatever order threads are
\* created, forked, grow and exit in.
StacksApart ==
  \A t \in Live :
    LET r == task[t].stack IN
    /\ r.frames > 0
    /\ r.ptr + r.frames = r.start + r.pages /\ r.ptr >= r.start
    /\ \A p \in StackPages(t) : get_PT(t)[p] # NONE
    /\ \A u \in Live \ {t} :
         task[u].dir = task[t].dir => ~stack_region_overlaps(u, r.start, r.pages)

\* A task with a registered handler has its auxiliary stack mapped (kbd_irq_handler
\* writes to that page without looking) unless a fork in its process took page
\* 1021, or another thread of the process gave up its own handler, since.
HandlerHasItsStack ==
  \A t \in Live :
    task[t].aux => (get_PT(t)[KBD_AUX_STACK_PAGE] # NONE <=> t \notin torn)
=============================================================================
