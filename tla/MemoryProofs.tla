---------------------------- MODULE MemoryProofs ----------------------------
(***************************************************************************)
(* OwnedOnce holds for every number of tasks, pages and frames.            *)
(*                                                                         *)
(* OwnedOnce is not inductive.  Page tables outlive their processes: an    *)
(* entry for a lost stack stays in the table of a task_struct that fork    *)
(* will use again, so the frames behind stack and auxiliary pages must be  *)
(* owned once in the tables of free tasks too.  Only data entries of unused*)
(* tables may dangle (ForkNoStack leaves them), because fork rewrites them. *)
(***************************************************************************)
EXTENDS Memory, TLAPS

\* The entry of page p in table d counts: it maps a private page, and a data page
\* only if d is the table of a live process.
Claimed(P, L, d, p) ==
  /\ p \in DataPages => d \in L
  /\ P[d][p] # NONE

\* Every entry that counts holds a used frame of its own.
Owned(P, pm, L) ==
  \A d, e \in Tasks : \A p, q \in PrivatePages :
    Claimed(P, L, d, p) =>
      /\ P[d][p] \in pm
      /\ Claimed(P, L, e, q) /\ P[e][q] = P[d][p] => d = e /\ p = q

\* A stack and its region lie above the code and inside the address space.
StackInPlace(r) ==
  /\ r.pages \in {0, THREAD_STACK_REGION_PAGES} /\ r.frames >= 0
  /\ r.pages # 0 => r.start >= THREAD_STACK_BASE_PAGE /\ r.frames > 0
  /\ r.frames > 0 => /\ r.ptr >= THREAD_STACK_BASE_PAGE
                     /\ r.ptr + r.frames <= TOTAL_PAGES
                     /\ r.frames <= THREAD_STACK_REGION_PAGES

TaskStruct == [master : Tasks, dir : Tasks, aux : BOOLEAN,
               stack : [start : Int, pages : Int, ptr : Int, frames : Int]]

Typed ==
  /\ DOMAIN pt = Tasks
  /\ task \in [Tasks -> TaskStruct]
  /\ freequeue \in Seq(Tasks)

\* Live tasks hang from a live master whose page directory they use; no
\* task_struct is in the free queue twice.
Families ==
  /\ \A t \in Live : /\ task[t].master \in Live
                     /\ task[task[t].master].master = task[t].master
                     /\ task[t].dir = task[t].master
  /\ \A i, j \in 1..Len(freequeue) : freequeue[i] = freequeue[j] => i = j

StacksInPlace == \A t \in Live : StackInPlace(task[t].stack)

\* The task_structs that are masters of live processes, whose tables are in use.
Masters == {t \in Live : Master(t)}

MemInv == Typed /\ Families /\ StacksInPlace /\ Owned(pt, phys_mem, Masters)
-----------------------------------------------------------------------------
(* The free queue *)

Ran(q) == {q[i] : i \in 1..Len(q)}
NoRepeat(q) == \A i, j \in 1..Len(q) : q[i] = q[j] => i = j

\* Taking the first task_struct (list_first, list_del).
LEMMA QueueTail ==
  ASSUME NEW q \in Seq(Tasks), q # <<>>, NoRepeat(q)
  PROVE  /\ Tail(q) \in Seq(Tasks) /\ NoRepeat(Tail(q))
         /\ Head(q) \in Ran(q) /\ Head(q) \in Tasks
         /\ Ran(Tail(q)) = Ran(q) \ {Head(q)}
<1>1. /\ Tail(q) \in Seq(Tasks) /\ Len(Tail(q)) = Len(q) - 1 /\ Len(q) \in Nat \ {0}
      /\ \A i \in 1..(Len(q) - 1) : Tail(q)[i] = q[i + 1]
      /\ Head(q) = q[1] /\ Head(q) \in Tasks
  OBVIOUS
<1>2. NoRepeat(Tail(q)) BY <1>1 DEF NoRepeat
<1>3. Head(q) \in Ran(q) BY <1>1 DEF Ran
<1>4. Ran(Tail(q)) \subseteq Ran(q) \ {Head(q)} BY <1>1 DEF Ran, NoRepeat
<1>5. ASSUME NEW t \in Ran(q) \ {Head(q)} PROVE t \in Ran(Tail(q))
  <2>1. PICK i \in 1..Len(q) : q[i] = t BY DEF Ran
  <2>2. i - 1 \in 1..Len(Tail(q)) /\ Tail(q)[i - 1] = t BY <1>1, <2>1, <1>5
  <2> QED BY <2>2 DEF Ran
<1> QED BY <1>1, <1>2, <1>3, <1>4, <1>5

\* Giving one back (list_add_tail).
LEMMA QueueAppend ==
  ASSUME NEW q \in Seq(Tasks), NoRepeat(q), NEW t \in Tasks \ Ran(q)
  PROVE  /\ Append(q, t) \in Seq(Tasks) /\ NoRepeat(Append(q, t))
         /\ Ran(Append(q, t)) = Ran(q) \cup {t}
BY DEF Ran, NoRepeat

\* A failed creation takes the first and gives it back.
LEMMA QueueRotate ==
  ASSUME NEW q \in Seq(Tasks), q # <<>>, NoRepeat(q)
  PROVE  LET r == Append(Tail(q), Head(q)) IN
         r \in Seq(Tasks) /\ NoRepeat(r) /\ Ran(r) = Ran(q)
<1>1. /\ Tail(q) \in Seq(Tasks) /\ NoRepeat(Tail(q)) /\ Head(q) \in Tasks \ Ran(Tail(q))
      /\ Ran(Tail(q)) \cup {Head(q)} = Ran(q)
  BY QueueTail
<1> QED
  BY <1>1, QueueAppend, Zenon

\* An exit appends its threads.
LEMMA QueueConcat ==
  ASSUME NEW q \in Seq(Tasks), NEW r \in Seq(Tasks), NoRepeat(q), NoRepeat(r),
         Ran(q) \cap Ran(r) = {}
  PROVE  /\ q \o r \in Seq(Tasks) /\ NoRepeat(q \o r)
         /\ Ran(q \o r) = Ran(q) \cup Ran(r)
<1> DEFINE c == q \o r
<1>1. /\ c \in Seq(Tasks) /\ Len(c) = Len(q) + Len(r)
      /\ \A i \in 1..Len(c) : c[i] = IF i <= Len(q) THEN q[i] ELSE r[i - Len(q)]
  OBVIOUS
<1>2. NoRepeat(c)
  <2> SUFFICES ASSUME NEW i \in 1..Len(c), NEW j \in 1..Len(c), c[i] = c[j] PROVE i = j
    BY DEF NoRepeat
  <2>1. CASE i <= Len(q) /\ j <= Len(q) BY <1>1, <2>1 DEF NoRepeat
  <2>2. CASE i > Len(q) /\ j > Len(q)
    <3>1. i - Len(q) \in 1..Len(r) /\ j - Len(q) \in 1..Len(r) BY <1>1, <2>2
    <3>2. r[i - Len(q)] = r[j - Len(q)] BY <1>1, <2>2
    <3> QED BY <3>1, <3>2 DEF NoRepeat
  <2> HIDE DEF c
  <2>0. \A k \in 1..Len(c) : IF k <= Len(q) THEN c[k] \in Ran(q) ELSE c[k] \in Ran(r)
    <3> SUFFICES ASSUME NEW k \in 1..Len(c)
                 PROVE IF k <= Len(q) THEN c[k] \in Ran(q) ELSE c[k] \in Ran(r)
      OBVIOUS
    <3>1. CASE k <= Len(q) BY <1>1, <3>1 DEF Ran
    <3>2. CASE k > Len(q)
      <4>1. k - Len(q) \in 1..Len(r) /\ c[k] = r[k - Len(q)] BY <1>1, <3>2
      <4> QED BY <4>1, <3>2, <1>1 DEF Ran
    <3> QED BY <1>1, <3>1, <3>2
  <2>3. ~(i <= Len(q) /\ j > Len(q)) BY <1>1, <2>0
  <2>4. ~(j <= Len(q) /\ i > Len(q)) BY <1>1, <2>0
  <2> QED BY <2>1, <2>2, <2>3, <2>4
<1>3. Ran(c) = Ran(q) \cup Ran(r)
  <2>1. Ran(c) \subseteq Ran(q) \cup Ran(r) BY <1>1 DEF Ran
  <2>2. Ran(q) \subseteq Ran(c) BY <1>1 DEF Ran
  <2>3. Ran(r) \subseteq Ran(c)
    <3> SUFFICES ASSUME NEW i \in 1..Len(r) PROVE r[i] \in Ran(c) BY DEF Ran
    <3>1. i + Len(q) \in 1..Len(c) /\ c[i + Len(q)] = r[i] BY <1>1
    <3> QED BY <3>1 DEF Ran
  <2> QED BY <2>1, <2>2, <2>3
<1> QED
  BY <1>1, <1>2, <1>3

-----------------------------------------------------------------------------
(* Frames and entries *)

\* What alloc_frame returns is unused and never twice the same.
LEMMA AllocFresh ==
  ASSUME NEW pm, NEW n \in Nat, NEW s \in alloc_frame(pm, n)
  PROVE  /\ s \in Seq(Int) /\ Len(s) = n /\ DOMAIN s = 1..n
         /\ \A i \in 1..n : s[i] \in Int /\ s[i] \notin pm /\ s[i] # NONE
         /\ \A i, j \in 1..n : s[i] = s[j] => i = j
<1>1. /\ s \in [1..n -> FreeFrames(pm)]
      /\ \A i, j \in 1..n : i < j => s[i] < s[j]
  BY DEF alloc_frame
<1>2. \A f \in FreeFrames(pm) : f \in Int /\ f \notin pm /\ f >= 0
  BY MemoryConstants DEF FreeFrames, AllocCandidates
<1>3. \A i \in 1..n : s[i] \in Int /\ s[i] \notin pm /\ s[i] # NONE
  BY <1>1, <1>2 DEF NONE
<1>4. s \in Seq(Int) /\ Len(s) = n /\ DOMAIN s = 1..n
  BY <1>1, <1>3
<1>5. \A i, j \in 1..n : s[i] = s[j] => i = j
  BY <1>1, <1>3
<1> QED
  BY <1>3, <1>4, <1>5

\* Every entry that counts afterwards counted before, unchanged and with its frame
\* still in use, or holds a frame that was free, different from those of the other
\* new entries.
SoundChange(P, Q, pm, pn, L, K, Fresh) ==
  /\ \A d \in Tasks : \A p \in PrivatePages : Claimed(Q, K, d, p) =>
       \/ Claimed(P, L, d, p) /\ Q[d][p] = P[d][p] /\ P[d][p] \in pn
       \/ <<d, p>> \in Fresh /\ Q[d][p] \notin pm /\ Q[d][p] \in pn
  /\ \A d, e \in Tasks : \A p, q \in PrivatePages :
       <<d, p>> \in Fresh /\ <<e, q>> \in Fresh /\ Q[d][p] = Q[e][q] => d = e /\ p = q

\* A sound change of the page tables keeps the frames owned once.
LEMMA OwnedStep ==
  ASSUME NEW P, NEW Q, NEW pm, NEW pn, NEW L, NEW K, NEW Fresh,
         Owned(P, pm, L), SoundChange(P, Q, pm, pn, L, K, Fresh)
  PROVE  Owned(Q, pn, K)
<1> DEFINE Kept(d, p) == Claimed(P, L, d, p) /\ Q[d][p] = P[d][p] /\ P[d][p] \in pn
           New(d, p) == <<d, p>> \in Fresh /\ Q[d][p] \notin pm /\ Q[d][p] \in pn
<1>1. \A d \in Tasks : \A p \in PrivatePages : Claimed(Q, K, d, p) => Kept(d, p) \/ New(d, p)
  BY DEF SoundChange
<1> SUFFICES ASSUME NEW d \in Tasks, NEW e \in Tasks,
                    NEW p \in PrivatePages, NEW q \in PrivatePages, Claimed(Q, K, d, p)
             PROVE  /\ Q[d][p] \in pn
                    /\ Claimed(Q, K, e, q) /\ Q[e][q] = Q[d][p] => d = e /\ p = q
  BY DEF Owned
<1>2. Q[d][p] \in pn
  BY <1>1, Zenon
<1>3. ASSUME Claimed(Q, K, e, q), Q[e][q] = Q[d][p] PROVE d = e /\ p = q
  <2>1. CASE Kept(d, p) /\ Kept(e, q) BY <2>1, <1>3, Zenon DEF Owned
  <2>2. CASE New(d, p) /\ New(e, q) BY <2>2, <1>3 DEF SoundChange
  <2>3. ~(Kept(d, p) /\ New(e, q)) BY <1>3 DEF Owned
  <2>4. ~(New(d, p) /\ Kept(e, q)) BY <1>3 DEF Owned
  <2> QED BY <1>1, <1>3, <2>1, <2>2, <2>3, <2>4
<1> QED BY <1>2, <1>3

\* The sizes, without the product in MemoryConstants.
LEMMA Sizes ==
  /\ NR_TASKS \in Nat \ {0} /\ TOTAL_PAGES \in Nat /\ NUM_PAG_KERNEL \in Nat \ {0}
  /\ NUM_PAG_DATA \in Nat \ {0} /\ NUM_PAG_CODE \in Nat \ {0} /\ THREAD_STACK_REGION_PAGES \in Nat \ {0}
  /\ THREAD_STACK_INITIAL_PAGES \in Nat \ {0} /\ THREAD_STACK_INITIAL_PAGES <= THREAD_STACK_REGION_PAGES
BY MemoryConstants

\* A page is a number.
LEMMA PagesAreInt == Pages \subseteq Int
BY Sizes DEF Pages

\* Where the pages are: data, code, stack regions and the pages at the end.
LEMMA Layout ==
  /\ THREAD_STACK_BASE_PAGE \in Nat /\ THREAD_STACK_REGION_PAGES \in Nat
  /\ THREAD_STACK_BASE_PAGE + THREAD_STACK_REGION_PAGES <= TOTAL_PAGES - 2
  /\ DataPages \subseteq PrivatePages
  /\ \A p \in Pages : p >= THREAD_STACK_BASE_PAGE => p \in PrivatePages \ DataPages
  /\ KBD_AUX_STACK_PAGE \in Pages /\ KBD_AUX_STACK_PAGE >= THREAD_STACK_BASE_PAGE
<1>1. THREAD_STACK_REGION_PAGES <= NR_TASKS * THREAD_STACK_REGION_PAGES
  BY MemoryConstants
<1>2. NR_TASKS * THREAD_STACK_REGION_PAGES \in Nat
  BY MemoryConstants
<1>3. PICK n \in Nat : n = NR_TASKS * THREAD_STACK_REGION_PAGES
  BY <1>2
<1>4. /\ NUM_PAG_KERNEL \in Nat /\ NUM_PAG_DATA \in Nat /\ NUM_PAG_CODE \in Nat
      /\ THREAD_STACK_REGION_PAGES \in Nat /\ TOTAL_PAGES \in Nat
      /\ THREAD_STACK_REGION_PAGES >= 1 /\ THREAD_STACK_REGION_PAGES <= n
      /\ NUM_PAG_KERNEL + NUM_PAG_DATA + NUM_PAG_CODE + n <= TOTAL_PAGES - NUM_PAG_DATA - 2
  BY <1>1, <1>3, MemoryConstants
<1>5. /\ THREAD_STACK_BASE_PAGE = NUM_PAG_KERNEL + NUM_PAG_DATA + NUM_PAG_CODE
      /\ THREAD_STACK_BASE_PAGE \in Nat /\ KBD_AUX_STACK_PAGE = TOTAL_PAGES - 3
  BY <1>4 DEF THREAD_STACK_BASE_PAGE, PAG_LOG_INIT_CODE, PAG_LOG_INIT_DATA,
     KBD_AUX_STACK_PAGE
<1>6. DataPages \subseteq PrivatePages
  BY <1>4 DEF PAG_LOG_INIT_CODE, PAG_LOG_INIT_DATA, DataPages, CodePages, KernelPages,
     Pages, PrivatePages
<1>7. \A p \in Pages : p >= THREAD_STACK_BASE_PAGE => p \in PrivatePages \ DataPages
  BY <1>4, <1>5 DEF PAG_LOG_INIT_CODE, PAG_LOG_INIT_DATA, DataPages, CodePages,
     KernelPages, Pages, PrivatePages
<1>8. KBD_AUX_STACK_PAGE \in Pages /\ KBD_AUX_STACK_PAGE >= THREAD_STACK_BASE_PAGE
  BY <1>4, <1>5 DEF Pages
<1> QED
  BY <1>4, <1>5, <1>6, <1>7, <1>8

\* The n pages at the top of the first region, where fork puts the child's stack.
LEMMA TopOfRegion ==
  ASSUME NEW n \in Int, n > 0, n <= THREAD_STACK_REGION_PAGES
  PROVE  /\ n \in Nat /\ THREAD_STACK_BASE_PAGE + THREAD_STACK_REGION_PAGES - n \in Int
         /\ THREAD_STACK_BASE_PAGE + THREAD_STACK_REGION_PAGES - n >= THREAD_STACK_BASE_PAGE
<1>1. THREAD_STACK_BASE_PAGE \in Nat /\ THREAD_STACK_REGION_PAGES \in Nat BY Layout
<1> QED BY <1>1

\* The frames freed with the entries of P (release_thread_stack, sys_exit,
\* free_kbd_aux_stack) are those of entries that are gone.
LEMMA Release ==
  ASSUME NEW m \in Tasks, NEW R, R \subseteq PrivatePages,
         NEW L, NEW K, K \subseteq L, m \in L,
         Owned(pt, phys_mem, L), DOMAIN pt = Tasks, NEW Q, NEW pn,
         Q = [pt EXCEPT ![m] = Released(pt[m], R)],
         pn = free_frame(phys_mem, FramesOn(pt[m], R))
  PROVE  Owned(Q, pn, K)
<1>1. \A d \in Tasks : \A p \in Pages :
        Q[d][p] = IF d = m /\ p \in R THEN NONE ELSE IF d = m THEN pt[m][p] ELSE pt[d][p]
  BY DEF Released
<1>2. PrivatePages \subseteq Pages
  BY DEF PrivatePages
<1> SUFFICES ASSUME NEW d \in Tasks, NEW p \in PrivatePages, Claimed(Q, K, d, p)
             PROVE  Claimed(pt, L, d, p) /\ Q[d][p] = pt[d][p] /\ pt[d][p] \in pn
  <2>1. SoundChange(pt, Q, phys_mem, pn, L, K, {}) BY Zenon DEF SoundChange
  <2> QED BY <2>1, OwnedStep
<1>3. Q[d][p] = pt[d][p] /\ ~(d = m /\ p \in R)
  BY <1>1, <1>2 DEF Claimed
<1>4. Claimed(pt, L, d, p)
  BY <1>3 DEF Claimed
<1>5. pt[d][p] \in phys_mem
  BY <1>4 DEF Owned
<1>6. ASSUME NEW q \in R, get_frame(pt[m], q) = pt[d][p], pt[d][p] > NUM_PAG_KERNEL
      PROVE  FALSE
  <2>1. pt[m][q] # NONE /\ pt[m][q] = pt[d][p]
    BY <1>6, MemoryConstants DEF get_frame
  <2>2. Claimed(pt, L, m, q)
    BY <2>1 DEF Claimed
  <2> QED BY <1>3, <1>4, <2>1, <2>2 DEF Owned
<1> QED BY <1>3, <1>4, <1>5, <1>6 DEF free_frame, FramesOn

\* What set_ss_pag leaves in the entry of a page.
LEMMA SetPage ==
  ASSUME NEW p \in Pages, NEW T, NEW first, NEW s
  PROVE  set_ss_pag(T, first, s)[p] =
           IF p - first + 1 \in 1..Len(s) THEN s[p - first + 1] ELSE T[p]
BY DEF set_ss_pag

\* The same for del_ss_pag.
LEMMA DelPage ==
  ASSUME NEW p \in Pages, NEW T, NEW first, NEW n
  PROVE  del_ss_pag(T, first, n)[p] = IF p \in first..(first + n - 1) THEN NONE ELSE T[p]
BY DEF del_ss_pag

\* alloc_frame called once.
LEMMA OneFrame ==
  ASSUME NEW pm, NEW s \in alloc_frame(pm, 1) PROVE Len(s) = 1 /\ s[1] # NONE
<1>1. 1 \in Nat /\ 1 \in 1..1 OBVIOUS
<1>2. Len(s) = 1 BY <1>1, AllocFresh, Zenon
<1>3. s[1] \in FreeFrames(pm) BY <1>1 DEF alloc_frame
<1>4. s[1] # NONE BY <1>3, Sizes DEF FreeFrames, AllocCandidates, NONE
<1> QED BY <1>2, <1>4

\* Entries that are unmapped, kept, or given a new frame of s in table c
\* (set_ss_pag after alloc_frame, with or without pages unmapped beside them).
Mapped(P, Q, pm, pn, L, K, n, s, c, first) ==
  /\ n \in Nat /\ s \in alloc_frame(pm, n) /\ c \in Tasks /\ first \in Int
  /\ pn = pm \cup {s[i] : i \in 1..n}
  /\ \A d \in Tasks : \A p \in PrivatePages :
       \/ Q[d][p] = NONE
       \/ Q[d][p] = P[d][p] /\ (p \in DataPages /\ d \in K => d \in L)
       \/ d = c /\ p - first + 1 \in 1..n /\ Q[d][p] = s[p - first + 1]

\* Mapping new frames keeps every frame owned once.
LEMMA MapFresh ==
  ASSUME NEW P, NEW Q, NEW pm, NEW pn, NEW L, NEW K, NEW n, NEW s, NEW c, NEW first,
         Owned(P, pm, L), Mapped(P, Q, pm, pn, L, K, n, s, c, first)
  PROVE  Owned(Q, pn, K)
<1> USE DEF Mapped
<1> DEFINE Fresh == {x \in {c} \X PrivatePages : x[2] - first + 1 \in 1..n
                                             /\ Q[c][x[2]] = s[x[2] - first + 1]}
<1>0. PrivatePages \subseteq Int BY MemoryConstants DEF PrivatePages, Pages
<1>1. \A d \in Tasks : \A p \in PrivatePages :
        <<d, p>> \in Fresh <=> /\ d = c /\ p - first + 1 \in 1..n
                              /\ Q[c][p] = s[p - first + 1]
  OBVIOUS
<1> HIDE DEF Fresh
<1>2. ASSUME NEW d \in Tasks, NEW p \in PrivatePages, Claimed(Q, K, d, p)
      PROVE  \/ Claimed(P, L, d, p) /\ Q[d][p] = P[d][p] /\ P[d][p] \in pn
             \/ <<d, p>> \in Fresh /\ Q[d][p] \notin pm /\ Q[d][p] \in pn
  <2>1. Q[d][p] # NONE BY <1>2 DEF Claimed
  <2>2. CASE Q[d][p] = P[d][p] /\ (p \in DataPages /\ d \in K => d \in L)
    <3>1. Claimed(P, L, d, p) BY <1>2, <2>2 DEF Claimed
    <3> QED BY <3>1, <2>2 DEF Owned
  <2>3. CASE d = c /\ p - first + 1 \in 1..n /\ Q[d][p] = s[p - first + 1]
    BY <1>1, <2>3, AllocFresh
  <2> QED BY <2>1, <2>2, <2>3
<1>3. ASSUME NEW d \in Tasks, NEW e \in Tasks, NEW p \in PrivatePages,
             NEW q \in PrivatePages, <<d, p>> \in Fresh, <<e, q>> \in Fresh,
             Q[d][p] = Q[e][q]
      PROVE  d = e /\ p = q
  <2>1. /\ d = c /\ e = c /\ p - first + 1 \in 1..n /\ q - first + 1 \in 1..n
        /\ s[p - first + 1] = s[q - first + 1]
    BY <1>1, <1>3
  <2>2. p - first + 1 = q - first + 1 BY <2>1, AllocFresh
  <2> QED BY <2>1, <2>2, <1>0
<1>4. SoundChange(P, Q, pm, pn, L, K, Fresh) BY <1>2, <1>3 DEF SoundChange
<1> QED BY <1>4, OwnedStep

\* A step that maps new frames and keeps the families.
LEMMA MapsInv ==
  ASSUME MemInv, NEW n, NEW s, NEW c, NEW first,
         Typed' /\ Families' /\ StacksInPlace' /\ Masters' = Masters,
         Mapped(pt, pt', phys_mem, phys_mem', Masters, Masters, n, s, c, first)
  PROVE  MemInv'
<1>1. Owned(pt, phys_mem, Masters) BY DEF MemInv
<1>2. Owned(pt', phys_mem', Masters) BY <1>1, MapFresh
<1> QED BY <1>2 DEF MemInv

-----------------------------------------------------------------------------
(* Families *)

\* A new task_struct leaves the free queue (sys_fork, sys_create_thread).
LEMMA Joins ==
  ASSUME Typed, Families, StacksInPlace, freequeue # <<>>,
         NEW r \in TaskStruct, StackInPlace(r.stack), r.dir = r.master,
         r.master = Head(freequeue) \/ r.master \in Masters,
         freequeue' = Tail(freequeue), task' = [task EXCEPT ![Head(freequeue)] = r],
         DOMAIN pt' = Tasks
  PROVE  /\ Typed' /\ Families' /\ StacksInPlace'
         /\ Masters' = IF r.master = Head(freequeue) THEN Masters \cup {r.master}
                                                    ELSE Masters
<1> DEFINE c == Head(freequeue)
<1>1. /\ Tail(freequeue) \in Seq(Tasks) /\ NoRepeat(Tail(freequeue)) /\ c \in Tasks
      /\ c \in Ran(freequeue) /\ Ran(Tail(freequeue)) = Ran(freequeue) \ {c}
  BY QueueTail DEF Typed, Families, NoRepeat
<1>2. Live' = Live \cup {c} /\ c \notin Live
  <2>1. Free = Ran(freequeue) /\ Free' = Ran(Tail(freequeue)) BY DEF Free, Ran
  <2> QED BY <1>1, <2>1 DEF Live
<1>3. /\ task'[c] = r /\ \A u \in Live : task'[u] = task[u]
      /\ task' \in [Tasks -> TaskStruct]
  BY <1>1, <1>2 DEF Typed, Live
<1> HIDE DEF c
<1>4. Typed' BY <1>1, <1>3 DEF Typed
<1>5. StacksInPlace' BY <1>2, <1>3 DEF StacksInPlace, StackInPlace
<1>6. Families'
  <2>1. NoRepeat(freequeue)' BY <1>1 DEF NoRepeat
  <2>2. \A t \in Live' : /\ task'[t].master \in Live'
                         /\ task'[task'[t].master].master = task'[t].master
                         /\ task'[t].dir = task'[t].master
    BY <1>2, <1>3 DEF Families, Masters, Master, c
  <2> QED BY <2>1, <2>2 DEF Families, NoRepeat
<1>7. Masters' = IF r.master = c THEN Masters \cup {r.master} ELSE Masters
  BY <1>2, <1>3 DEF Masters, Master
<1> QED BY <1>4, <1>5, <1>6, <1>7 DEF c

\* The tasks of G return to the free queue (exits, and failed creations with none).
Leaving(G) ==
  /\ G \subseteq Live /\ \A t \in Live \ G : task[t].master \notin G
  /\ freequeue' \in Seq(Tasks) /\ NoRepeat(freequeue')
  /\ Ran(freequeue') = Ran(freequeue) \cup G
  /\ task' \in [Tasks -> TaskStruct] /\ \A t \in Tasks \ G : task'[t] = task[t]
  /\ DOMAIN pt' = Tasks

\* The families of the other tasks stay as they are.
LEMMA Leaves ==
  ASSUME Typed, Families, StacksInPlace, NEW G, Leaving(G)
  PROVE  Typed' /\ Families' /\ StacksInPlace' /\ Masters' = Masters \ G
<1> USE DEF Leaving
<1>1. Live' = Live \ G /\ Live \subseteq Tasks
  BY DEF Live, Free, Ran
<1>2. Typed' BY DEF Typed
<1>3. StacksInPlace' BY <1>1 DEF StacksInPlace, StackInPlace
<1>4. Families' BY <1>1 DEF Families, NoRepeat
<1>5. Masters' = Masters \ G BY <1>1 DEF Masters, Master
<1> QED BY <1>2, <1>3, <1>4, <1>5

\* A live task changes its stack or its handler (grow_user_stack, keyboard_event).
LEMMA Stays ==
  ASSUME Typed, Families, StacksInPlace, freequeue' = freequeue, DOMAIN pt' = Tasks,
         task' \in [Tasks -> TaskStruct],
         \A t \in Live : /\ task'[t].master = task[t].master /\ task'[t].dir = task[t].dir
                         /\ StackInPlace(task'[t].stack)
  PROVE  Typed' /\ Families' /\ StacksInPlace' /\ Masters' = Masters
<1>1. Live' = Live /\ Live \subseteq Tasks BY DEF Live, Free
<1>2. Typed' BY DEF Typed
<1>3. StacksInPlace' BY <1>1 DEF StacksInPlace, StackInPlace
<1>4. Families' BY <1>1 DEF Families
<1>5. Masters' = Masters BY <1>1 DEF Masters, Master
<1> QED BY <1>2, <1>3, <1>4, <1>5

-----------------------------------------------------------------------------
(* The actions *)

\* A live task's page directory is that of a live master, and free task_structs are
\* no masters.
LEMMA DirIsMaster ==
  ASSUME Typed, Families, NEW t \in Live
  PROVE  /\ t \in Tasks /\ task[t].master \in Masters /\ task[t].master \in Tasks
         /\ task[t].dir = task[t].master
         /\ freequeue # <<>> => Head(freequeue) \in Tasks \ Live
<1>1. t \in Tasks /\ task[t].dir = task[t].master BY DEF Live, Families
<1>2. task[t].master \in Masters /\ task[t].master \in Tasks
  BY DEF Families, Masters, Master, Live
<1>3. ASSUME freequeue # <<>> PROVE Head(freequeue) \in Tasks \ Live
  <2>1. Head(freequeue) \in Tasks /\ Head(freequeue) \in Ran(freequeue)
    BY <1>3, QueueTail DEF Typed, Families, NoRepeat
  <2> QED BY <2>1 DEF Live, Free, Ran
<1> QED BY <1>1, <1>2, <1>3

\* A failed creation only rotates the free queue.
LEMMA RotateInv ==
  ASSUME MemInv, freequeue # <<>>, freequeue' = Rotated, task' = task, DOMAIN pt' = Tasks
  PROVE  Typed' /\ Families' /\ StacksInPlace' /\ Masters' = Masters
<1>1. /\ freequeue' \in Seq(Tasks) /\ NoRepeat(freequeue')
      /\ Ran(freequeue') = Ran(freequeue) \cup {}
  BY QueueRotate DEF MemInv, Typed, Families, NoRepeat, Rotated
<1>2. Leaving({}) BY <1>1 DEF MemInv, Typed, Leaving
<1>3. Masters \ {} = Masters OBVIOUS
<1> QED BY <1>2, <1>3, Leaves, Zenon DEF MemInv

\* fork without frames for the data.
LEMMA ForkNoDataInv ==
  ASSUME MemInv, NEW t \in Live, freequeue # <<>>, ForkNoData(t)
  PROVE  MemInv'
<1>1. Typed' /\ Families' /\ StacksInPlace' /\ Masters' = Masters
  BY RotateInv DEF ForkNoData, MemInv, Typed
<1>2. phys_mem \subseteq phys_mem'
  BY DEF ForkNoData, free_frame, FreeFrames
<1>3. Owned(pt, phys_mem', Masters)
  BY <1>2 DEF MemInv, Owned
<1> QED BY <1>1, <1>3 DEF MemInv, ForkNoData

\* The tables after the data has been copied: the child's data pages have new frames.
LEMMA ForkTables ==
  ASSUME MemInv, NEW t \in Live, freequeue # <<>>,
         NEW d \in alloc_frame(phys_mem, NUM_PAG_DATA), NEW Q, NEW pn,
         Q = [pt EXCEPT ![task[t].dir] = ParentTable(t),
                        ![Head(freequeue)] = ChildTable(t, Head(freequeue), d)],
         pn = phys_mem \cup {d[i] : i \in 1..NUM_PAG_DATA}
  PROVE  Owned(Q, pn, Masters \cup {Head(freequeue)})
<1> DEFINE c == Head(freequeue)  m == task[t].dir
<1>1. m \in Masters /\ m \in Tasks /\ c \in Tasks \ Live /\ c # m /\ c \notin Masters
  BY DirIsMaster DEF MemInv, Masters
<1>2. /\ Q[m] = ParentTable(t) /\ Q[c] = ChildTable(t, c, d)
      /\ \A e \in Tasks \ {m, c} : Q[e] = pt[e]
  BY <1>1 DEF MemInv, Typed
<1> HIDE DEF c, m
<1>3. PrivatePages \subseteq Pages /\ NUM_PAG_DATA \in Nat /\ PAG_LOG_INIT_DATA \in Int
  BY MemoryConstants DEF PrivatePages, PAG_LOG_INIT_DATA
<1>4. \A p \in PrivatePages : ParentTable(t)[p] = NONE \/ ParentTable(t)[p] = pt[m][p]
  BY <1>3 DEF ParentTable, del_ss_pag, get_PT, m
<1>5. ASSUME NEW p \in PrivatePages
      PROVE  \/ p \notin DataPages /\ ChildTable(t, c, d)[p] = pt[c][p]
             \/ /\ p - PAG_LOG_INIT_DATA + 1 \in 1..NUM_PAG_DATA
                /\ ChildTable(t, c, d)[p] = d[p - PAG_LOG_INIT_DATA + 1]
  <2>1. p \in Pages /\ p \notin KernelPages \cup CodePages BY DEF PrivatePages
  <2>2. CASE p \in DataPages
    <3>1. p - PAG_LOG_INIT_DATA + 1 \in 1..NUM_PAG_DATA
      BY <2>2, <1>3 DEF DataPages
    <3> QED BY <2>1, <2>2, <3>1 DEF ChildTable
  <2>3. CASE p \notin DataPages
    BY <2>1, <2>3 DEF ChildTable
  <2> QED BY <2>2, <2>3
<1>6. Mapped(pt, Q, phys_mem, pn, Masters, Masters \cup {c}, NUM_PAG_DATA, d, c,
             PAG_LOG_INIT_DATA)
  BY <1>1, <1>2, <1>3, <1>4, <1>5, ZenonT(40) DEF Mapped
<1>7. Owned(pt, phys_mem, Masters) BY DEF MemInv
<1> QED BY <1>6, <1>7, MapFresh DEF c

\* A new task_struct without stack region fits.
LEMMA BlankFits ==
  ASSUME NEW c \in Tasks
  PROVE  /\ Blank(c) \in TaskStruct /\ StackInPlace(Blank(c).stack)
         /\ Blank(c).master = c /\ Blank(c).dir = c
BY Layout DEF Blank, NewTask, NoStack, TaskStruct, StackInPlace

\* So does one with a region inside the address space.
LEMMA RegionFits ==
  ASSUME NEW c \in Tasks, NEW start \in Int, start >= THREAD_STACK_BASE_PAGE,
         start + THREAD_STACK_REGION_PAGES <= TOTAL_PAGES,
         NEW n \in Nat, n > 0, n <= THREAD_STACK_REGION_PAGES,
         NEW r, r = NewTask(c, c, Region(start, n))
  PROVE  r \in TaskStruct /\ StackInPlace(r.stack) /\ r.master = c /\ r.dir = c
<1>1. /\ start + THREAD_STACK_REGION_PAGES - n \in Int /\ THREAD_STACK_REGION_PAGES \in Int
      /\ start + THREAD_STACK_REGION_PAGES - n >= THREAD_STACK_BASE_PAGE
      /\ start + THREAD_STACK_REGION_PAGES - n + n <= TOTAL_PAGES
  BY Layout, MemoryConstants
<1>2. r \in TaskStruct /\ r.master = c /\ r.dir = c /\ r.stack = Region(start, n)
  BY <1>1 DEF NewTask, Region, TaskStruct
<1>3. StackInPlace(Region(start, n)) BY <1>1 DEF Region, StackInPlace
<1> QED BY <1>2, <1>3

\* fork whose frames run out during the copy of the stack.
LEMMA ForkNoStackInv ==
  ASSUME MemInv, NEW t \in Live, freequeue # <<>>, ForkNoStack(t)
  PROVE  MemInv'
<1> DEFINE c == Head(freequeue)  m == task[t].dir
<1>1. m \in Masters /\ m \in Tasks /\ c \in Tasks \ Live /\ c # m /\ c \notin Masters
  BY DirIsMaster DEF MemInv, Masters
<1>2. PICK d \in alloc_frame(phys_mem, NUM_PAG_DATA) : \E n :
        /\ phys_mem' = free_frame(phys_mem \cup {d[i] : i \in 1..NUM_PAG_DATA},
                                  {d[i] : i \in 1..NUM_PAG_DATA})
        /\ pt' = [pt EXCEPT ![m] = ParentTable(t),
                            ![c] = del_ss_pag(@, CopiedStackPage(t), n)]
  BY Zenon DEF ForkNoStack
<1>3. DOMAIN pt' = Tasks BY <1>2 DEF MemInv, Typed
<1>4. Typed' /\ Families' /\ StacksInPlace' /\ Masters' = Masters
  BY <1>3, RotateInv DEF ForkNoStack
<1>5. phys_mem \subseteq phys_mem'
  <2>1. NUM_PAG_DATA \in Nat BY MemoryConstants
  <2>2. \A i \in 1..NUM_PAG_DATA : d[i] \notin phys_mem BY <2>1, AllocFresh
  <2> QED BY <1>2, <2>2 DEF free_frame
<1>6. \A e \in Tasks \ {c} : \A p \in PrivatePages : pt'[e][p] = NONE \/ pt'[e][p] = pt[e][p]
  <2>1. \A p \in PrivatePages : ParentTable(t)[p] = NONE \/ ParentTable(t)[p] = pt[m][p]
    BY DEF ParentTable, del_ss_pag, get_PT, PrivatePages
  <2>2. pt'[m] = ParentTable(t) /\ \A e \in Tasks \ {c, m} : pt'[e] = pt[e]
    BY <1>1, <1>2 DEF MemInv, Typed
  <2> QED BY <2>1, <2>2
<1>7. \A p \in PrivatePages : pt'[c][p] = NONE \/ pt'[c][p] = pt[c][p]
  BY <1>1, <1>2 DEF MemInv, Typed, del_ss_pag, PrivatePages
<1> HIDE DEF c, m
<1>8. SoundChange(pt, pt', phys_mem, phys_mem', Masters, Masters, {})
  <2> SUFFICES ASSUME NEW e \in Tasks, NEW p \in PrivatePages, Claimed(pt', Masters, e, p)
               PROVE  /\ Claimed(pt, Masters, e, p) /\ pt'[e][p] = pt[e][p]
                      /\ pt[e][p] \in phys_mem'
    BY DEF SoundChange
  <2>1. pt'[e][p] = pt[e][p] BY <1>1, <1>6, <1>7 DEF Claimed
  <2>2. Claimed(pt, Masters, e, p) BY <2>1 DEF Claimed
  <2>3. pt[e][p] \in phys_mem' BY <2>2, <1>5 DEF MemInv, Owned
  <2> QED BY <2>1, <2>2, <2>3
<1>9. Owned(pt', phys_mem', Masters) BY <1>8, OwnedStep DEF MemInv
<1> QED BY <1>4, <1>9 DEF MemInv

\* fork that succeeds: the caller's stack is copied into new frames too.
LEMMA ForkWithStackInv ==
  ASSUME MemInv, NEW t \in Live, freequeue # <<>>, ForkWithStack(t)
  PROVE  MemInv'
<1> DEFINE c == Head(freequeue)  m == task[t].dir  n == task[t].stack.frames
           first == CopiedStackPage(t)
           r == NewTask(c, c, Region(THREAD_STACK_BASE_PAGE, n))
<1>1. m \in Masters /\ m \in Tasks /\ c \in Tasks \ Live /\ c # m /\ c \notin Masters
  BY DirIsMaster DEF MemInv, Masters
<1>2. /\ n \in Nat /\ n > 0 /\ n <= THREAD_STACK_REGION_PAGES /\ t \in Tasks
      /\ first \in Int /\ first = THREAD_STACK_BASE_PAGE + THREAD_STACK_REGION_PAGES - n
  <2>1. t \in Tasks /\ n \in Int BY DEF MemInv, Typed, TaskStruct, Live
  <2>2. n > 0 /\ n <= THREAD_STACK_REGION_PAGES
    BY Zenon DEF ForkWithStack, MemInv, StacksInPlace, StackInPlace
  <2>3. first = THREAD_STACK_BASE_PAGE + THREAD_STACK_REGION_PAGES - n BY DEF CopiedStackPage
  <2> HIDE DEF n, first
  <2> QED BY <2>1, <2>2, <2>3, TopOfRegion, Zenon
<1>3. PICK d \in alloc_frame(phys_mem, NUM_PAG_DATA) :
        \E s \in alloc_frame(phys_mem \cup {d[i] : i \in 1..NUM_PAG_DATA}, n) :
          /\ phys_mem' = (phys_mem \cup {d[i] : i \in 1..NUM_PAG_DATA})
                           \cup {s[i] : i \in 1..n}
          /\ pt' = [pt EXCEPT ![m] = del_ss_pag(ParentTable(t), FORK_TEMP_MAPPING_PAGE, n),
                              ![c] = set_ss_pag(ChildTable(t, c, d), first, s)]
  BY Zenon DEF ForkWithStack
<1> DEFINE used == phys_mem \cup {d[i] : i \in 1..NUM_PAG_DATA}
           Q == [pt EXCEPT ![m] = ParentTable(t), ![c] = ChildTable(t, c, d)]
<1>4. PICK s \in alloc_frame(used, n) :
          /\ phys_mem' = used \cup {s[i] : i \in 1..n}
          /\ pt' = [pt EXCEPT ![m] = del_ss_pag(ParentTable(t), FORK_TEMP_MAPPING_PAGE, n),
                              ![c] = set_ss_pag(ChildTable(t, c, d), first, s)]
  BY <1>3, Zenon
<1>5. Owned(Q, used, Masters \cup {c})
  BY ForkTables, Zenon
<1>6. /\ Q[m] = ParentTable(t) /\ Q[c] = ChildTable(t, c, d)
      /\ pt'[m] = del_ss_pag(ParentTable(t), FORK_TEMP_MAPPING_PAGE, n)
      /\ pt'[c] = set_ss_pag(ChildTable(t, c, d), first, s)
      /\ \A e \in Tasks \ {m, c} : Q[e] = pt[e] /\ pt'[e] = pt[e]
      /\ DOMAIN pt' = Tasks
  BY <1>1, <1>4 DEF MemInv, Typed
<1>7. r \in TaskStruct /\ StackInPlace(r.stack) /\ r.dir = c /\ r.master = c
  <2>1. /\ THREAD_STACK_BASE_PAGE \in Int
        /\ THREAD_STACK_BASE_PAGE + THREAD_STACK_REGION_PAGES <= TOTAL_PAGES
        /\ THREAD_STACK_BASE_PAGE >= THREAD_STACK_BASE_PAGE
    BY Layout, Sizes
  <2>2. c \in Tasks BY <1>1
  <2>3. r = NewTask(c, c, Region(THREAD_STACK_BASE_PAGE, n)) OBVIOUS
  <2>4. n \in Nat /\ n > 0 /\ n <= THREAD_STACK_REGION_PAGES BY <1>2
  <2> HIDE DEF c, n, r
  <2> QED BY <2>1, <2>2, <2>3, <2>4, RegionFits
<1>8. task' = [task EXCEPT ![c] = r] /\ freequeue' = Tail(freequeue)
  BY Zenon DEF ForkWithStack
<1> HIDE DEF c, m, n, first, r, used, Q
<1>9. Typed' /\ Families' /\ StacksInPlace' /\ Masters' = Masters \cup {c}
  BY <1>6, <1>7, <1>8, Joins, Zenon DEF MemInv, c
<1>10. Len(s) = n BY <1>2, AllocFresh
<1>11. Mapped(Q, pt', used, phys_mem', Masters \cup {c}, Masters \cup {c}, n, s, c, first)
  <2>1. \A p \in PrivatePages : pt'[m][p] = NONE \/ pt'[m][p] = Q[m][p]
    BY <1>6 DEF del_ss_pag, PrivatePages
  <2>2. \A p \in PrivatePages : \/ pt'[c][p] = Q[c][p]
                                \/ p - first + 1 \in 1..n /\ pt'[c][p] = s[p - first + 1]
    <3> SUFFICES ASSUME NEW p \in PrivatePages
                 PROVE  \/ pt'[c][p] = Q[c][p]
                        \/ p - first + 1 \in 1..n /\ pt'[c][p] = s[p - first + 1]
      OBVIOUS
    <3>1. p \in Pages BY DEF PrivatePages
    <3>2. pt'[c] = set_ss_pag(Q[c], first, s) BY <1>6
    <3>3. set_ss_pag(Q[c], first, s)[p] =
            IF p - first + 1 \in 1..Len(s) THEN s[p - first + 1] ELSE Q[c][p]
      BY <3>1, SetPage
    <3> QED BY <1>10, <3>2, <3>3, Zenon
  <2>3. ASSUME NEW e \in Tasks, NEW p \in PrivatePages
        PROVE  \/ pt'[e][p] = NONE \/ pt'[e][p] = Q[e][p]
               \/ e = c /\ p - first + 1 \in 1..n /\ pt'[e][p] = s[p - first + 1]
    <3>1. CASE e = m BY <3>1, <2>1, Zenon
    <3>2. CASE e = c BY <3>2, <2>2, Zenon
    <3>3. CASE e # m /\ e # c BY <3>3, <1>6, Zenon
    <3> QED BY <3>1, <3>2, <3>3, Zenon
  <2> QED BY <1>1, <1>2, <1>4, <2>3, ZenonT(40) DEF Mapped
<1>12. Owned(pt', phys_mem', Masters \cup {c}) BY <1>5, <1>11, MapFresh
<1> QED BY <1>9, <1>12 DEF MemInv

\* sys_create_thread.
LEMMA CreateThreadInv ==
  ASSUME MemInv, NEW t \in Live, sys_create_thread(t)
  PROVE  MemInv'
<1> DEFINE m == task[t].master  c == Head(freequeue)  n == THREAD_STACK_INITIAL_PAGES
<1>1. /\ m \in Masters /\ m \in Tasks /\ task[m].dir = m
      /\ freequeue # <<>> /\ c \in Tasks \ Live /\ c # m
  <2>1. m \in Masters /\ m \in Live /\ m \in Tasks /\ freequeue # <<>>
    BY DirIsMaster DEF MemInv, Masters, sys_create_thread
  <2>2. task[m].dir = m BY <2>1 DEF MemInv, Families, Masters, Master
  <2> QED BY <2>1, <2>2, DirIsMaster DEF MemInv
<1>2. CASE CreateThreadFails(m)
  <2>1. Typed' /\ Families' /\ StacksInPlace' /\ Masters' = Masters
    BY <1>1, <1>2, RotateInv, Zenon DEF CreateThreadFails, MemInv, Typed
  <2> QED BY <2>1, <1>2 DEF MemInv, CreateThreadFails
<1>3. CASE CreateThreadMaps(m)
  <2>1. PICK start \in find_free_stack_region(m), s \in alloc_frame(phys_mem, n) :
          LET first == start + THREAD_STACK_REGION_PAGES - n IN
          /\ phys_mem' = phys_mem \cup {s[i] : i \in 1..n}
          /\ pt' = [pt EXCEPT ![task[m].dir] =
                      del_ss_pag(set_ss_pag(pt[task[m].dir], first, s),
                                 TEMP_STACK_MAPPING_PAGE, n)]
          /\ task' = [task EXCEPT ![c] = NewTask(m, task[m].dir, Region(start, n))]
    BY <1>3, Zenon DEF CreateThreadMaps
  <2> DEFINE first == start + THREAD_STACK_REGION_PAGES - n
             r == NewTask(m, m, Region(start, n))
  <2>2. /\ start \in Int /\ start >= THREAD_STACK_BASE_PAGE
        /\ start + THREAD_STACK_REGION_PAGES <= TOTAL_PAGES
        /\ n \in Nat /\ n > 0 /\ n <= THREAD_STACK_REGION_PAGES /\ first \in Int
        /\ first >= THREAD_STACK_BASE_PAGE /\ first + n <= TOTAL_PAGES
    <3>1. start \in FreeRegions(m) BY <2>1 DEF find_free_stack_region
    <3>2. start \in THREAD_STACK_BASE_PAGE..(TOTAL_PAGES - THREAD_STACK_REGION_PAGES)
      BY <3>1, Zenon DEF FreeRegions
    <3>3. THREAD_STACK_BASE_PAGE \in Int BY Layout
    <3> QED BY <3>2, <3>3, Sizes
  <2>3. /\ phys_mem' = phys_mem \cup {s[i] : i \in 1..n}
        /\ pt' = [pt EXCEPT ![m] = del_ss_pag(set_ss_pag(pt[m], first, s),
                                              TEMP_STACK_MAPPING_PAGE, n)]
        /\ task' = [task EXCEPT ![c] = r] /\ freequeue' = Tail(freequeue)
    BY <1>1, <1>3, <2>1, Zenon DEF CreateThreadMaps
  <2> HIDE DEF m, c, n, first
  <2>4. r \in TaskStruct /\ r.dir = m /\ r.master = m /\ StackInPlace(r.stack)
    <3>1. r = NewTask(m, m, Region(start, n)) OBVIOUS
    <3>2. m \in Tasks BY <1>1
    <3>3. /\ start \in Int /\ start >= THREAD_STACK_BASE_PAGE
          /\ start + THREAD_STACK_REGION_PAGES <= TOTAL_PAGES
          /\ n \in Nat /\ n > 0 /\ n <= THREAD_STACK_REGION_PAGES
      BY <2>2
    <3> HIDE DEF r
    <3> QED BY <3>1, <3>2, <3>3, RegionFits
  <2> HIDE DEF r
  <2>7. DOMAIN pt' = Tasks BY <2>3, Zenon DEF MemInv, Typed
  <2>8. Typed' /\ Families' /\ StacksInPlace' /\ Masters' = Masters
    BY <1>1, <2>3, <2>4, <2>7, Joins, Zenon DEF MemInv, c
  <2>9. Mapped(pt, pt', phys_mem, phys_mem', Masters, Masters, n, s, m, first)
    <3>1. Len(s) = n BY <2>2, AllocFresh
    <3>2. /\ pt'[m] = del_ss_pag(set_ss_pag(pt[m], first, s), TEMP_STACK_MAPPING_PAGE, n)
          /\ \A e \in Tasks \ {m} : pt'[e] = pt[e]
      BY <1>1, <2>3 DEF MemInv, Typed
    <3>3. \A p \in PrivatePages : \/ pt'[m][p] = NONE \/ pt'[m][p] = pt[m][p]
                                  \/ p - first + 1 \in 1..n /\ pt'[m][p] = s[p - first + 1]
      BY <3>1, <3>2 DEF del_ss_pag, set_ss_pag, PrivatePages
    <3> QED BY <1>1, <2>2, <2>3, <3>2, <3>3, Zenon DEF Mapped
  <2> QED BY <2>8, <2>9, MapsInv, Zenon
<1> QED BY <1>2, <1>3 DEF sys_create_thread

\* A stack lies on private pages.
LEMMA StackPagesPrivate ==
  ASSUME MemInv, NEW t \in Live
  PROVE  StackPages(t) \subseteq PrivatePages
<1>1. t \in Tasks BY DEF Live
<1>2. task[t].stack.ptr \in Int /\ task[t].stack.frames \in Int
  BY <1>1 DEF MemInv, Typed, TaskStruct
<1>3. StackInPlace(task[t].stack) BY DEF MemInv, StacksInPlace
<1>4. \A p \in StackPages(t) : p \in Pages /\ p >= THREAD_STACK_BASE_PAGE
  BY <1>2, <1>3, Layout, MemoryConstants DEF StackInPlace, StackPages, Pages
<1> QED BY <1>4, Layout

\* sys_exit_thread.
LEMMA ExitThreadInv ==
  ASSUME MemInv, NEW t \in Live, sys_exit_thread(t)
  PROVE  MemInv'
<1> DEFINE m == task[t].dir
<1>1. m \in Masters /\ m \in Tasks /\ t \in Tasks /\ t \notin Masters
  BY DirIsMaster, Zenon DEF MemInv, Masters, sys_exit_thread
<1>2. DOMAIN pt = Tasks BY DEF MemInv, Typed
<1>3. /\ pt' = [pt EXCEPT ![m] = Released(pt[m], StackPages(t))]
      /\ phys_mem' = free_frame(phys_mem, FramesOn(pt[m], StackPages(t)))
  BY <1>1, <1>2 DEF sys_exit_thread, get_PT
<1>4. t \notin Ran(freequeue) BY DEF Live, Free, Ran
<1>5. /\ freequeue' \in Seq(Tasks) /\ NoRepeat(freequeue')
      /\ Ran(freequeue') = Ran(freequeue) \cup {t}
  BY <1>1, <1>4, QueueAppend, Zenon DEF sys_exit_thread, MemInv, Typed, Families, NoRepeat
<1>6. \A u \in Live \ {t} : task[u].master # t
  BY <1>1 DEF MemInv, Families, Masters, Master
<1>7. /\ task' \in [Tasks -> TaskStruct] /\ \A u \in Tasks \ {t} : task'[u] = task[u]
      /\ DOMAIN pt' = Tasks
  BY <1>1, <1>2, <1>3, BlankFits, Zenon DEF sys_exit_thread, MemInv, Typed
<1>8. Leaving({t}) BY <1>5, <1>6, <1>7 DEF Leaving
<1>9. Typed' /\ Families' /\ StacksInPlace' /\ Masters' = Masters
  BY <1>1, <1>8, Leaves DEF MemInv
<1> HIDE DEF m
<1>10. Owned(pt', phys_mem', Masters)
  BY <1>1, <1>2, <1>3, StackPagesPrivate, Release, Zenon DEF MemInv
<1> QED BY <1>9, <1>10 DEF MemInv

\* What an exit frees lies on private pages.
LEMMA ExitPagesPrivate ==
  ASSUME MemInv, NEW t \in Live
  PROVE  ExitPages(t) \subseteq PrivatePages
<1>1. \A u \in Threads(t) : StackPages(u) \subseteq PrivatePages
  BY StackPagesPrivate DEF Threads
<1>2. KBD_AUX_STACK_PAGE \in PrivatePages /\ DataPages \subseteq PrivatePages
  BY Layout
<1>3. (UNION {StackPages(u) : u \in Threads(t)}) \subseteq PrivatePages BY <1>1
<1>4. (IF task[t].aux THEN {KBD_AUX_STACK_PAGE} ELSE {}) \subseteq PrivatePages BY <1>2
<1> QED BY <1>2, <1>3, <1>4 DEF ExitPages

\* The process joins the free queue.
LEMMA ExitQueue ==
  ASSUME MemInv, NEW t \in Live, ExitEffect(t)
  PROVE  LET G == Threads(t) \cup {t} IN
         /\ freequeue' \in Seq(Tasks) /\ NoRepeat(freequeue')
         /\ Ran(freequeue') = Ran(freequeue) \cup G /\ Live' = Live \ G
<1> DEFINE G == Threads(t) \cup {t}
<1>0. t \in Tasks BY DEF Live
<1>1. PICK q \in Orders(Threads(t)) : freequeue' = freequeue \o q \o <<t>>
  BY Zenon DEF ExitEffect
<1>2. Threads(t) \subseteq Tasks /\ t \notin Threads(t) BY DEF Threads, Live
<1>3. /\ q \in Seq(Tasks) /\ NoRepeat(q) /\ Ran(q) = Threads(t)
  <2>1. PICK n \in 0..NR_TASKS : q \in [1..n -> Threads(t)] BY DEF Orders
  <2>2. /\ \A i, j \in DOMAIN q : q[i] = q[j] => i = j
        /\ \A u \in Threads(t) : \E i \in DOMAIN q : q[i] = u
    BY DEF Orders
  <2>3. n \in Nat BY Sizes
  <2>4. q \in Seq(Tasks) /\ Len(q) = n /\ DOMAIN q = 1..n BY <1>2, <2>1, <2>3
  <2> QED BY <2>1, <2>2, <2>4 DEF NoRepeat, Ran
<1>4. freequeue \in Seq(Tasks) /\ NoRepeat(freequeue)
  BY DEF MemInv, Typed, Families, NoRepeat
<1>5. /\ Ran(freequeue) \cap Threads(t) = {} /\ t \notin Ran(freequeue)
  BY DEF Threads, Live, Free, Ran
<1>6. /\ freequeue \o q \in Seq(Tasks) /\ NoRepeat(freequeue \o q)
      /\ Ran(freequeue \o q) = Ran(freequeue) \cup Threads(t)
  BY <1>3, <1>4, <1>5, QueueConcat
<1>7. freequeue' = Append(freequeue \o q, t)
  BY <1>0, <1>1, <1>3, <1>4, <1>6
<1>8. t \in Tasks \ Ran(freequeue \o q) BY <1>0, <1>2, <1>5, <1>6
<1>9. /\ freequeue' \in Seq(Tasks) /\ NoRepeat(freequeue')
      /\ Ran(freequeue') = Ran(freequeue) \cup G
  BY <1>6, <1>7, <1>8, QueueAppend, Zenon
<1>10. Free = Ran(freequeue) /\ Free' = Ran(freequeue') BY Zenon DEF Free, Ran
<1> QED BY <1>9, <1>10 DEF Live

\* The whole process of a master leaves: sys_exit, and a fatal page fault.
LEMMA ExitInv ==
  ASSUME MemInv, NEW t \in Live, Master(t), ExitEffect(t)
  PROVE  MemInv'
<1> DEFINE G == Threads(t) \cup {t}
<1>1. t \in Masters /\ t \in Tasks /\ task[t].dir = t
  BY DirIsMaster DEF MemInv, Masters, Master
<1>2. DOMAIN pt = Tasks BY DEF MemInv, Typed
<1>3. /\ pt' = [pt EXCEPT ![t] = Released(pt[t], ExitPages(t))] /\ DOMAIN pt' = Tasks
      /\ phys_mem' = free_frame(phys_mem, FramesOn(pt[t], ExitPages(t)))
  BY <1>1, <1>2, Zenon DEF ExitEffect, get_PT
<1>4. ExitPages(t) \subseteq PrivatePages BY ExitPagesPrivate
<1>5. /\ freequeue' \in Seq(Tasks) /\ NoRepeat(freequeue')
      /\ Ran(freequeue') = Ran(freequeue) \cup G /\ Live' = Live \ G
  BY ExitQueue
<1>6. \A u \in Live \ G : task[u].master \notin G
  BY <1>1 DEF MemInv, Families, Threads, Master
<1>7. task' \in [Tasks -> TaskStruct] /\ \A u \in Tasks \ G : task'[u] = task[u]
  BY BlankFits, Zenon DEF ExitEffect, MemInv, Typed
<1>8. Leaving(G)
  BY <1>3, <1>5, <1>6, <1>7, Zenon DEF Leaving, Threads
<1>9. Typed' /\ Families' /\ StacksInPlace' /\ Masters' = Masters \ G
  BY <1>8, Leaves DEF MemInv
<1>10. Owned(pt', phys_mem', Masters \ G)
  <2>1. Owned(pt, phys_mem, Masters) /\ Masters \ G \subseteq Masters BY DEF MemInv
  <2> QED BY <1>1, <1>2, <1>3, <1>4, <2>1, Release, Zenon
<1> QED BY <1>9, <1>10 DEF MemInv

\* A new frame is mapped on one page of table m.
MapsPage(m, page, s) ==
  /\ s \in alloc_frame(phys_mem, 1) /\ phys_mem' = phys_mem \cup {s[1]}
  /\ pt' = [pt EXCEPT ![m] = set_ss_pag(@, page, s)]

\* Then one entry changes.
LEMMA OnePageTable ==
  ASSUME NEW m \in Tasks, NEW page \in Pages, NEW s, MapsPage(m, page, s), DOMAIN pt = Tasks
  PROVE  /\ DOMAIN pt' = Tasks /\ s[1] # NONE
         /\ \A d \in Tasks : \A p \in Pages :
              pt'[d][p] = IF d = m /\ p = page THEN s[1] ELSE pt[d][p]
<1>1. /\ pt'[m] = set_ss_pag(pt[m], page, s) /\ \A e \in Tasks \ {m} : pt'[e] = pt[e]
      /\ DOMAIN pt' = Tasks
  BY DEF MapsPage
<1>2. s[1] # NONE /\ Len(s) = 1 BY OneFrame, Zenon DEF MapsPage
<1>3. ASSUME NEW p \in Pages
      PROVE  /\ p = page => set_ss_pag(pt[m], page, s)[p] = s[1]
             /\ p # page => set_ss_pag(pt[m], page, s)[p] = pt[m][p]
  <2>1. set_ss_pag(pt[m], page, s)[p] =
          IF p - page + 1 \in 1..Len(s) THEN s[p - page + 1] ELSE pt[m][p]
    BY DEF set_ss_pag
  <2>2. p \in Int /\ page \in Int BY PagesAreInt
  <2>3. p - page + 1 \in 1..1 <=> p = page BY <2>2
  <2>4. p = page => p - page + 1 = 1 BY <2>2
  <2> QED BY <1>2, <2>1, <2>3, <2>4
<1>4. ASSUME NEW d \in Tasks, NEW p \in Pages
      PROVE  pt'[d][p] = IF d = m /\ p = page THEN s[1] ELSE pt[d][p]
  BY <1>1, <1>3
<1> QED BY <1>1, <1>2, <1>4

\* The family and the frames stay in order if the task_structs keep their families.
LEMMA OnePageInv ==
  ASSUME MemInv, NEW t \in Live, NEW page \in Pages, NEW s, MapsPage(task[t].dir, page, s),
         freequeue' = freequeue, task' \in [Tasks -> TaskStruct],
         \A u \in Live : /\ task'[u].master = task[u].master /\ task'[u].dir = task[u].dir
                         /\ StackInPlace(task'[u].stack)
  PROVE  MemInv'
<1>1. PICK m \in Tasks : m = task[t].dir BY DirIsMaster DEF MemInv
<1>2. /\ DOMAIN pt' = Tasks
      /\ \A d \in Tasks : \A p \in Pages :
           pt'[d][p] = IF d = m /\ p = page THEN s[1] ELSE pt[d][p]
  BY <1>1, OnePageTable DEF MemInv, Typed
<1>3. Typed' /\ Families' /\ StacksInPlace' /\ Masters' = Masters
  BY <1>2, Stays, Zenon DEF MemInv
<1>4. 1..1 = {1} /\ 1 \in 1..1 /\ 1 \in Nat OBVIOUS
<1>5. page \in Int /\ page - page + 1 = 1 BY PagesAreInt
<1>6. ASSUME NEW d \in Tasks, NEW p \in PrivatePages
      PROVE  \/ pt'[d][p] = pt[d][p]
             \/ d = m /\ p - page + 1 \in 1..1 /\ pt'[d][p] = s[p - page + 1]
  <2>1. p \in Pages BY DEF PrivatePages
  <2>2. CASE d = m /\ p = page
    <3>1. pt'[d][p] = s[1] BY <1>2, <2>1, <2>2
    <3>2. p - page + 1 = 1 BY <1>5, <2>2
    <3> QED BY <1>4, <2>2, <3>1, <3>2, Zenon
  <2>3. CASE ~(d = m /\ p = page) BY <1>2, <2>1, <2>3
  <2> QED BY <2>2, <2>3
<1>7. s \in alloc_frame(phys_mem, 1) /\ phys_mem' = phys_mem \cup {s[i] : i \in 1..1}
  <2>1. {s[i] : i \in {1}} = {s[1]} OBVIOUS
  <2> QED BY <1>4, <2>1, Zenon DEF MapsPage
<1>8. Mapped(pt, pt', phys_mem, phys_mem', Masters, Masters, 1, s, m, page)
  BY <1>4, <1>5, <1>6, <1>7, Zenon DEF Mapped
<1> QED BY <1>3, <1>8, MapsInv, Zenon

\* grow_user_stack.
LEMMA GrowInv ==
  ASSUME MemInv, NEW t \in Live, NEW page \in Pages, grow_user_stack(t, page)
  PROVE  MemInv'
<1> DEFINE r == task[t].stack
<1>1. /\ t \in Tasks /\ task \in [Tasks -> TaskStruct] /\ page \in Int
      /\ r \in [start : Int, pages : Int, ptr : Int, frames : Int] /\ StackInPlace(r)
  BY MemoryConstants DEF MemInv, Typed, TaskStruct, Live, StacksInPlace, Pages
<1>2. /\ r.pages # 0 /\ page >= r.start /\ r.frames < r.pages /\ page = r.ptr - 1
  BY <1>1 DEF grow_user_stack, CanGrow
<1>3. r.pages = THREAD_STACK_REGION_PAGES /\ r.start >= THREAD_STACK_BASE_PAGE /\ r.frames > 0
  BY <1>1, <1>2, Zenon DEF StackInPlace
<1>4. task' = [task EXCEPT ![t].stack.ptr = page, ![t].stack.frames = @ + 1]
      /\ freequeue' = freequeue
  BY DEF grow_user_stack
<1>5. /\ task'[t].master = task[t].master /\ task'[t].dir = task[t].dir
      /\ task'[t].stack.ptr = page /\ task'[t].stack.frames = r.frames + 1
      /\ task'[t].stack.start = r.start /\ task'[t].stack.pages = r.pages
      /\ task' \in [Tasks -> TaskStruct] /\ \A u \in Live \ {t} : task'[u] = task[u]
  BY <1>1, <1>4 DEF TaskStruct, Live
<1>6. StackInPlace(task'[t].stack)
  <2>1. /\ r.ptr + r.frames <= TOTAL_PAGES /\ r.ptr \in Int /\ r.frames \in Int /\ r.start \in Int
    BY <1>1, <1>3, Zenon DEF StackInPlace
  <2>2. page >= THREAD_STACK_BASE_PAGE /\ page + (r.frames + 1) <= TOTAL_PAGES
        /\ r.frames + 1 <= THREAD_STACK_REGION_PAGES /\ r.frames + 1 > 0 /\ r.pages # 0
    <3>1. THREAD_STACK_BASE_PAGE \in Int BY Layout
    <3>2. page \in Int BY <1>1
    <3> HIDE DEF r
    <3> QED BY <1>2, <1>3, <2>1, <3>1, <3>2, Sizes
  <2> DEFINE q == task'[t].stack
  <2>3. /\ q.pages = THREAD_STACK_REGION_PAGES /\ q.start >= THREAD_STACK_BASE_PAGE
        /\ q.ptr = page /\ q.frames = r.frames + 1
    BY <1>3, <1>5, Zenon
  <2> HIDE DEF q, r
  <2>4. r.frames + 1 >= 0 BY <2>1, <2>2
  <2>5. StackInPlace(q) BY <2>2, <2>3, <2>4, Zenon DEF StackInPlace
  <2> QED BY <2>5 DEF q
<1>7. \A u \in Live : /\ task'[u].master = task[u].master /\ task'[u].dir = task[u].dir
                      /\ StackInPlace(task'[u].stack)
  BY <1>5, <1>6 DEF MemInv, StacksInPlace
<1>8. PICK s : MapsPage(task[t].dir, page, s) BY Zenon DEF grow_user_stack, MapsPage
<1> QED BY <1>4, <1>5, <1>7, <1>8, OnePageInv, Zenon

\* sys_keyboard_event.
LEMMA KeyboardInv ==
  ASSUME MemInv, NEW t \in Live, KeyboardOn(t) \/ KeyboardOff(t)
  PROVE  MemInv'
<1> DEFINE m == task[t].dir
<1>1. /\ t \in Tasks /\ task \in [Tasks -> TaskStruct] /\ DOMAIN pt = Tasks
      /\ m \in Masters /\ m \in Tasks
  BY DirIsMaster, Zenon DEF MemInv, Typed
<1>2. freequeue' = freequeue /\ \E b \in BOOLEAN : task' = [task EXCEPT ![t].aux = b]
  BY Zenon DEF KeyboardOn, KeyboardOff
<1>3. /\ task' \in [Tasks -> TaskStruct]
      /\ \A u \in Live : /\ task'[u].master = task[u].master /\ task'[u].dir = task[u].dir
                         /\ StackInPlace(task'[u].stack)
  <2>1. PICK b \in BOOLEAN : task' = [task EXCEPT ![t].aux = b] BY <1>2, Zenon
  <2>2. task' \in [Tasks -> TaskStruct] BY <1>1, <2>1 DEF TaskStruct
  <2>3. \A u \in Live : /\ task'[u].master = task[u].master /\ task'[u].dir = task[u].dir
                        /\ task'[u].stack = task[u].stack
    BY <1>1, <2>1 DEF Live
  <2> QED BY <2>2, <2>3 DEF MemInv, StacksInPlace
<1>4. CASE KeyboardOn(t)
  <2>1. PICK s : MapsPage(m, KBD_AUX_STACK_PAGE, s) BY <1>4, Zenon DEF KeyboardOn, MapsPage
  <2> QED BY <1>2, <1>3, <2>1, OnePageInv, Layout, Zenon
<1>5. CASE KeyboardOff(t)
  <2> DEFINE R == {KBD_AUX_STACK_PAGE}
  <2>1. R \subseteq PrivatePages /\ KBD_AUX_STACK_PAGE \in Int
    BY Layout, MemoryConstants DEF Pages
  <2>2. del_ss_pag(pt[m], KBD_AUX_STACK_PAGE, 1) = Released(pt[m], R)
    BY <2>1, MemoryConstants DEF del_ss_pag, Released, Pages
  <2>3. /\ pt' = [pt EXCEPT ![m] = Released(pt[m], R)] /\ DOMAIN pt' = Tasks
        /\ phys_mem' = free_frame(phys_mem, FramesOn(pt[m], R))
    <3>1. /\ pt' = [pt EXCEPT ![m] = del_ss_pag(pt[m], KBD_AUX_STACK_PAGE, 1)]
          /\ phys_mem' = free_frame(phys_mem, {get_frame(pt[m], KBD_AUX_STACK_PAGE)})
      BY <1>1, <1>5 DEF KeyboardOff, get_PT
    <3>2. FramesOn(pt[m], R) = {get_frame(pt[m], KBD_AUX_STACK_PAGE)} BY DEF FramesOn
    <3> HIDE DEF m, R
    <3> QED BY <1>1, <2>2, <3>1, <3>2, Zenon
  <2>4. Typed' /\ Families' /\ StacksInPlace' /\ Masters' = Masters
    BY <1>2, <1>3, <2>3, Stays DEF MemInv
  <2> HIDE DEF m, R
  <2>5. Owned(pt', phys_mem', Masters)
    BY <1>1, <2>1, <2>3, Release, Zenon DEF MemInv
  <2> QED BY <2>4, <2>5 DEF MemInv
<1> QED BY <1>4, <1>5

\* At the start only init is alive.
LEMMA InitLive ==
  ASSUME freequeue = [i \in 1..(NR_TASKS - 1) |-> i + 1]
  PROVE  /\ Live = {1} /\ freequeue \in Seq(Tasks) /\ Len(freequeue) = NR_TASKS - 1
         /\ \A i \in 1..(NR_TASKS - 1) : freequeue[i] = i + 1
<1>0. NR_TASKS \in Nat /\ NR_TASKS - 1 \in Nat BY Sizes
<1>1. /\ freequeue \in Seq(Tasks) /\ Len(freequeue) = NR_TASKS - 1
      /\ \A i \in 1..(NR_TASKS - 1) : freequeue[i] = i + 1
  <2>1. freequeue \in [1..(NR_TASKS - 1) -> Tasks] BY <1>0 DEF Tasks
  <2> QED BY <1>0, <2>1
<1>2. Free = {freequeue[i] : i \in 1..(NR_TASKS - 1)} BY <1>1, Zenon DEF Free
<1>3. Free \subseteq 2..NR_TASKS BY <1>0, <1>1, <1>2
<1>4. ASSUME NEW t \in 2..NR_TASKS PROVE t \in Free
  <2>1. t - 1 \in 1..(NR_TASKS - 1) /\ freequeue[t - 1] = t BY <1>0, <1>1
  <2> QED BY <1>2, <2>1
<1>5. Free = 2..NR_TASKS BY <1>3, <1>4, Zenon
<1>6. Live = {1} BY <1>0, <1>5 DEF Live, Tasks
<1> QED BY <1>1, <1>6, Zenon

\* The page of init's stack.
FirstStackPage ==
  THREAD_STACK_BASE_PAGE + THREAD_STACK_REGION_PAGES - THREAD_STACK_INITIAL_PAGES

\* The page tables that init_task1 leaves.
InitTablesWith(s) ==
  pt = [t \in Tasks |->
         IF t = 1 THEN set_ss_pag(set_user_pages(s), FirstStackPage,
                                  <<s[NUM_PAG_CODE + NUM_PAG_DATA + 1]>>)
                  ELSE init_table_pages]

\* It is a page of the first region.
LEMMA FirstStack ==
  /\ FirstStackPage \in Pages /\ FirstStackPage \in PrivatePages \ DataPages
  /\ FirstStackPage >= THREAD_STACK_BASE_PAGE /\ FirstStackPage \in Int
  /\ FirstStackPage = THREAD_STACK_BASE_PAGE + THREAD_STACK_REGION_PAGES - 1
<1>1. /\ FirstStackPage = THREAD_STACK_BASE_PAGE + THREAD_STACK_REGION_PAGES - 1
      /\ FirstStackPage \in Int /\ FirstStackPage >= THREAD_STACK_BASE_PAGE
  BY Layout, Sizes, MemoryConstants DEF FirstStackPage
<1>2. FirstStackPage \in Pages BY <1>1, Layout, Sizes DEF Pages
<1> QED BY <1>1, <1>2, Layout

\* set_user_pages maps the first frames on the code of init and the next on its data;
\* init_task1 maps the last on its stack.
LEMMA InitTables ==
  ASSUME NEW s \in alloc_frame(KernelPages, NUM_PAG_CODE + NUM_PAG_DATA + 1), InitTablesWith(s)
  PROVE  /\ \A d \in Tasks \ {1} : \A p \in PrivatePages : pt[d][p] = NONE
         /\ pt[1][FirstStackPage] = s[NUM_PAG_CODE + NUM_PAG_DATA + 1]
         /\ \A p \in PrivatePages \ DataPages : p # FirstStackPage => pt[1][p] = NONE
         /\ \A p \in DataPages : /\ p - PAG_LOG_INIT_DATA + 1 \in 1..NUM_PAG_DATA
                                 /\ pt[1][p] = s[NUM_PAG_CODE + (p - PAG_LOG_INIT_DATA + 1)]
         /\ \A p \in CodePages : /\ p - PAG_LOG_INIT_CODE + 1 \in 1..NUM_PAG_CODE
                                 /\ pt[1][p] = s[p - PAG_LOG_INIT_CODE + 1]
<1> DEFINE C == NUM_PAG_CODE  D == NUM_PAG_DATA  F == FirstStackPage
           X == SubSeq(s, 1, C)  Y == SubSeq(s, C + 1, C + D)  Z == <<s[C + D + 1]>>
           T == set_ss_pag(init_table_pages, PAG_LOG_INIT_CODE, X)
           U == set_ss_pag(T, PAG_LOG_INIT_DATA, Y)
<1>1. /\ C \in Nat /\ D \in Nat /\ C + D + 1 \in Nat /\ 1 \in Tasks
      /\ PAG_LOG_INIT_DATA \in Int /\ PAG_LOG_INIT_CODE \in Int
      /\ PAG_LOG_INIT_CODE = PAG_LOG_INIT_DATA + D
  BY Sizes DEF Tasks, PAG_LOG_INIT_DATA, PAG_LOG_INIT_CODE
<1>2. s \in Seq(Int) /\ Len(s) = C + D + 1 BY <1>1, AllocFresh
<1>3. Len(X) = C /\ \A i \in 1..C : X[i] = s[i] BY <1>1, <1>2
<1>4. Len(Y) = D /\ \A i \in 1..D : Y[i] = s[C + i] BY <1>1, <1>2
<1>5. pt[1] = set_ss_pag(U, F, Z) /\ \A d \in Tasks \ {1} : pt[d] = init_table_pages
  BY <1>1 DEF InitTablesWith, set_user_pages
<1>6. \A p \in PrivatePages : p \in Pages /\ p \in Int /\ init_table_pages[p] = NONE
  BY PagesAreInt DEF PrivatePages, init_table_pages
<1>7. \A p \in Pages : p \in DataPages <=> p - PAG_LOG_INIT_DATA + 1 \in 1..D
  BY <1>1, PagesAreInt DEF DataPages
<1>8. \A p \in Pages : p \in CodePages <=> p - PAG_LOG_INIT_CODE + 1 \in 1..C
  BY <1>1, PagesAreInt DEF CodePages
<1>a. Len(Z) = 1 /\ Z[1] = s[C + D + 1] OBVIOUS
<1>b. ASSUME NEW p \in Pages
      PROVE  (p = F => pt[1][p] = s[C + D + 1]) /\ (p # F => pt[1][p] = U[p])
  <2> HIDE DEF X, Y, Z, T, U, F
  <2>1. pt[1][p] = IF p - F + 1 \in 1..Len(Z) THEN Z[p - F + 1] ELSE U[p] BY <1>5, SetPage
  <2>2. p \in Int /\ F \in Int BY PagesAreInt, FirstStack DEF F
  <2>3. (p - F + 1 \in 1..1 <=> p = F) /\ (p = F => p - F + 1 = 1) BY <2>2
  <2> QED BY <1>a, <2>1, <2>3
<1>9. ASSUME NEW p \in Pages
      PROVE  /\ p \in DataPages => U[p] = Y[p - PAG_LOG_INIT_DATA + 1]
             /\ p \notin DataPages /\ p \in CodePages => U[p] = X[p - PAG_LOG_INIT_CODE + 1]
             /\ p \notin DataPages /\ p \notin CodePages => U[p] = init_table_pages[p]
  <2> HIDE DEF X, Y, T
  <2>1. U[p] = IF p - PAG_LOG_INIT_DATA + 1 \in 1..D
               THEN Y[p - PAG_LOG_INIT_DATA + 1] ELSE T[p]
    BY <1>4, SetPage
  <2>2. T[p] = IF p - PAG_LOG_INIT_CODE + 1 \in 1..C
               THEN X[p - PAG_LOG_INIT_CODE + 1] ELSE init_table_pages[p]
    BY <1>3, SetPage DEF T
  <2>3. /\ p \in DataPages <=> p - PAG_LOG_INIT_DATA + 1 \in 1..D
        /\ p \in CodePages <=> p - PAG_LOG_INIT_CODE + 1 \in 1..C
    BY <1>7, <1>8
  <2> QED BY <2>1, <2>2, <2>3
<1>10. /\ \A p \in DataPages : p \in Pages /\ p \notin CodePages /\ p # F
       /\ \A p \in CodePages : p \in Pages /\ p \notin DataPages /\ p # F
  <2>1. DataPages \subseteq Pages BY Layout DEF PrivatePages
  <2>2. CodePages \subseteq Pages
    BY Sizes, Layout DEF CodePages, Pages, THREAD_STACK_BASE_PAGE, PAG_LOG_INIT_CODE,
       PAG_LOG_INIT_DATA
  <2>3. F \notin DataPages /\ F \notin CodePages BY FirstStack DEF PrivatePages
  <2> QED BY <1>1, <2>1, <2>2, <2>3 DEF DataPages, CodePages
<1> HIDE DEF X, Y, Z, T, U
<1>11. ASSUME NEW p \in DataPages
       PROVE  p - PAG_LOG_INIT_DATA + 1 \in 1..D /\ pt[1][p] = s[C + (p - PAG_LOG_INIT_DATA + 1)]
  <2>1. p \in Pages /\ p - PAG_LOG_INIT_DATA + 1 \in 1..D BY <1>7, <1>10
  <2>2. pt[1][p] = Y[p - PAG_LOG_INIT_DATA + 1] BY <1>9, <1>10, <1>b, <2>1
  <2> QED BY <1>4, <2>1, <2>2, Zenon
<1>12. ASSUME NEW p \in CodePages
       PROVE  p - PAG_LOG_INIT_CODE + 1 \in 1..C /\ pt[1][p] = s[p - PAG_LOG_INIT_CODE + 1]
  <2>1. p \in Pages /\ p \notin DataPages /\ p - PAG_LOG_INIT_CODE + 1 \in 1..C BY <1>8, <1>10
  <2>2. pt[1][p] = X[p - PAG_LOG_INIT_CODE + 1] BY <1>9, <1>10, <1>b, <2>1
  <2> QED BY <1>3, <2>1, <2>2, Zenon
<1>13. \A p \in PrivatePages \ DataPages : p # F => pt[1][p] = NONE
  BY <1>6, <1>9, <1>b DEF PrivatePages
<1>14. pt[1][F] = s[C + D + 1] BY <1>b, FirstStack, Zenon
<1> QED BY <1>5, <1>6, <1>11, <1>12, <1>13, <1>14, Zenon

\* The task_struct of init, with its stack.
LEMMA InitTask ==
  ASSUME task = [t \in Tasks |->
                  IF t = 1 THEN NewTask(1, 1, Region(THREAD_STACK_BASE_PAGE,
                                                     THREAD_STACK_INITIAL_PAGES))
                           ELSE Blank(t)]
  PROVE  /\ 1 \in Tasks /\ task \in [Tasks -> TaskStruct] /\ StackInPlace(task[1].stack)
         /\ task[1].master = 1 /\ task[1].dir = 1 /\ task[1].aux = FALSE
         /\ task[1].stack = Region(THREAD_STACK_BASE_PAGE, THREAD_STACK_INITIAL_PAGES)
<1>1. 1 \in Tasks BY Sizes DEF Tasks
<1> DEFINE r == NewTask(1, 1, Region(THREAD_STACK_BASE_PAGE, THREAD_STACK_INITIAL_PAGES))
<1>2. /\ THREAD_STACK_BASE_PAGE \in Int /\ THREAD_STACK_BASE_PAGE >= THREAD_STACK_BASE_PAGE
      /\ THREAD_STACK_BASE_PAGE + THREAD_STACK_REGION_PAGES <= TOTAL_PAGES
      /\ THREAD_STACK_INITIAL_PAGES \in Nat /\ THREAD_STACK_INITIAL_PAGES > 0
      /\ THREAD_STACK_INITIAL_PAGES <= THREAD_STACK_REGION_PAGES
  BY Layout, Sizes
<1>3. /\ r.aux = FALSE
      /\ r.stack = Region(THREAD_STACK_BASE_PAGE, THREAD_STACK_INITIAL_PAGES)
  BY DEF NewTask
<1>4. r = NewTask(1, 1, Region(THREAD_STACK_BASE_PAGE, THREAD_STACK_INITIAL_PAGES)) OBVIOUS
<1> HIDE DEF r
<1>5. r \in TaskStruct /\ StackInPlace(r.stack) /\ r.master = 1 /\ r.dir = 1
  BY <1>1, <1>2, <1>4, RegionFits
<1>6. task = [t \in Tasks |-> IF t = 1 THEN r ELSE Blank(t)] BY <1>4, Zenon
<1>7. task[1] = r BY <1>1, <1>6
<1>8. task \in [Tasks -> TaskStruct] BY <1>5, <1>6, BlankFits
<1> QED BY <1>1, <1>3, <1>5, <1>7, <1>8, Zenon

\* The initial frames of init (init_task1, set_user_pages).
LEMMA InitInv == Init => MemInv
<1> SUFFICES ASSUME Init PROVE MemInv OBVIOUS
<1> DEFINE C == NUM_PAG_CODE  D == NUM_PAG_DATA  F == FirstStackPage
<1>0. /\ C \in Nat /\ D \in Nat /\ C + D + 1 \in Nat /\ 1 \in Tasks /\ NR_TASKS \in Nat
      /\ PAG_LOG_INIT_DATA \in Int
  BY MemoryConstants DEF Tasks, PAG_LOG_INIT_DATA
<1>1. PICK s \in alloc_frame(KernelPages, C + D + 1) :
        phys_mem = KernelPages \cup {s[i] : i \in 1..(C + D + 1)} /\ InitTablesWith(s)
  BY Zenon DEF Init, InitTablesWith, FirstStackPage
<1>2. \A i, j \in 1..(C + D + 1) : s[i] = s[j] => i = j BY <1>0, AllocFresh
<1>3. /\ task \in [Tasks -> TaskStruct] /\ StackInPlace(task[1].stack)
      /\ task[1].master = 1 /\ task[1].dir = 1
  BY InitTask, Zenon DEF Init
<1>4. /\ Live = {1} /\ freequeue \in Seq(Tasks) /\ Len(freequeue) = NR_TASKS - 1
      /\ \A i \in 1..(NR_TASKS - 1) : freequeue[i] = i + 1
  BY InitLive, Zenon DEF Init
<1>5. Typed
  <2>1. DOMAIN pt = Tasks BY <1>1 DEF InitTablesWith
  <2> QED BY <1>3, <1>4, <2>1 DEF Typed
<1>6. Families
  <2>1. \A i, j \in 1..Len(freequeue) : freequeue[i] = freequeue[j] => i = j BY <1>0, <1>4
  <2> QED BY <1>3, <1>4, <2>1 DEF Families
<1>7. StacksInPlace BY <1>3, <1>4 DEF StacksInPlace
\* The frame behind a page, by its place in s.
<1> DEFINE At(p, i) == \/ p = F /\ i = C + D + 1
                       \/ p \in Int /\ p # F /\ i = C + (p - PAG_LOG_INIT_DATA + 1) /\ i <= C + D
<1>8. ASSUME NEW d \in Tasks, NEW p \in PrivatePages, pt[d][p] # NONE
      PROVE  d = 1 /\ \E i \in 1..(C + D + 1) : pt[d][p] = s[i] /\ At(p, i)
  <2>1. d = 1 BY <1>1, <1>8, InitTables, Zenon
  <2>2. CASE p = F
    <3>1. pt[d][p] = s[C + D + 1] BY <1>1, <2>1, <2>2, InitTables, Zenon
    <3>2. C + D + 1 \in 1..(C + D + 1) BY <1>0
    <3> QED BY <2>1, <2>2, <3>1, <3>2
  <2>3. CASE p # F
    <3>1. p \in DataPages BY <1>1, <1>8, <2>1, <2>3, InitTables, Zenon
    <3>2. /\ p - PAG_LOG_INIT_DATA + 1 \in 1..D
          /\ pt[d][p] = s[C + (p - PAG_LOG_INIT_DATA + 1)]
      BY <1>1, <2>1, <3>1, InitTables, Zenon
    <3>3. p \in Int BY PagesAreInt DEF PrivatePages
    <3>4. /\ C + (p - PAG_LOG_INIT_DATA + 1) \in 1..(C + D + 1)
          /\ C + (p - PAG_LOG_INIT_DATA + 1) <= C + D
      BY <1>0, <3>2, <3>3
    <3> QED BY <2>1, <2>3, <3>2, <3>3, <3>4
  <2> QED BY <2>2, <2>3
<1>9. ASSUME NEW p, NEW q, NEW i \in 1..(C + D + 1), At(p, i), At(q, i) PROVE p = q
  BY <1>0, <1>9
<1> HIDE DEF At
<1>10. Owned(pt, phys_mem, Masters)
  <2> SUFFICES ASSUME NEW d \in Tasks, NEW e \in Tasks, NEW p \in PrivatePages,
                      NEW q \in PrivatePages, pt[d][p] # NONE
               PROVE  /\ pt[d][p] \in phys_mem
                      /\ pt[e][q] # NONE /\ pt[e][q] = pt[d][p] => d = e /\ p = q
    BY DEF Owned, Claimed
  <2>1. PICK i \in 1..(C + D + 1) : d = 1 /\ pt[d][p] = s[i] /\ At(p, i) BY <1>8
  <2>2. ASSUME pt[e][q] # NONE, pt[e][q] = pt[d][p] PROVE d = e /\ p = q
    <3>1. PICK j \in 1..(C + D + 1) : e = 1 /\ pt[e][q] = s[j] /\ At(q, j) BY <1>8, <2>2
    <3>2. i = j BY <1>2, <2>1, <2>2, <3>1, Zenon
    <3> QED BY <1>9, <2>1, <3>1, <3>2, Zenon
  <2> QED BY <1>1, <2>1, <2>2, Zenon
<1> QED BY <1>5, <1>6, <1>7, <1>10 DEF MemInv

\* Every step keeps the invariant.
LEMMA MemInvStep == MemInv /\ [Next]_vars => MemInv'
<1> SUFFICES ASSUME MemInv, [Next]_vars PROVE MemInv' OBVIOUS
<1>1. CASE UNCHANGED <<phys_mem, pt, task, freequeue>>
  <2>1. Live' = Live /\ Masters' = Masters BY <1>1 DEF Masters, Master, Live, Free
  <2>2. Typed' BY <1>1 DEF MemInv, Typed
  <2>3. Families' BY <1>1, <2>1 DEF MemInv, Families
  <2>4. StacksInPlace' BY <1>1, <2>1 DEF MemInv, StacksInPlace, StackInPlace
  <2>5. Owned(pt', phys_mem', Masters') BY <1>1, <2>1 DEF MemInv
  <2> QED BY <2>2, <2>3, <2>4, <2>5 DEF MemInv
<1>2. ASSUME NEW t \in Live, sys_fork(t) PROVE MemInv'
  BY <1>2, ForkNoDataInv, ForkNoStackInv, ForkWithStackInv DEF sys_fork
<1>3. ASSUME NEW t \in Live, sys_create_thread(t) PROVE MemInv'
  BY <1>3, CreateThreadInv
<1>4. ASSUME NEW t \in Live, sys_exit_thread(t) PROVE MemInv'
  BY <1>4, ExitThreadInv
<1>5. ASSUME NEW t \in Live, sys_exit(t) PROVE MemInv'
  BY <1>5, ExitInv DEF sys_exit
<1>6. ASSUME NEW t \in Live, KeyboardOn(t) \/ KeyboardOff(t) PROVE MemInv'
  BY <1>6, KeyboardInv
<1>7. ASSUME NEW t \in Live, pageFault_routine(t) PROVE MemInv'
  BY <1>7, GrowInv, ExitInv DEF pageFault_routine
<1> QED
  BY <1>1, <1>2, <1>3, <1>4, <1>5, <1>6, <1>7 DEF Next, vars

\* No frame ever has two owners, for every number of tasks, pages and frames: fork,
\* ThreadCreate, stack growth and the keyboard stack only hand out free frames, and
\* every release, rollbacks included, frees frames whose entries are gone.
THEOREM FramesOwnedOnce == Spec => []OwnedOnce
<1>1. ASSUME MemInv PROVE OwnedOnce
  <2> DEFINE D == {task[t].dir : t \in Live}
             Claims == {x \in D \X PrivatePages : pt[x[1]][x[2]] # NONE}
  <2>1. \A d \in D : d \in Masters /\ d \in Tasks BY <1>1, DirIsMaster DEF MemInv
  <2> SUFFICES ASSUME NEW x \in Claims, NEW y \in Claims
               PROVE  /\ pt[x[1]][x[2]] \in phys_mem
                      /\ pt[x[1]][x[2]] = pt[y[1]][y[2]] => x = y
    BY Zenon DEF OwnedOnce
  <2> HIDE DEF D
  <2>2. \A z \in Claims : /\ z[1] \in D /\ z[2] \in PrivatePages /\ z = <<z[1], z[2]>>
                          /\ pt[z[1]][z[2]] # NONE
    OBVIOUS
  <2>3. /\ pt[x[1]][x[2]] \in phys_mem
        /\ pt[x[1]][x[2]] = pt[y[1]][y[2]] => x[1] = y[1] /\ x[2] = y[2]
    <3>1. \A z \in Claims : z[1] \in Tasks /\ z[2] \in PrivatePages
                             /\ Claimed(pt, Masters, z[1], z[2])
      BY <2>1, <2>2, Zenon DEF Claimed
    <3> HIDE DEF Claims
    <3>2. Owned(pt, phys_mem, Masters) BY <1>1 DEF MemInv
    <3> QED BY <3>1, <3>2 DEF Owned
  <2> QED BY <2>2, <2>3
<1> QED BY <1>1, InitInv, MemInvStep, PTL DEF Spec
=============================================================================
