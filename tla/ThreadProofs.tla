----------------------------- MODULE ThreadProofs ---------------------------
(***************************************************************************)
(* The steps of Memory that create and end threads, grow their stacks and  *)
(* give them keyboard handlers keep the invariant of StackProofs, and with *)
(* it the theorems on stacks, handlers and frames.                         *)
(***************************************************************************)
EXTENDS StackProofs

\* ThreadCreate: the new stack is in a region of its own, and what it or the temporary
\* pages replace had been given up.
LEMMA CreateThreadAll ==
  ASSUME Counting, AllInv, MemInv', NEW t \in Live, sys_create_thread(t)
  PROVE  StackInv' /\ TornInv' /\ UseInv'
<1> DEFINE n == THREAD_STACK_INITIAL_PAGES  R == THREAD_STACK_REGION_PAGES
<1>0. MemInv /\ StackInv /\ TornInv /\ UseInv /\ freequeue # <<>> BY DEF AllInv, sys_create_thread
<1>c. PICK c \in Tasks \ Live : c = Head(freequeue) BY <1>0, QueueLive
<1>m. PICK m \in Masters : m = task[t].master BY <1>0, DirIsMaster DEF MemInv
<1>1. /\ m \in Tasks /\ m \in Live /\ c # m /\ c \notin Masters /\ Live \subseteq Tasks /\ task[m].dir = m
      /\ \A u \in Live : task[u].dir \in Masters /\ task[u].dir \in Tasks
  BY <1>0, DirIsMaster DEF MemInv, Families, Masters, Master, Live
<1>2. CASE CreateThreadFails(m)
  <2>1. Live' = Live BY <1>0, <1>2, QueueLive DEF CreateThreadFails
  <2> QED BY <1>2, <2>1, SameInv DEF CreateThreadFails
<1>3. CASE CreateThreadMaps(m)
  <2>1. PICK start \in find_free_stack_region(m), s \in alloc_frame(phys_mem, n) :
          /\ phys_mem' = phys_mem \cup {s[i] : i \in 1..n}
          /\ pt' = [pt EXCEPT ![task[m].dir] =
                      del_ss_pag(set_ss_pag(pt[task[m].dir], start + R - n, s),
                                 TEMP_STACK_MAPPING_PAGE, n)]
          /\ task' = [task EXCEPT ![c] = NewTask(m, task[m].dir, Region(start, n))]
    BY <1>3, <1>c, Zenon DEF CreateThreadMaps
  <2>2. PICK k \in 0..(NR_TASKS - 1) : start = RegionAt(k) BY <1>0, FreeRegion
  <2>3. \A u \in Live : task[u].dir = m /\ task[u].stack.frames > 0 => task[u].stack.start # start
    BY <1>0, FreeRegion
  <2>4. /\ k \in Nat /\ start \in Nat /\ start >= THREAD_STACK_BASE_PAGE
        /\ start + R <= FORK_TEMP_MAPPING_PAGE
    BY <2>2, Regions, Ends
  <2>5. PICK first \in Int : first = start + R - n BY <2>4, Sizes
  <2>6. /\ n \in Nat /\ n > 0 /\ n <= R /\ R \in Nat /\ first >= start
        /\ first >= THREAD_STACK_BASE_PAGE /\ first + n = start + R
    BY <2>4, <2>5, Sizes, Layout
  <2>7. Live' = Live \cup {c} BY <1>0, <1>3, <1>c, QueueLive DEF CreateThreadMaps
  <2>8. /\ pt'[m] = del_ss_pag(set_ss_pag(pt[m], first, s), TEMP_STACK_MAPPING_PAGE, n)
        /\ \A e \in Tasks \ {m} : pt'[e] = pt[e]
        /\ task'[c] = NewTask(m, m, Region(start, n)) /\ \A u \in Live : task'[u] = task[u]
        /\ lost' = lost /\ torn' = torn /\ phys_mem \subseteq phys_mem'
    BY <1>0, <1>1, <1>3, <2>1, <2>5 DEF MemInv, Typed, CreateThreadMaps
  <2>9. /\ task'[c].aux = FALSE /\ task'[c].master = m /\ task'[c].dir = m
        /\ task'[c].stack.start = start /\ task'[c].stack.pages = R
        /\ task'[c].stack.ptr = first /\ task'[c].stack.frames = n
    BY <2>5, <2>8 DEF NewTask, Region
  <2>10. Masters' = Masters BY <1>1, <2>7, <2>8, <2>9 DEF Masters, Master
  <2>11. /\ Len(s) = n
         /\ \A i \in 1..n : s[i] # NONE /\ s[i] \in (NUM_PAG_KERNEL + 1)..(TOTAL_PAGES - 1)
    BY <1>0, <2>6, AllocFresh, AllocAbove DEF UseInv
  <2> DEFINE New(p) == p - first + 1 \in 1..n
             Temp(p) == p \in TEMP_STACK_MAPPING_PAGE..(TEMP_STACK_MAPPING_PAGE + n - 1)
  <2>12. ASSUME NEW p \in Pages
         PROVE  pt'[m][p] = IF Temp(p) THEN NONE ELSE IF New(p) THEN s[p - first + 1] ELSE pt[m][p]
    <3>1. pt'[m][p] = IF Temp(p) THEN NONE ELSE set_ss_pag(pt[m], first, s)[p] BY <2>8, DelPage
    <3>2. set_ss_pag(pt[m], first, s)[p] = IF p - first + 1 \in 1..Len(s) THEN s[p - first + 1] ELSE pt[m][p]
      BY SetPage
    <3> QED BY <2>11, <3>1, <3>2
  <2>13. ASSUME NEW p \in Int
         PROVE  /\ p < FORK_TEMP_MAPPING_PAGE => ~Temp(p)
                /\ New(p) => start <= p /\ p < start + R /\ p < FORK_TEMP_MAPPING_PAGE
                /\ Temp(p) => p > KBD_AUX_STACK_PAGE
                /\ Temp(p) \/ New(p) => p >= THREAD_STACK_BASE_PAGE
    BY <2>4, <2>6, Ends, Layout
  <2> HIDE DEF n, R
  <2>14. \A p \in Int : p \in StackPages(c)' <=> New(p)
    <3>1. StackPages(c)' = first..(first + n - 1) BY <2>9 DEF StackPages
    <3> QED BY <2>6, <3>1
  <2> HIDE DEF New, Temp
  <2>15. StackInv'
    <3>1. KeepsStacks(c)
      <4> SUFFICES ASSUME NEW u \in Live', u # c
                   PROVE  /\ u \in Live /\ task'[u].stack = task[u].stack
                          /\ task'[u].dir = task[u].dir
                          /\ \A p \in StackPages(u) : pt'[task[u].dir][p] # NONE
        BY Zenon DEF KeepsStacks
      <4>1. u \in Live /\ task'[u] = task[u] BY <2>7, <2>8
      <4>2. ASSUME NEW p \in StackPages(u) PROVE pt'[task[u].dir][p] # NONE
        <5>1. p \in Pages /\ p < FORK_TEMP_MAPPING_PAGE /\ pt[task[u].dir][p] # NONE
          BY <1>0, <4>1, StackPlaces
        <5>2. ~Temp(p)
          <6>1. p \in Int BY <5>1, PagesAreInt
          <6> QED BY <2>13, <5>1, <6>1, Zenon
        <5>3. CASE task[u].dir = m
          <6>1. CASE New(p)
            <7>1. p - first + 1 \in 1..n BY <6>1 DEF New
            <7> QED BY <2>11, <2>12, <5>1, <5>2, <5>3, <6>1, <7>1
          <6>2. CASE ~New(p) BY <2>12, <5>1, <5>2, <5>3, <6>2
          <6> QED BY <6>1, <6>2
        <5>4. CASE task[u].dir # m BY <1>1, <2>8, <4>1, <5>1, <5>4
        <5> QED BY <5>3, <5>4
      <4> QED BY <4>1, <4>2
    <3>2. StackTop(task'[c].stack) BY <2>2, <2>6, <2>9, Sizes DEF StackTop, R
    <3>3. ASSUME NEW p \in StackPages(c)' PROVE pt'[task'[c].dir][p] # NONE
      <4>1. p \in Int BY <2>6, <2>9 DEF StackPages
      <4>2. New(p) /\ ~Temp(p) BY <2>13, <2>14, <3>3, <4>1
      <4>3. p \in Pages
        <5>1. start <= p /\ p < FORK_TEMP_MAPPING_PAGE BY <2>13, <4>1, <4>2
        <5>2. FORK_TEMP_MAPPING_PAGE <= TOTAL_PAGES - 1 BY Ends, Sizes
        <5> QED BY <2>4, <4>1, <5>1, <5>2, Ends, Sizes DEF Pages
      <4>4. p - first + 1 \in 1..n BY <4>2 DEF New
      <4> QED BY <2>9, <2>11, <2>12, <4>2, <4>3, <4>4
    <3>4. GivesStack(c) BY <2>3, <2>6, <2>9, <3>2, <3>3, Zenon DEF GivesStack
    <3> QED BY <1>0, <3>1, <3>4, StackStep
  <2>16. KBD_AUX_STACK_PAGE \in Pages /\ ~New(KBD_AUX_STACK_PAGE) /\ ~Temp(KBD_AUX_STACK_PAGE)
    <3>1. KBD_AUX_STACK_PAGE \in Int /\ ~(KBD_AUX_STACK_PAGE < FORK_TEMP_MAPPING_PAGE)
      BY Ends
    <3>2. ~(KBD_AUX_STACK_PAGE > KBD_AUX_STACK_PAGE) BY <3>1
    <3> QED BY <2>13, <3>1, <3>2, Layout, Zenon
  <2>17. TornInv'
    <3>1. \A u \in torn' : u \in Live' /\ task'[u].aux BY <1>0, <2>7, <2>8 DEF TornInv
    <3>2. ASSUME NEW u \in Live', task'[u].aux
          PROVE  pt'[task'[u].dir][KBD_AUX_STACK_PAGE] # NONE <=> u \notin torn'
      <4>1. u \in Live /\ task'[u] = task[u] /\ task[u].dir \in Tasks BY <1>1, <2>7, <2>8, <2>9, <3>2
      <4>2. pt'[task[u].dir][KBD_AUX_STACK_PAGE] = pt[task[u].dir][KBD_AUX_STACK_PAGE]
        <5>1. CASE task[u].dir = m BY <2>12, <2>16, <5>1
        <5>2. CASE task[u].dir # m BY <2>8, <4>1, <5>2
        <5> QED BY <5>1, <5>2
      <4> QED BY <1>0, <2>8, <3>2, <4>1, <4>2 DEF TornInv, HandlerHasItsStack, get_PT
    <3> QED BY <3>1, <3>2 DEF TornInv, HandlerHasItsStack, get_PT
  <2>18. ASSUME NEW p \in PrivatePages, Temp(p) \/ New(p), pt[m][p] # NONE
         PROVE  pt[m][p] \in lost
    <3>1. p \in Pages /\ p \in Int BY PagesAreInt DEF PrivatePages
    <3>2. p \in PrivatePages \ DataPages BY <2>13, <2>18, <3>1, Layout
    <3>3. p # KBD_AUX_STACK_PAGE BY <2>16, <2>18
    <3>4. ASSUME NEW u \in Live, task[u].dir = m, p \in StackPages(u) PROVE FALSE
      <4>1. /\ p < FORK_TEMP_MAPPING_PAGE /\ task[u].stack.frames > 0
            /\ task[u].stack.start <= p /\ p < task[u].stack.start + R
            /\ \E i \in 0..(NR_TASKS - 1) : task[u].stack.start = RegionAt(i)
        BY <1>0, <3>4, StackPlaces DEF R
      <4>2. New(p) BY <2>13, <2>18, <3>1, <4>1
      <4>3. PICK i \in 0..(NR_TASKS - 1) : task[u].stack.start = RegionAt(i) BY <4>1
      <4>4. start <= p /\ p < start + R BY <2>13, <3>1, <4>2
      <4>5. i \in Nat BY Sizes
      <4>6. i = k BY <2>2, <2>4, <3>1, <4>1, <4>3, <4>4, <4>5, OneRegion DEF R
      <4> QED BY <2>2, <2>3, <3>4, <4>1, <4>3, <4>6
    <3>5. ~Uses(m, p) BY <3>3, <3>4 DEF Uses
    <3> QED BY <1>0, <1>1, <2>18, <3>2, <3>5 DEF UseInv
  <2>19. ASSUME NEW d \in Tasks, NEW p \in PrivatePages PROVE SoundEntry(d, p)
    <3>0. p \in Pages /\ p \in Int BY PagesAreInt DEF PrivatePages
    <3>1. CASE pt'[d][p] = pt[d][p]
      <4>1. \A u \in Live : u \in Live' /\ task'[u].dir = task[u].dir
                            /\ StackPages(u) \subseteq StackPages(u)'
        BY <2>7, <2>8, Zenon DEF StackPages
      <4>2. Uses(d, p) => Uses(d, p)' BY <4>1, UsesKept
      <4> QED BY <2>10, <3>1, <4>2, Zenon DEF SoundEntry
    <3>2. CASE d = m /\ New(p) /\ ~Temp(p)
      <4>1. p - first + 1 \in 1..n BY <3>2 DEF New
      <4>2. pt'[d][p] \in (NUM_PAG_KERNEL + 1)..(TOTAL_PAGES - 1)
        BY <2>11, <2>12, <3>0, <3>2, <4>1
      <4>3. p \in StackPages(c)' /\ c \in Live' /\ task'[c].dir = d BY <2>7, <2>9, <2>14, <3>0, <3>2
      <4>4. Uses(d, p)' BY <4>3, Zenon DEF Uses
      <4>5. d \in Masters' BY <2>10, <3>2
      <4> QED BY <4>2, <4>4, <4>5, Zenon DEF SoundEntry
    <3>3. CASE d = m /\ Temp(p)
      <4>1. pt'[d][p] = NONE BY <2>12, <3>0, <3>3
      <4> QED BY <4>1, Zenon DEF SoundEntry
    <3>4. CASE d # m BY <2>8, <3>1, <3>4, Zenon
    <3>5. CASE d = m /\ ~New(p) /\ ~Temp(p) BY <2>12, <3>0, <3>1, <3>5
    <3> QED BY <3>2, <3>3, <3>4, <3>5
  <2>20. SoundFrames
    <3>1. NUM_PAG_KERNEL \in phys_mem' /\ lost \cap phys_mem' \subseteq lost'
      BY <1>0, <2>8, Zenon DEF UseInv
    <3>2. ASSUME NEW d \in Masters, NEW p \in PrivatePages, pt[d][p] # NONE
          PROVE  pt[d][p] \in lost' \/ (d \in Masters' /\ pt'[d][p] = pt[d][p])
      <4>0. p \in Pages /\ d \in Tasks BY DEF PrivatePages, Masters, Live
      <4>1. CASE d = m /\ (Temp(p) \/ New(p)) BY <2>8, <2>18, <3>2, <4>1, Zenon
      <4>2. CASE d = m /\ ~Temp(p) /\ ~New(p) BY <2>10, <2>12, <4>0, <4>2
      <4>3. CASE d # m BY <2>8, <2>10, <4>0, <4>3, Zenon
      <4> QED BY <4>1, <4>2, <4>3
    <3>3. ASSUME NEW f \in phys_mem' \ phys_mem
          PROVE  f # NONE /\ \E d \in Masters' : \E p \in PrivatePages : pt'[d][p] = f
      <4>1. PICK i \in 1..n : f = s[i] BY <2>1, <3>3
      <4>2. PICK p \in Int : p = first + i - 1 BY <2>6
      <4>3. p - first + 1 = i BY <2>6, <4>2
      <4>4. New(p) BY <4>3 DEF New
      <4>5. ~Temp(p) /\ start <= p /\ p < FORK_TEMP_MAPPING_PAGE /\ p >= THREAD_STACK_BASE_PAGE
        BY <2>13, <4>4
      <4>6. p \in Pages
        <5>1. FORK_TEMP_MAPPING_PAGE <= TOTAL_PAGES - 1 BY Ends, Sizes
        <5> QED BY <2>4, <4>2, <4>5, <5>1, Ends, Sizes DEF Pages
      <4>7. p \in PrivatePages BY <4>5, <4>6, Layout
      <4>8. pt'[m][p] = f BY <2>12, <4>1, <4>3, <4>4, <4>5, <4>6
      <4> QED BY <2>10, <2>11, <4>1, <4>7, <4>8
    <3> QED BY <3>1, <3>2, <3>3, Zenon DEF SoundFrames
  <2>21. SoundCode
    <3> SUFFICES ASSUME NEW p \in CodePages, NEW d \in Masters' \cup {1} PROVE pt'[d][p] = pt[1][p]
      BY Zenon DEF SoundCode
    <3>1. p \in Pages /\ p \in Int /\ p < THREAD_STACK_BASE_PAGE BY CodeBelow
    <3>2. ~Temp(p) /\ ~New(p)
      <4>1. ~(p >= THREAD_STACK_BASE_PAGE) BY <3>1, Layout
      <4> QED BY <2>13, <3>1, <4>1
    <3>3. pt[d][p] = pt[1][p] BY <1>0, <2>10 DEF UseInv
    <3>4. d \in Tasks BY <2>10, Sizes DEF Masters, Live, Tasks
    <3>5. CASE d = m BY <2>12, <3>1, <3>2, <3>3, <3>5
    <3>6. CASE d # m BY <2>8, <3>3, <3>4, <3>6
    <3> QED BY <3>5, <3>6
  <2>22. UseInv' BY <2>19, <2>20, <2>21, UseStep, Zenon
  <2> QED BY <2>15, <2>17, <2>22
<1> QED BY <1>2, <1>3, <1>m DEF sys_create_thread

\* The frames behind the pages that a release unmaps become free, and only they.
LEMMA Freed ==
  ASSUME AllInv, NEW m \in Masters, NEW Q, Q \subseteq PrivatePages,
         phys_mem' = free_frame(phys_mem, FramesOn(pt[m], Q))
  PROVE  /\ NUM_PAG_KERNEL \in phys_mem' /\ phys_mem' \subseteq phys_mem
         /\ \A p \in Q : pt[m][p] # NONE => pt[m][p] \notin phys_mem'
<1>1. NUM_PAG_KERNEL \in phys_mem' BY Sizes DEF AllInv, UseInv, free_frame
<1>2. ASSUME NEW p \in Q, pt[m][p] # NONE PROVE pt[m][p] \notin phys_mem'
  <2>1. m \in Tasks BY DEF Masters, Live
  <2>2. pt[m][p] \in (NUM_PAG_KERNEL + 1)..(TOTAL_PAGES - 1)
    BY <1>2, <2>1 DEF AllInv, UseInv, Claimed
  <2>3. pt[m][p] > NUM_PAG_KERNEL /\ pt[m][p] < TOTAL_PAGES BY <2>2, Sizes
  <2>4. pt[m][p] \in FramesOn(pt[m], Q) BY <1>2 DEF FramesOn, get_frame
  <2> QED BY <2>3, <2>4 DEF free_frame
<1> QED BY <1>1, <1>2 DEF free_frame

\* ThreadExit: the stack's frames are freed, no other task's page is touched.
LEMMA ExitThreadAll ==
  ASSUME AllInv, MemInv', NEW t \in Live, sys_exit_thread(t)
  PROVE  StackInv' /\ TornInv' /\ UseInv'
<1>0. MemInv /\ StackInv /\ TornInv /\ UseInv BY DEF AllInv
<1>m. PICK m \in Masters : m = task[t].dir BY <1>0, DirIsMaster DEF MemInv
<1>1. /\ m \in Tasks /\ Live \subseteq Tasks /\ t \notin Masters
      /\ \A u \in Live : task[u].dir \in Masters /\ task[u].dir \in Tasks
  BY <1>0, DirIsMaster, Zenon DEF MemInv, Masters, Live, sys_exit_thread
<1>2. /\ pt'[m] = Released(pt[m], StackPages(t)) /\ \A e \in Tasks \ {m} : pt'[e] = pt[e]
      /\ phys_mem' = free_frame(phys_mem, FramesOn(pt[m], StackPages(t)))
      /\ lost' = lost \cap phys_mem' /\ torn' = torn \ {t}
      /\ \A u \in Live \ {t} : task'[u] = task[u]
  BY <1>0, <1>1, <1>m DEF sys_exit_thread, get_PT, MemInv, Typed
<1>3. Live' = Live \ {t}
  <2>1. t \in Tasks \ Ran(freequeue) BY DEF Live, Free, Ran
  <2>2. Ran(freequeue') = Ran(freequeue) \cup {t}
    <3>1. freequeue \in Seq(Tasks) /\ NoRepeat(freequeue)
      BY <1>0, Zenon DEF MemInv, Typed, Families, NoRepeat
    <3>2. freequeue' = Append(freequeue, t) BY Zenon DEF sys_exit_thread
    <3>3. Ran(Append(freequeue, t)) = Ran(freequeue) \cup {t} BY <2>1, <3>1, QueueAppend, Zenon
    <3> QED BY <3>2, <3>3, Zenon
  <2>3. Free = Ran(freequeue) /\ Free' = Ran(freequeue') BY Zenon DEF Free, Ran
  <2>4. Free' = Free \cup {t} BY <2>2, <2>3, Zenon
  <2> QED BY <2>4, Zenon DEF Live
<1>4. Masters' = Masters BY <1>1, <1>2, <1>3, Zenon DEF Masters, Master
<1>5. StackPages(t) \subseteq PrivatePages BY <1>0, StackPagesPrivate
<1>6. /\ NUM_PAG_KERNEL \in phys_mem' /\ phys_mem' \subseteq phys_mem
      /\ \A p \in StackPages(t) : pt[m][p] # NONE => pt[m][p] \notin phys_mem'
  BY <1>2, <1>5, Freed
<1>7. ASSUME NEW d \in Tasks, NEW p \in Pages
      PROVE  pt'[d][p] = IF d = m /\ p \in StackPages(t) THEN NONE ELSE pt[d][p]
  <2>1. CASE d = m BY <1>2, <2>1 DEF Released
  <2>2. CASE d # m BY <1>2, <2>2
  <2> QED BY <2>1, <2>2
<1>8. StackInv'
  <2>1. KeepsStacks(t)
    <3> SUFFICES ASSUME NEW u \in Live', u # t
                 PROVE  /\ u \in Live /\ task'[u].stack = task[u].stack
                        /\ task'[u].dir = task[u].dir
                        /\ \A p \in StackPages(u) : pt'[task[u].dir][p] # NONE
      BY Zenon DEF KeepsStacks
    <3>1. u \in Live /\ task'[u] = task[u] BY <1>2, <1>3
    <3>2. ASSUME NEW p \in StackPages(u) PROVE pt'[task[u].dir][p] # NONE
      <4>1. p \in Pages /\ pt[task[u].dir][p] # NONE /\ task[u].dir \in Tasks
        BY <1>0, <1>1, <3>1, StackPlaces, Zenon
      <4>2. task[u].dir = m => p \notin StackPages(t) BY <1>0, <1>m, <3>1, StacksDisjoint
      <4> QED BY <1>7, <4>1, <4>2
    <3> QED BY <3>1, <3>2
  <2>2. GivesStack(t) BY <1>3 DEF GivesStack
  <2> QED BY <1>0, <2>1, <2>2, StackStep
<1>9. TornInv'
  <2>1. \A u \in torn' : u \in Live' /\ task'[u].aux BY <1>0, <1>2, <1>3 DEF TornInv
  <2>2. ASSUME NEW u \in Live', task'[u].aux
        PROVE  pt'[task'[u].dir][KBD_AUX_STACK_PAGE] # NONE <=> u \notin torn'
    <3>1. u \in Live /\ u # t /\ task'[u] = task[u] /\ task[u].dir \in Tasks BY <1>1, <1>2, <1>3, Zenon
    <3>2. KBD_AUX_STACK_PAGE \notin StackPages(t)
      <4> SUFFICES ASSUME KBD_AUX_STACK_PAGE \in StackPages(t) PROVE FALSE OBVIOUS
      <4>1. KBD_AUX_STACK_PAGE < FORK_TEMP_MAPPING_PAGE BY <1>0, StackPlaces
      <4> QED BY <4>1, Ends
    <3>3. pt'[task[u].dir][KBD_AUX_STACK_PAGE] = pt[task[u].dir][KBD_AUX_STACK_PAGE]
      BY <1>7, <3>1, <3>2, Layout
    <3> QED BY <1>0, <1>2, <2>2, <3>1, <3>3 DEF TornInv, HandlerHasItsStack, get_PT
  <2> QED BY <2>1, <2>2 DEF TornInv, HandlerHasItsStack, get_PT
<1>10. ASSUME NEW d \in Tasks, NEW p \in PrivatePages PROVE SoundEntry(d, p)
  <2>0. p \in Pages BY DEF PrivatePages
  <2>1. CASE d = m /\ p \in StackPages(t)
    <3>1. pt'[d][p] = NONE BY <1>7, <2>0, <2>1
    <3> QED BY <3>1, Zenon DEF SoundEntry
  <2>2. CASE ~(d = m /\ p \in StackPages(t))
    <3>1. pt'[d][p] = pt[d][p] BY <1>7, <2>0, <2>2
    <3>2. Uses(d, p) => Uses(d, p)'
      <4>1. \A u \in Live \ {t} : u \in Live' /\ task'[u].dir = task[u].dir
                                  /\ StackPages(u)' = StackPages(u)
        BY <1>2, <1>3, Zenon DEF StackPages
      <4> QED BY <1>m, <2>2, <4>1 DEF Uses
    <3> QED BY <1>4, <3>1, <3>2, Zenon DEF SoundEntry
  <2> QED BY <2>1, <2>2
<1>11. SoundFrames
  <2>1. ASSUME NEW d \in Masters, NEW p \in PrivatePages, pt[d][p] # NONE, pt[d][p] \in phys_mem'
        PROVE  d \in Masters' /\ pt'[d][p] = pt[d][p]
    <3>1. p \in Pages /\ d \in Tasks BY DEF PrivatePages, Masters, Live
    <3>2. ~(d = m /\ p \in StackPages(t)) BY <1>6, <2>1
    <3> QED BY <1>4, <1>7, <3>1, <3>2
  <2>2. lost \cap phys_mem' \subseteq lost' /\ phys_mem' \ phys_mem = {} BY <1>2, <1>6
  <2> QED BY <1>6, <2>1, <2>2, Zenon DEF SoundFrames
<1>12. SoundCode
  <2> SUFFICES ASSUME NEW p \in CodePages, NEW d \in Masters' \cup {1} PROVE pt'[d][p] = pt[1][p]
    BY Zenon DEF SoundCode
  <2>1. p \in Pages /\ d \in Tasks BY <1>4, CodeBelow, Sizes DEF Masters, Live, Tasks
  <2>2. p \notin StackPages(t) BY <1>5 DEF PrivatePages
  <2>3. pt[d][p] = pt[1][p] BY <1>0, <1>4 DEF UseInv
  <2> QED BY <1>7, <2>1, <2>2, <2>3
<1>13. UseInv' BY <1>10, <1>11, <1>12, UseStep, Zenon
<1> QED BY <1>8, <1>9, <1>13

\* exit: the other processes are not touched, and of the pages of this one all are
\* freed but its own stack and an auxiliary stack that it does not know of.
LEMMA ExitAll ==
  ASSUME AllInv, MemInv', NEW t \in Live, Master(t), ExitEffect(t)
  PROVE  StackInv' /\ TornInv' /\ UseInv'
<1> DEFINE G == Threads(t) \cup {t}  Left == LeftPages(t)
<1>0. MemInv /\ StackInv /\ TornInv /\ UseInv BY DEF AllInv
<1>1. /\ t \in Masters /\ t \in Tasks /\ task[t].dir = t /\ Live \subseteq Tasks
      /\ \A u \in Live : task[u].dir \in Masters /\ task[u].dir \in Tasks
      /\ \A u \in Live : task[u].dir = t <=> u \in G
  <2>1. \A u \in Live : task[u].dir = task[u].master BY <1>0 DEF MemInv, Families
  <2> QED BY <1>0, <2>1, DirIsMaster DEF MemInv, Masters, Master, Live, Threads
<1>2. /\ pt'[t] = Released(pt[t], ExitPages(t)) /\ \A e \in Tasks \ {t} : pt'[e] = pt[e]
      /\ phys_mem' = free_frame(phys_mem, FramesOn(pt[t], ExitPages(t)))
      /\ torn' = torn \ G /\ \A u \in Tasks \ G : task'[u] = task[u]
  BY <1>0, <1>1 DEF ExitEffect, get_PT, MemInv, Typed
<1>3. Live' = Live \ G BY <1>0, ExitQueue
<1>4. Masters' = Masters \ {t}
  <2>1. Masters \cap G = {t} BY <1>1 DEF Masters, Master, Threads
  <2>2. Masters' = Masters \ G BY <1>1, <1>2, <1>3, Zenon DEF Masters, Master
  <2> QED BY <2>1, <2>2
<1>5. ExitPages(t) \subseteq PrivatePages BY <1>0, ExitPagesPrivate
<1>6. /\ NUM_PAG_KERNEL \in phys_mem' /\ phys_mem' \subseteq phys_mem
      /\ \A p \in ExitPages(t) : pt[t][p] # NONE => pt[t][p] \notin phys_mem'
  BY <1>1, <1>2, <1>5, Freed, Zenon
<1>7. lost' = (lost \cup ({pt[t][p] : p \in Left} \ {NONE})) \cap phys_mem'
  BY <1>1, Zenon DEF ExitEffect, MappedOn, get_PT
<1> HIDE DEF Left, G
<1>8. ASSUME NEW d \in Tasks, NEW p \in Pages
      PROVE  pt'[d][p] = IF d = t /\ p \in ExitPages(t) THEN NONE ELSE pt[d][p]
  <2>1. CASE d = t BY <1>2, <2>1 DEF Released
  <2>2. CASE d # t BY <1>2, <2>2
  <2> QED BY <2>1, <2>2
<1>9. \A u \in Live' : /\ u \in Live /\ task'[u] = task[u] /\ task[u].dir # t
                       /\ task[u].dir \in Tasks
  BY <1>1, <1>2, <1>3, Zenon
<1>10. StackInv'
  <2>1. KeepsStacks(t)
    <3> SUFFICES ASSUME NEW u \in Live', u # t
                 PROVE  /\ u \in Live /\ task'[u].stack = task[u].stack
                        /\ task'[u].dir = task[u].dir
                        /\ \A p \in StackPages(u) : pt'[task[u].dir][p] # NONE
      BY Zenon DEF KeepsStacks
    <3>1. \A p \in StackPages(u) : pt[task[u].dir][p] # NONE BY <1>0, <1>9, StackPlaces
    <3> QED BY <1>2, <1>9, <3>1, Zenon
  <2>2. GivesStack(t) BY <1>3 DEF GivesStack, G
  <2> QED BY <1>0, <2>1, <2>2, StackStep
<1>11. TornInv'
  <2>1. \A u \in torn' : u \in Live' /\ task'[u].aux BY <1>0, <1>1, <1>2, <1>3, Zenon DEF TornInv
  <2>2. ASSUME NEW u \in Live', task'[u].aux
        PROVE  pt'[task'[u].dir][KBD_AUX_STACK_PAGE] # NONE <=> u \notin torn'
    <3>1. /\ u \in Live /\ task'[u] = task[u] /\ u \notin G
          /\ pt'[task[u].dir] = pt[task[u].dir]
      BY <1>2, <1>3, <1>9, Zenon
    <3>2. pt[task[u].dir][KBD_AUX_STACK_PAGE] # NONE <=> u \notin torn
      BY <1>0, <2>2, <3>1, Zenon DEF TornInv, HandlerHasItsStack, get_PT
    <3>3. u \in torn' <=> u \in torn BY <1>2, <3>1, Zenon
    <3> QED BY <3>1, <3>2, <3>3, Zenon
  <2>3. HandlerHasItsStack' BY <2>2, Zenon DEF HandlerHasItsStack, get_PT
  <2> QED BY <2>1, <2>3, Zenon DEF TornInv
<1>12. ASSUME NEW p \in PrivatePages, p \notin ExitPages(t), pt[t][p] # NONE, pt[t][p] \in phys_mem'
       PROVE  p \notin DataPages /\ pt[t][p] \in lost'
  <2>1. p \notin DataPages BY <1>12 DEF ExitPages
  <2>2. CASE pt[t][p] \in lost BY <1>7, <1>12, <2>1, <2>2
  <2>3. CASE Uses(t, p)
    <3>1. CASE p = KBD_AUX_STACK_PAGE
      <4>1. ~task[t].aux BY <1>12, <3>1 DEF ExitPages
      <4>2. p \in Left BY <3>1, <4>1 DEF Left, LeftPages
      <4> QED BY <1>7, <1>12, <2>1, <4>2
    <3>2. CASE \E u \in Live : task[u].dir = t /\ p \in StackPages(u)
      <4>1. PICK u \in Live : task[u].dir = t /\ p \in StackPages(u) BY <3>2
      <4>2. CASE u = t
        <5>1. p \in Left BY <4>1, <4>2 DEF Left, LeftPages
        <5> QED BY <1>7, <1>12, <2>1, <5>1
      <4>3. CASE u \in Threads(t)
        <5>1. p \in ExitPages(t) BY <4>1, <4>3 DEF ExitPages
        <5> QED BY <5>1, <1>12
      <4> QED BY <1>1, <4>1, <4>2, <4>3 DEF G
    <3> QED BY <2>3, <3>1, <3>2 DEF Uses
  <2>4. pt[t][p] \in lost \/ Uses(t, p) BY <1>0, <1>1, <1>12, <2>1 DEF UseInv
  <2> QED BY <2>1, <2>2, <2>3, <2>4
<1>13. ASSUME NEW d \in Tasks, NEW p \in PrivatePages PROVE SoundEntry(d, p)
  <2>0. p \in Pages BY DEF PrivatePages
  <2>1. CASE d # t
    <3>1. pt'[d][p] = pt[d][p] BY <1>8, <2>0, <2>1
    <3>2. Uses(d, p) => Uses(d, p)'
      <4>1. \A u \in Live : task[u].dir = d =>
              u \in Live' /\ task'[u].dir = d /\ StackPages(u) \subseteq StackPages(u)'
        BY <1>1, <1>2, <1>3, <2>1, Zenon DEF StackPages
      <4> QED BY <4>1, UsesKept
    <3>3. d \in Masters <=> d \in Masters' BY <1>4, <2>1
    <3> QED BY <3>1, <3>2, <3>3, Zenon DEF SoundEntry
  <2>2. CASE d = t /\ p \in ExitPages(t)
    <3>1. pt'[d][p] = NONE BY <1>8, <2>0, <2>2
    <3> QED BY <3>1, Zenon DEF SoundEntry
  <2>3. CASE d = t /\ p \notin ExitPages(t)
    <3>1. pt'[d][p] = pt[d][p] BY <1>8, <2>0, <2>3
    <3>2. p \notin DataPages BY <2>3 DEF ExitPages
    <3>3. pt'[d][p] # NONE => pt[d][p] \in lost'
      <4> SUFFICES ASSUME pt'[d][p] # NONE PROVE pt[d][p] \in lost' OBVIOUS
      <4>1. Claimed(pt', Masters', d, p) BY <3>2 DEF Claimed
      <4>2. Owned(pt', phys_mem', Masters') BY DEF MemInv
      <4>3. pt'[d][p] \in phys_mem' BY <4>1, <4>2, Zenon DEF Owned
      <4> QED BY <1>12, <2>3, <3>1, <4>3
    <3> QED BY <3>1, <3>2, <3>3, Zenon DEF SoundEntry
  <2> QED BY <2>1, <2>2, <2>3
<1>14. SoundFrames
  <2>1. ASSUME NEW d \in Masters, NEW p \in PrivatePages, pt[d][p] # NONE, pt[d][p] \in phys_mem'
        PROVE  pt[d][p] \in lost' \/ (d \in Masters' /\ pt'[d][p] = pt[d][p])
    <3>1. p \in Pages /\ d \in Tasks BY DEF PrivatePages, Masters, Live
    <3>2. CASE d = t
      <4>1. p \notin ExitPages(t) BY <1>6, <2>1, <3>2
      <4> QED BY <1>12, <2>1, <3>2, <4>1
    <3>3. CASE d # t BY <1>4, <1>8, <3>1, <3>3
    <3> QED BY <3>2, <3>3
  <2>2. lost \cap phys_mem' \subseteq lost' /\ phys_mem' \ phys_mem = {} BY <1>6, <1>7
  <2> QED BY <1>6, <2>1, <2>2, Zenon DEF SoundFrames
<1>15. SoundCode
  <2> SUFFICES ASSUME NEW p \in CodePages, NEW d \in Masters' \cup {1} PROVE pt'[d][p] = pt[1][p]
    BY Zenon DEF SoundCode
  <2>1. p \in Pages /\ d \in Tasks BY <1>4, CodeBelow, Sizes DEF Masters, Live, Tasks
  <2>2. p \notin ExitPages(t) BY <1>5 DEF PrivatePages
  <2>3. pt[d][p] = pt[1][p] BY <1>0, <1>4, Zenon DEF UseInv
  <2> QED BY <1>8, <2>1, <2>2, <2>3
<1>16. UseInv' BY <1>13, <1>14, <1>15, UseStep, Zenon
<1> QED BY <1>10, <1>11, <1>16

\* If a new frame is mapped on a page that a task knows of, and the frame it had, if
\* any, is given up, then no frame is lost.
LEMMA OnePageUse ==
  ASSUME AllInv, MemInv', NEW m \in Masters, NEW page \in Pages, page >= THREAD_STACK_BASE_PAGE,
         NEW s, MapsPage(m, page, s), Live' = Live, Masters' = Masters, lost \subseteq lost',
         \A u \in Live : task'[u].dir = task[u].dir /\ StackPages(u) \subseteq StackPages(u)',
         Uses(m, page)', pt[m][page] # NONE => pt[m][page] \in lost'
  PROVE  UseInv'
<1>0. MemInv /\ UseInv /\ m \in Tasks /\ Masters \subseteq Tasks BY DEF AllInv, Masters, Live
<1>1. /\ \A d \in Tasks : \A p \in Pages :
           pt'[d][p] = IF d = m /\ p = page THEN s[1] ELSE pt[d][p]
      /\ s[1] # NONE
  <2>1. DOMAIN pt = Tasks BY <1>0, Zenon DEF MemInv, Typed
  <2> QED BY <1>0, <2>1, OnePageTable
<1>2. s[1] \in (NUM_PAG_KERNEL + 1)..(TOTAL_PAGES - 1)
  <2>1. 1 \in Nat /\ 1 \in 1..1 OBVIOUS
  <2> QED BY <1>0, <2>1, AllocAbove, Zenon DEF UseInv, MapsPage
<1>3. page \in PrivatePages \ DataPages BY Layout
<1>4. ASSUME NEW d \in Tasks, NEW p \in PrivatePages PROVE SoundEntry(d, p)
  <2>0. p \in Pages BY DEF PrivatePages
  <2>1. CASE d = m /\ p = page
    <3>1. pt'[d][p] = s[1] BY <1>1, <2>0, <2>1, Zenon
    <3> QED BY <1>2, <2>1, <3>1, Zenon DEF SoundEntry
  <2>2. CASE ~(d = m /\ p = page)
    <3>1. pt'[d][p] = pt[d][p] BY <1>1, <2>0, <2>2
    <3>2. Uses(d, p) => Uses(d, p)' BY UsesKept
    <3> QED BY <3>1, <3>2, Zenon DEF SoundEntry
  <2> QED BY <2>1, <2>2
<1>5. SoundFrames
  <2>1. ASSUME NEW d \in Masters, NEW p \in PrivatePages, pt[d][p] # NONE
        PROVE  pt[d][p] \in lost' \/ (d \in Masters' /\ pt'[d][p] = pt[d][p])
    <3>1. p \in Pages /\ d \in Tasks BY <1>0 DEF PrivatePages
    <3>2. CASE d = m /\ p = page BY <2>1, <3>2, Zenon
    <3>3. CASE ~(d = m /\ p = page) BY <1>1, <3>1, <3>3, Zenon
    <3> QED BY <3>2, <3>3
  <2>2. NUM_PAG_KERNEL \in phys_mem' /\ lost \cap phys_mem' \subseteq lost'
    BY <1>0, Zenon DEF UseInv, MapsPage
  <2>3. ASSUME NEW f \in phys_mem' \ phys_mem
        PROVE  f # NONE /\ \E d \in Masters' : \E p \in PrivatePages : pt'[d][p] = f
    <3>1. f = s[1] BY DEF MapsPage
    <3>2. pt'[m][page] = s[1] /\ s[1] # NONE BY <1>0, <1>1
    <3> QED BY <1>3, <3>1, <3>2, Zenon
  <2> QED BY <2>1, <2>2, <2>3, Zenon DEF SoundFrames
<1>6. SoundCode
  <2> SUFFICES ASSUME NEW p \in CodePages, NEW d \in Masters' \cup {1} PROVE pt'[d][p] = pt[1][p]
    BY Zenon DEF SoundCode
  <2>1. p \in Pages /\ p # page /\ d \in Tasks
    <3>1. p \in Pages BY CodeBelow, Zenon
    <3>2. p # page BY CodeNotStack, Zenon
    <3>3. d \in Tasks BY <1>0, FirstTask, Zenon
    <3> QED BY <3>1, <3>2, <3>3, Zenon
  <2>2. pt[d][p] = pt[1][p] BY <1>0, Zenon DEF UseInv
  <2> QED BY <1>1, <2>1, <2>2
<1> QED BY <1>4, <1>5, <1>6, UseStep, Zenon

\* What grow_user_stack asks of the faulting page.
LEMMA CanGrowAt ==
  ASSUME NEW t \in Live, NEW page \in Pages, CanGrow(t, page),
         task[t].stack.start \in Int, task[t].stack.pages \in Int
  PROVE  /\ task[t].stack.pages # 0 /\ page >= task[t].stack.start
         /\ page = task[t].stack.ptr - 1
BY DEF CanGrow

\* grow_user_stack: the page below the stack, in its region, becomes part of it.
LEMMA GrowAll ==
  ASSUME AllInv, MemInv', NEW t \in Live, NEW page \in Pages, pt[task[t].dir][page] = NONE,
         grow_user_stack(t, page)
  PROVE  StackInv' /\ TornInv' /\ UseInv'
<1> DEFINE r == task[t].stack  q == task'[t].stack
<1>0. MemInv /\ StackInv /\ TornInv /\ UseInv BY DEF AllInv
<1>m. PICK m \in Masters : m = task[t].dir BY <1>0, DirIsMaster, Zenon DEF MemInv
<1>1. /\ m \in Tasks /\ t \in Tasks /\ Live \subseteq Tasks /\ page \in Int
      /\ \A u \in Live : task[u].dir \in Tasks
  BY <1>0, DirIsMaster, PagesAreInt, Zenon DEF MemInv, Masters, Live
<1>2. PICK s : MapsPage(m, page, s) BY <1>m, Zenon DEF grow_user_stack, MapsPage
<1>3. /\ task' = [task EXCEPT ![t].stack.ptr = page, ![t].stack.frames = @ + 1]
      /\ freequeue' = freequeue /\ lost' = lost /\ torn' = torn
  BY DEF grow_user_stack
<1>4. /\ \A u \in Tasks \ {t} : task'[u] = task[u]
      /\ task'[t].dir = m /\ task'[t].master = task[t].master /\ task'[t].aux = task[t].aux
      /\ q.start = r.start /\ q.pages = r.pages /\ q.ptr = page /\ q.frames = r.frames + 1
  BY <1>0, <1>1, <1>m, <1>3 DEF MemInv, Typed, TaskStruct
<1>5. Live' = Live BY <1>3 DEF Live, Free
<1>6. Masters' = Masters BY <1>1, <1>4, <1>5 DEF Masters, Master
<1>7. /\ r.pages # 0 /\ page >= r.start /\ page = r.ptr - 1 /\ r.frames > 0
      /\ r.ptr \in Int /\ r.frames \in Int /\ r.start \in Int
  <2>1. r.ptr \in Int /\ r.frames \in Int /\ r.start \in Int /\ r.pages \in Int
    BY <1>0, <1>1, Zenon DEF MemInv, Typed, TaskStruct
  <2>2. CanGrow(t, page) BY DEF grow_user_stack
  <2>3. r.pages # 0 /\ page >= r.start /\ page = r.ptr - 1 BY <2>1, <2>2, CanGrowAt, Zenon
  <2>4. r.frames > 0 BY <1>0, <2>3, Zenon DEF MemInv, StacksInPlace, StackInPlace
  <2> QED BY <2>1, <2>3, <2>4, Zenon
<1>8. StackTop(r) BY <1>0, <1>7, Zenon DEF StackInv
<1>9. StackPages(t)' = StackPages(t) \cup {page}
  <2>1. StackPages(t)' = page..(page + (r.frames + 1) - 1) BY <1>4, Zenon DEF StackPages
  <2>2. StackPages(t) = r.ptr..(r.ptr + r.frames - 1) BY Zenon DEF StackPages
  <2> HIDE DEF r
  <2>3. page..(page + (r.frames + 1) - 1) = (r.ptr..(r.ptr + r.frames - 1)) \cup {page}
    BY <1>7, OneMorePage
  <2> QED BY <2>1, <2>2, <2>3, Zenon
<1>10. r.start >= THREAD_STACK_BASE_PAGE /\ page >= THREAD_STACK_BASE_PAGE /\ page < FORK_TEMP_MAPPING_PAGE
  <2> HIDE DEF r
  <2> QED BY <1>1, <1>7, <1>8, BelowStack, Zenon
<1>11. /\ \A d \in Tasks : \A p \in Pages :
            pt'[d][p] = IF d = m /\ p = page THEN s[1] ELSE pt[d][p]
       /\ s[1] # NONE
  <2> HIDE DEF r, q
  <2>1. DOMAIN pt = Tasks /\ m \in Tasks BY <1>0, <1>1, Zenon DEF MemInv, Typed
  <2> QED BY <1>2, <2>1, OnePageTable
<1> HIDE DEF r, q
<1>12. StackInv'
  <2>1. KeepsStacks(t)
    <3> SUFFICES ASSUME NEW u \in Live', u # t
                 PROVE  /\ u \in Live /\ task'[u].stack = task[u].stack
                        /\ task'[u].dir = task[u].dir
                        /\ \A p \in StackPages(u) : pt'[task[u].dir][p] # NONE
      BY Zenon DEF KeepsStacks
    <3>1. u \in Live /\ task'[u] = task[u] /\ task[u].dir \in Tasks BY <1>1, <1>4, <1>5, Zenon
    <3>2. ASSUME NEW p \in StackPages(u) PROVE pt'[task[u].dir][p] # NONE
      <4>1. p \in Pages /\ pt[task[u].dir][p] # NONE BY <1>0, <3>1, StackPlaces, Zenon
      <4> QED BY <1>11, <3>1, <4>1, Zenon
    <3> QED BY <3>1, <3>2, Zenon
  <2>2. GivesStack(t)
    <3>1. StackTop(task'[t].stack)
      <4>1. /\ r.ptr + r.frames = r.start + THREAD_STACK_REGION_PAGES
            /\ \E k \in 0..(NR_TASKS - 1) : r.start = RegionAt(k)
        BY <1>8, Zenon DEF StackTop
      <4>2. q.ptr + q.frames = q.start + THREAD_STACK_REGION_PAGES /\ q.ptr >= q.start
        BY <1>1, <1>4, <1>7, <4>1
      <4> QED BY <1>4, <1>7, <4>1, <4>2, Zenon DEF StackTop, q
    <3>2. ASSUME NEW p \in StackPages(t)' PROVE pt'[task'[t].dir][p] # NONE
      <4>1. CASE p = page BY <1>1, <1>4, <1>11, <4>1, Zenon
      <4>2. CASE p \in StackPages(t)
        <5>1. p \in Pages /\ pt[m][p] # NONE BY <1>0, <1>m, <4>2, StackPlaces, Zenon
        <5> QED BY <1>1, <1>4, <1>11, <5>1
      <4> QED BY <1>9, <4>1, <4>2, Zenon
    <3>3. ASSUME NEW u \in Live \ {t}, task[u].dir = task'[t].dir, task[u].stack.frames > 0
          PROVE  task[u].stack.start # task'[t].stack.start
      <4>1. task[u].dir = task[t].dir /\ task[t].stack.frames > 0
        BY <1>m, <1>4, <1>7, <3>3, Zenon DEF r
      <4>2. task[u].stack.start # task[t].stack.start BY <1>0, <3>3, <4>1, Zenon DEF StackInv
      <4>3. task'[t].stack.start = task[t].stack.start BY <1>4, Zenon DEF q, r
      <4> QED BY <4>2, <4>3
    <3>4. task'[t].stack.frames > 0
      <4>1. q.frames > 0 BY <1>4, <1>7
      <4> QED BY <4>1 DEF q
    <3> QED BY <3>1, <3>2, <3>3, <3>4, Zenon DEF GivesStack
  <2> QED BY <1>0, <2>1, <2>2, StackStep
<1>13. TornInv'
  <2>1. \A u \in Live : task'[u].dir = task[u].dir /\ task'[u].aux = task[u].aux
                        /\ task[u].dir \in Tasks
    BY <1>1, <1>m, <1>4, Zenon
  <2>2. page # KBD_AUX_STACK_PAGE BY <1>1, <1>10, Ends
  <2>3. \A u \in Live : pt'[task[u].dir][KBD_AUX_STACK_PAGE] = pt[task[u].dir][KBD_AUX_STACK_PAGE]
    BY <1>11, <2>1, <2>2, Layout, Zenon
  <2>4. \A u \in torn' : u \in Live' /\ task'[u].aux BY <1>0, <1>3, <1>5, <2>1, Zenon DEF TornInv
  <2>5. ASSUME NEW u \in Live', task'[u].aux
        PROVE  pt'[task'[u].dir][KBD_AUX_STACK_PAGE] # NONE <=> u \notin torn'
    <3>1. u \in Live /\ task[u].aux /\ task'[u].dir = task[u].dir BY <1>5, <2>1, <2>5, Zenon
    <3>2. pt[task[u].dir][KBD_AUX_STACK_PAGE] # NONE <=> u \notin torn
      BY <1>0, <3>1, Zenon DEF TornInv, HandlerHasItsStack, get_PT
    <3> QED BY <1>3, <2>3, <3>1, <3>2
  <2> QED BY <2>4, <2>5, Zenon DEF TornInv, HandlerHasItsStack, get_PT
<1>14. UseInv'
  <2>1. \A u \in Live : task'[u].dir = task[u].dir /\ StackPages(u) \subseteq StackPages(u)'
    <3> SUFFICES ASSUME NEW u \in Live
                 PROVE  task'[u].dir = task[u].dir /\ StackPages(u) \subseteq StackPages(u)'
      OBVIOUS
    <3>1. CASE u = t BY <1>m, <1>4, <1>9, <3>1, Zenon
    <3>2. CASE u # t BY <1>1, <1>4, <3>2, Zenon DEF StackPages
    <3> QED BY <3>1, <3>2
  <2>2. Uses(m, page)' BY <1>4, <1>5, <1>9, Zenon DEF Uses
  <2>3. pt[m][page] = NONE BY <1>m
  <2>4. lost \subseteq lost' BY <1>3
  <2> QED BY <1>2, <1>5, <1>6, <1>10, <2>1, <2>2, <2>3, <2>4, OnePageUse, Zenon
<1> QED BY <1>12, <1>13, <1>14

\* sys_keyboard_event, on and off: only the task's own aux changes, and what is mapped
\* on the auxiliary stack page of its process.
LEMMA KeyboardFrame ==
  ASSUME MemInv, StackInv, NEW t \in Live, NEW b \in BOOLEAN, task' = [task EXCEPT ![t].aux = b],
         freequeue' = freequeue,
         \A d \in Tasks : \A p \in Pages \ {KBD_AUX_STACK_PAGE} : pt'[d][p] = pt[d][p]
  PROVE  /\ StackInv' /\ Live' = Live /\ Masters' = Masters
         /\ \A u \in Live : /\ task'[u].dir = task[u].dir /\ StackPages(u) = StackPages(u)'
                            /\ task'[u].aux = (IF u = t THEN b ELSE task[u].aux)
<1>1. Live' = Live BY DEF Live, Free
<1>2. \A u \in Live : /\ task'[u].dir = task[u].dir /\ task'[u].master = task[u].master
                      /\ task'[u].stack = task[u].stack
                      /\ task'[u].aux = (IF u = t THEN b ELSE task[u].aux)
  BY DEF MemInv, Typed, TaskStruct, Live
<1>3. Masters' = Masters BY <1>1, <1>2 DEF Masters, Master
<1>4. \A u \in Live : StackPages(u) = StackPages(u)' BY <1>2 DEF StackPages
<1>5. KeepsStacks(0)
  <2> SUFFICES ASSUME NEW u \in Live', NEW p \in StackPages(u) PROVE pt'[task[u].dir][p] # NONE
    BY <1>1, <1>2, Zenon DEF KeepsStacks
  <2>1. p \in Pages /\ p < FORK_TEMP_MAPPING_PAGE /\ pt[task[u].dir][p] # NONE
    BY <1>1, StackPlaces
  <2>2. p # KBD_AUX_STACK_PAGE BY <2>1, Ends
  <2>3. task[u].dir \in Tasks BY <1>1, DirIsMaster DEF MemInv
  <2> QED BY <2>1, <2>2, <2>3
<1>6. GivesStack(0)
  <2>1. 0 \notin Tasks BY Sizes DEF Tasks
  <2> QED BY <1>1, <2>1 DEF GivesStack, Live
<1>7. StackInv' BY <1>5, <1>6, StackStep
<1> QED BY <1>1, <1>2, <1>3, <1>4, <1>7

\* setup_kbd_aux_stack: every handler of the process has its stack again.
LEMMA KeyboardOnAll ==
  ASSUME AllInv, MemInv', NEW t \in Live, KeyboardOn(t)
  PROVE  StackInv' /\ TornInv' /\ UseInv'
<1>0. MemInv /\ StackInv /\ TornInv /\ UseInv BY DEF AllInv
<1>m. PICK m \in Masters : m = task[t].dir BY <1>0, DirIsMaster DEF MemInv
<1>1. /\ m \in Tasks /\ t \in Tasks /\ KBD_AUX_STACK_PAGE \in Pages
      /\ KBD_AUX_STACK_PAGE >= THREAD_STACK_BASE_PAGE /\ \A u \in Live : task[u].dir \in Tasks
  BY <1>0, DirIsMaster, Layout, Zenon DEF MemInv, Masters, Live
<1>2. PICK s : MapsPage(m, KBD_AUX_STACK_PAGE, s) BY <1>m, Zenon DEF KeyboardOn, MapsPage
<1>3. /\ task' = [task EXCEPT ![t].aux = TRUE] /\ freequeue' = freequeue /\ ~task[t].aux
      /\ lost' = lost \cup MappedOn(t, {KBD_AUX_STACK_PAGE}) /\ torn' = torn \ Listeners(t)
  BY DEF KeyboardOn
<1>4. /\ \A d \in Tasks : \A p \in Pages :
           pt'[d][p] = IF d = m /\ p = KBD_AUX_STACK_PAGE THEN s[1] ELSE pt[d][p]
      /\ s[1] # NONE
  <2>1. DOMAIN pt = Tasks /\ m \in Tasks /\ KBD_AUX_STACK_PAGE \in Pages
    BY <1>0, <1>1, Zenon DEF MemInv, Typed
  <2> QED BY <1>2, <2>1, OnePageTable
<1>5. /\ StackInv' /\ Live' = Live /\ Masters' = Masters
      /\ \A u \in Live : /\ task'[u].dir = task[u].dir /\ StackPages(u) = StackPages(u)'
                         /\ task'[u].aux = (IF u = t THEN TRUE ELSE task[u].aux)
  <2>1. \A d \in Tasks : \A p \in Pages \ {KBD_AUX_STACK_PAGE} : pt'[d][p] = pt[d][p] BY <1>4
  <2>2. TRUE \in BOOLEAN OBVIOUS
  <2> QED BY <1>0, <1>3, <2>1, <2>2, KeyboardFrame, Zenon
<1>6. TornInv'
  <2>1. \A u \in torn' : u \in Live' /\ task'[u].aux BY <1>0, <1>3, <1>5 DEF TornInv
  <2>2. ASSUME NEW u \in Live', task'[u].aux
        PROVE  pt'[task'[u].dir][KBD_AUX_STACK_PAGE] # NONE <=> u \notin torn'
    <3>1. u \in Live /\ task'[u].dir = task[u].dir /\ (u # t => task[u].aux) BY <1>5, <2>2, Zenon
    <3>2. CASE task[u].dir = m
      <4>1. u \in Listeners(t) \/ u \notin torn
        BY <1>0, <1>m, <1>3, <3>1, <3>2 DEF Listeners, TornInv
      <4> QED BY <1>1, <1>3, <1>4, <3>1, <3>2, <4>1
    <3>3. CASE task[u].dir # m
      <4>1. u # t /\ u \notin Listeners(t) BY <1>m, <3>3 DEF Listeners
      <4>2. pt'[task[u].dir][KBD_AUX_STACK_PAGE] = pt[task[u].dir][KBD_AUX_STACK_PAGE]
        BY <1>1, <1>4, <3>1, <3>3
      <4> QED BY <1>0, <1>3, <3>1, <4>1, <4>2 DEF TornInv, HandlerHasItsStack, get_PT
    <3> QED BY <3>2, <3>3
  <2> QED BY <2>1, <2>2 DEF TornInv, HandlerHasItsStack, get_PT
<1>7. UseInv'
  <2>1. Uses(m, KBD_AUX_STACK_PAGE)' BY DEF Uses
  <2>2. pt[m][KBD_AUX_STACK_PAGE] # NONE => pt[m][KBD_AUX_STACK_PAGE] \in lost'
    BY <1>m, <1>3 DEF MappedOn, get_PT
  <2>3. lost \subseteq lost' BY <1>3
  <2>4. \A u \in Live : task'[u].dir = task[u].dir /\ StackPages(u) \subseteq StackPages(u)'
    BY <1>5, Zenon
  <2>5. Live' = Live /\ Masters' = Masters BY <1>5, Zenon
  <2> QED BY <1>1, <1>2, <2>1, <2>2, <2>3, <2>4, <2>5, OnePageUse, Zenon
<1> QED BY <1>5, <1>6, <1>7

\* free_kbd_aux_stack: the other handlers of the process are torn from the stack.
LEMMA KeyboardOffAll ==
  ASSUME AllInv, MemInv', NEW t \in Live, KeyboardOff(t)
  PROVE  StackInv' /\ TornInv' /\ UseInv'
<1> DEFINE A == KBD_AUX_STACK_PAGE
<1>0. MemInv /\ StackInv /\ TornInv /\ UseInv BY DEF AllInv
<1>m. PICK m \in Masters : m = task[t].dir BY <1>0, DirIsMaster DEF MemInv
<1>1. /\ m \in Tasks /\ t \in Tasks /\ Masters \subseteq Tasks /\ A \in Pages /\ A \in Int
      /\ {A} \subseteq PrivatePages /\ A \notin CodePages /\ \A u \in Live : task[u].dir \in Tasks
  BY <1>0, DirIsMaster, Layout, PagesAreInt, Zenon DEF MemInv, Masters, Live, PrivatePages
<1>2. /\ task' = [task EXCEPT ![t].aux = FALSE] /\ freequeue' = freequeue /\ task[t].aux
      /\ lost' = lost \cap phys_mem' /\ torn' = (torn \cup Listeners(t)) \ {t}
  BY DEF KeyboardOff
<1>3. \A d \in Tasks : \A p \in Pages :
        pt'[d][p] = IF d = m /\ p = A THEN NONE ELSE pt[d][p]
  <2> SUFFICES ASSUME NEW d \in Tasks, NEW p \in Pages
               PROVE  pt'[d][p] = IF d = m /\ p = A THEN NONE ELSE pt[d][p]
    OBVIOUS
  <2>1. pt' = [pt EXCEPT ![m] = del_ss_pag(@, A, 1)] BY <1>m DEF KeyboardOff
  <2>2. p \in A..(A + 1 - 1) <=> p = A BY <1>1, PagesAreInt
  <2>3. del_ss_pag(pt[m], A, 1)[p] = IF p = A THEN NONE ELSE pt[m][p] BY <2>2, DelPage
  <2>4. CASE d = m BY <1>0, <1>1, <2>1, <2>3, <2>4 DEF MemInv, Typed
  <2>5. CASE d # m BY <1>0, <1>1, <2>1, <2>5 DEF MemInv, Typed
  <2> QED BY <2>4, <2>5
<1>4. /\ NUM_PAG_KERNEL \in phys_mem' /\ phys_mem' \subseteq phys_mem
      /\ pt[m][A] # NONE => pt[m][A] \notin phys_mem'
  <2>1. phys_mem' = free_frame(phys_mem, {get_frame(pt[m], A)}) BY <1>m DEF KeyboardOff, get_PT
  <2>2. {get_frame(pt[m], A)} = FramesOn(pt[m], {A}) BY DEF FramesOn
  <2>3. A \in {A} OBVIOUS
  <2> HIDE DEF A
  <2> QED BY <1>1, <2>1, <2>2, <2>3, Freed, ZenonT(40)
<1>5. /\ StackInv' /\ Live' = Live /\ Masters' = Masters
      /\ \A u \in Live : /\ task'[u].dir = task[u].dir /\ StackPages(u) = StackPages(u)'
                         /\ task'[u].aux = (IF u = t THEN FALSE ELSE task[u].aux)
  <2>1. \A d \in Tasks : \A p \in Pages \ {KBD_AUX_STACK_PAGE} : pt'[d][p] = pt[d][p] BY <1>3
  <2>2. FALSE \in BOOLEAN OBVIOUS
  <2> QED BY <1>0, <1>2, <2>1, <2>2, KeyboardFrame, Zenon
<1>6. TornInv'
  <2>1. \A u \in torn' : u \in Live' /\ task'[u].aux
    BY <1>0, <1>2, <1>5 DEF TornInv, Listeners
  <2>2. ASSUME NEW u \in Live', task'[u].aux
        PROVE  pt'[task'[u].dir][A] # NONE <=> u \notin torn'
    <3>1. u \in Live /\ task'[u].dir = task[u].dir /\ u # t /\ task[u].aux BY <1>5, <2>2, Zenon
    <3>2. CASE task[u].dir = m
      <4>1. u \in Listeners(t) BY <1>m, <3>1, <3>2 DEF Listeners
      <4> QED BY <1>1, <1>2, <1>3, <3>1, <3>2, <4>1
    <3>3. CASE task[u].dir # m
      <4>1. u \notin Listeners(t) BY <1>m, <3>3 DEF Listeners
      <4>2. pt'[task[u].dir][A] = pt[task[u].dir][A] BY <1>1, <1>3, <3>1, <3>3
      <4> QED BY <1>0, <1>2, <3>1, <4>1, <4>2 DEF TornInv, HandlerHasItsStack, get_PT
    <3> QED BY <3>2, <3>3
  <2> QED BY <2>1, <2>2 DEF TornInv, HandlerHasItsStack, get_PT
<1> HIDE DEF A
<1>7. ASSUME NEW d \in Tasks, NEW p \in PrivatePages PROVE SoundEntry(d, p)
  <2>0. p \in Pages BY DEF PrivatePages
  <2>1. CASE d = m /\ p = A
    <3>1. pt'[d][p] = NONE BY <1>3, <2>0, <2>1
    <3> QED BY <3>1, Zenon DEF SoundEntry
  <2>2. CASE ~(d = m /\ p = A)
    <3>1. pt'[d][p] = pt[d][p] BY <1>3, <2>0, <2>2
    <3>2. Uses(d, p) => Uses(d, p)' BY <1>5, UsesKept, Zenon
    <3> QED BY <1>5, <3>1, <3>2, Zenon DEF SoundEntry
  <2> QED BY <2>1, <2>2
<1>8. SoundFrames
  <2>1. ASSUME NEW d \in Masters, NEW p \in PrivatePages, pt[d][p] # NONE, pt[d][p] \in phys_mem'
        PROVE  d \in Masters' /\ pt'[d][p] = pt[d][p]
    <3>1. p \in Pages /\ d \in Tasks BY <1>1 DEF PrivatePages
    <3>2. ~(d = m /\ p = A) BY <1>4, <2>1
    <3> QED BY <1>3, <1>5, <3>1, <3>2, Zenon
  <2>2. lost \cap phys_mem' \subseteq lost' /\ phys_mem' \ phys_mem = {} BY <1>2, <1>4
  <2> QED BY <1>4, <2>1, <2>2, Zenon DEF SoundFrames
<1>9. SoundCode
  <2> SUFFICES ASSUME NEW p \in CodePages, NEW d \in Masters' \cup {1} PROVE pt'[d][p] = pt[1][p]
    BY Zenon DEF SoundCode
  <2>1. p \in Pages /\ p # A BY <1>1, CodeBelow
  <2>2. d \in Tasks BY <1>1, <1>5, FirstTask
  <2>3. pt[d][p] = pt[1][p] BY <1>0, <1>5, Zenon DEF UseInv
  <2> QED BY <1>3, <2>1, <2>2, <2>3
<1>10. UseInv' BY <1>7, <1>8, <1>9, UseStep, Zenon
<1> QED BY <1>5, <1>6, <1>10

-----------------------------------------------------------------------------
(* The theorems *)

\* Every step keeps the invariant.
LEMMA AllInvStep == Counting /\ AllInv /\ [Next]_vars => AllInv'
<1> SUFFICES ASSUME Counting, AllInv, [Next]_vars PROVE AllInv' OBVIOUS
<1>1. MemInv' BY MemInvStep DEF AllInv
<1>2. CASE UNCHANGED vars
  <2>1. UNCHANGED <<phys_mem, pt, task, freequeue, lost, torn>> BY <1>2 DEF vars
  <2>2. Live' = Live BY <2>1 DEF Live, Free
  <2> QED BY <1>1, <2>1, <2>2, SameInv DEF AllInv
<1>3. ASSUME NEW t \in Live, sys_fork(t) PROVE AllInv'
  BY <1>1, <1>3, ForkNoDataAll, ForkNoStackAll, ForkWithStackAll, Zenon
     DEF sys_fork, AllInv
<1>4. ASSUME NEW t \in Live, sys_create_thread(t) PROVE AllInv'
  BY <1>1, <1>4, CreateThreadAll, Zenon DEF AllInv
<1>5. ASSUME NEW t \in Live, sys_exit_thread(t) PROVE AllInv'
  BY <1>1, <1>5, ExitThreadAll, Zenon DEF AllInv
<1>6. ASSUME NEW t \in Live, sys_exit(t) PROVE AllInv'
  BY <1>1, <1>6, ExitAll, Zenon DEF AllInv, sys_exit
<1>7. ASSUME NEW t \in Live, KeyboardOn(t) PROVE AllInv'
  BY <1>1, <1>7, KeyboardOnAll, Zenon DEF AllInv
<1>8. ASSUME NEW t \in Live, KeyboardOff(t) PROVE AllInv'
  BY <1>1, <1>8, KeyboardOffAll, Zenon DEF AllInv
<1>9. ASSUME NEW t \in Live, pageFault_routine(t) PROVE AllInv'
  <2>1. CASE Master(t) /\ ExitEffect(t) BY <1>1, <2>1, ExitAll, Zenon DEF AllInv
  <2>2. ASSUME NEW page \in Pages, pt[task[t].dir][page] = NONE, grow_user_stack(t, page)
        PROVE  AllInv'
    BY <1>1, <2>2, GrowAll, Zenon DEF AllInv
  <2> QED BY <1>9, <2>1, <2>2, Zenon DEF pageFault_routine, get_PT
<1> QED BY <1>2, <1>3, <1>4, <1>5, <1>6, <1>7, <1>8, <1>9 DEF Next

\* Stacks in regions of their own do not overlap.
LEMMA RegionsApart ==
  ASSUME AllInv
  PROVE  StacksApart
<1> SUFFICES ASSUME NEW t \in Live
             PROVE  LET r == task[t].stack IN
                    /\ r.frames > 0
                    /\ r.ptr + r.frames = r.start + r.pages /\ r.ptr >= r.start
                    /\ \A p \in StackPages(t) : get_PT(t)[p] # NONE
                    /\ \A u \in Live \ {t} :
                         task[u].dir = task[t].dir => ~stack_region_overlaps(u, r.start, r.pages)
  BY Zenon DEF StacksApart
<1> DEFINE r == task[t].stack
<1>0. MemInv /\ StackInv BY DEF AllInv
<1>1. /\ r.frames > 0 /\ StackTop(r) /\ \A p \in StackPages(t) : pt[task[t].dir][p] # NONE
  BY <1>0, Zenon DEF StackInv
<1>2. r.pages = THREAD_STACK_REGION_PAGES
  BY <1>0, <1>1, Zenon DEF StackTop, MemInv, StacksInPlace, StackInPlace
<1>3. ASSUME NEW u \in Live \ {t}, task[u].dir = task[t].dir,
             stack_region_overlaps(u, r.start, r.pages)
      PROVE  FALSE
  <2>1. PICK k \in 0..(NR_TASKS - 1) : r.start = RegionAt(k) BY <1>1 DEF StackTop
  <2>2. task[u].stack.start = r.start
    <3>1. k \in Nat OBVIOUS
    <3>2. stack_region_overlaps(u, RegionAt(k), THREAD_STACK_REGION_PAGES)
      BY <1>2, <1>3, <2>1
    <3> QED BY <1>0, <2>1, <3>1, <3>2, Overlaps
  <2>3. task[u].stack.frames > 0
    BY <1>0, <1>3, Zenon DEF MemInv, StacksInPlace, StackInPlace, stack_region_overlaps
  <2> QED BY <1>0, <1>3, <2>2, <2>3, Zenon DEF StackInv
<1> QED BY <1>1, <1>2, <1>3, Zenon DEF StackTop, get_PT

INSTANCE FiniteSetTheorems

\* The counts of alloc_frame and of find_free_stack_region are those of finite sets.
LEMMA FiniteCounts == Counting
<1>1. ASSUME NEW used PROVE Cardinality(FreeFrames(used)) \in Nat
  <2>1. IsFiniteSet(NUM_PAG_KERNEL..(TOTAL_PAGES - 1)) BY Sizes, FS_Interval
  <2>2. FreeFrames(used) \in SUBSET (NUM_PAG_KERNEL..(TOTAL_PAGES - 1))
    BY DEF FreeFrames, AllocCandidates
  <2>3. IsFiniteSet(FreeFrames(used)) BY <2>1, <2>2, FS_Subset, Zenon
  <2> QED BY <2>3, FS_CardinalityType
<1>2. ASSUME NEW L \in SUBSET Tasks, L # Tasks, NEW f \in [0..(NR_TASKS - 1) -> L]
      PROVE  \E x, y \in 0..(NR_TASKS - 1) : x # y /\ f[x] = f[y]
  <2> DEFINE K == 0..(NR_TASKS - 1)
  <2>1. IsFiniteSet(K) /\ Cardinality(K) = NR_TASKS BY Sizes, FS_Interval
  <2>2. IsFiniteSet(Tasks) /\ Cardinality(Tasks) = NR_TASKS BY Sizes, FS_Interval DEF Tasks
  <2>3. /\ IsFiniteSet(L) /\ Cardinality(L) <= Cardinality(Tasks)
        /\ Cardinality(L) # Cardinality(Tasks)
    BY <1>2, <2>2, FS_Subset
  <2>4. Cardinality(L) \in Nat BY <2>3, FS_CardinalityType
  <2>5. Cardinality(L) < Cardinality(K) BY <2>1, <2>2, <2>3, <2>4, Sizes
  <2> HIDE DEF K
  <2> QED BY <1>2, <2>1, <2>3, <2>5, FS_PigeonHole, Zenon DEF K
<1> QED BY <1>1, <1>2 DEF Counting

\* The inductive invariant of the stacks, the handlers and the frames, through every
\* system call, key and page fault.
THEOREM AllInvariant == Spec => []AllInv
<1>1. AllInv /\ [Next]_vars => AllInv' BY FiniteCounts, AllInvStep
<1> QED BY <1>1, InitAll, PTL DEF Spec

\* Every task has a stack, and the threads of a process never run into each other's
\* stacks, in whatever order they are created, grow and exit: init_task1, find_free_stack_region, the region that fork gives its
\* child and grow_user_stack keep to regions of their own.
THEOREM StacksStayApart == Spec => []StacksApart
<1>1. AllInv => StacksApart BY RegionsApart
<1> QED BY <1>1, AllInvariant, PTL

\* A task with a keyboard handler has its auxiliary stack mapped, or a fork or another
\* thread of its process has unmapped it since.
THEOREM HandlersHaveTheirStack == Spec => []HandlerHasItsStack
<1>1. AllInv => HandlerHasItsStack BY DEF AllInv, TornInv
<1> QED BY <1>1, AllInvariant, PTL

\* Every exit leaves the frames of its master's stack behind, and fork, exit and
\* keyboard_event may leave one of an auxiliary stack; no other frame is ever out of
\* reach: all else that a task held is freed by its exit, by a rollback or by a release.
THEOREM FramesAreNotLost == Spec => []NoFrameLost
<1>1. AllInv => NoFrameLost BY DEF AllInv, UseInv
<1> QED BY <1>1, AllInvariant, PTL
=============================================================================
