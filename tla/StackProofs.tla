----------------------------- MODULE StackProofs ----------------------------
(***************************************************************************)
(* Where the pages and frames of MemoryProofs are used: the stacks of the  *)
(* threads of a process stay apart and mapped, a handler has its auxiliary *)
(* stack unless it was torn from it, and no frame is lost but by the paths *)
(* that Memory names, for every number of tasks, pages and frames.  Here   *)
(* are the invariant, its first state and fork; ThreadProofs has the rest. *)
(*                                                                         *)
(* That a new region is below the temporary pages is a matter of counting: *)
(* the lowest free one comes after at most one for each other task.        *)
(***************************************************************************)
EXTENDS MemoryProofs

RegionAt(k) == THREAD_STACK_BASE_PAGE + k * THREAD_STACK_REGION_PAGES

\* Frames can be counted, and fewer tasks than NR_TASKS cannot have a region each of the
\* first NR_TASKS.  The lemmas take it as a hypothesis; FiniteCounts proves it.
Counting ==
  /\ \A used : Cardinality(FreeFrames(used)) \in Nat
  /\ \A L \in SUBSET Tasks : L # Tasks =>
       \A f \in [0..(NR_TASKS - 1) -> L] :
         \E x, y \in 0..(NR_TASKS - 1) : x # y /\ f[x] = f[y]

\* A stack is mapped at the top of one of the first NR_TASKS regions.
StackTop(r) ==
  /\ r.pages # 0 /\ \E k \in 0..(NR_TASKS - 1) : r.start = RegionAt(k)
  /\ r.ptr + r.frames = r.start + THREAD_STACK_REGION_PAGES /\ r.ptr >= r.start

StackInv ==
  /\ \A t \in Live : /\ task[t].stack.frames > 0 /\ StackTop(task[t].stack)
                     /\ \A p \in StackPages(t) : pt[task[t].dir][p] # NONE
  /\ \A t, u \in Live :
       /\ t # u /\ task[t].dir = task[u].dir
       /\ task[t].stack.frames > 0 /\ task[u].stack.frames > 0
       => task[t].stack.start # task[u].stack.start

\* Who was torn from its auxiliary stack had one.
TornInv == (\A t \in torn : t \in Live /\ task[t].aux) /\ HandlerHasItsStack

\* Some task knows of page p of address space d.
Uses(d, p) ==
  p = KBD_AUX_STACK_PAGE \/ \E t \in Live : task[t].dir = d /\ p \in StackPages(t)

\* Every table, of a free task_struct too, maps what is in use or has been given up;
\* no private page has the first frame after the kernel, which free_frame does not take.
UseInv ==
  /\ NUM_PAG_KERNEL \in phys_mem /\ NONE \notin phys_mem
  /\ \A d \in Tasks : \A p \in PrivatePages \ DataPages :
       pt[d][p] # NONE => pt[d][p] \in lost \/ (d \in Masters /\ Uses(d, p))
  /\ \A d \in Tasks : \A p \in PrivatePages :
       Claimed(pt, Masters, d, p) => pt[d][p] \in (NUM_PAG_KERNEL + 1)..(TOTAL_PAGES - 1)
  /\ \A p \in CodePages : pt[1][p] # NONE /\ \A d \in Masters : pt[d][p] = pt[1][p]
  /\ NoFrameLost

AllInv == MemInv /\ StackInv /\ TornInv /\ UseInv
-----------------------------------------------------------------------------
(* Regions *)

\* The candidates of find_free_stack_region follow each other without overlap.
LEMMA Regions ==
  /\ \A k \in Nat : RegionAt(k) \in Nat /\ RegionAt(k) >= THREAD_STACK_BASE_PAGE
  /\ \A i, j \in Nat : i < j => RegionAt(i) + THREAD_STACK_REGION_PAGES <= RegionAt(j)
<1> DEFINE R == THREAD_STACK_REGION_PAGES
<1>1. R \in Nat /\ THREAD_STACK_BASE_PAGE \in Nat BY Layout
<1> HIDE DEF R
<1>2. \A k \in Nat : k * R \in Nat BY <1>1
<1>3. ASSUME NEW i \in Nat, NEW j \in Nat, i < j PROVE i * R + R <= j * R
  <2>1. PICK d \in Nat : j = i + 1 + d BY <1>3
  <2>2. j * R = i * R + R + d * R BY <1>1, <2>1
  <2>3. i * R \in Nat /\ d * R \in Nat /\ j * R \in Nat BY <1>2
  <2> QED BY <1>1, <2>2, <2>3
<1>4. ASSUME NEW k \in Nat PROVE RegionAt(k) \in Nat /\ RegionAt(k) >= THREAD_STACK_BASE_PAGE
  BY <1>1, <1>2 DEF RegionAt, R
<1>5. ASSUME NEW i \in Nat, NEW j \in Nat, i < j PROVE RegionAt(i) + R <= RegionAt(j)
  <2>1. i * R \in Nat /\ j * R \in Nat /\ i * R + R <= j * R BY <1>2, <1>3, <1>5
  <2>2. RegionAt(i) = THREAD_STACK_BASE_PAGE + i * R /\ RegionAt(j) = THREAD_STACK_BASE_PAGE + j * R
    BY DEF RegionAt, R
  <2> QED BY <1>1, <2>1, <2>2
<1> QED BY <1>4, <1>5 DEF R

\* They are the pages a whole number of regions above the first.
LEMMA RegionNumber ==
  ASSUME NEW p \in Int, p >= THREAD_STACK_BASE_PAGE
  PROVE  (p - THREAD_STACK_BASE_PAGE) % THREAD_STACK_REGION_PAGES = 0
           <=> \E k \in Nat : p = RegionAt(k)
<1> DEFINE R == THREAD_STACK_REGION_PAGES  a == p - THREAD_STACK_BASE_PAGE
<1>1. R \in Nat \ {0} /\ a \in Nat /\ p = THREAD_STACK_BASE_PAGE + a /\ THREAD_STACK_BASE_PAGE \in Nat
  BY Layout, Sizes
<1>2. \A k \in Nat : p = RegionAt(k) <=> a = k * R
  <2> SUFFICES ASSUME NEW k \in Nat PROVE p = RegionAt(k) <=> a = k * R OBVIOUS
  <2>1. k * R \in Nat BY <1>1
  <2> QED BY <1>1, <2>1 DEF RegionAt
<1> HIDE DEF R, a
<1>3. ASSUME a % R = 0 PROVE \E k \in Nat : a = k * R
  <2>1. a = R * (a \div R) + (a % R) /\ a \div R \in Nat BY <1>1
  <2>2. a = (a \div R) * R BY <1>1, <1>3, <2>1
  <2> QED BY <2>1, <2>2
<1>4. ASSUME NEW k \in Nat PROVE (k * R) % R = 0 BY <1>1
<1> QED BY <1>2, <1>3, <1>4 DEF R, a

\* The pages at the end: the temporary pages of fork end with the auxiliary stack,
\* those of ThreadCreate follow it, and NR_TASKS regions fit below them all.
LEMMA Ends ==
  /\ FORK_TEMP_MAPPING_PAGE \in Nat /\ FORK_TEMP_MAPPING_PAGE >= THREAD_STACK_BASE_PAGE
  /\ KBD_AUX_STACK_PAGE = FORK_TEMP_MAPPING_PAGE + NUM_PAG_DATA - 1
  /\ KBD_AUX_STACK_PAGE \in Nat /\ FORK_TEMP_MAPPING_PAGE <= KBD_AUX_STACK_PAGE
  /\ TEMP_STACK_MAPPING_PAGE \in Nat /\ KBD_AUX_STACK_PAGE < TEMP_STACK_MAPPING_PAGE
  /\ TEMP_STACK_MAPPING_PAGE + THREAD_STACK_INITIAL_PAGES < TOTAL_PAGES
  /\ \A k \in 0..(NR_TASKS - 1) : RegionAt(k) + THREAD_STACK_REGION_PAGES <= FORK_TEMP_MAPPING_PAGE
<1>1. NR_TASKS * THREAD_STACK_REGION_PAGES \in Nat BY MemoryConstants
<1>2. PICK n \in Nat : n = NR_TASKS * THREAD_STACK_REGION_PAGES BY <1>1
<1>3. NUM_PAG_KERNEL + NUM_PAG_DATA + NUM_PAG_CODE + n <= TOTAL_PAGES - NUM_PAG_DATA - 2
  BY <1>2, MemoryConstants
<1>4. THREAD_STACK_BASE_PAGE = NUM_PAG_KERNEL + NUM_PAG_DATA + NUM_PAG_CODE
  BY Sizes DEF THREAD_STACK_BASE_PAGE, PAG_LOG_INIT_CODE, PAG_LOG_INIT_DATA
<1>5. /\ FORK_TEMP_MAPPING_PAGE \in Nat
      /\ THREAD_STACK_BASE_PAGE + n <= FORK_TEMP_MAPPING_PAGE
      /\ KBD_AUX_STACK_PAGE = FORK_TEMP_MAPPING_PAGE + NUM_PAG_DATA - 1
      /\ KBD_AUX_STACK_PAGE \in Nat /\ FORK_TEMP_MAPPING_PAGE <= KBD_AUX_STACK_PAGE
  BY <1>3, <1>4, Sizes DEF FORK_TEMP_MAPPING_PAGE, KBD_AUX_STACK_PAGE
<1>6. /\ TEMP_STACK_MAPPING_PAGE \in Nat
      /\ TEMP_STACK_MAPPING_PAGE + THREAD_STACK_INITIAL_PAGES < TOTAL_PAGES
      /\ KBD_AUX_STACK_PAGE < TEMP_STACK_MAPPING_PAGE
  <2>1. THREAD_STACK_INITIAL_PAGES = 1 BY MemoryConstants
  <2>2. KBD_AUX_STACK_PAGE = TOTAL_PAGES - 3 BY DEF KBD_AUX_STACK_PAGE
  <2> QED BY <1>5, <2>1, <2>2, Sizes DEF TEMP_STACK_MAPPING_PAGE
<1>7. RegionAt(NR_TASKS) = THREAD_STACK_BASE_PAGE + n BY <1>2 DEF RegionAt
<1>8. ASSUME NEW k \in 0..(NR_TASKS - 1)
      PROVE  RegionAt(k) + THREAD_STACK_REGION_PAGES <= FORK_TEMP_MAPPING_PAGE
  <2>1. k \in Nat /\ NR_TASKS \in Nat /\ k < NR_TASKS BY Sizes
  <2>2. RegionAt(k) + THREAD_STACK_REGION_PAGES <= RegionAt(NR_TASKS) /\ RegionAt(k) \in Nat
    BY <2>1, Regions
  <2> QED BY <1>4, <1>5, <1>7, <2>2, Sizes
<1>9. FORK_TEMP_MAPPING_PAGE >= THREAD_STACK_BASE_PAGE BY <1>4, <1>5, Sizes
<1> QED BY <1>5, <1>6, <1>8, <1>9

\* Every stack lies within its region, below the temporary pages.
LEMMA StackPlaces ==
  ASSUME MemInv, StackInv, NEW t \in Live, NEW p \in StackPages(t)
  PROVE  /\ p \in Pages /\ p >= THREAD_STACK_BASE_PAGE /\ p < FORK_TEMP_MAPPING_PAGE
         /\ task[t].stack.frames > 0 /\ pt[task[t].dir][p] # NONE
         /\ task[t].stack.start <= p /\ p < task[t].stack.start + THREAD_STACK_REGION_PAGES
         /\ \E k \in 0..(NR_TASKS - 1) : task[t].stack.start = RegionAt(k)
<1> DEFINE r == task[t].stack
<1>1. r.ptr \in Int /\ r.frames \in Int /\ r.start \in Int
  BY DEF MemInv, Typed, TaskStruct, Live
<1>2. p \in Int /\ r.ptr <= p /\ p < r.ptr + r.frames /\ r.frames > 0
  BY <1>1 DEF StackPages
<1>3. StackTop(r) /\ pt[task[t].dir][p] # NONE BY <1>2 DEF StackInv
<1> HIDE DEF r
<1>4. PICK k \in 0..(NR_TASKS - 1) : r.start = RegionAt(k) BY <1>3 DEF StackTop
<1>5. /\ r.start \in Nat /\ r.start >= THREAD_STACK_BASE_PAGE
      /\ r.start + THREAD_STACK_REGION_PAGES <= FORK_TEMP_MAPPING_PAGE
  BY <1>4, Regions, Ends
<1>6. r.start <= p /\ p < r.start + THREAD_STACK_REGION_PAGES
  BY <1>1, <1>2, <1>3, Sizes DEF StackTop
<1>7. p >= THREAD_STACK_BASE_PAGE /\ p < FORK_TEMP_MAPPING_PAGE
  BY <1>2, <1>5, <1>6, Layout, Ends
<1>8. p \in Pages
  <2>1. FORK_TEMP_MAPPING_PAGE <= TOTAL_PAGES - 1 BY Ends, Sizes, <1>2
  <2> QED BY <1>2, <1>7, <2>1, Layout, Ends, Sizes DEF Pages
<1> QED BY <1>2, <1>3, <1>4, <1>6, <1>7, <1>8 DEF r

\* A code page is below the stacks.
LEMMA CodeBelow == \A p \in CodePages : p \in Pages /\ p \in Int /\ p < THREAD_STACK_BASE_PAGE
BY Sizes, Layout DEF CodePages, Pages, THREAD_STACK_BASE_PAGE, PAG_LOG_INIT_CODE, PAG_LOG_INIT_DATA

\* No page of code is among the stacks or after them.
LEMMA CodeNotStack ==
  \A p \in CodePages : \A q \in Pages : q >= THREAD_STACK_BASE_PAGE => p # q
BY CodeBelow, PagesAreInt, Layout

\* The page below a stack, which grow_user_stack maps, is before the pages at the end.
LEMMA BelowStack ==
  ASSUME NEW page \in Int, NEW r, StackTop(r), r.ptr \in Int, r.frames \in Int, r.start \in Int,
         r.frames > 0, page = r.ptr - 1, page >= r.start
  PROVE  /\ r.start >= THREAD_STACK_BASE_PAGE /\ page >= THREAD_STACK_BASE_PAGE
         /\ page < FORK_TEMP_MAPPING_PAGE
<1>1. PICK k \in 0..(NR_TASKS - 1) : r.start = RegionAt(k) BY DEF StackTop
<1>2. k \in Nat /\ RegionAt(k) >= THREAD_STACK_BASE_PAGE
      /\ RegionAt(k) + THREAD_STACK_REGION_PAGES <= FORK_TEMP_MAPPING_PAGE
  BY <1>1, Regions, Ends
<1>3. r.ptr + r.frames = r.start + THREAD_STACK_REGION_PAGES BY DEF StackTop
<1> QED BY <1>1, <1>2, <1>3, Layout, Ends, Sizes

\* The stack with the page below it.
LEMMA OneMorePage ==
  ASSUME NEW ptr \in Int, NEW frames \in Int, frames > 0, NEW page, page = ptr - 1
  PROVE  page..(page + (frames + 1) - 1) = (ptr..(ptr + frames - 1)) \cup {page}
OBVIOUS

\* init is one of the tasks.
LEMMA FirstTask == 1 \in Tasks
BY Sizes DEF Tasks

\* A page lies in one region only.
LEMMA OneRegion ==
  ASSUME NEW i \in Nat, NEW j \in Nat, NEW p \in Int,
         RegionAt(i) <= p, p < RegionAt(i) + THREAD_STACK_REGION_PAGES,
         RegionAt(j) <= p, p < RegionAt(j) + THREAD_STACK_REGION_PAGES
  PROVE  i = j
<1>1. RegionAt(i) \in Nat /\ RegionAt(j) \in Nat BY Regions
<1>2. ~(i < j) BY <1>1, Regions, Sizes
<1>3. ~(j < i) BY <1>1, Regions, Sizes
<1> QED BY <1>2, <1>3

\* The stacks of two threads of a process have no page in common.
LEMMA StacksDisjoint ==
  ASSUME MemInv, StackInv, NEW t \in Live, NEW u \in Live, t # u, task[t].dir = task[u].dir,
         NEW p \in StackPages(t)
  PROVE  p \notin StackPages(u)
<1> SUFFICES ASSUME p \in StackPages(u) PROVE FALSE OBVIOUS
<1> DEFINE a == task[t].stack.start  b == task[u].stack.start
<1>1. /\ a <= p /\ p < a + THREAD_STACK_REGION_PAGES /\ task[t].stack.frames > 0
      /\ b <= p /\ p < b + THREAD_STACK_REGION_PAGES /\ task[u].stack.frames > 0
      /\ \E i \in 0..(NR_TASKS - 1) : a = RegionAt(i)
      /\ \E j \in 0..(NR_TASKS - 1) : b = RegionAt(j)
  BY StackPlaces
<1>2. p \in Int
  <2>1. p \in Pages BY StackPlaces
  <2> QED BY <2>1, PagesAreInt
<1>3. a # b BY <1>1 DEF StackInv
<1> HIDE DEF a, b
<1>4. PICK i \in 0..(NR_TASKS - 1) : a = RegionAt(i) BY <1>1
<1>5. PICK j \in 0..(NR_TASKS - 1) : b = RegionAt(j) BY <1>1
<1>6. i \in Nat /\ j \in Nat BY Sizes
<1>7. i = j BY <1>1, <1>2, <1>4, <1>5, <1>6, OneRegion
<1> QED BY <1>3, <1>4, <1>5, <1>7

\* A region that overlaps the region at number j is that region.
LEMMA Overlaps ==
  ASSUME MemInv, StackInv, NEW t \in Live, NEW j \in Nat,
         stack_region_overlaps(t, RegionAt(j), THREAD_STACK_REGION_PAGES)
  PROVE  task[t].stack.start = RegionAt(j)
<1> DEFINE r == task[t].stack
<1>1. StackInPlace(r) /\ r.pages # 0 /\ r.frames > 0 /\ r.pages = THREAD_STACK_REGION_PAGES
  BY DEF MemInv, StacksInPlace, StackInPlace, stack_region_overlaps
<1>2. /\ RegionAt(j) + THREAD_STACK_REGION_PAGES > r.start
      /\ RegionAt(j) < r.start + THREAD_STACK_REGION_PAGES
  BY <1>1 DEF stack_region_overlaps
<1>3. PICK i \in 0..(NR_TASKS - 1) : r.start = RegionAt(i)
  BY <1>1 DEF StackInv, StackTop
<1> HIDE DEF r
<1>4. i \in Nat /\ RegionAt(i) \in Nat /\ RegionAt(j) \in Nat BY Sizes, Regions
<1>5. ~(i < j) /\ ~(j < i) BY <1>2, <1>3, <1>4, Regions, Sizes
<1>6. i = j BY <1>4, <1>5
<1> QED BY <1>3, <1>6 DEF r

\* While a task_struct is free, one of the first NR_TASKS regions is, and
\* find_free_stack_region returns one of them, which no thread of the process has.
LEMMA FreeRegion ==
  ASSUME Counting, MemInv, StackInv, NEW m \in Masters, freequeue # <<>>,
         NEW start \in find_free_stack_region(m)
  PROVE  /\ \E k \in 0..(NR_TASKS - 1) : start = RegionAt(k)
         /\ \A u \in Live : task[u].dir = m /\ task[u].stack.frames > 0 =>
              task[u].stack.start # start
<1> DEFINE R == THREAD_STACK_REGION_PAGES  Own == {m} \cup Threads(m)
<1>1. /\ start \in FreeRegions(m) /\ \A q \in FreeRegions(m) : start <= q
  BY DEF find_free_stack_region
<1>2. /\ start \in THREAD_STACK_BASE_PAGE..(TOTAL_PAGES - R)
      /\ (start - THREAD_STACK_BASE_PAGE) % R = 0
      /\ \A t \in Own : ~stack_region_overlaps(t, start, R)
  BY <1>1, Zenon DEF FreeRegions, stack_region_in_use
<1>3. start \in Int /\ start >= THREAD_STACK_BASE_PAGE /\ start <= TOTAL_PAGES - R
  BY <1>2, Layout, Sizes
<1>4. PICK k \in Nat : start = RegionAt(k) BY <1>2, <1>3, RegionNumber
<1>5. Own \subseteq Live /\ \A u \in Live : task[u].dir = m => u \in Own
  BY DEF Masters, Threads, MemInv, Families
<1>6. k < NR_TASKS
  <2> SUFFICES ASSUME k >= NR_TASKS PROVE FALSE BY Sizes
  <2> DEFINE K == 0..(NR_TASKS - 1)
             owner == [j \in K |-> CHOOSE t \in Own : stack_region_overlaps(t, RegionAt(j), R)]
  <2>1. ASSUME NEW j \in K PROVE \E t \in Own : stack_region_overlaps(t, RegionAt(j), R)
    <3>1. j \in Nat /\ j < k /\ RegionAt(j) \in Nat /\ RegionAt(j) >= THREAD_STACK_BASE_PAGE
      BY Sizes, Regions
    <3>2. RegionAt(j) + R <= start BY <1>4, <3>1, Regions
    <3>3. RegionAt(j) < start /\ RegionAt(j) <= TOTAL_PAGES - R /\ ~(start <= RegionAt(j))
      BY <1>3, <3>1, <3>2, Sizes
    <3>4. RegionAt(j) \in THREAD_STACK_BASE_PAGE..(TOTAL_PAGES - R)
      BY <3>1, <3>3, Layout, Sizes
    <3>5. (RegionAt(j) - THREAD_STACK_BASE_PAGE) % R = 0 BY <3>1, RegionNumber
    <3>6. RegionAt(j) \notin FreeRegions(m) BY <1>1, <3>3, Zenon
    <3> QED BY <3>4, <3>5, <3>6, Zenon DEF FreeRegions, stack_region_in_use
  <2>2. \A j \in K : owner[j] \in Own /\ stack_region_overlaps(owner[j], RegionAt(j), R)
    <3> SUFFICES ASSUME NEW j \in K
                 PROVE  owner[j] \in Own /\ stack_region_overlaps(owner[j], RegionAt(j), R)
      OBVIOUS
    <3>1. owner[j] = CHOOSE t \in Own : stack_region_overlaps(t, RegionAt(j), R) OBVIOUS
    <3> HIDE DEF owner, Own
    <3> QED BY <2>1, <3>1, Zenon
  <2>3. owner \in [K -> Live]
    <3>1. owner = [j \in K |-> owner[j]] OBVIOUS
    <3> HIDE DEF owner, Own
    <3> QED BY <1>5, <2>2, <3>1
  <2> HIDE DEF owner, Own
  <2>4. Live \in SUBSET Tasks /\ Live # Tasks
    <3>1. m \in Live BY DEF Masters
    <3>2. Head(freequeue) \in Tasks \ Live BY <3>1, DirIsMaster DEF MemInv
    <3> QED BY <3>2 DEF Live
  <2>6. PICK x \in K, y \in K : x # y /\ owner[x] = owner[y] BY <2>3, <2>4, Zenon DEF Counting
  <2>7. x \in Nat /\ y \in Nat OBVIOUS
  <2>8. task[owner[x]].stack.start = RegionAt(x) /\ task[owner[y]].stack.start = RegionAt(y)
    BY <1>5, <2>2, <2>7, Overlaps
  <2>9. RegionAt(x) = RegionAt(y) /\ RegionAt(x) \in Nat BY <2>6, <2>7, <2>8, Regions, Zenon
  <2>10. R \in Nat /\ R > 0 BY Sizes
  <2> HIDE DEF K, R
  <2>11. ~(x < y) BY <2>7, <2>9, <2>10, Regions DEF R
  <2>12. ~(y < x) BY <2>7, <2>9, <2>10, Regions DEF R
  <2> QED BY <2>6, <2>7, <2>11, <2>12
<1>7. ASSUME NEW u \in Live, task[u].dir = m, task[u].stack.frames > 0, task[u].stack.start = start
      PROVE  FALSE
  <2>1. u \in Own BY <1>5, <1>7
  <2>2. task[u].stack.pages # 0 BY <1>7 DEF StackInv, StackTop
  <2>3. task[u].stack.pages = R BY <2>2 DEF MemInv, StacksInPlace, StackInPlace
  <2>4. stack_region_overlaps(u, start, R)
    BY <1>3, <1>7, <2>3, Sizes DEF stack_region_overlaps
  <2> QED BY <1>2, <2>1, <2>4
<1>8. k \in 0..(NR_TASKS - 1) BY <1>6, Sizes
<1> QED BY <1>4, <1>7, <1>8

-----------------------------------------------------------------------------
(* What a step has to respect *)

\* The tasks other than x keep their stacks, and their entries.
KeepsStacks(x) ==
  \A t \in Live' : t # x =>
    /\ t \in Live /\ task'[t].stack = task[t].stack /\ task'[t].dir = task[t].dir
    /\ \A p \in StackPages(t) : pt'[task[t].dir][p] # NONE

\* If x is alive, it has a stack, mapped in a region of its own.
GivesStack(x) ==
  x \in Live' =>
    /\ task'[x].stack.frames > 0 /\ StackTop(task'[x].stack)
    /\ \A p \in StackPages(x)' : pt'[task'[x].dir][p] # NONE
    /\ \A t \in Live \ {x} :
         task[t].dir = task'[x].dir /\ task[t].stack.frames > 0 =>
           task[t].stack.start # task'[x].stack.start

\* Then the stacks stay apart and mapped.
LEMMA StackStep ==
  ASSUME MemInv, StackInv, NEW x, KeepsStacks(x), GivesStack(x)
  PROVE  StackInv'
<1>1. ASSUME NEW t \in Live'
      PROVE  /\ task'[t].stack.frames > 0 /\ StackTop(task'[t].stack)
             /\ \A p \in StackPages(t)' : pt'[task'[t].dir][p] # NONE
  <2>1. CASE t = x BY <2>1, Zenon DEF GivesStack
  <2>2. CASE t # x
    <3>1. /\ t \in Live /\ task'[t].stack = task[t].stack /\ task'[t].dir = task[t].dir
          /\ \A p \in StackPages(t) : pt'[task[t].dir][p] # NONE
      BY <2>2, Zenon DEF KeepsStacks
    <3>2. StackPages(t)' = StackPages(t) BY <3>1 DEF StackPages
    <3>3. task[t].stack.frames > 0 /\ StackTop(task[t].stack) BY <3>1, Zenon DEF StackInv
    <3> QED BY <3>1, <3>2, <3>3, Zenon
  <2> QED BY <2>1, <2>2
<1>2. ASSUME NEW t \in Live', NEW u \in Live', t # u, task'[t].dir = task'[u].dir,
             task'[t].stack.frames > 0, task'[u].stack.frames > 0
      PROVE  task'[t].stack.start # task'[u].stack.start
  <2>1. CASE t # x /\ u # x
    <3>1. /\ t \in Live /\ task'[t].stack = task[t].stack /\ task'[t].dir = task[t].dir
          /\ u \in Live /\ task'[u].stack = task[u].stack /\ task'[u].dir = task[u].dir
      BY <2>1, Zenon DEF KeepsStacks
    <3> QED BY <1>2, <3>1, Zenon DEF StackInv
  <2>2. CASE t = x
    <3>1. u \in Live /\ task'[u].stack = task[u].stack /\ task'[u].dir = task[u].dir
      BY <1>2, <2>2, Zenon DEF KeepsStacks
    <3> QED BY <1>2, <2>2, <3>1 DEF GivesStack
  <2>3. CASE u = x
    <3>1. t \in Live /\ task'[t].stack = task[t].stack /\ task'[t].dir = task[t].dir
      BY <1>2, <2>3, Zenon DEF KeepsStacks
    <3> QED BY <1>2, <2>3, <3>1 DEF GivesStack
  <2> QED BY <2>1, <2>2, <2>3
<1>3. StackInv' = (/\ \A t \in Live' :
                        /\ task'[t].stack.frames > 0 /\ StackTop(task'[t].stack)
                        /\ \A p \in StackPages(t)' : pt'[task'[t].dir][p] # NONE
                   /\ \A t, u \in Live' :
                        /\ t # u /\ task'[t].dir = task'[u].dir
                        /\ task'[t].stack.frames > 0 /\ task'[u].stack.frames > 0
                        => task'[t].stack.start # task'[u].stack.start)
  BY Zenon DEF StackInv, StackTop
<1> QED BY <1>1, <1>2, <1>3, Zenon

\* An entry is what it was, and if it was in use still is or is given up, or it holds
\* a frame that was not in use and is in use now.
SoundEntry(d, p) ==
  pt'[d][p] # NONE =>
    \/ /\ pt'[d][p] = pt[d][p]
       /\ p \in DataPages /\ d \in Masters' => d \in Masters
       /\ p \notin DataPages /\ d \in Masters /\ Uses(d, p) =>
            pt[d][p] \in lost' \/ (d \in Masters' /\ Uses(d, p)')
    \/ /\ d \in Masters' /\ pt'[d][p] \in (NUM_PAG_KERNEL + 1)..(TOTAL_PAGES - 1)
       /\ p \notin DataPages => Uses(d, p)'

\* A used frame stays mapped or is given up, and a frame that becomes used is mapped.
SoundFrames ==
  /\ NUM_PAG_KERNEL \in phys_mem' /\ lost \cap phys_mem' \subseteq lost'
  /\ \A d \in Masters : \A p \in PrivatePages :
       pt[d][p] # NONE /\ pt[d][p] \in phys_mem' =>
         pt[d][p] \in lost' \/ (d \in Masters' /\ pt'[d][p] = pt[d][p])
  /\ \A f \in phys_mem' \ phys_mem :
       f # NONE /\ \E d \in Masters' : \E p \in PrivatePages : pt'[d][p] = f

\* All processes share the code of init.
SoundCode == \A p \in CodePages : \A d \in Masters' \cup {1} : pt'[d][p] = pt[1][p]

\* Then no frame is lost.
LEMMA UseStep ==
  ASSUME AllInv, MemInv', SoundFrames, SoundCode,
         \A d \in Tasks : \A p \in PrivatePages : SoundEntry(d, p)
  PROVE  UseInv'
<1>1. NUM_PAG_KERNEL \in phys_mem' /\ NONE \notin phys_mem'
  BY DEF SoundFrames, AllInv, UseInv
<1>2. ASSUME NEW d \in Tasks, NEW p \in PrivatePages \ DataPages, pt'[d][p] # NONE
      PROVE  pt'[d][p] \in lost' \/ (d \in Masters' /\ Uses(d, p)')
  <2>1. pt'[d][p] \in phys_mem'
    <3>1. Claimed(pt', Masters', d, p) BY <1>2 DEF Claimed
    <3>2. Owned(pt', phys_mem', Masters') BY DEF MemInv
    <3> QED BY <3>1, <3>2, Zenon DEF Owned
  <2>2. SoundEntry(d, p) OBVIOUS
  <2>3. CASE pt'[d][p] = pt[d][p] /\ pt[d][p] \in lost BY <2>1, <2>3 DEF SoundFrames
  <2>4. CASE pt'[d][p] = pt[d][p] /\ pt[d][p] \notin lost
    <3>1. d \in Masters /\ Uses(d, p) BY <1>2, <2>4 DEF AllInv, UseInv
    <3> QED BY <1>2, <2>2, <2>4, <3>1, Zenon DEF SoundEntry
  <2>5. CASE pt'[d][p] # pt[d][p] BY <1>2, <2>2, <2>5, Zenon DEF SoundEntry
  <2> QED BY <2>3, <2>4, <2>5
<1>3. ASSUME NEW d \in Tasks, NEW p \in PrivatePages, Claimed(pt', Masters', d, p)
      PROVE  pt'[d][p] \in (NUM_PAG_KERNEL + 1)..(TOTAL_PAGES - 1)
  <2>1. SoundEntry(d, p) /\ pt'[d][p] # NONE BY <1>3 DEF Claimed
  <2>2. CASE pt'[d][p] = pt[d][p] /\ (p \in DataPages /\ d \in Masters' => d \in Masters)
    <3>1. Claimed(pt, Masters, d, p) BY <1>3, <2>2 DEF Claimed
    <3> QED BY <2>2, <3>1, Zenon DEF AllInv, UseInv
  <2> QED BY <2>1, <2>2, Zenon DEF SoundEntry
<1>4. ASSUME NEW p \in CodePages
      PROVE  pt'[1][p] # NONE /\ \A d \in Masters' : pt'[d][p] = pt'[1][p]
  <2>1. pt[1][p] # NONE BY DEF AllInv, UseInv
  <2> QED BY <2>1, Zenon DEF SoundCode
<1>5. NoFrameLost'
  <2> SUFFICES ASSUME NEW f \in phys_mem', f \notin KernelPages, f \notin lost',
                      \A p \in CodePages : f # pt'[1][p]
               PROVE  \E t \in Live' : \E p \in PrivatePages : f = pt'[task'[t].dir][p]
    BY DEF NoFrameLost, CodeFrames
  <2>1. \A d \in Masters' : d \in Live' /\ task'[d].dir = d
    BY DEF MemInv, Families, Masters, Master
  <2>2. SUFFICES \E d \in Masters' : \E p \in PrivatePages : pt'[d][p] = f
    BY <2>1
  <2>3. CASE f \notin phys_mem BY <2>3 DEF SoundFrames
  <2>4. CASE f \in phys_mem
    <3>1. f \notin lost BY DEF SoundFrames
    <3>2. \A p \in CodePages : f # pt[1][p] BY DEF SoundCode
    <3>3. PICK t \in Live, p \in PrivatePages : f = pt[task[t].dir][p]
      BY <2>4, <3>1, <3>2 DEF AllInv, UseInv, NoFrameLost, CodeFrames
    <3>4. task[t].dir \in Masters BY DirIsMaster DEF AllInv, MemInv
    <3>5. f # NONE BY <1>1
    <3> QED BY <3>3, <3>4, <3>5, Zenon DEF SoundFrames
  <2> QED BY <2>3, <2>4
<1> QED BY <1>1, <1>2, <1>3, <1>4, <1>5 DEF UseInv

\* A new frame is above the first one after the kernel, which is never free.
LEMMA AllocAbove ==
  ASSUME NEW pm, NUM_PAG_KERNEL \in pm
  PROVE  /\ \A f \in FreeFrames(pm) : f \in (NUM_PAG_KERNEL + 1)..(TOTAL_PAGES - 1)
         /\ \A n \in Nat : \A s \in alloc_frame(pm, n) : \A i \in 1..n :
              s[i] \in (NUM_PAG_KERNEL + 1)..(TOTAL_PAGES - 1)
<1>1. ASSUME NEW f \in FreeFrames(pm) PROVE f \in (NUM_PAG_KERNEL + 1)..(TOTAL_PAGES - 1)
  BY Sizes DEF FreeFrames, AllocCandidates
<1> QED BY <1>1 DEF alloc_frame

\* Pages stay in use while their tasks keep their stacks.
LEMMA UsesKept ==
  ASSUME NEW d, NEW p, Uses(d, p),
         \A u \in Live : task[u].dir = d =>
           u \in Live' /\ task'[u].dir = d /\ StackPages(u) \subseteq StackPages(u)'
  PROVE  Uses(d, p)'
BY DEF Uses

\* Who is alive when a task_struct is taken, and when it is given back.
LEMMA QueueLive ==
  ASSUME MemInv, freequeue # <<>>
  PROVE  /\ freequeue' = Rotated => Live' = Live
         /\ freequeue' = Tail(freequeue) => Live' = Live \cup {Head(freequeue)}
         /\ Head(freequeue) \in Tasks \ Live
<1>1. /\ Ran(Append(Tail(freequeue), Head(freequeue))) = Ran(freequeue)
      /\ Head(freequeue) \in Ran(freequeue) /\ Head(freequeue) \in Tasks
      /\ Ran(Tail(freequeue)) = Ran(freequeue) \ {Head(freequeue)}
  BY QueueRotate, QueueTail DEF MemInv, Typed, Families, NoRepeat
<1>2. Free = Ran(freequeue) /\ Free' = Ran(freequeue') BY DEF Free, Ran
<1> QED BY <1>1, <1>2, Zenon DEF Live, Rotated

\* Nothing but the order of the free queue changes.
LEMMA SameInv ==
  ASSUME AllInv, Live' = Live, UNCHANGED <<phys_mem, pt, task, lost, torn>>
  PROVE  StackInv' /\ TornInv' /\ UseInv'
<1>1. StackInv' BY DEF AllInv, StackInv, StackTop, StackPages
<1>2. TornInv' BY DEF AllInv, TornInv, HandlerHasItsStack, get_PT
<1>3. UseInv'
  <2>1. Masters' = Masters BY DEF Masters, Master
  <2>2. ASSUME NEW d, NEW p PROVE Uses(d, p)' = Uses(d, p) BY DEF Uses, StackPages
  <2>3. NoFrameLost' BY DEF AllInv, UseInv, NoFrameLost, CodeFrames
  <2>4. UseInv BY DEF AllInv
  <2> QED BY <2>1, <2>2, <2>3, <2>4 DEF UseInv, Claimed
<1> QED BY <1>1, <1>2, <1>3

-----------------------------------------------------------------------------
(* fork *)

\* What the forks that reach the copy of the data have in common: the parent loses the
\* mappings on P, its temporary pages, and only the child c may become alive.
ForkShape(t, c, P) ==
  LET m == task[t].dir IN
  /\ KBD_AUX_STACK_PAGE \in P /\ \A p \in P : p \in Int /\ p >= FORK_TEMP_MAPPING_PAGE
  /\ \A p \in Pages : pt'[m][p] = IF p \in P THEN NONE ELSE pt[m][p]
  /\ \A e \in Tasks \ {m, c} : pt'[e] = pt[e]
  /\ Forget(t) /\ phys_mem \subseteq phys_mem'
  /\ Live \subseteq Live' /\ Live' \subseteq Live \cup {c}
  /\ \A u \in Live : task'[u] = task[u]
  /\ c \in Live' => task'[c].aux = FALSE
  /\ Masters \subseteq Masters' /\ Masters' \subseteq Masters \cup {c}

\* Every task that was there keeps its stack, a listener of the parent is torn from its
\* auxiliary stack, and the frame of that stack is the only one that the parent had and
\* no longer maps.
LEMMA ForkShapeInv ==
  ASSUME AllInv, NEW t \in Live, freequeue # <<>>, NEW c, c = Head(freequeue), NEW P,
         ForkShape(t, c, P)
  PROVE  /\ KeepsStacks(c) /\ TornInv'
         /\ \A d \in Tasks \ {c} : \A p \in PrivatePages : SoundEntry(d, p)
         /\ NUM_PAG_KERNEL \in phys_mem' /\ lost \cap phys_mem' \subseteq lost'
         /\ \A d \in Masters : \A p \in PrivatePages :
              pt[d][p] # NONE => pt[d][p] \in lost' \/ (d \in Masters' /\ pt'[d][p] = pt[d][p])
         /\ \A p \in CodePages : \A d \in Tasks \ {c} : pt'[d][p] = pt[d][p]
<1> DEFINE m == task[t].dir
<1>0. MemInv /\ StackInv /\ TornInv /\ UseInv BY DEF AllInv
<1>1. /\ m \in Masters /\ m \in Tasks /\ c \in Tasks \ Live /\ c # m /\ c \notin Masters
      /\ \A u \in Live : task[u].dir \in Masters /\ task[u].dir \in Tasks /\ u \in Tasks
  BY <1>0, DirIsMaster DEF MemInv, Masters
<1>2. /\ KBD_AUX_STACK_PAGE \in P /\ \A p \in P : p \in Int /\ p >= FORK_TEMP_MAPPING_PAGE
      /\ \A p \in Pages : pt'[m][p] = IF p \in P THEN NONE ELSE pt[m][p]
      /\ \A e \in Tasks \ {m, c} : pt'[e] = pt[e]
  BY Zenon DEF ForkShape
<1>3. /\ phys_mem \subseteq phys_mem' /\ Live \subseteq Live' /\ Live' \subseteq Live \cup {c}
      /\ \A u \in Live : task'[u] = task[u]
      /\ c \in Live' => task'[c].aux = FALSE
      /\ Masters \subseteq Masters' /\ Masters' \subseteq Masters \cup {c}
  BY Zenon DEF ForkShape
<1>4. /\ lost' = (lost \cup MappedOn(t, {KBD_AUX_STACK_PAGE})) \cap phys_mem'
      /\ torn' = torn \cup Listeners(t)
  BY Zenon DEF ForkShape, Forget
<1> HIDE DEF m
<1>5. ASSUME NEW e \in Tasks \ {c}, NEW p \in Pages
      PROVE  pt'[e][p] = IF e = m /\ p \in P THEN NONE ELSE pt[e][p]
  <2>1. CASE e = m BY <2>1, <1>2, Zenon
  <2>2. CASE e # m BY <2>2, <1>2, Zenon
  <2> QED BY <2>1, <2>2
<1>6. KeepsStacks(c)
  <2> SUFFICES ASSUME NEW u \in Live', u # c
               PROVE  /\ u \in Live /\ task'[u].stack = task[u].stack
                      /\ task'[u].dir = task[u].dir
                      /\ \A p \in StackPages(u) : pt'[task[u].dir][p] # NONE
    BY Zenon DEF KeepsStacks
  <2>1. u \in Live /\ task'[u] = task[u] BY <1>3
  <2>2. ASSUME NEW p \in StackPages(u) PROVE pt'[task[u].dir][p] # NONE
    <3>1. p \in Pages /\ p < FORK_TEMP_MAPPING_PAGE /\ pt[task[u].dir][p] # NONE
      BY <1>0, <2>1, StackPlaces
    <3>2. p \notin P
      <4>1. p \in Int BY <3>1, PagesAreInt
      <4> QED BY <1>2, <3>1, <4>1, Ends
    <3>3. task[u].dir \in Tasks \ {c} BY <1>1, <2>1
    <3> QED BY <1>5, <3>1, <3>2, <3>3
  <2> QED BY <2>1, <2>2
<1>7. TornInv'
  <2>1. \A u \in torn' : u \in Live' /\ task'[u].aux
    BY <1>0, <1>3, <1>4 DEF TornInv, Listeners
  <2>2. ASSUME NEW u \in Live', task'[u].aux
        PROVE  pt'[task'[u].dir][KBD_AUX_STACK_PAGE] # NONE <=> u \notin torn'
    <3>1. u \in Live /\ task'[u] = task[u] /\ u # c BY <1>1, <1>3, <2>2
    <3>2. KBD_AUX_STACK_PAGE \in Pages /\ task[u].dir \in Tasks \ {c} BY <1>1, <3>1, Layout
    <3>3. CASE task[u].dir = m
      <4>1. pt'[m][KBD_AUX_STACK_PAGE] = NONE BY <1>2, <3>2
      <4>2. u \in Listeners(t) BY <2>2, <3>1, <3>3 DEF Listeners, m
      <4> QED BY <1>4, <3>1, <3>3, <4>1, <4>2
    <3>4. CASE task[u].dir # m
      <4>1. pt'[task[u].dir][KBD_AUX_STACK_PAGE] = pt[task[u].dir][KBD_AUX_STACK_PAGE]
        BY <1>5, <3>2, <3>4
      <4>2. u \notin Listeners(t) BY <3>4 DEF Listeners, m
      <4>3. pt[task[u].dir][KBD_AUX_STACK_PAGE] # NONE <=> u \notin torn
        BY <1>0, <2>2, <3>1 DEF TornInv, HandlerHasItsStack, get_PT
      <4> QED BY <1>4, <3>1, <4>1, <4>2, <4>3
    <3> QED BY <3>3, <3>4
  <2> QED BY <2>1, <2>2 DEF TornInv, HandlerHasItsStack, get_PT
<1>8. ASSUME NEW d \in Tasks \ {c}, NEW p \in PrivatePages PROVE SoundEntry(d, p)
  <2>1. p \in Pages BY DEF PrivatePages
  <2>2. pt'[d][p] # NONE => pt'[d][p] = pt[d][p] BY <1>5, <2>1
  <2>3. d \in Masters' => d \in Masters BY <1>3
  <2>4. d \in Masters /\ Uses(d, p) => d \in Masters' /\ Uses(d, p)'
    <3>1. \A u \in Live : u \in Live' /\ task'[u].dir = task[u].dir
                          /\ StackPages(u) \subseteq StackPages(u)'
      BY <1>3 DEF StackPages
    <3> QED BY <1>3, <3>1, UsesKept
  <2> QED BY <2>2, <2>3, <2>4, Zenon DEF SoundEntry
<1>9. NUM_PAG_KERNEL \in phys_mem' /\ lost \cap phys_mem' \subseteq lost'
  BY <1>0, <1>3, <1>4 DEF UseInv
<1>10. ASSUME NEW d \in Masters, NEW p \in PrivatePages, pt[d][p] # NONE
       PROVE  pt[d][p] \in lost' \/ (d \in Masters' /\ pt'[d][p] = pt[d][p])
  <2>1. p \in Pages /\ d \in Tasks \ {c} /\ d \in Masters'
    BY <1>1, <1>3 DEF PrivatePages, Masters, Live
  <2>2. CASE d = m /\ p \in P
    <3>1. p \in Int /\ p >= FORK_TEMP_MAPPING_PAGE BY <1>2, <2>2
    <3>2. p \in PrivatePages \ DataPages
      <4>1. p >= THREAD_STACK_BASE_PAGE BY <3>1, Ends, Layout
      <4> QED BY <2>1, <4>1, Layout
    <3>3. pt[d][p] \in phys_mem BY <1>0, <1>10, <2>1 DEF MemInv, Owned, Claimed
    <3>4. CASE p = KBD_AUX_STACK_PAGE
      <4>1. pt[d][p] \in MappedOn(t, {KBD_AUX_STACK_PAGE})
        BY <1>10, <2>2, <3>4 DEF MappedOn, get_PT, m
      <4> QED BY <1>3, <1>4, <3>3, <4>1
    <3>5. CASE p # KBD_AUX_STACK_PAGE
      <4>1. ASSUME NEW u \in Live PROVE p \notin StackPages(u)
        <5>1. p \in StackPages(u) => p < FORK_TEMP_MAPPING_PAGE BY <1>0, StackPlaces
        <5> QED BY <3>1, <5>1, Ends
      <4>2. ~Uses(d, p) BY <3>5, <4>1, Zenon DEF Uses
      <4>3. pt[d][p] \in lost BY <1>0, <1>10, <2>1, <3>2, <4>2, Zenon DEF UseInv
      <4> QED BY <1>3, <1>4, <3>3, <4>3
    <3> QED BY <3>4, <3>5
  <2>3. CASE ~(d = m /\ p \in P) BY <1>5, <2>1, <2>3
  <2> QED BY <2>2, <2>3
<1>11. ASSUME NEW p \in CodePages, NEW d \in Tasks \ {c} PROVE pt'[d][p] = pt[d][p]
  <2>1. p \in Pages /\ p \in Int /\ p < THREAD_STACK_BASE_PAGE BY CodeBelow
  <2>2. p \notin P BY <1>2, <2>1, Ends, Layout
  <2> QED BY <1>5, <2>1, <2>2
<1> QED BY <1>6, <1>7, <1>8, <1>9, <1>10, <1>11

\* What is left to show of a fork is about the child.
ForkChild(c) ==
  /\ GivesStack(c)
  /\ \A p \in PrivatePages : SoundEntry(c, p)
  /\ \A p \in CodePages : c \in Masters' \cup {1} => pt'[c][p] = pt[1][p]
  /\ \A f \in phys_mem' \ phys_mem :
       f # NONE /\ c \in Masters' /\ \E p \in PrivatePages : pt'[c][p] = f

\* The parent's side of a fork and the child's together.
LEMMA ForkDone ==
  ASSUME AllInv, MemInv', NEW t \in Live, freequeue # <<>>, NEW c, c = Head(freequeue),
         NEW P, ForkShape(t, c, P), ForkChild(c)
  PROVE  StackInv' /\ TornInv' /\ UseInv'
<1>1. MemInv /\ StackInv /\ UseInv BY DEF AllInv
<1>2. /\ GivesStack(c)
      /\ \A p \in PrivatePages : SoundEntry(c, p)
      /\ \A p \in CodePages : c \in Masters' \cup {1} => pt'[c][p] = pt[1][p]
      /\ \A f \in phys_mem' \ phys_mem :
           f # NONE /\ c \in Masters' /\ \E p \in PrivatePages : pt'[c][p] = f
  BY Zenon DEF ForkChild
<1>3. /\ KeepsStacks(c) /\ TornInv'
      /\ \A d \in Tasks \ {c} : \A p \in PrivatePages : SoundEntry(d, p)
      /\ NUM_PAG_KERNEL \in phys_mem' /\ lost \cap phys_mem' \subseteq lost'
      /\ \A d \in Masters : \A p \in PrivatePages :
           pt[d][p] # NONE => pt[d][p] \in lost' \/ (d \in Masters' /\ pt'[d][p] = pt[d][p])
      /\ \A p \in CodePages : \A d \in Tasks \ {c} : pt'[d][p] = pt[d][p]
  BY ForkShapeInv, ZenonT(40)
<1>4. Masters' \subseteq Masters \cup {c} /\ Masters \subseteq Tasks /\ 1 \in Tasks
  <2>1. Masters' \subseteq Masters \cup {c} BY Zenon DEF ForkShape
  <2>2. Masters \subseteq Tasks BY DEF Masters, Live
  <2>3. 1 \in Tasks BY Sizes DEF Tasks
  <2> QED BY <2>1, <2>2, <2>3
<1>5. StackInv' BY <1>1, <1>2, <1>3, StackStep, Zenon
<1>6. SoundCode
  <2> SUFFICES ASSUME NEW p \in CodePages, NEW d \in Masters' \cup {1}
               PROVE  pt'[d][p] = pt[1][p]
    BY Zenon DEF SoundCode
  <2>1. CASE d = c BY <1>2, <2>1
  <2>2. CASE d # c
    <3>1. d \in Masters \/ d = 1 BY <1>4, <2>2
    <3>2. pt'[d][p] = pt[d][p] BY <1>3, <1>4, <2>2, <3>1, Zenon
    <3> QED BY <1>1, <3>1, <3>2, Zenon DEF UseInv
  <2> QED BY <2>1, <2>2
<1>7. SoundFrames
  <2>1. \A f \in phys_mem' \ phys_mem :
          f # NONE /\ \E d \in Masters' : \E p \in PrivatePages : pt'[d][p] = f
    BY <1>2, Zenon
  <2> QED BY <1>3, <2>1, Zenon DEF SoundFrames
<1>8. \A d \in Tasks : \A p \in PrivatePages : SoundEntry(d, p)
  <2> SUFFICES ASSUME NEW d \in Tasks, NEW p \in PrivatePages PROVE SoundEntry(d, p) OBVIOUS
  <2>1. CASE d = c BY <1>2, <2>1, Zenon
  <2>2. CASE d # c BY <1>3, <2>2, Zenon
  <2> QED BY <2>1, <2>2
<1>9. UseInv' BY <1>6, <1>7, <1>8, UseStep, Zenon
<1> QED BY <1>3, <1>5, <1>9

\* sys_fork fills the child's data pages with the new frames, in their order.
LEMMA ChildData ==
  ASSUME NEW p \in DataPages, NEW t, NEW c, NEW d
  PROVE  /\ p \in PrivatePages /\ p - PAG_LOG_INIT_DATA + 1 \in 1..NUM_PAG_DATA
         /\ ChildTable(t, c, d)[p] = d[p - PAG_LOG_INIT_DATA + 1]
<1>1. PAG_LOG_INIT_DATA \in Nat /\ NUM_PAG_DATA \in Nat BY Sizes DEF PAG_LOG_INIT_DATA
<1>2. p \in PrivatePages BY Layout, Zenon
<1>3. p \in Pages /\ p \notin KernelPages \cup CodePages BY <1>2 DEF PrivatePages
<1>4. p - PAG_LOG_INIT_DATA + 1 \in 1..NUM_PAG_DATA BY <1>1 DEF DataPages
<1> QED BY <1>2, <1>3, <1>4 DEF ChildTable

\* Each of the new frames is at one of the child's data pages.
LEMMA ChildHas ==
  ASSUME NEW i \in 1..NUM_PAG_DATA, NEW t, NEW c, NEW d
  PROVE  \E p \in DataPages : ChildTable(t, c, d)[p] = d[i]
<1>1. PAG_LOG_INIT_DATA \in Nat /\ NUM_PAG_DATA \in Nat BY Sizes DEF PAG_LOG_INIT_DATA
<1>2. PICK p \in Int : p = PAG_LOG_INIT_DATA + i - 1 BY <1>1
<1>3. p - PAG_LOG_INIT_DATA + 1 = i BY <1>1, <1>2
<1>4. p \in DataPages BY <1>1, <1>2 DEF DataPages
<1>5. ChildTable(t, c, d)[p] = d[p - PAG_LOG_INIT_DATA + 1] BY <1>4, ChildData, Zenon
<1> QED BY <1>3, <1>4, <1>5, Zenon

\* The child's other private pages are as they were in its table.
LEMMA ChildRest ==
  ASSUME NEW p \in PrivatePages, p \notin DataPages, NEW t, NEW c, NEW d
  PROVE  ChildTable(t, c, d)[p] = pt[c][p]
BY DEF ChildTable, PrivatePages

\* The child shares the code of the first task, as its parent does.
LEMMA ChildCode ==
  ASSUME NEW p \in CodePages, NEW t \in Live, AllInv, NEW c, NEW d
  PROVE  ChildTable(t, c, d)[p] = pt[1][p]
<1>1. p \in Pages BY CodeBelow
<1>2. ChildTable(t, c, d)[p] = get_frame(get_PT(t), p)
  <2>1. p \in KernelPages \cup CodePages /\ p \notin DataPages
    BY Sizes DEF CodePages, DataPages, PAG_LOG_INIT_CODE, PAG_LOG_INIT_DATA
  <2> QED BY <1>1, <2>1 DEF ChildTable
<1>3. task[t].dir \in Masters BY DirIsMaster DEF AllInv, MemInv
<1>4. pt[task[t].dir][p] = pt[1][p] /\ pt[1][p] # NONE BY <1>3 DEF AllInv, UseInv
<1> QED BY <1>2, <1>4 DEF get_frame, get_PT

\* The first n temporary pages of fork.
ForkPages(n) == FORK_TEMP_MAPPING_PAGE..(FORK_TEMP_MAPPING_PAGE + n - 1)

\* The parent's table.
LEMMA ParentEntries ==
  /\ \A t : \A p \in Pages : ParentTable(t)[p] =
       IF p \in ForkPages(NUM_PAG_DATA) THEN NONE ELSE pt[task[t].dir][p]
  /\ KBD_AUX_STACK_PAGE \in ForkPages(NUM_PAG_DATA)
  /\ \A n \in Nat : \A q \in ForkPages(n) : q \in Int /\ q >= FORK_TEMP_MAPPING_PAGE
<1>1. ASSUME NEW t, NEW p \in Pages
      PROVE  ParentTable(t)[p] = IF p \in ForkPages(NUM_PAG_DATA) THEN NONE ELSE pt[task[t].dir][p]
  BY DEF ParentTable, ForkPages, get_PT, del_ss_pag
<1>2. KBD_AUX_STACK_PAGE \in ForkPages(NUM_PAG_DATA) BY Ends, Sizes DEF ForkPages
<1>3. ASSUME NEW n \in Nat, NEW q \in ForkPages(n) PROVE q \in Int /\ q >= FORK_TEMP_MAPPING_PAGE
  BY Ends DEF ForkPages
<1> QED BY <1>1, <1>2, <1>3

\* fork without frames for the data gives back the frames it took.
LEMMA ForkNoDataAll ==
  ASSUME AllInv, NEW t \in Live, freequeue # <<>>, ForkNoData(t)
  PROVE  StackInv' /\ TornInv' /\ UseInv'
<1>1. Live' = Live BY QueueLive DEF AllInv, ForkNoData
<1>2. \A f \in FreeFrames(phys_mem) : f > NUM_PAG_KERNEL /\ f < TOTAL_PAGES
  <2>1. \A f \in FreeFrames(phys_mem) : f \in (NUM_PAG_KERNEL + 1)..(TOTAL_PAGES - 1)
    BY AllocAbove DEF AllInv, UseInv
  <2> QED BY <2>1, Sizes
<1>3. phys_mem' = phys_mem
  <2>1. phys_mem' = free_frame(phys_mem \cup FreeFrames(phys_mem), FreeFrames(phys_mem))
    BY DEF ForkNoData
  <2>2. FreeFrames(phys_mem) \cap phys_mem = {} BY DEF FreeFrames
  <2> HIDE DEF FreeFrames
  <2> QED BY <1>2, <2>1, <2>2 DEF free_frame
<1> QED BY <1>1, <1>3, SameInv DEF ForkNoData

\* fork whose frames run out during the copy of the stack gives back all of them, and
\* leaves no entry for a frame of the stack.
LEMMA ForkNoStackAll ==
  ASSUME Counting, AllInv, MemInv', NEW t \in Live, freequeue # <<>>, ForkNoStack(t)
  PROVE  StackInv' /\ TornInv' /\ UseInv'
<1> DEFINE m == task[t].dir  first == CopiedStackPage(t)
<1>0. MemInv /\ UseInv BY DEF AllInv
<1>c. PICK c \in Tasks \ Live : c = Head(freequeue) BY <1>0, QueueLive
<1>1. /\ m \in Masters /\ m \in Tasks /\ c # m /\ c \notin Masters /\ Live \subseteq Tasks
  BY <1>0, DirIsMaster, Zenon DEF MemInv, Masters, Live
<1>2. PICK d \in alloc_frame(phys_mem, NUM_PAG_DATA) :
        LET used == phys_mem \cup {d[i] : i \in 1..NUM_PAG_DATA}
            got == Cardinality(FreeFrames(used))
        IN /\ phys_mem' = free_frame(used, {d[i] : i \in 1..NUM_PAG_DATA})
           /\ pt' = [pt EXCEPT ![m] = ParentTable(t), ![c] = del_ss_pag(@, first, got)]
  BY <1>c, Zenon DEF ForkNoStack
<1> DEFINE used == phys_mem \cup {d[i] : i \in 1..NUM_PAG_DATA}
           got == Cardinality(FreeFrames(used))
<1>3. /\ pt'[m] = ParentTable(t) /\ pt'[c] = del_ss_pag(pt[c], first, got)
      /\ \A e \in Tasks \ {m, c} : pt'[e] = pt[e]
  BY <1>0, <1>1, <1>2 DEF MemInv, Typed
<1>4. Live' = Live /\ task' = task BY <1>0, <1>c, QueueLive, Zenon DEF ForkNoStack
<1>5. Masters' = Masters BY <1>4 DEF Masters, Master
<1>6. phys_mem' = phys_mem
  <2>1. phys_mem' = free_frame(used, {d[i] : i \in 1..NUM_PAG_DATA}) BY <1>2
  <2>2. \A i \in 1..NUM_PAG_DATA : d[i] \in (NUM_PAG_KERNEL + 1)..(TOTAL_PAGES - 1) /\ d[i] \notin phys_mem
    BY <1>0, Sizes, AllocAbove, AllocFresh, Zenon DEF UseInv
  <2>3. \A i \in 1..NUM_PAG_DATA : d[i] > NUM_PAG_KERNEL /\ d[i] < TOTAL_PAGES BY <2>2, Sizes
  <2> QED BY <2>1, <2>2, <2>3 DEF free_frame
<1>7. got \in Nat BY DEF Counting
<1>8. first \in Int /\ first >= THREAD_STACK_BASE_PAGE
  <2>1. task[t].stack.frames \in Int /\ task[t].stack.frames <= THREAD_STACK_REGION_PAGES
    <3>1. task[t].stack.frames \in Int BY <1>0, <1>1 DEF MemInv, Typed, TaskStruct
    <3>2. task[t].stack.frames <= THREAD_STACK_REGION_PAGES
      BY <1>0, Zenon DEF MemInv, StacksInPlace, StackInPlace, ForkNoStack
    <3> QED BY <3>1, <3>2
  <2> QED BY <2>1, Layout DEF CopiedStackPage
<1> HIDE DEF used, got, first, m
<1>9. ForkShape(t, c, ForkPages(NUM_PAG_DATA))
  <2>1. /\ KBD_AUX_STACK_PAGE \in ForkPages(NUM_PAG_DATA)
        /\ \A p \in ForkPages(NUM_PAG_DATA) : p \in Int /\ p >= FORK_TEMP_MAPPING_PAGE
        /\ \A p \in Pages : pt'[m][p] = IF p \in ForkPages(NUM_PAG_DATA) THEN NONE ELSE pt[m][p]
    <3>1. NUM_PAG_DATA \in Nat BY Sizes
    <3>2. \A p \in Pages : ParentTable(t)[p] =
            IF p \in ForkPages(NUM_PAG_DATA) THEN NONE ELSE pt[m][p]
      BY ParentEntries DEF m
    <3>3. pt'[m] = ParentTable(t) BY <1>3
    <3> QED BY <3>1, <3>2, <3>3, ParentEntries
  <2>2. Forget(t) BY Zenon DEF ForkNoStack
  <2>3. c \notin Live' BY <1>1, <1>4
  <2> QED BY <1>3, <1>4, <1>5, <1>6, <2>1, <2>2, <2>3, Zenon DEF ForkShape, m
<1>10. ForkChild(c)
  <2>1. GivesStack(c) BY <1>1, <1>4 DEF GivesStack
  <2>2. ASSUME NEW p \in PrivatePages PROVE SoundEntry(c, p)
    <3>1. pt'[c][p] = NONE \/ pt'[c][p] = pt[c][p] BY <1>3, DelPage DEF PrivatePages
    <3> QED BY <1>1, <1>5, <3>1, Zenon DEF SoundEntry
  <2>3. ASSUME NEW p \in CodePages, c \in Masters' \cup {1} PROVE pt'[c][p] = pt[1][p]
    <3>1. c = 1 BY <1>1, <1>5, <2>3
    <3>2. p \in Pages /\ p \in Int /\ p < THREAD_STACK_BASE_PAGE BY CodeBelow
    <3>3. p \notin first..(first + got - 1) BY <1>7, <1>8, <3>2, Layout
    <3> QED BY <1>3, <3>1, <3>2, <3>3, DelPage
  <2>4. phys_mem' \ phys_mem = {} BY <1>6
  <2> QED BY <2>1, <2>2, <2>3, <2>4, Zenon DEF ForkChild
<1> QED BY <1>c, <1>9, <1>10, ForkDone

\* fork that succeeds: the child has a copy of the stack in the first region.
LEMMA ForkWithStackAll ==
  ASSUME AllInv, MemInv', NEW t \in Live, freequeue # <<>>, ForkWithStack(t)
  PROVE  StackInv' /\ TornInv' /\ UseInv'
<1> DEFINE m == task[t].dir  n == task[t].stack.frames
           first == CopiedStackPage(t)  P == ForkPages(NUM_PAG_DATA) \cup ForkPages(n)
<1>0. MemInv /\ UseInv /\ StackInv BY DEF AllInv
<1>c. PICK c \in Tasks \ Live : c = Head(freequeue) BY <1>0, QueueLive
<1>1. /\ m \in Masters /\ m \in Tasks /\ c # m /\ c \notin Masters /\ Live \subseteq Tasks
  BY <1>0, DirIsMaster, Zenon DEF MemInv, Masters, Live
<1>2. PICK d \in alloc_frame(phys_mem, NUM_PAG_DATA) :
        \E s \in alloc_frame(phys_mem \cup {d[i] : i \in 1..NUM_PAG_DATA}, n) :
          /\ phys_mem' = (phys_mem \cup {d[i] : i \in 1..NUM_PAG_DATA})
                           \cup {s[i] : i \in 1..n}
          /\ pt' = [pt EXCEPT ![m] = del_ss_pag(ParentTable(t), FORK_TEMP_MAPPING_PAGE, n),
                              ![c] = set_ss_pag(ChildTable(t, c, d), first, s)]
  BY <1>c, Zenon DEF ForkWithStack
<1> DEFINE used == phys_mem \cup {d[i] : i \in 1..NUM_PAG_DATA}
<1>3. PICK s \in alloc_frame(used, n) :
          /\ phys_mem' = used \cup {s[i] : i \in 1..n}
          /\ pt' = [pt EXCEPT ![m] = del_ss_pag(ParentTable(t), FORK_TEMP_MAPPING_PAGE, n),
                              ![c] = set_ss_pag(ChildTable(t, c, d), first, s)]
  BY <1>2, Zenon
<1>4. /\ pt'[m] = del_ss_pag(ParentTable(t), FORK_TEMP_MAPPING_PAGE, n)
      /\ pt'[c] = set_ss_pag(ChildTable(t, c, d), first, s)
      /\ \A e \in Tasks \ {m, c} : pt'[e] = pt[e]
  BY <1>0, <1>1, <1>3, Zenon DEF MemInv, Typed
<1>5. Live' = Live \cup {c} BY <1>0, <1>c, QueueLive, Zenon DEF ForkWithStack
<1>6. (\A u \in Live : task'[u] = task[u])
      /\ task'[c] = NewTask(c, c, Region(THREAD_STACK_BASE_PAGE, n))
  BY <1>0, <1>1, <1>c, Zenon DEF ForkWithStack, MemInv, Typed
<1>7. /\ n \in Nat /\ n > 0 /\ n <= THREAD_STACK_REGION_PAGES
      /\ first \in Int /\ first = THREAD_STACK_BASE_PAGE + THREAD_STACK_REGION_PAGES - n
      /\ first >= THREAD_STACK_BASE_PAGE
  <2>1. n \in Int BY <1>0, <1>1, Zenon DEF MemInv, Typed, TaskStruct
  <2>2. n > 0 /\ n <= THREAD_STACK_REGION_PAGES
    BY <1>0, Zenon DEF ForkWithStack, MemInv, StacksInPlace, StackInPlace
  <2>3. first = THREAD_STACK_BASE_PAGE + THREAD_STACK_REGION_PAGES - n BY Zenon DEF CopiedStackPage
  <2> HIDE DEF n, first
  <2> QED BY <2>1, <2>2, <2>3, TopOfRegion, Zenon
<1>8. /\ task'[c].aux = FALSE /\ task'[c].master = c /\ task'[c].dir = c
      /\ task'[c].stack.start = THREAD_STACK_BASE_PAGE
      /\ task'[c].stack.pages = THREAD_STACK_REGION_PAGES
      /\ task'[c].stack.ptr = THREAD_STACK_BASE_PAGE + THREAD_STACK_REGION_PAGES - n
      /\ task'[c].stack.frames = n
  <2>1. task'[c] = NewTask(c, c, Region(THREAD_STACK_BASE_PAGE, n)) BY <1>6, Zenon
  <2> HIDE DEF n
  <2>2. /\ task'[c].aux = FALSE /\ task'[c].master = c /\ task'[c].dir = c
        /\ task'[c].stack = Region(THREAD_STACK_BASE_PAGE, n)
    BY <2>1 DEF NewTask
  <2> QED BY <2>2 DEF Region
<1>9. Masters' = Masters \cup {c} BY <1>1, <1>5, <1>6, <1>8, Zenon DEF Masters, Master
<1>10. /\ Len(s) = n /\ \A i \in 1..n : s[i] # NONE /\ s[i] \in (NUM_PAG_KERNEL + 1)..(TOTAL_PAGES - 1)
  <2>1. NUM_PAG_KERNEL \in used BY <1>0, Zenon DEF UseInv
  <2> HIDE DEF used, n
  <2> QED BY <1>7, <2>1, AllocFresh, AllocAbove
<1> HIDE DEF used, n, first, m
<1>11. ForkShape(t, c, P)
  <2>1. /\ KBD_AUX_STACK_PAGE \in P /\ \A p \in P : p \in Int /\ p >= FORK_TEMP_MAPPING_PAGE
    <3>1. NUM_PAG_DATA \in Nat BY Sizes
    <3> QED BY <1>7, <3>1, ParentEntries, Zenon
  <2>2. ASSUME NEW p \in Pages PROVE pt'[m][p] = IF p \in P THEN NONE ELSE pt[m][p]
    <3>1. ParentTable(t)[p] = IF p \in ForkPages(NUM_PAG_DATA) THEN NONE ELSE pt[m][p]
      BY ParentEntries DEF m
    <3>2. pt'[m][p] = IF p \in ForkPages(n) THEN NONE ELSE ParentTable(t)[p]
      <4>1. pt'[m][p] = IF p \in FORK_TEMP_MAPPING_PAGE..(FORK_TEMP_MAPPING_PAGE + n - 1)
                        THEN NONE ELSE ParentTable(t)[p]
        <5>1. del_ss_pag(ParentTable(t), FORK_TEMP_MAPPING_PAGE, n)[p] =
                IF p \in FORK_TEMP_MAPPING_PAGE..(FORK_TEMP_MAPPING_PAGE + n - 1)
                THEN NONE ELSE ParentTable(t)[p]
          BY DelPage, Zenon
        <5> QED BY <1>4, <5>1, Zenon
      <4> QED BY <4>1, Zenon DEF ForkPages
    <3> QED BY <3>1, <3>2
  <2>3. Forget(t) BY Zenon DEF ForkWithStack
  <2>4. phys_mem \subseteq phys_mem' BY <1>3, Zenon DEF used
  <2> HIDE DEF P
  <2> QED BY <1>4, <1>5, <1>6, <1>8, <1>9, <2>1, <2>2, <2>3, <2>4, Zenon DEF ForkShape, m
<1>12. ASSUME NEW p \in Pages
       PROVE  pt'[c][p] = IF p - first + 1 \in 1..n THEN s[p - first + 1] ELSE ChildTable(t, c, d)[p]
  <2>1. pt'[c][p] = IF p - first + 1 \in 1..Len(s) THEN s[p - first + 1] ELSE ChildTable(t, c, d)[p]
    <3>1. set_ss_pag(ChildTable(t, c, d), first, s)[p] =
            IF p - first + 1 \in 1..Len(s) THEN s[p - first + 1] ELSE ChildTable(t, c, d)[p]
      BY SetPage, Zenon
    <3> QED BY <1>4, <3>1, Zenon
  <2> QED BY <1>10, <2>1
<1>13. \A p \in Int : p \in StackPages(c)' <=> p - first + 1 \in 1..n
  <2>1. StackPages(c)' = first..(first + n - 1) BY <1>7, <1>8, Layout DEF StackPages
  <2> QED BY <1>7, <2>1
<1>14. GivesStack(c)
  <2>1. StackTop(task'[c].stack)
    <3>1. RegionAt(0) = THREAD_STACK_BASE_PAGE /\ 0 \in 0..(NR_TASKS - 1) BY Layout, Sizes DEF RegionAt
    <3>2. /\ task'[c].stack.pages # 0 /\ task'[c].stack.ptr >= task'[c].stack.start
          /\ task'[c].stack.ptr + task'[c].stack.frames
               = task'[c].stack.start + THREAD_STACK_REGION_PAGES
      BY <1>7, <1>8, Layout, Sizes
    <3> QED BY <1>8, <3>1, <3>2, Zenon DEF StackTop
  <2>2. ASSUME NEW p \in StackPages(c)' PROVE pt'[task'[c].dir][p] # NONE
    <3>1. p \in Int /\ p >= THREAD_STACK_BASE_PAGE /\ p < THREAD_STACK_BASE_PAGE + THREAD_STACK_REGION_PAGES
      <4>1. StackPages(c)' = first..(first + n - 1) BY <1>7, <1>8, Layout DEF StackPages
      <4> QED BY <1>7, <4>1, Layout
    <3>2. p \in Pages BY <3>1, Layout, Sizes DEF Pages
    <3>3. p - first + 1 \in 1..n BY <1>13, <3>1
    <3> QED BY <1>8, <1>10, <1>12, <3>2, <3>3, Zenon
  <2>3. \A u \in Live : task[u].dir # c BY <1>0, <1>1, DirIsMaster, Zenon DEF MemInv
  <2> QED BY <1>7, <1>8, <2>1, <2>2, <2>3, Zenon DEF GivesStack
<1>15. ForkChild(c)
  <2>0. NUM_PAG_DATA \in Nat /\ c \in Masters' BY Sizes, <1>9
  <2>1. ASSUME NEW p \in PrivatePages, p - first + 1 \in 1..n
        PROVE  p \notin DataPages /\ Uses(c, p)'
    <3>1. p \in Pages /\ p \in Int BY PagesAreInt DEF PrivatePages
    <3>2. p >= THREAD_STACK_BASE_PAGE BY <1>7, <2>1, <3>1, Layout
    <3>3. p \in StackPages(c)' /\ c \in Live' /\ task'[c].dir = c BY <1>5, <1>8, <1>13, <2>1, <3>1
    <3>4. p \notin DataPages BY <3>1, <3>2, Layout
    <3> QED BY <3>3, <3>4, Zenon DEF Uses
  <2>2. ASSUME NEW p \in PrivatePages PROVE SoundEntry(c, p)
    <3>0. p \in Pages BY DEF PrivatePages
    <3>1. CASE p - first + 1 \in 1..n
      <4>1. pt'[c][p] \in (NUM_PAG_KERNEL + 1)..(TOTAL_PAGES - 1) BY <1>10, <1>12, <3>0, <3>1
      <4> QED BY <2>0, <2>1, <3>1, <4>1, Zenon DEF SoundEntry
    <3>2. CASE p \in DataPages
      <4>1. pt'[c][p] = d[p - PAG_LOG_INIT_DATA + 1] /\ p - PAG_LOG_INIT_DATA + 1 \in 1..NUM_PAG_DATA
        <5>1. ChildTable(t, c, d)[p] = d[p - PAG_LOG_INIT_DATA + 1] BY <3>2, ChildData, Zenon
        <5>2. p - PAG_LOG_INIT_DATA + 1 \in 1..NUM_PAG_DATA BY <3>2, ChildData, Zenon
        <5> QED BY <1>12, <2>1, <3>0, <3>2, <5>1, <5>2, Zenon
      <4>2. pt'[c][p] \in (NUM_PAG_KERNEL + 1)..(TOTAL_PAGES - 1)
        <5>1. NUM_PAG_KERNEL \in phys_mem BY <1>0, Zenon DEF UseInv
        <5>2. d[p - PAG_LOG_INIT_DATA + 1] \in (NUM_PAG_KERNEL + 1)..(TOTAL_PAGES - 1)
          BY <2>0, <4>1, <5>1, AllocAbove, Zenon
        <5> QED BY <4>1, <5>2, Zenon
      <4> QED BY <2>0, <3>2, <4>2, Zenon DEF SoundEntry
    <3>3. CASE p \notin DataPages /\ p - first + 1 \notin 1..n
      <4>1. pt'[c][p] = pt[c][p]
        <5>1. ChildTable(t, c, d)[p] = pt[c][p] BY <3>3, ChildRest, Zenon
        <5> QED BY <1>12, <3>0, <3>3, <5>1, Zenon
      <4> QED BY <1>1, <3>3, <4>1, Zenon DEF SoundEntry
    <3> QED BY <3>1, <3>2, <3>3
  <2>3. ASSUME NEW p \in CodePages PROVE pt'[c][p] = pt[1][p]
    <3>1. p \in Pages /\ p \in Int /\ p < THREAD_STACK_BASE_PAGE BY CodeBelow
    <3>2. p - first + 1 \notin 1..n BY <1>7, <3>1, Layout
    <3>3. ChildTable(t, c, d)[p] = pt[1][p] BY ChildCode
    <3> QED BY <1>12, <3>1, <3>2, <3>3, Zenon
  <2>4. ASSUME NEW f \in phys_mem' \ phys_mem
        PROVE  f # NONE /\ \E p \in PrivatePages : pt'[c][p] = f
    <3>1. CASE \E i \in 1..n : f = s[i]
      <4>1. PICK i \in 1..n : f = s[i] BY <3>1
      <4>2. PICK p \in Int : p = first + i - 1 BY <1>7
      <4>3. /\ p - first + 1 = i /\ p >= THREAD_STACK_BASE_PAGE
            /\ p < THREAD_STACK_BASE_PAGE + THREAD_STACK_REGION_PAGES
        BY <1>7, <4>2, Layout
      <4>4. p \in Pages /\ p \in PrivatePages
        <5>1. p \in Pages BY <4>3, Layout, Sizes DEF Pages
        <5> QED BY <4>3, <5>1, Layout
      <4>5. pt'[c][p] = f BY <1>12, <4>1, <4>3, <4>4, Zenon
      <4> QED BY <1>10, <4>1, <4>4, <4>5
    <3>2. CASE \E i \in 1..NUM_PAG_DATA : f = d[i]
      <4>1. PICK i \in 1..NUM_PAG_DATA : f = d[i] BY <3>2
      <4>2. PICK p \in DataPages : ChildTable(t, c, d)[p] = d[i] BY ChildHas
      <4>3. p \in PrivatePages /\ p \in Pages BY Layout DEF PrivatePages
      <4>4. pt'[c][p] = f BY <1>12, <2>1, <4>1, <4>2, <4>3, Zenon
      <4>5. f # NONE BY <2>0, <4>1, AllocFresh, Zenon
      <4> QED BY <4>3, <4>4, <4>5, Zenon
    <3> QED BY <1>3, <3>1, <3>2, Zenon DEF used
  <2> QED BY <1>14, <2>0, <2>2, <2>3, <2>4, Zenon DEF ForkChild
<1> HIDE DEF P
<1> QED BY <1>c, <1>11, <1>15, ForkDone

-----------------------------------------------------------------------------
(* The first state *)

\* The first frame that alloc_frame can give is given to the code of init, and never
\* comes back.
LEMMA InitFrames ==
  ASSUME NEW n \in Nat \ {0}, NEW s \in alloc_frame(KernelPages, n)
  PROVE  /\ NUM_PAG_KERNEL \in {s[i] : i \in 1..n}
         /\ \A i \in 1..n : s[i] # NONE
         /\ \A i \in 1..n : i > 1 => s[i] \in (NUM_PAG_KERNEL + 1)..(TOTAL_PAGES - 1)
<1> DEFINE K == NUM_PAG_KERNEL
<1>1. /\ s \in [1..n -> FreeFrames(KernelPages)] /\ 1 \in 1..n
      /\ \A i, j \in 1..n : i < j => s[i] < s[j]
      /\ \A f \in FreeFrames(KernelPages) : \A i \in 1..n : f < s[i] => \E j \in 1..n : s[j] = f
  BY DEF alloc_frame
<1>2. \A f \in FreeFrames(KernelPages) : f \in Int /\ f >= K /\ f <= TOTAL_PAGES - 1
  BY Sizes DEF FreeFrames, AllocCandidates
<1>3. K \in FreeFrames(KernelPages)
  <2>1. K \in Int /\ K < TOTAL_PAGES /\ (K - K) % 2 = 0
    <3>1. K + THREAD_STACK_REGION_PAGES <= TOTAL_PAGES - 2 \/ K < TOTAL_PAGES
      BY Layout, Sizes DEF THREAD_STACK_BASE_PAGE, PAG_LOG_INIT_CODE, PAG_LOG_INIT_DATA
    <3> QED BY <3>1, Sizes
  <2> QED BY <2>1, Sizes DEF FreeFrames, AllocCandidates, KernelPages
<1>4. K \in Int /\ s[1] \in Int /\ s[1] >= K BY <1>1, <1>2, Sizes
<1>5. K \in {s[i] : i \in 1..n}
  <2>1. CASE s[1] = K BY <1>1, <2>1
  <2>2. CASE K < s[1]
    <3>1. PICK j \in 1..n : s[j] = K BY <1>1, <1>3, <2>2
    <3> QED BY <3>1
  <2> QED BY <1>4, <2>1, <2>2
<1>6. ASSUME NEW i \in 1..n
      PROVE  s[i] # NONE /\ (i > 1 => s[i] \in (K + 1)..(TOTAL_PAGES - 1))
  <2>1. s[i] \in Int /\ s[i] >= K /\ s[i] <= TOTAL_PAGES - 1 BY <1>1, <1>2
  <2>2. i > 1 => s[1] < s[i] BY <1>1
  <2> QED BY <1>4, <2>1, <2>2, Sizes DEF NONE
<1> QED BY <1>5, <1>6

\* At the start init has its code, its data and one page of stack, and nothing else.
LEMMA InitAll == Init => AllInv
<1> SUFFICES ASSUME Init PROVE AllInv OBVIOUS
<1> DEFINE C == NUM_PAG_CODE  D == NUM_PAG_DATA  n == C + D + 1  F == FirstStackPage
<1>0. /\ C \in Nat \ {0} /\ D \in Nat \ {0} /\ n \in Nat \ {0} /\ 1 \in Tasks
      /\ PAG_LOG_INIT_DATA \in Int /\ PAG_LOG_INIT_CODE \in Int
  BY Sizes, FirstTask DEF PAG_LOG_INIT_DATA, PAG_LOG_INIT_CODE
<1>1. PICK s \in alloc_frame(KernelPages, n) :
        phys_mem = KernelPages \cup {s[i] : i \in 1..n} /\ InitTablesWith(s)
  BY Zenon DEF Init, InitTablesWith, FirstStackPage
<1>2. lost = {} /\ torn = {} /\ freequeue = [i \in 1..(NR_TASKS - 1) |-> i + 1] BY DEF Init
<1>3. /\ Live = {1} /\ task[1].dir = 1 /\ task[1].master = 1 /\ task[1].aux = FALSE
      /\ task[1].stack = Region(THREAD_STACK_BASE_PAGE, THREAD_STACK_INITIAL_PAGES)
  <2>1. Live = {1} BY <1>2, InitLive
  <2> QED BY <2>1, InitTask, Zenon DEF Init
<1>r. /\ task[1].stack.start = THREAD_STACK_BASE_PAGE /\ task[1].stack.frames = 1
      /\ task[1].stack.pages = THREAD_STACK_REGION_PAGES /\ task[1].stack.ptr = F
  BY <1>3, MemoryConstants DEF Region, FirstStackPage
<1>p. StackPages(1) = {F}
  <2>1. F \in Int BY FirstStack
  <2>2. StackPages(1) = F..(F + 1 - 1) BY <1>r, Zenon DEF StackPages
  <2> HIDE DEF F
  <2> QED BY <2>1, <2>2
<1>4. Masters = {1} BY <1>3 DEF Masters, Master
<1>5. /\ NUM_PAG_KERNEL \in {s[i] : i \in 1..n}
      /\ \A i \in 1..n : s[i] # NONE
      /\ \A i \in 1..n : i > 1 => s[i] \in (NUM_PAG_KERNEL + 1)..(TOTAL_PAGES - 1)
  <2> HIDE DEF n
  <2> QED BY <1>0, InitFrames
<1>6. /\ \A d \in Tasks \ {1} : \A p \in PrivatePages : pt[d][p] = NONE
      /\ pt[1][F] = s[n]
      /\ \A p \in PrivatePages \ DataPages : p # F => pt[1][p] = NONE
      /\ \A p \in DataPages : /\ p - PAG_LOG_INIT_DATA + 1 \in 1..D
                              /\ pt[1][p] = s[C + (p - PAG_LOG_INIT_DATA + 1)]
      /\ \A p \in CodePages : /\ p - PAG_LOG_INIT_CODE + 1 \in 1..C
                              /\ pt[1][p] = s[p - PAG_LOG_INIT_CODE + 1]
  BY <1>1, InitTables, Zenon
<1>n. n \in 1..n /\ n > 1 /\ (\A i \in 1..D : C + i \in 1..n /\ C + i > 1) /\ 1..C \subseteq 1..n
  BY <1>0
<1>f. F \in PrivatePages \ DataPages /\ F >= THREAD_STACK_BASE_PAGE BY FirstStack
<1>s. \A i \in 1..n : i <= C \/ i - C \in 1..D \/ i = n BY <1>0
<1> HIDE DEF C, D, n, F
<1>7. StackInv
  <2>1. StackTop(task[1].stack)
    <3>1. RegionAt(0) = THREAD_STACK_BASE_PAGE /\ 0 \in 0..(NR_TASKS - 1)
      BY Layout, Sizes DEF RegionAt
    <3>2. /\ THREAD_STACK_REGION_PAGES # 0 /\ F >= THREAD_STACK_BASE_PAGE
          /\ F + 1 = THREAD_STACK_BASE_PAGE + THREAD_STACK_REGION_PAGES
      BY FirstStack, Layout, Sizes DEF F
    <3> QED BY <1>r, <3>1, <3>2, Zenon DEF StackTop
  <2>2. pt[1][F] # NONE BY <1>5, <1>6, <1>n, Zenon
  <2>3. task[1].stack.frames > 0 BY <1>r
  <2> QED BY <1>3, <1>p, <2>1, <2>2, <2>3, Zenon DEF StackInv
<1>8. TornInv BY <1>2, <1>3 DEF TornInv, HandlerHasItsStack
<1>9. NUM_PAG_KERNEL \in phys_mem /\ NONE \notin phys_mem
  <2>1. NONE \notin KernelPages BY Sizes DEF NONE, KernelPages
  <2> QED BY <1>1, <1>5, <2>1, Zenon
<1>10. ASSUME NEW d \in Tasks, NEW p \in PrivatePages \ DataPages, pt[d][p] # NONE
       PROVE  d \in Masters /\ Uses(d, p)
  <2>1. d = 1 /\ p = F BY <1>6, <1>10, Zenon
  <2> QED BY <1>3, <1>4, <1>p, <2>1, Zenon DEF Uses
<1>11. ASSUME NEW d \in Tasks, NEW p \in PrivatePages, Claimed(pt, Masters, d, p)
       PROVE  pt[d][p] \in (NUM_PAG_KERNEL + 1)..(TOTAL_PAGES - 1)
  <2>1. d = 1 /\ (p \in DataPages \/ p = F) BY <1>6, <1>11, Zenon DEF Claimed
  <2>2. CASE p \in DataPages
    <3>1. PICK i \in 1..D : pt[1][p] = s[C + i] BY <1>6, <2>2
    <3> QED BY <1>5, <1>n, <2>1, <3>1, Zenon
  <2>3. CASE p = F BY <1>5, <1>6, <1>n, <2>1, <2>3, Zenon
  <2> QED BY <2>1, <2>2, <2>3
<1>12. ASSUME NEW p \in CodePages PROVE pt[1][p] # NONE
  <2>1. PICK i \in 1..C : pt[1][p] = s[i] BY <1>6
  <2> QED BY <1>5, <1>n, <2>1
<1>13. NoFrameLost
  <2> SUFFICES ASSUME NEW i \in 1..n
               PROVE  s[i] \in CodeFrames \/ \E p \in PrivatePages : s[i] = pt[1][p]
    BY <1>1, <1>3 DEF NoFrameLost
  <2>1. CASE i <= C
    <3> DEFINE p == PAG_LOG_INIT_CODE + i - 1
    <3>1. p \in CodePages /\ p - PAG_LOG_INIT_CODE + 1 = i BY <1>0, <2>1 DEF CodePages, C
    <3> HIDE DEF p
    <3>2. s[i] = pt[1][p] BY <1>6, <3>1
    <3> QED BY <3>1, <3>2 DEF CodeFrames
  <2>2. CASE i - C \in 1..D
    <3> DEFINE p == PAG_LOG_INIT_DATA + (i - C) - 1
    <3>1. p \in DataPages /\ C + (p - PAG_LOG_INIT_DATA + 1) = i
      BY <1>0, <2>2 DEF DataPages, D
    <3> HIDE DEF p
    <3>2. s[i] = pt[1][p] /\ p \in PrivatePages BY <1>6, <3>1, Layout
    <3> QED BY <3>2
  <2>3. CASE i = n BY <1>6, <1>f, <2>3, Zenon
  <2> QED BY <1>s, <2>1, <2>2, <2>3
<1>14. UseInv BY <1>4, <1>9, <1>10, <1>11, <1>12, <1>13, Zenon DEF UseInv
<1> QED BY <1>7, <1>8, <1>14, InitInv DEF AllInv
=============================================================================
