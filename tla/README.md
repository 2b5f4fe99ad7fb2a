# ZeOS and Dig Dug: TLA+ specifications and proofs

Specifications of the system in `src/project`: ZeOS, a small uniprocessor teaching
kernel with processes, threads, a keyboard callback and a clock, and the two-threaded
Dig Dug game that runs on it. `src/zeos` is the kernel this one grew from and
`src/lab_exams` are variants of it; neither is modelled. File names below are those of
`src/project`.

## The system

User code enters the kernel by system calls, the devices by interrupts. Handlers run with
interrupts off on one processor, so a handler is one atomic action and the interleaving is
between handlers. Both kinds end in the scheduler, which works on lists threaded through
the task_structs. In user mode everything interleaves: the game's logic thread is the
master of its process, the render thread shares its memory, and the keyboard callback runs
on the logic thread, between any two of its instructions, as a signal handler would.

| Part | Code | Modules |
|---|---|---|
| Scheduler | `sched.c`, `sys.c`, `interrupt.c` | `Sched`, `Kernel` |
| Linked lists | `list.c`, `list.h` | `ListHead` |
| Processes and threads | `sys.c`, `kernel_helpers.c` | `Kernel`, `Memory`, `Sched` |
| Memory | `mm.c`, `kernel_helpers.c`, `keyboard.c`, `sys.c` | `Memory` |
| Keyboard | `keyboard.c`, `entry.S`, `libc.c` | `Keyboard` |
| Console and write | `sys.c`, `io.c`, `screen.c`, `devices.c`, `utils.c` | `Console` |
| Stubs, traps, context switch | `sys_call_wrappers.S`, `entry.S`, `kernel_asm.S` | `Context` |
| User library | `libc.c`, `utils.c`, `kernel_helpers.c` | `UserLib`, `Numbers` |
| Game loop and scenes | `game.c` | `GameLoop` (with `InputState`) |
| Game input | `game_input.c`, `game.c` | `InputState`, `GameInput` |
| Game rules | `game_logic.c` | `GameRules`, `PathSearch` |
| Map and levels | `game_map.c`, `game_data.c` | `GameMap`, `Levels`, `GameData`, `LevelPaths` |
| Drawing | `game_render.c` | `Canvas`, `Scenery`, `GameView` |

`PROJECT.json` has the lines that each definition stands for, and the hazards: what is
hard to test in this code, at its line, with the properties that would catch it.

## Modules

**`Sched`** is the abstract scheduler: the four queues are sequences of tasks.
`clock_routine`, `sys_block_*`, `sys_waitfortick` and `sys_unblock_*` are the handlers, split
where the code branches; `Spawn`, `SpawnFails` and `Exit` say only what process management
may do to the queues.

**`ListHead`** has the pointer lists: an operation maps a heap `[next, prev, wild]` to a heap,
`wild` recording a write through NULL or a traversal that never comes back.

**`Kernel`** is `sched.c` and the process calls of `sys.c` over those lists. Its one variable
`k` is a record of the C globals and task_struct fields, each C function is an operator
from record to record, each action is a whole handler. `S == INSTANCE Sched`, each queue
being the list read from its head, is the refinement mapping. Whether frames suffice is a
choice (`FramesRunOut`); the contents of pages are reduced to whose data a directory maps.

**`Memory`** has the frames and page tables behind the same system calls: data, code, stack
regions with growth on page faults, the auxiliary stack of keyboard handlers, and the
temporary pages through which fork and ThreadCreate write. Frames are allocated as
`alloc_frame` scans them, so exhaustion and every rollback is a real path here. `lost` and
`torn` are history: frames that the code has no path to free, and handlers whose auxiliary
page was unmapped under them. `Init` is what `init_task1` leaves: code, data and the first stack
page of init. Stacks are mapped from the first state on, so every fork copies one.

**`Keyboard`** follows a key from `kbd_irq_handler` through `kbd_wrapper`, the callback and
`int 0x2b` back to the interrupted program, while tasks are switched, block, leave, and
register and drop handlers. A program is a ring of points with known registers, so a register
that is not given back is noticed.

**`Console`** has `sys_write` with its checks, chunks and devices, `printc` with wrapping and
scrolling, the whole-screen write and the clock drawn by every tick. `paper` is history:
every line printed since boot.

**`Context`** has the stubs, `sysenter`, the clock and page-fault entries, `task_switch`, and
the stacks that fork, ThreadCreate and `init_idle` build by hand, word by word. `on` is the kernel
stack that the stack pointer is in: an entry from user mode begins where `esp0` (the TSS) or
`msr` (MSR 0x175, for `sysenter`) says, and only `inner_task_switch` writes these and `cr3`. A
page fault grows the stack or ends the process; the system call number is checked as the handler
does.

**`UserLib`** has `prints` and `printd`, which fill static buffers byte by byte, `perror` and
`clear_screen`, in two threads; `met` is history, the formats of the calls of the same function
that overlapped with a call. **`Numbers`** has every conversion of a number to text, at a
width of `WIDTH` bits, beside one reference: the text read back. Where the code negates the least
int, which C leaves undefined, a conversion has more than one result.

**`InputState`** is `g_input` with the callback. **`GameInput`** takes the queries of the logic
thread apart into single loads and stores, with a key event possible between any two. A paused
frame asks for the pause key alone, and the next frame is a paused one until it was pressed.
**`GameLoop`** has the scenes, the writes of the logic thread to the state that the render
thread reads, one at a time, and the frame handshake.

**`GameMap`**, **`Levels`** and **`GameData`** are the map, the tables of the five levels and their
loading; **`PathSearch`** is `logic_find_path_bfs` with its bounded heap, one turn of the loop a
step; **`LevelPaths`** composes them.

**`GameRules`** is a frame of a played round as `logic_update` makes it: the player's turn, one
for each enemy, one for each rock, the checks at the end. The four places that kill enemies
(the development key, the pump, the end of the blinking, a falling rock) each take their kills
from `enemies_remaining`, as the code does. A path search answers with any
first step of a cheapest way, which is what `PathSearch` is shown to return. **`Canvas`** and
**`Scenery`** are the drawing functions as operators on pictures, and **`GameView`** composes
rules and drawing: the picture of every state the rules lead to.

`MC*` modules and `.cfg` files instantiate these for TLC, `*Proofs` modules hold the proofs.
Definitions with a suffix (`list_del_OneWay`) are faulty variants of the definition they
precede, kept to confirm that a property detects the fault.

## Runs

| Run | Properties | Bounds |
|---|---|---|
| `sched` | `SchedInv`, `NoOvertaking`, `BlockedUntilUnblocked`, `WaitersRun` | 4 tasks, quantum 2, tick counter modulo 2, one pending unblock |
| `kernel` | `ListsLinked`, `ThreadTable`, `ProcessTree`, `OwnAddressSpace`, `ImplementsSched` | 4 task_structs, 2 TIDs per process, PIDs up to 3 |
| `memory` | `OwnedOnce`, `StacksApart`, `NoFrameLost`, `HandlerHasItsStack` | 3 tasks, 18 pages; 8 frames can be allocated, of which init takes 4 |
| `keyboard` | `Transparent`, `CallbackGetsItsKey`, `GoesOnWhereInterrupted`, `HandlerEnds` | 2 tasks in one process or two, 2 keys |
| `console` | `WindowShowsPaper`, `EveryByteOnce` | 3 x 3 cells, buffer of 2, 5 lines, 4 ticks |
| `context` | `StacksLeadBack`, `UserFindsItsOwn` | 2 threads and idle, all twelve stubs and a number past the table |
| `userlib` | `WholeMessages` | 2 threads, buffer of 4 bytes, 2 calls each |
| `numbers` | `TextsReadBack` | every int of 8 bits, 400 ticks from 0 s and from 9999 s |
| `game_input` | `HeldIsDown`, `PressKept`, `OneMovePerPress`, `PressServed` | a direction, the space bar and the pause key, threshold 2 |
| `game_loop` | `CopiesAgree`, `VictoryEarned`, `Playable`, `SceneShown` | 2 rounds, 2 lives, delays of one frame |
| `game_view` | `RemainingCounts`, `OnOpenGround`, `PictureTrue`, `RocksCrush`, `RocksComeDown` | 3 columns, a row of sky, two of ground; a Fygar, a rock, a bonus |
| `level_paths` | `LevelsFit`, `PathsRight`, `LevelLoads`, `SearchProgresses` | the real map and levels, rounds 0 to 6 |

What they show, and why the bounds are enough:

- **sched.** Each task_struct is in one place and `status` tells which; no sleeper has a
  pending unblock; nothing overtakes a task that stays ready; a blocked task leaves only by an
  unblock or its process's end; tick waiters and ready tasks run. Four tasks are idle and
  three that can be ready, blocked and waiting at once. With the tick counter modulo 1 a
  tick would be invisible to the refinement.
- **kernel.** Lists, thread tables, TIDs, process tree and page directories stay right, and
  `Kernel` implements `Sched`. Four task_structs allow a parent with a child and a thread, two
  children, and reuse. **The run is conditional**: `ThreadsExit`, `MasterLeaves` and
  `ThreadsFork` are FALSE and `"stack"` is not in `FramesRunOut`. The kernel does not enforce
  that discipline, and outside of it these properties do not hold (disagreements 3 to 6).
  The game keeps it: it does not fork, its main thread never ends and its render thread
  leaves by ThreadExit.
- **memory.** No frame has two owners; stacks stay apart and mapped; frames are lost only on
  the four ways that `NoFrameLost` names, of which the exit of any process is one (disagreement
  7), and handlers lose their stack only on those of `torn`. Three tasks are a parent, a child and
  a thread of either; the four frames that init leaves run out in every place.
  Exits by threads that are not masters, and of masters that leave threads, are left out.
- **keyboard.** A handler is transparent, gets its own key and ends. `CallbackGetsItsKey`
  excludes processes in which two threads have listened (disagreement 8).
- **console.** Three rows and lines of three cells wrap, scroll and are crossed by the clock. `raw`
  stops the claim once a program has written the whole screen itself.
- **context.** In kernel mode the processor is always on the stack of the current task, with its
  directory; in user mode that stack is empty; and a program finds its registers again. Two threads
  are enough for each stack to be left in every way and entered again.
- **userlib.** Both threads use both functions. A text is whole unless another thread is in the
  same function, with which it shares a static buffer: then the text still has its own length,
  and each byte is its own or the one that an overlapping text has at that place.
- **numbers.** For each conversion, exactly the numbers whose text gives them back, and for
  `render_number` exactly those whose sign is written before the buffer (disagreement 19).
  Eight bits have zero, both ends of the range, and numbers of one digit up to more digits than
  places.
- **game_input.** A press is lost exactly when it comes between the load and the store of a query
  that had found nothing (`late`); a press counts once but for the windows of `Raced`; what is
  held is down but for dropped releases (disagreements 11 to 13). The pause key is always
  served. The other presses are once the game is no longer paused: they wait through a pause, and
  act when it ends. The theorems hold for all keys together.
- **game_loop.** The two copies of the state agree between frames, victory is earned, a dead
  player comes back, and a scene that lasts is shown. The score is not part of this model.
- **game_view.** The level is one found by search to be small and yet to have an enemy in the
  cell of a falling rock: Fygar, ghost and fire, pump, attack, death and return, bonus, rock
  that wobbles, falls, blinks and is gone are all in it. Timers have one tick; the screen is
  the map and a status row. `PictureTrue` says what hides what, in the picture of a played round
  and in that under the pause screen, where the order is another (disagreement 18).
- **level_paths.** Every round loaded over every other and every enemy's search at its beginning;
  in played rounds a few maps that are hard for the queue.

Deadlock is checked except in `memory`, `console` and `game_view`: there the model's bounds or
the end of the round stop it.

### Fairness

- `Sched`: weak fairness of the clock only. Programs cannot turn interrupts off; nothing is
  assumed of them.
- `Keyboard`: every ready task is dispatched again and again, and goes on there: what
  `WaitersRun` of `Sched` says.
- `GameInput`: weak fairness of the logic thread, but not of starting a new round.
- `GameLoop`: weak fairness of each thread; both only busy-wait, so each is always ready.
- `GameRules`, `LevelPaths`: a round that is not over, a level that is being loaded, goes on. Both are
  written as "infinitely often a step", every step of such a state being one of that kind.

## Proofs

TLAPS proves the following for all values of the constants that satisfy the named
assumptions.

**`SchedProofs`** (`SchedConstants`): `SchedSafe`, `RoundRobin`, `SleepersWait`. `SchedInv` is
inductive as a whole only: unblocking a task whose status lies would queue it twice,
dispatching a task queued twice would leave a running task in a queue, and `sys_unblock`
decides by status whether to wake or to record. Inside of `scheduler()` the caller is
already queued and nobody counts as running; the lemmas state the invariant with the running
task as a parameter to pass through those states.

The same module has the lists under the queues (no assumption): `AddTailLinks`, `DelLinks`,
`InitLinks`: for any set of nodes, `list_add_tail`, `list_del` and `INIT_LIST_HEAD` keep `next`
and `prev` inverse to each other on the linked nodes and touch no other list.

**`MemoryProofs`** (`MemoryConstants`: the parts of the address space fit one after the other, and
there is a page of code and one of data): `FramesOwnedOnce`. `OwnedOnce` speaks of live
processes and is not inductive: page tables outlive their processes, and an entry left in the
table of a free task_struct is there again when fork reuses it. `MemInv` therefore has
ownership in all tables, data pages of unused ones excepted, with the shape of families and of
stacks.

**`StackProofs`** and **`ThreadProofs`** (also `TemporaryPages`: the pages through which ThreadCreate
writes a new stack, one in `mm_address.h`, are above the auxiliary stack):
`StacksStayApart`, `HandlersHaveTheirStack`, `FramesAreNotLost`. The three need each other, and their
inductive invariant is `AllInv`, which is `MemInv` with

- `StackInv`: every stack is mapped at the top of one of the first NR_TASKS regions, and no two
  threads of a process have the same one;
- `TornInv`: `HandlerHasItsStack`, and who was torn from its auxiliary stack had one;
- `UseInv`: `NoFrameLost`; every entry for a private page above the data, also in the table of a
  free task_struct, is for a page that a live task knows of, or its frame is in `lost`; no
  private page has frame NUM_PAG_KERNEL, which `free_frame` would refuse; all processes share
  the code of init.

That a new stack is below the temporary pages of fork, whose unmapping would tear it, is a
matter of counting: `find_free_stack_region` takes the lowest free region, and were the first
NR_TASKS of them in use, two would have one owner among fewer tasks than that, since one
task_struct is still free (`FreeRegion`, from the pigeonhole theorem for finite sets).
`StackProofs` has the invariant, the regions, what each step has to respect, fork and the first
state; `ThreadProofs` has the other steps and the theorems. What is counted stands as the
hypothesis `Counting` of the lemmas and is proved last, by `FiniteCounts`.

**`KeyboardProofs`** (`KeyboardConstants`): `HandlersAreTransparent`, `HandlersKeepThePlace` (an action
property) and `KeysReachTheirCallback`. The invariants say where the interrupted context
is at each point of the way: in `kbd_saved_ctx` during the callback, then in the frame that
`int 0x2b` restores; and, for the third, that the parameters on the auxiliary stack are those
of the one task of the address space that is inside of its handler.

**`GameInputProofs`** (`HoldAssumption`, `KeysAssumption`): `PressesAreKept`, `HeldKeysAreDown`,
`OneMove`. `InputInv` adds `OwedSeen` (a press that came while its query had already found nothing
is in `late`) and `HoldsBack` (until the hold time is up, what can still answer with a move is
bounded at every point of `input_get_direction`).

**`GameLoopProofs`** (`GameLoopConstants`): `CopiesStayTogether`, `VictoryIsEarned`,
`GameStaysPlayable`. In the middle of a frame the copies differ; `LoopInv` says that the
writes still to come lead from the one to the other (`Leads`), with what each scene implies
(`Sane`).

**`GameRulesProofs`** (`MapAssumption`, `LevelAssumption`): `EnemiesAreCounted`,
`WalkersStayOnOpenGround`, `FallingRocksCrush` (an action property), on a map of any size, with any
numbers of enemies and rocks and any timers. The count is kept by each kill on its own: the
lemmas say, for each of the four places, that the enemies it kills were alive and are as many as
it takes off, also when one frame has several of them. `LevelAssumption` is what `LevelsFit` of
`level_paths` checks of the real levels. `RulesInv` adds to the two invariants: the player
and every enemy that is not a ghost stand away from the rocks that rest, a rock that rests
is bedded in dirt or on a bonus, and every record has the fields its updates rely on.
Without the rocks the claim would not be inductive: a rock's cell turns to open ground when
it falls.

### Only model-checked

- Liveness (`WaitersRun`, `HandlerEnds`, `PressServed`, `SceneShown`, `RocksComeDown`,
  `LevelLoads`) and everything that needs ENABLED: the prover does not handle them.
- `Kernel` and `ImplementsSched`: a list is read by following `next`, which is recursion, so
  what it yields for lists of every length would need induction over data. The same holds
  for the heap and the search of `PathSearch`, for `Numbers`, and for the folds of `Console`
  and `UserLib`.
- `PictureTrue`: the picture is a fold of drawings over sequences.
- `Context`: one long straight-line protocol over concrete words, for which the two-thread
  run is already exhaustive.

## Where code and documentation disagree

Met while modelling; the models follow the code.

1. WaitForTick can return with no tick: `sys_block` too runs the loop that wakes tick
   waiters (`sys.c:384`).
2. Idle takes turns with ready tasks (`sched.c:344`).
3. `exit` by a thread that is not the master frees the master while it is still queued
   (`sys.c:367`).
4. The second master to leave a process by ThreadExit has a `thread_list` that `list_del` has
   left NULL (`sys.c:592`, `632`).
5. After a master has left, its process still runs on the directory of the freed task_struct,
   which the next fork may get too (`sys.c:648`).
6. A fork that fails for its stack leaves the child on the parent's list (`sys.c:187`).
7. Every exit of a process leaves the stack frames of its master allocated: `sys_exit` frees the
   stacks of the threads on `thread_list` alone, and a master is not on its own (`sys.c:357`). The
   entries also stay in the table of the freed task_struct: a child that reuses it finds those
   pages mapped below its own stack, touches them without a fault, and is killed by the fault
   below them, which is not next to its stack. A fork by a thread, a second listener, and a thread
   with a handler that leaves, leave the frame of an auxiliary stack (`sys.c:583`); the temporary pages of fork end on page 1021, the auxiliary stack
   (`sys.c:125`); the child of a fork has page 0 present (`sys.c:100`, against `mm.c:54`);
   the stack copy of fork does not flush translations (`sys.c:204`).
8. Two threads of a process share one auxiliary stack page (`keyboard.c:41`).
9. Keys are dropped while the running task has no handler or is inside of it
   (`keyboard.c:90`; `sys.h:236` says "every time"), and `exit` does not test for the handler
   context (`sys.c:313`; `sys.h:246`).
10. `errno` is one per process (`sys_call_wrappers.S:40`); `access_ok` refuses a buffer that
    ends with the last user page (`utils.c:66`); the rate is renewed every 1000 ticks, which
    `kernel_helpers.c:174` calls one second (`times.h:43`: 320); every write of the screen counts
    as a frame (`screen.c:70`).
11. A press between load and store of its query is lost (`game_input.c:165`).
12. A press between `move_just_pressed` and the return gives two moves (`game_input.c:152`).
13. A release that is dropped leaves a key held (`keyboard.c:90`).
14. The scene is read twice for one picture (`game.c:482`), the level counts up before the scene
    changes (`game.c:332`), cleanup does not wait for the render thread (`game.c:173`).
15. Presses stay latched through scenes that do not ask for them (`game.c:270`, `366`); the
    game-over screen does not quit (`game.c:345`); the delay after the last enemy is only
    waited for in the first round (`game_logic.c:1353`).
16. In round 4 a bonus is under a rock, which falls at once (`game_data.c:376`).
17. `pq_push` drops nodes when 256 are queued, so a ghost in a much-dug map may be told that
    there is no way (`game_logic.c:602`); `map_draw_line`, which no level uses, draws one cell
    of some lines (`game_map.c:240`).
18. `game_render.c:454` says of the player "drawn last to always be visible"; while a round is
    played `game.c:498` draws enemies and rocks again, over the player.
19. `itoa` gives an empty text for a negative number (`libc.c:35`; `libc.h:27` has it convert an
    integer value). The numbers of the game lose the sign of -9 to -1, whatever the room
    (`game_ui.c:464`, `game_render.c:312`), and of every negative number padded with zeros.
    `render_number` writes the sign of a number that fills its places to `buffer[-1]`
    (`game_render.c:314`), and shows zero as nothing. The game shows scores, rounds and
    rates, none of them negative.
20. The clock of the kernel goes back to zero after 10000 seconds; that of the game stays
    at 9999 while its milliseconds go on (`kernel_helpers.c:159`, `game_ui.c:99`).
21. The check of the system call number lets MAX_SYSCALL itself pass, which is the word after
    `sys_call_table` (`entry.S:89`); no stub passes it.

Not against any document, but worth knowing:

- `logic_player_die` does not ask whether the player is alive (`game_logic.c:555`): fire, a rock
  and an enemy that meet the player in one update take a life each, and with fewer lives left
  the count becomes negative.
- Children forked by a thread that is not the master are not treated when the process exits
  (`sys.c:344`): they keep a parent that is gone.

## Not modelled

Boot and hardware set-up (what it leaves for each kernel module is its `Init`); `game_entities.c`,
which only the tests call; the translation
buffer; CMOS and port input; the texts of menus and status line, but for their numbers; line
drawing, gems and other helpers the game never calls; string helpers without state; the
tests; `src/zeos` and `src/lab_exams`.
