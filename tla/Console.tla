------------------------------ MODULE Console -------------------------------
(***************************************************************************)
(* The console and the write system call: sys_write of sys.c, access_ok    *)
(* and copy_from_user of utils.c, devices.c, screen.c, the cursor and the  *)
(* scrolling of io.c, and the clock in the first row that                  *)
(* kernel_helpers.c keeps and every tick draws.                            *)
(*                                                                         *)
(* Handlers run with interrupts off, so that a system call and a tick are  *)
(* one step each.  A cell of the screen holds a character; colours choose  *)
(* nothing and are left out.                                               *)
(***************************************************************************)
EXTENDS Integers, Sequences
LOCAL INSTANCE SequencesExt

CONSTANTS
  NUM_COLUMNS, NUM_ROWS,
  BootText,                       \* what main prints before it enters user mode
  SYS_BUFFER_SIZE,
  PAGE_SIZE, USER_FIRST_PAGE, TOTAL_PAGES,
  WORD,                           \* the number of addresses: 2^32
  UserByte(_),                    \* what user memory holds at an address
  Calls,                          \* the calls of sys_write: records with fd, buffer, size
  KernelTexts,                    \* what the kernel prints itself
  TIME_WIDTH, FPS_WIDTH,          \* the cells of the clock: 8 on the left, 9 on the right
  FPS_UPDATE_INTERVAL,
  MAX_LINES, MAX_TICKS, MAX_FRAMES \* bounds of the model: lines printed, ticks, frames

ASSUME ConsoleAssumption ==
  /\ NUM_COLUMNS \in Nat \ {0} /\ NUM_ROWS \in Nat \ {0}
  /\ SYS_BUFFER_SIZE \in Nat \ {0} /\ TIME_WIDTH + FPS_WIDTH <= NUM_COLUMNS
  /\ TOTAL_PAGES * PAGE_SIZE < WORD \div 2

VARIABLES
  screen,                         \* video memory, cell by cell
  x, y,                           \* the cursor
  port,                           \* what the last step has put out on the debug port 0xe9
  last,                           \* the last step, when it was a call of sys_write, and what
                                  \* it returned
  zeos_ticks, frame_count, current_fps, last_frame_count, last_fps_update_tick,
  paper,                          \* history: the lines printed since boot
  raw                             \* history: whether a program has written cells itself

vars == <<screen, x, y, port, last, zeos_ticks, frame_count, current_fps, last_frame_count,
          last_fps_update_tick, paper, raw>>

Fd == [FD_CONSOLE |-> 1, FD_DEBUG |-> 2, FD_SCREEN |-> 10]
EBADF == 9
EFAULT == 14
EINVAL == 22
EINPROGRESS == 115

CellCount == NUM_ROWS * NUM_COLUMNS
Blank == " "
NoCall == [fd |-> 0, buffer |-> 0, size |-> 0]
Returned(c, r) == last' = [call |-> c, ret |-> r]
BlankLine == [i \in 1..NUM_COLUMNS |-> Blank]

-----------------------------------------------------------------------------
(* Printing.  The state of the console is a record, so that a string can be *)
(* folded over it.                                                          *)

Con == [screen |-> screen, x |-> x, y |-> y, port |-> <<>>, paper |-> paper]
Show(c) == screen' = c.screen /\ x' = c.x /\ y' = c.y /\ port' = c.port /\ paper' = c.paper

write_char_to_screen(c, ch) == [c EXCEPT !.screen[c.y * NUM_COLUMNS + c.x] = ch]

\* The row that becomes free keeps what it held.
scroll_screen_NotCleared(c) ==
  [c EXCEPT !.screen = [i \in 0..(CellCount - 1) |->
                          IF i < (NUM_ROWS - 1) * NUM_COLUMNS THEN @[i + NUM_COLUMNS] ELSE @[i]],
            !.y = NUM_ROWS - 1]

scroll_screen(c) ==
  [c EXCEPT !.screen = [i \in 0..(CellCount - 1) |->
                          IF i < (NUM_ROWS - 1) * NUM_COLUMNS THEN @[i + NUM_COLUMNS] ELSE Blank],
            !.y = NUM_ROWS - 1]

handle_newline(c) ==
  LET n == [c EXCEPT !.x = 0, !.y = @ + 1, !.paper = Append(@, BlankLine)]
  IN IF n.y >= NUM_ROWS THEN scroll_screen(n) ELSE n

printc(c, ch) ==
  LET out == [c EXCEPT !.port = Append(@, ch)]
      put == [write_char_to_screen(out, ch) EXCEPT !.x = @ + 1,
                !.paper[Len(c.paper)][c.x + 1] = ch]
  IN IF ch = "\n" THEN handle_newline(out)
     ELSE IF put.x >= NUM_COLUMNS THEN handle_newline(put) ELSE put

printk(c, s) == FoldLeft(printc, c, s)

sys_write_console(c, s) == FoldLeft(printc, c, s)

sys_write_debug(c, s) == [c EXCEPT !.port = @ \o s]

\* The clock: the time on the left of the first row and the rate on the right.
ClockCells == 0..(TIME_WIDTH - 1) \cup (NUM_COLUMNS - FPS_WIDTH)..(NUM_COLUMNS - 1)
draw_time_and_fps(c) ==
  [c EXCEPT !.screen = [i \in DOMAIN @ |-> IF i \in ClockCells THEN "clock" ELSE @[i]]]

-----------------------------------------------------------------------------
(* The system call *)

PageOf(a) == (a % WORD) \div PAGE_SIZE

\* The sum wraps around; an end that is before the start is refused.
access_ok(a, size) ==
  /\ PageOf(a + size) >= PageOf(a)
  /\ PageOf(a) >= USER_FIRST_PAGE /\ PageOf(a + size) < TOTAL_PAGES

copy_from_user(a, size) == [i \in 1..size |-> UserByte(a + i - 1)]

\* The pointer to the user's bytes stays where it was.
Chunks_Again(a, size) ==
  LET full == IF size > SYS_BUFFER_SIZE THEN (size - 1) \div SYS_BUFFER_SIZE ELSE 0
  IN [k \in 1..(full + 1) |->
        copy_from_user(a, IF k <= full THEN SYS_BUFFER_SIZE ELSE size - full * SYS_BUFFER_SIZE)]

\* The chunks that sys_write copies to its buffer: full ones while more than one is left.
Chunks(a, size) ==
  LET full == IF size > SYS_BUFFER_SIZE THEN (size - 1) \div SYS_BUFFER_SIZE ELSE 0
  IN [k \in 1..(full + 1) |->
        copy_from_user(a + (k - 1) * SYS_BUFFER_SIZE,
                       IF k <= full THEN SYS_BUFFER_SIZE ELSE size - full * SYS_BUFFER_SIZE)]

check_fd(fd) == IF fd \in {Fd.FD_CONSOLE, Fd.FD_DEBUG, Fd.FD_SCREEN} THEN 0 ELSE -EBADF

\* Why a call fails, in the order the code asks; 0 when it does not.
Refusal(c, in_handler) ==
  CASE c.size < 0 -> -EINVAL
    [] c.size >= 0 /\ check_fd(c.fd) # 0 -> check_fd(c.fd)
    [] c.size >= 0 /\ check_fd(c.fd) = 0 /\ ~access_ok(c.buffer, c.size) -> -EFAULT
    [] c.size >= 0 /\ check_fd(c.fd) = 0 /\ access_ok(c.buffer, c.size) /\ in_handler -> -EINPROGRESS
    [] OTHER -> 0

sys_write_refused ==
  /\ \E c \in Calls, h \in BOOLEAN : Refusal(c, h) # 0 /\ Returned(c, Refusal(c, h))
  /\ Show(Con)
  /\ UNCHANGED <<zeos_ticks, frame_count, current_fps, last_frame_count, last_fps_update_tick, raw>>

\* Console and debug output.
sys_write_out ==
  \E c \in Calls :
    /\ c.fd # Fd.FD_SCREEN /\ Refusal(c, FALSE) = 0 /\ Len(paper) <= MAX_LINES
    /\ Show(IF c.fd = Fd.FD_DEBUG THEN FoldLeft(sys_write_debug, Con, Chunks(c.buffer, c.size))
                                     ELSE FoldLeft(sys_write_console, Con, Chunks(c.buffer, c.size)))
    /\ Returned(c, c.size)
    /\ UNCHANGED <<zeos_ticks, frame_count, current_fps, last_frame_count, last_fps_update_tick, raw>>

\* A program writes cells, two bytes each, over the screen; the clock is drawn again.
sys_write_screen ==
  \E c \in Calls :
    /\ c.fd = Fd.FD_SCREEN /\ Refusal(c, FALSE) = 0 /\ frame_count < MAX_FRAMES
    /\ LET size == IF c.size > 2 * CellCount THEN 2 * CellCount ELSE c.size
           s == [i \in 0..(CellCount - 1) |->
                   IF 2 * i < size THEN UserByte(c.buffer + 2 * i) ELSE screen[i]]
       IN /\ Show(draw_time_and_fps([Con EXCEPT !.screen = s]))
          /\ Returned(c, size)
    /\ raw' = TRUE
    /\ frame_count' = frame_count + 1
    /\ UNCHANGED <<zeos_ticks, current_fps, last_frame_count, last_fps_update_tick>>

-----------------------------------------------------------------------------
(* The kernel *)

Printk ==
  /\ \E s \in KernelTexts : Len(paper) <= MAX_LINES /\ Show(printk(Con, s))
  /\ Returned(NoCall, 0)
  /\ UNCHANGED <<zeos_ticks, frame_count, current_fps, last_frame_count, last_fps_update_tick, raw>>

\* At the end of print_splash_screen.
clear_screen ==
  [screen |-> [i \in 0..(CellCount - 1) |-> Blank], x |-> 0, y |-> 0, port |-> <<>>, paper |-> <<BlankLine>>]

update_time_and_fps ==
  IF zeos_ticks + 1 - last_fps_update_tick >= FPS_UPDATE_INTERVAL
  THEN /\ current_fps' = frame_count - last_frame_count /\ last_frame_count' = frame_count
       /\ last_fps_update_tick' = zeos_ticks + 1
  ELSE UNCHANGED <<current_fps, last_frame_count, last_fps_update_tick>>

clock_routine ==
  /\ zeos_ticks < MAX_TICKS
  /\ zeos_ticks' = zeos_ticks + 1 /\ update_time_and_fps
  /\ Show(draw_time_and_fps(Con))
  /\ Returned(NoCall, 0) /\ UNCHANGED <<frame_count, raw>>

\* main clears the splash screen and says that it enters user mode.
Init ==
  /\ LET c == printk(clear_screen, BootText)
     IN screen = c.screen /\ x = c.x /\ y = c.y /\ port = c.port /\ paper = c.paper
  /\ raw = FALSE /\ last = [call |-> NoCall, ret |-> 0]
  /\ zeos_ticks = 0 /\ frame_count = 0 /\ current_fps = 0 /\ last_frame_count = 0
  /\ last_fps_update_tick = 0

Next == sys_write_refused \/ sys_write_out \/ sys_write_screen \/ Printk \/ clock_routine

Spec == Init /\ [][Next]_vars

-----------------------------------------------------------------------------
(* Properties *)

\* However output wraps, scrolls and is cut up, the screen is the window on the last
\* lines printed, but for the cells of the clock; and the cursor, whose cell printc writes
\* without a check, stays on it.
WindowShowsPaper ==
  /\ x \in 0..(NUM_COLUMNS - 1) /\ y \in 0..(NUM_ROWS - 1)
  /\ ~raw =>
    LET top == Len(paper) - 1 - y
    IN /\ top >= 0
       /\ \A i \in 0..(CellCount - 1) \ ClockCells :
            LET line == top + 1 + i \div NUM_COLUMNS
            IN screen[i] = IF line <= Len(paper) THEN paper[line][(i % NUM_COLUMNS) + 1] ELSE Blank

InUserPages(c) == \A k \in 0..(c.size - 1) : PageOf(c.buffer + k) \in USER_FIRST_PAGE..(TOTAL_PAGES - 1)

\* A write puts out every byte of the user once and in order, in however many chunks, and reads
\* user pages only, whatever the sum of address and size wraps to.
EveryByteOnce ==
  last.ret > 0 =>
    /\ InUserPages(last.call)
    /\ last.call.fd # Fd.FD_SCREEN =>
         last.ret = last.call.size /\ port = copy_from_user(last.call.buffer, last.call.size)
=============================================================================
