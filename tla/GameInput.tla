----------------------------- MODULE GameInput ------------------------------
(***************************************************************************)
(* The logic thread reading its input while the keyboard callback changes  *)
(* it: game_input.c, the first half of process_playing_state and           *)
(* process_paused_state, game.c.                                           *)
(*                                                                         *)
(* The callback runs on the logic thread, which registered it, like a      *)
(* signal handler: between any two accesses of the thread, and whole, since *)
(* the kernel delivers no key while it runs (module Keyboard).  So every   *)
(* load and store of the volatile g_input is a step here, and a key event  *)
(* is one step, possible at every point.  A key that arrives while the     *)
(* render thread runs never gets here (keyboard.c:90): KeyDropped.         *)
(***************************************************************************)
EXTENDS InputState, Sequences

CONSTANT Keys                    \* keys on the keyboard

ASSUME KeysAssumption == Keys \subseteq AllKeys

VARIABLES
  in,        \* g_input
  pc,        \* the access of g_input that the logic thread makes next
  local,     \* its local variable: pressed, or the loaded hold_time
  paused,    \* g_game.scene is SCENE_PAUSED, not SCENE_PLAYING
  down,      \* keys of HeldKeys that are down
  missed,    \* those whose release was dropped, until their next event
  owed,      \* latches with a press that no query has reported
  late,      \* latches whose last press came while Unseen
  early,     \* moves answered since the last press, before HOLD_THRESHOLD
  age,       \* calls of input_update since the last press of a movement key
  raced      \* that press came inside one of the windows of Raced

vars == <<in, pc, local, paused, down, missed, owed, late, early, age, raced>>
thread == <<pc, local, paused>>
keyboard == <<down, missed>>
presses == <<owed, late>>
moves == <<early, age, raced>>
MaxEarly == 2

Pause == "pause_pressed"
Kill == "dev_kill_pressed"
Action == "action_pressed"
Attack == "attack_pressed"
Queried == {Pause, Kill, Action, Attack}

\* The callback ignores the release of the other keys.
HeldKeys == {k \in Keys : key_dir(k) # DIR_NONE \/ k = "SPACE"}

Points ==
  {<<"wait", "frame">>, <<"held", "attack">>} \cup ({"load", "store"} \X Queried)
  \cup ({"inc"} \X {"test", "load", "store"})
  \cup ({"dir"} \X {"held", "just", "processed", "time", "mark", "consume", "return"})
  \cup ({"clear"} \X {ClearOrder[i] : i \in DOMAIN ClearOrder})

Init ==
  /\ in = NoInput /\ pc = <<"wait", "frame">> /\ local = 0 /\ paused = FALSE
  /\ down = {} /\ missed = {} /\ owed = {} /\ late = {} /\ early = 0 /\ age = 0 /\ raced = FALSE

-----------------------------------------------------------------------------
(* The callback *)

\* The field that the press of a key that is not a movement key sets.
Latch(key) ==
  CASE key = "SPACE" -> "attack_pressed" [] key = "ENTER" -> "action_pressed"
    [] key = "P" -> "pause_pressed" [] key \in {"ESC", "Q"} -> "quit_pressed"
    [] key = "K" -> "dev_kill_pressed" [] OTHER -> "none"

\* Between the load and the store of a query that has found nothing: the store
\* takes back a press that nobody saw.
Unseen(f) == pc = <<"store", f>> /\ local = 0

\* Between the store of hold_time, or of move_just_pressed, and its use.
Raced == pc \in {<<"inc", "store">>, <<"dir", "return">>}

\* A press, or the repetition of a key that stays down.
KeyPressed(k) ==
  /\ in' = input_keyboard_handler(in, k, TRUE)
  /\ down' = down \cup ({k} \cap HeldKeys) /\ missed' = missed \ {k}
  /\ owed' = owed \cup ({Latch(k)} \cap Queried)
  /\ late' = (late \ {Latch(k)}) \cup {f \in Queried : f = Latch(k) /\ Unseen(f)}
  /\ IF key_dir(k) # DIR_NONE THEN early' = 0 /\ age' = 0 /\ raced' = Raced
                              ELSE UNCHANGED <<early, age, raced>>
  /\ UNCHANGED thread

KeyReleased(k) ==
  /\ k \in down
  /\ in' = input_keyboard_handler(in, k, FALSE)
  /\ down' = down \ {k} /\ missed' = missed \ {k}
  /\ UNCHANGED <<thread, presses, moves>>

\* kbd_irq_handler returns at once: the running task has no handler.
KeyDropped(k) ==
  /\ \/ k \notin down /\ down' = down \cup {k} /\ UNCHANGED missed
     \/ k \in down /\ down' = down \ {k} /\ missed' = missed \cup {k}
  /\ UNCHANGED <<in, thread, presses, moves>>

-----------------------------------------------------------------------------
(* A frame of the logic thread in SCENE_PLAYING or SCENE_PAUSED *)

wait_for_next_frame ==
  /\ pc[1] = "wait"
  /\ pc' = <<"inc", "test">>
  /\ UNCHANGED <<in, local, paused, keyboard, presses, moves>>

Capped(n) == IF n < HOLD_THRESHOLD THEN n + 1 ELSE n

\* input_update: hold_time++ is a load and a store.
Update ==
  /\ pc[1] = "inc"
  /\ \/ /\ pc[2] = "test" /\ in.held_dir # DIR_NONE
        /\ pc' = <<"inc", "load">> /\ UNCHANGED <<in, local, age>>
     \/ /\ pc[2] = "test" /\ in.held_dir = DIR_NONE
        /\ pc' = <<"load", Pause>> /\ age' = Capped(age) /\ UNCHANGED <<in, local>>
     \/ /\ pc[2] = "load" /\ local' = in.hold_time
        /\ pc' = <<"inc", "store">> /\ UNCHANGED <<in, age>>
     \/ /\ pc[2] = "store" /\ in' = [in EXCEPT !.hold_time = Capped(local)] /\ local' = 0
        /\ pc' = <<"load", Pause>> /\ age' = Capped(age)
  /\ UNCHANGED <<paused, keyboard, presses, early, raced>>

\* input_is_pause_pressed and the three like it: load the flag ...
LoadFlag(f) ==
  /\ pc = <<"load", f>>
  /\ local' = IF in[f] THEN 1 ELSE 0
  /\ pc' = <<"store", f>>
  /\ UNCHANGED <<in, paused, keyboard, presses, moves>>

\* The attack is asked for only while it is held.
AfterQuery_OnlyHeld(f) ==
  /\ pc' = CASE f = Pause /\ (paused \/ local = 1) -> <<"wait", "frame">>
             [] f = Pause /\ ~paused /\ local # 1 -> <<"load", Kill>>
             [] f = Kill -> <<"dir", "held">>
             [] f = Action /\ in.attack_held -> <<"load", Attack>>
             [] OTHER -> <<"held", "attack">>
  /\ paused' = IF f = Pause /\ local = 1 THEN ~paused ELSE paused

\* What follows the query: a reported pause changes the scene and ends the frame, and
\* in SCENE_PAUSED nothing else is asked.
AfterQuery(f) ==
  /\ pc' = CASE f = Pause /\ (paused \/ local = 1) -> <<"wait", "frame">>
             [] f = Pause /\ ~paused /\ local # 1 -> <<"load", Kill>>
             [] f = Kill -> <<"dir", "held">> [] f = Action -> <<"load", Attack>>
             [] f = Attack -> <<"held", "attack">>
  /\ paused' = IF f = Pause /\ local = 1 THEN ~paused ELSE paused

\* ... then clear it, and report what was loaded.
StoreFlag(f) ==
  /\ pc = <<"store", f>>
  /\ in' = Consume(in, f)
  /\ AfterQuery(f)
  /\ owed' = IF local = 1 THEN owed \ {f} ELSE owed
  /\ late' = IF local = 1 THEN late \ {f} ELSE late
  /\ local' = 0
  /\ UNCHANGED <<keyboard, moves>>

input_is_attack_held == pc[1] = "held" /\ pc' = <<"wait", "frame">>
                        /\ UNCHANGED <<in, local, paused, keyboard, presses, moves>>

Answered == <<"load", Action>>     \* input_get_direction has returned

\* The press is not consumed: the flags keep saying that it is new.
input_get_direction_Unmarked ==
  /\ pc[1] = "dir"
  /\ \/ /\ pc[2] # "return" /\ UNCHANGED <<in, early>>
        /\ pc' = IF in.held_dir = DIR_NONE THEN Answered
                 ELSE IF in.move_just_pressed \/ in.hold_time >= HOLD_THRESHOLD
                 THEN <<"dir", "return">> ELSE Answered
     \/ /\ pc[2] = "return" /\ pc' = Answered /\ UNCHANGED in
        /\ early' = IF in.held_dir # DIR_NONE /\ age < HOLD_THRESHOLD /\ early < MaxEarly
                    THEN early + 1 ELSE early
  /\ UNCHANGED <<local, paused, keyboard, presses, age, raced>>

\* A step for each access; at "return" the held direction is read again.
input_get_direction ==
  LET goto(q) == pc' = <<"dir", q>>
  IN /\ pc[1] = "dir"
     /\ \/ /\ pc[2] = "held" /\ UNCHANGED <<in, early>>
           /\ IF in.held_dir = DIR_NONE THEN pc' = Answered ELSE goto("just")
        \/ /\ pc[2] = "just" /\ UNCHANGED <<in, early>>
           /\ IF in.move_just_pressed THEN goto("processed") ELSE goto("time")
        \/ /\ pc[2] = "processed" /\ UNCHANGED <<in, early>>
           /\ IF ~in.move_processed THEN goto("mark") ELSE goto("time")
        \/ /\ pc[2] = "time" /\ UNCHANGED <<in, early>>
           /\ IF in.hold_time >= HOLD_THRESHOLD THEN goto("return") ELSE pc' = Answered
        \/ /\ pc[2] = "mark" /\ goto("consume") /\ UNCHANGED early
           /\ in' = [in EXCEPT !.move_processed = TRUE]
        \/ /\ pc[2] = "consume" /\ goto("return") /\ UNCHANGED early
           /\ in' = [in EXCEPT !.move_just_pressed = FALSE]
        \/ /\ pc[2] = "return" /\ pc' = Answered /\ UNCHANGED in
           /\ early' = IF in.held_dir # DIR_NONE /\ age < HOLD_THRESHOLD /\ early < MaxEarly
                       THEN early + 1 ELSE early
     /\ UNCHANGED <<local, paused, keyboard, presses, age, raced>>

\* input_clear, when a round starts: a store for each field.
StartClear ==
  /\ pc[1] = "wait" /\ ~paused /\ pc' = <<"clear", ClearOrder[1]>>
  /\ UNCHANGED <<in, local, paused, keyboard, presses, moves>>

ClearField ==
  /\ pc[1] = "clear"
  /\ in' = [in EXCEPT ![pc[2]] = NoInput[pc[2]]]
  /\ owed' = owed \ {pc[2]} /\ late' = late \ {pc[2]}
  /\ \E i \in DOMAIN ClearOrder :
       /\ ClearOrder[i] = pc[2]
       /\ pc' = IF i < Len(ClearOrder) THEN <<"clear", ClearOrder[i + 1]>> ELSE <<"wait", "frame">>
  /\ UNCHANGED <<local, paused, keyboard, moves>>

LogicStep ==
  \/ wait_for_next_frame \/ Update \/ input_get_direction \/ input_is_attack_held
  \/ (\E f \in Queried : LoadFlag(f) \/ StoreFlag(f))
  \/ StartClear \/ ClearField

KeyEvent ==
  \/ \E k \in Keys : KeyPressed(k)
  \/ \E k \in HeldKeys : KeyReleased(k) \/ KeyDropped(k)

Next == LogicStep \/ KeyEvent
Spec == Init /\ [][Next]_vars

\* The round-robin scheduler runs the thread again and again, every callback
\* returns (module Keyboard), and a round starts finitely often.
FairSpec == Spec /\ WF_vars(LogicStep /\ ~StartClear)

-----------------------------------------------------------------------------
\* Values of the right kind.
TypeOK ==
  /\ in \in InputStates /\ pc \in Points /\ local \in 0..HOLD_THRESHOLD
  /\ down \subseteq HeldKeys /\ missed \subseteq HeldKeys
  /\ owed \subseteq Queried /\ late \subseteq Queried /\ paused \in BOOLEAN
  /\ early \in 0..MaxEarly /\ age \in 0..HOLD_THRESHOLD /\ raced \in BOOLEAN

\* What g_input calls held is down: a direction key of held_dir, and the space
\* bar when attack_held (game_types.h: "Direction currently being held",
\* "Attack button currently held down"), unless the release never reached the
\* handler.
HeldIsDown ==
  /\ in.held_dir # DIR_NONE => \E k \in down \cup missed : key_dir(k) = in.held_dir
  /\ in.attack_held => "SPACE" \in down \cup missed

\* A press stays latched, or is on its way to the caller of its query, until the query
\* has reported it or a round has started (game_input.h: "return 1 if action button
\* (enter) was pressed"), pauses included.  It is lost in one case: it came between the
\* load and the store of a query that had found nothing, and then the store undoes it.
\* (A press between the load and the store of a query that found an earlier one is
\* reported with that one.)
PressKept ==
  \A f \in owed :
    LET kept == in[f] \/ (pc = <<"store", f>> /\ local = 1)
    IN (f \notin late => kept) /\ (kept => f \notin late \/ Unseen(f))

\* A press of a movement key gives one move at once; more moves only come
\* after HOLD_THRESHOLD frames (game_input.c: "First press: allow one
\* immediate move"), except after a press in one of the windows of Raced.
OneMovePerPress == raced \/ early <= 1

\* The pause key is always served; any other latched press is reported or cleared in
\* the end once the game is no longer paused, so every path of a frame asks for each.
\* While the game is paused the presses of the other keys wait: if the player never
\* resumes, or pauses again each time before they are asked for, they are not served.
PressServed ==
  /\ []<>~in[Pause]
  /\ \A f \in Queried \ {Pause} : <>[]~paused => []<>~in[f]
=============================================================================
