----------------------------- MODULE InputState -----------------------------
(***************************************************************************)
(* The input state of the game, game_input.c: the structure that the       *)
(* keyboard callback writes and the logic thread reads, and the functions  *)
(* that change all of it.  A key is named after its KEY_ constant; the     *)
(* queries, which the callback may interrupt, are actions of GameInput.    *)
(***************************************************************************)
EXTENDS Integers

CONSTANT HOLD_THRESHOLD         \* frames before a held key moves continuously

ASSUME HoldAssumption == HOLD_THRESHOLD \in Nat \ {0}

DIR_NONE == "NONE"
Direction == {DIR_NONE, "UP", "DOWN", "LEFT", "RIGHT"}
NoKey == "no key"
AllKeys == {"W", "S", "A", "D", "SPACE", "ENTER", "P", "ESC", "Q", "K", "C"}

\* The direction of a movement key; the arrows are the same four keys again.
key_dir(key) ==
  CASE key = "W" -> "UP" [] key = "S" -> "DOWN" [] key = "A" -> "LEFT"
    [] key = "D" -> "RIGHT" [] OTHER -> DIR_NONE

\* hold_time is only compared with HOLD_THRESHOLD, so it stays there; last_key is
\* only compared with KEY_C, and any_key_pressed, which the game never reads, is
\* left out.
InputStates ==
  [direction : Direction, held_dir : Direction, move_just_pressed : BOOLEAN,
   hold_time : 0..HOLD_THRESHOLD, action_pressed : BOOLEAN, attack_pressed : BOOLEAN,
   attack_held : BOOLEAN, pause_pressed : BOOLEAN, quit_pressed : BOOLEAN,
   dev_kill_pressed : BOOLEAN, last_key : {"C", NoKey},
   move_processed : BOOLEAN]

\* The initial value of the global g_input (in .bss).
NoInput ==
  [direction |-> DIR_NONE, held_dir |-> DIR_NONE, move_just_pressed |-> FALSE,
   hold_time |-> 0, action_pressed |-> FALSE, attack_pressed |-> FALSE,
   attack_held |-> FALSE, pause_pressed |-> FALSE, quit_pressed |-> FALSE,
   dev_kill_pressed |-> FALSE, last_key |-> NoKey,
   move_processed |-> FALSE]

-----------------------------------------------------------------------------
MovePressed(in, dir) ==
  [in EXCEPT !.held_dir = dir, !.move_just_pressed = TRUE, !.hold_time = 0,
             !.move_processed = FALSE]

\* The release looks for the direction that is not held.
MoveReleased_Other(in, dir) ==
  IF in.held_dir # dir
  THEN [in EXCEPT !.held_dir = DIR_NONE, !.hold_time = 0, !.move_just_pressed = FALSE]
  ELSE in

MoveReleased(in, dir) ==
  IF in.held_dir = dir
  THEN [in EXCEPT !.held_dir = DIR_NONE, !.hold_time = 0, !.move_just_pressed = FALSE]
  ELSE in

Noted(in, key) == [in EXCEPT !.last_key = IF key = "C" THEN "C" ELSE NoKey]

\* The release of the space bar takes back its press.
SpaceKey_ReleaseClears(in, pressed) ==
  [in EXCEPT !.attack_held = pressed, !.attack_pressed = pressed]

\* The space bar both attacks and is held.
SpaceKey(in, pressed) ==
  [in EXCEPT !.attack_held = pressed, !.attack_pressed = @ \/ pressed]

\* The other keys only count when they are pressed.
OtherKey(in, key) ==
  CASE key = "ENTER" -> [in EXCEPT !.action_pressed = TRUE]
    [] key = "P" -> [in EXCEPT !.pause_pressed = TRUE]
    [] key \in {"ESC", "Q"} -> [in EXCEPT !.quit_pressed = TRUE]
    [] key = "K" -> [in EXCEPT !.dev_kill_pressed = TRUE]
    [] OTHER -> in

input_keyboard_handler(in, key, pressed) ==
  LET noted == IF pressed THEN Noted(in, key) ELSE in
      dir == key_dir(key)
  IN IF dir # DIR_NONE
     THEN IF pressed THEN MovePressed(noted, dir) ELSE MoveReleased(noted, dir)
     ELSE IF key = "SPACE" THEN SpaceKey(noted, pressed)
     ELSE IF pressed THEN OtherKey(noted, key) ELSE noted

\* input_clear, store after store.
ClearOrder ==
  <<"direction", "held_dir", "move_just_pressed", "hold_time", "action_pressed",
    "attack_pressed", "attack_held", "pause_pressed", "move_processed">>

input_clear(in) ==
  [f \in DOMAIN in |-> IF \E i \in DOMAIN ClearOrder : ClearOrder[i] = f
                       THEN NoInput[f] ELSE in[f]]

input_clear_quit(in) == [in EXCEPT !.quit_pressed = FALSE]

\* dev_kill_pressed is the field that input_reset leaves alone.
input_reset(in) == [NoInput EXCEPT !.dev_kill_pressed = in.dev_kill_pressed]

\* The second half of input_is_action_pressed and its like.
Consume(in, f) == [in EXCEPT ![f] = FALSE]

input_update(in) ==
  IF in.held_dir # DIR_NONE /\ in.hold_time < HOLD_THRESHOLD
  THEN [in EXCEPT !.hold_time = @ + 1] ELSE in
=============================================================================
