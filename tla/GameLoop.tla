------------------------------ MODULE GameLoop ------------------------------
(***************************************************************************)
(* The game's two threads, game.c: the logic thread with its scenes and    *)
(* the render thread.                                                      *)
(*                                                                         *)
(* A frame of the logic thread works on its own g_logic_state, and writes  *)
(* the fields of g_game that the render thread reads one by one, in the    *)
(* order of the code: todo holds the writes that are still to come.  What  *)
(* happens to the player and the enemies in a frame is module GameRules;   *)
(* here logic_update has its possible outcomes.  Time is counted in        *)
(* frames.  Accesses of g_input that a key may split are module GameInput. *)
(***************************************************************************)
EXTENDS InputState, Sequences

CONSTANTS Keys,              \* keys that are pressed
          MAX_ROUNDS, INITIAL_LIVES,
          Enemies,           \* enemies of a round
          MaxDeaths,         \* deaths within one update
          RoundStartDelay, RespawnDelay, LevelClearDelay, GameOverDelay,
          ClearedDelay       \* 3 * ONE_SECOND in frames

ASSUME GameLoopConstants ==
  /\ Keys \subseteq AllKeys
  /\ \A n \in {MAX_ROUNDS, INITIAL_LIVES, Enemies, RoundStartDelay, RespawnDelay,
               LevelClearDelay, GameOverDelay, ClearedDelay} : n \in Nat \ {0}
  /\ MaxDeaths \in Nat

Scenes == {"MENU", "PLAYING", "PAUSED", "GAME_OVER", "ROUND_CLEAR", "ROUND_START",
           "VICTORY", "CREDITS"}
NotCleared == -1               \* enemies_cleared_time is 0

VARIABLES
  g_game,         \* scene, level and lives of the global game state
  g_logic,        \* g_logic_state
  in,             \* g_input
  g_running, g_frame_ready,
  lpc, todo,      \* the logic thread, and its pending writes of g_game
  rpc,            \* the render thread
  back,           \* the scene in its buffer
  screen,         \* the scene that write(10, ...) has shown
  won             \* rounds cleared in this game

vars == <<g_game, g_logic, in, g_running, g_frame_ready, lpc, todo, rpc, back, screen,
          won>>
render == <<rpc, back, screen>>

NoScene == "none"

\* logic_init.
logic_init ==
  [scene |-> "MENU", round |-> 1, lives |-> INITIAL_LIVES, timer |-> 0,
   cleared |-> NotCleared, enemies |-> 0, dead |-> FALSE]

\* game_init, and the creation of the render thread by game_main.
Init ==
  /\ g_game = [scene |-> "MENU", level |-> 1, lives |-> INITIAL_LIVES]
  /\ g_logic = logic_init
  /\ in = NoInput
  /\ g_running = TRUE /\ g_frame_ready = FALSE
  /\ lpc = "frame" /\ todo = <<>>
  /\ rpc = "loop" /\ back = NoScene /\ screen = NoScene
  /\ won = {}

-----------------------------------------------------------------------------
(* Levels.  A Result is the logic state, the writes of g_game and g_input. *)

Result(l, w, i) == [logic |-> l, writes |-> w, in |-> i]
Scene(s) == <<"scene", s>>
SetScene(l, s, i) == Result([l EXCEPT !.scene = s], <<Scene(s)>>, i)

\* data_load_level leaves enemies_cleared_time as it is.  The result of
\* game_new_level, -1 for a level that does not exist, is ignored.
game_new_level(l, level, w, i) ==
  IF level \notin 1..MAX_ROUNDS THEN Result(l, w, i)
  ELSE Result([l EXCEPT !.enemies = Enemies, !.round = level, !.dead = FALSE,
                        !.scene = "ROUND_START", !.timer = RoundStartDelay],
              Append(w, Scene("ROUND_START")), i)

\* game_reset, then level 1.
NewGame(i) ==
  game_new_level(logic_init, 1,
                 <<<<"lives", INITIAL_LIVES>>, <<"level", 1>>, Scene("MENU"), <<"level", 1>>>>, i)

-----------------------------------------------------------------------------
(* logic_update, by its outcomes *)

\* The last round is one too early.
logic_check_round_complete_OneOff(l) ==
  IF l.enemies > 0 THEN l
  ELSE LET s == IF l.cleared = NotCleared THEN [l EXCEPT !.cleared = ClearedDelay] ELSE l
       IN IF s.cleared > 0 THEN s
          ELSE IF s.round >= MAX_ROUNDS - 1 THEN [s EXCEPT !.scene = "VICTORY"]
          ELSE [s EXCEPT !.scene = "ROUND_CLEAR", !.timer = LevelClearDelay]

logic_check_round_complete(l) ==
  IF l.enemies > 0 THEN l
  ELSE LET s == IF l.cleared = NotCleared THEN [l EXCEPT !.cleared = ClearedDelay] ELSE l
       IN IF s.cleared > 0 THEN s
          ELSE IF s.round >= MAX_ROUNDS THEN [s EXCEPT !.scene = "VICTORY"]
          ELSE [s EXCEPT !.scene = "ROUND_CLEAR", !.timer = LevelClearDelay]

logic_check_game_over(l) == IF l.lives <= 0 THEN [l EXCEPT !.scene = "GAME_OVER"] ELSE l

\* n calls of logic_player_die: respawn is scheduled while lives remain.
logic_player_die(l, n) ==
  [l EXCEPT !.lives = @ - n, !.dead = @ \/ n > 0,
            !.timer = IF n > 0 /\ l.lives > 1 THEN RespawnDelay ELSE @]

\* The player is not revived.
Respawn_Forgotten(l) == [l EXCEPT !.timer = @ - 1]

Respawn(l) ==
  [l EXCEPT !.timer = @ - 1, !.dead = IF l.timer = 1 /\ l.lives > 0 THEN FALSE ELSE @]

logic_update(l) ==
  IF l.scene # "PLAYING" THEN {l}
  ELSE IF l.timer > 0 THEN {Respawn(l)}
  ELSE {logic_check_game_over(logic_check_round_complete(
          logic_player_die([l EXCEPT !.enemies = @ - k], n))) :
        k \in 0..l.enemies, n \in 0..MaxDeaths}

-----------------------------------------------------------------------------
(* The scenes *)

Released(f) == Consume(in, f)

process_menu_state ==
  {IF in.action_pressed
   THEN LET r == NewGame(Released("action_pressed"))
        IN [r EXCEPT !.writes = Append(@, <<"clear", 0>>)]
   ELSE Result(g_logic, <<>>, in)}

\* sync_logic_to_game_state, and game over when no life is left.
AfterUpdate(l, i) ==
  LET w == <<<<"lives", l.lives>>>> \o IF l.scene # "PLAYING" THEN <<Scene(l.scene)>> ELSE <<>>
  IN IF l.lives <= 0
     THEN Result([l EXCEPT !.scene = "GAME_OVER", !.timer = GameOverDelay],
                 Append(w, Scene("GAME_OVER")), i)
     ELSE Result(l, w, i)

process_playing_state ==
  IF in.pause_pressed THEN {SetScene(g_logic, "PAUSED", Released("pause_pressed"))}
  ELSE LET i == [in EXCEPT !.dev_kill_pressed = FALSE, !.action_pressed = FALSE,
                           !.attack_pressed = FALSE]
           l == IF in.dev_kill_pressed /\ g_logic.enemies > 0
                THEN [g_logic EXCEPT !.enemies = @ - 1] ELSE g_logic
       IN {AfterUpdate(u, i) : u \in logic_update(l)}

process_paused_state ==
  {IF in.pause_pressed THEN SetScene(g_logic, "PLAYING", Released("pause_pressed"))
   ELSE Result(g_logic, <<>>, in)}

Ticked(l) == [l EXCEPT !.timer = IF @ > 0 THEN @ - 1 ELSE 0]

\* g_logic_state.round is not advanced, and the old round is loaded again.
process_level_clear_state_SameRound ==
  LET l == Ticked(g_logic)
  IN {IF l.timer > 0 THEN Result(l, <<>>, in)
      ELSE game_new_level(l, g_game.level, <<<<"level", g_game.level + 1>>>>, in)}

process_level_clear_state ==
  LET l == Ticked(g_logic)
      level == g_game.level + 1
      next == [l EXCEPT !.round = @ + 1]
  IN {IF l.timer > 0 THEN Result(l, <<>>, in)
      ELSE IF level > MAX_ROUNDS
      THEN Result([next EXCEPT !.scene = "VICTORY"],
                  <<<<"level", level>>, Scene("VICTORY")>>, in)
      ELSE game_new_level(next, level, <<<<"level", level>>>>, in)}

process_game_over_state ==
  LET l == Ticked(g_logic)
  IN {IF l.timer = 0 /\ in.action_pressed THEN NewGame(Released("action_pressed"))
      ELSE Result(l, <<>>, in)}

process_round_start ==
  LET l == Ticked(g_logic)
  IN {IF l.timer > 0 THEN Result(l, <<>>, in)
      ELSE Result([l EXCEPT !.scene = "PLAYING"], <<Scene("PLAYING"), <<"clear", 0>>>>, in)}

process_victory_state ==
  {IF in.action_pressed THEN NewGame(Released("action_pressed"))
   ELSE IF in.quit_pressed THEN SetScene(g_logic, "MENU", input_clear_quit(in))
   ELSE IF in.last_key = "C" THEN SetScene(g_logic, "CREDITS", in)
   ELSE Result(g_logic, <<>>, in)}

process_credits_state ==
  {IF in.quit_pressed THEN SetScene(g_logic, "VICTORY", input_clear_quit(in))
   ELSE Result(g_logic, <<>>, in)}

Processed ==
  CASE g_game.scene = "MENU" -> process_menu_state
    [] g_game.scene = "PLAYING" -> process_playing_state
    [] g_game.scene = "PAUSED" -> process_paused_state
    [] g_game.scene = "ROUND_CLEAR" -> process_level_clear_state
    [] g_game.scene = "GAME_OVER" -> process_game_over_state
    [] g_game.scene = "ROUND_START" -> process_round_start
    [] g_game.scene = "VICTORY" -> process_victory_state
    [] g_game.scene = "CREDITS" -> process_credits_state

-----------------------------------------------------------------------------
(* The logic thread *)

\* Time goes on for a deadline that has been set.
Later(l) == [l EXCEPT !.cleared = IF @ > 0 THEN @ - 1 ELSE @]

\* A frame of logic_thread_func, up to the writes of g_game.
LogicFrame ==
  /\ lpc = "frame" /\ ~(in.quit_pressed /\ g_game.scene = "MENU")
  /\ \E r \in Processed :
       /\ g_logic' = Later(r.logic) /\ todo' = r.writes /\ in' = r.in
       /\ won' = IF r.logic.scene \in {"ROUND_CLEAR", "VICTORY"} THEN won \cup {g_game.level}
                 ELSE IF r.logic.scene = "ROUND_START" /\ r.logic.round = 1 THEN {} ELSE won
  /\ lpc' = "writes"
  /\ UNCHANGED <<g_game, g_running, g_frame_ready, render>>

\* Quit, in the menu only; then game_cleanup.
Quit ==
  /\ lpc = "frame" /\ in.quit_pressed /\ g_game.scene = "MENU"
  /\ g_running' = FALSE /\ lpc' = "cleanup"
  /\ UNCHANGED <<g_game, g_logic, in, g_frame_ready, todo, render, won>>

\* The next of the pending writes.
Write ==
  /\ lpc = "writes" /\ todo # <<>>
  /\ LET w == Head(todo)
     IN IF w[1] = "clear" THEN in' = input_clear(in) /\ UNCHANGED g_game
        ELSE g_game' = [g_game EXCEPT ![w[1]] = w[2]] /\ UNCHANGED in
  /\ todo' = Tail(todo)
  /\ UNCHANGED <<g_logic, g_running, g_frame_ready, lpc, render, won>>

\* The render thread is only told of frames of the game itself.
Signal_InPlay ==
  /\ lpc = "writes" /\ todo = <<>>
  /\ g_frame_ready' = (g_frame_ready \/ g_game.scene = "PLAYING") /\ lpc' = "frame"
  /\ UNCHANGED <<g_game, g_logic, in, g_running, todo, render, won>>

\* The end of the frame: the render thread is told.
Signal ==
  /\ lpc = "writes" /\ todo = <<>>
  /\ g_frame_ready' = TRUE /\ lpc' = "frame"
  /\ UNCHANGED <<g_game, g_logic, in, g_running, todo, render, won>>

\* render_cleanup; main then loops for ever.
game_cleanup ==
  /\ lpc = "cleanup" /\ lpc' = "over" /\ screen' = NoScene
  /\ UNCHANGED <<g_game, g_logic, in, g_running, g_frame_ready, todo, rpc, back, won>>

Logic == LogicFrame \/ Quit \/ Write \/ Signal \/ game_cleanup

-----------------------------------------------------------------------------
(* The render thread *)

\* while (g_running) and the busy wait for g_frame_ready.
RenderLoop ==
  /\ rpc = "loop"
  /\ g_frame_ready \/ ~g_running
  /\ rpc' = IF g_running THEN "draw" ELSE "gone"
  /\ UNCHANGED <<back, screen, g_frame_ready>>

\* The buffer is cleared, and the scene that g_game names is drawn.  (It is read
\* twice; a change in between only costs the frame its background.)
Draw == /\ rpc = "draw" /\ rpc' = "present" /\ back' = g_game.scene
        /\ UNCHANGED <<screen, g_frame_ready>>

render_present == /\ rpc = "present" /\ rpc' = "done" /\ screen' = back
                  /\ UNCHANGED <<back, g_frame_ready>>

FrameDone == /\ rpc = "done" /\ rpc' = "loop" /\ g_frame_ready' = FALSE /\ back' = NoScene
             /\ UNCHANGED screen

Render ==
  /\ RenderLoop \/ Draw \/ render_present \/ FrameDone
  /\ UNCHANGED <<g_game, g_logic, in, g_running, lpc, todo, won>>

\* The keyboard callback.  The bound: a key is not pressed again before its
\* press has been used.
Key ==
  \E k \in Keys :
    /\ in' = input_keyboard_handler(in, k, TRUE) /\ in' # in
    /\ UNCHANGED <<g_game, g_logic, g_running, g_frame_ready, lpc, todo, render, won>>

Over == lpc = "over" /\ UNCHANGED vars       \* while (1) of main

Next == Logic \/ Render \/ Key \/ Over
Spec == Init /\ [][Next]_vars

\* The round-robin scheduler gives both threads the processor for ever, and
\* both loops only busy-wait.
FairSpec == Spec /\ WF_vars(Logic) /\ WF_vars(Render)

-----------------------------------------------------------------------------
LogicStates ==
  [scene : Scenes, round : 1..MAX_ROUNDS, lives : (1 - MaxDeaths)..INITIAL_LIVES,
   timer : Nat, cleared : NotCleared..ClearedDelay, enemies : 0..Enemies, dead : BOOLEAN]

\* Values of the right kind; the level is always one that exists, so the error
\* of game_new_level that every caller ignores never happens.
TypeOK ==
  /\ g_game \in [scene : Scenes, level : 1..MAX_ROUNDS,
                 lives : (1 - MaxDeaths)..INITIAL_LIVES]
  /\ g_logic \in LogicStates
  /\ g_running \in BOOLEAN /\ g_frame_ready \in BOOLEAN
  /\ lpc \in {"frame", "writes", "cleanup", "over"}
  /\ rpc \in {"loop", "draw", "present", "done", "gone"}
  /\ {back, screen} \subseteq Scenes \cup {NoScene} /\ won \subseteq 1..MAX_ROUNDS

\* Between frames the two copies of the game state agree: sync_logic_to_game_state
\* and every scene change keep g_game and g_logic_state together.
CopiesAgree ==
  lpc = "frame" => /\ g_game.scene = g_logic.scene /\ g_game.level = g_logic.round
                   /\ g_game.lives = g_logic.lives

\* The victory and credits screens only come after every round was cleared in
\* this game (process_level_clear_state, logic_check_round_complete).
VictoryEarned ==
  lpc = "frame" /\ g_game.scene \in {"VICTORY", "CREDITS"} => won = 1..MAX_ROUNDS

\* Whenever a frame is played there is a life left, and a dead player has a
\* running respawn timer: the game cannot stop with a dead player.
Playable ==
  lpc = "frame" /\ g_game.scene \in {"PLAYING", "PAUSED"}
    => g_logic.lives > 0 /\ (g_logic.dead => g_logic.timer > 0)

\* A scene that stays is shown: a frame that the render thread misses, because
\* it clears g_frame_ready after its own present, is made up for.
SceneShown ==
  \/ []<>(screen = g_game.scene \/ ~g_running)
  \/ []<><<g_game'.scene # g_game.scene>>_vars

=============================================================================
