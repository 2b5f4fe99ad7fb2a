------------------------------ MODULE GameView ------------------------------
(***************************************************************************)
(* GameRules as it is seen: the picture the render thread makes of every   *)
(* state of the world that the rules lead to, between any two turns of a   *)
(* frame.  Rules and drawing are those of GameRules and Scenery; here is   *)
(* how the state of the one is taken for the other.                        *)
(***************************************************************************)
EXTENDS GameRules

CONSTANTS SCREEN_WIDTH, SCREEN_HEIGHT, STATUS_TOP_ROW, STATUS_BOTTOM_ROW, LayerOfRow(_)

View == INSTANCE Scenery

\* The pump has the direction that logic_update_player has just cleared, and a length once it
\* has been drawn.  An attack is shown for some frames after it was made, while the player goes
\* on: GameRules does not keep its timer, so it may be running in every state.
World(attack) ==
  [map |-> map, enemies |-> enemies, rocks |-> rocks,
   player |-> [pos |-> player.pos, facing |-> player.facing, pumping |-> player.pumping,
               state |-> IF player.dead THEN "DEAD" ELSE IF player.pumping THEN "PUMPING"
                         ELSE IF attack > 0 THEN "ATTACKING" ELSE "IDLE",
               pump_dir |-> DIR_NONE, pump_length |-> IF player.pumping THEN 1 ELSE 0, attack_timer |-> attack]]

\* The cells of the fires that burn.
FireCells == UNION {{Ray(enemies[i].pos, enemies[i].dir, k) : k \in 1..FYGAR_FIRE_RANGE} :
                      i \in {j \in Alive(enemies) : enemies[j].fire}}
EarthCells == {p \in Cells : p[2] \notin {STATUS_TOP_ROW, STATUS_BOTTOM_ROW} /\ LayerOfRow(p[2]) \in 1..4}
RockCells == {rocks[j].pos : j \in Active}
EnemyCells == {enemies[i].pos : i \in Alive(enemies)}
AttackCells(attack) ==
  IF attack = 0 THEN {} ELSE {Ray(player.pos, player.facing, k) : k \in 1..(ATTACK_RANGE_V + ATTACK_RANGE_H)}

-----------------------------------------------------------------------------
(* Properties *)

\* The player that lives is seen, unless it is in one of the cells before it.
PlayerSeen(pic, before) == player.dead \/ player.pos \in before \/ pic[player.pos].ch = "P"

\* Every enemy that lives is seen where it is, unless in one of the cells before it: ghosts on
\* the colour of the earth they are in, the others on black.
EnemiesSeen(pic, before) ==
  \A p \in EnemyCells \ before :
    \E i \in Alive(enemies) :
      /\ enemies[i].pos = p
      /\ pic[p].ch \in {"O", "F", "o", "0"}
      /\ pic[p].bg = IF enemies[i].state = "GHOST" THEN View!render_get_layer_color(p[2]).bg ELSE View!BLACK
      /\ enemies[i].state # "PARALYZED" => pic[p].fg # pic[p].bg

\* Every fire is seen, unless in one of the cells before it, and so is every rock.
FiresSeen(pic, before) == \A p \in FireCells \ before : pic[p].ch = "*"
RocksSeen(pic, before) == \A p \in RockCells \ before : pic[p].ch = "#"

\* Where nothing stands and no attack goes, earth is in colour and tunnels and sky are black, as they are walked.
EarthSeen(pic, attack) ==
  LET covered == RockCells \cup FireCells \cup EnemyCells \cup AttackCells(attack) \cup {player.pos}
  IN \A p \in EarthCells \ covered : LET seen == pic[p] IN
       /\ map[p] \in {"DIRT", "WALL"} => seen.bg # View!BLACK
       /\ map[p] = "EMPTY" => seen.bg = View!BLACK /\ seen.ch = View!SPACE
       /\ map[p] = "BONUS" => seen.ch = "+"

\* The pictures that the render functions leave, each drawing over what was there, show the
\* round as it is.  While it is played, rocks hide fires, fires and rocks hide enemies, and all of
\* them hide the player, for game.c draws them again after render_entities.  Under the pause
\* screen the player hides them, as the comment in render_entities has it, and is always seen.
PictureTrue ==
  \A attack \in {0, 1} :
    LET playing == View!PlayingWorld(World(attack))
        paused == View!PausedWorld(World(attack))
        mine == AttackCells(attack) \cup (IF player.dead THEN {} ELSE {player.pos})
    IN /\ PlayerSeen(playing, RockCells \cup FireCells \cup EnemyCells)
       /\ EnemiesSeen(playing, RockCells \cup FireCells)
       /\ FiresSeen(playing, RockCells \cup EnemyCells) /\ RocksSeen(playing, {})
       /\ EarthSeen(playing, attack)
       /\ PlayerSeen(paused, {})
       /\ EnemiesSeen(paused, FireCells \cup mine)
       /\ FiresSeen(paused, EnemyCells \cup mine) /\ RocksSeen(paused, FireCells \cup EnemyCells \cup mine)
       /\ EarthSeen(paused, attack)
=============================================================================
