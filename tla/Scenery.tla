------------------------------ MODULE Scenery -------------------------------
(***************************************************************************)
(* The world of the game drawn on the back buffer: the map, the player,    *)
(* the enemies, the rocks, and what they breathe, throw and pump           *)
(* (game_render.c).  The world is a record w of map, player, enemies and   *)
(* rocks; pictures are those of module Canvas.                             *)
(***************************************************************************)
EXTENDS GameMap, Canvas
LOCAL INSTANCE SequencesExt

CONSTANTS ATTACK_RANGE_V, ATTACK_RANGE_H, FYGAR_FIRE_RANGE

\* The cell i steps from p.
Along(p, d, i) ==
  CASE d = "UP" -> <<p[1], p[2] - i>> [] d = "DOWN" -> <<p[1], p[2] + i>>
    [] d = "LEFT" -> <<p[1] - i, p[2]>> [] d = "RIGHT" -> <<p[1] + i, p[2]>>

\* How a tile looks.
TileCell(t, y) ==
  CASE t \in {"DIRT", "WALL"} -> ScreenCell(SPACE, render_get_layer_color(y))
    [] t = "GEM" -> ScreenCell("$", render_make_color(YELLOW, BLACK))
    [] t = "BONUS" -> ScreenCell("+", render_make_color(YELLOW, render_get_layer_color(y).bg))
    [] t = "BORDER" -> ScreenCell("#", render_make_color(DARK_GRAY, BLACK))
    [] OTHER -> ScreenCell(SPACE, render_make_color(WHITE, BLACK))

render_map(pic, w) ==
  Draw(pic, {p \in ScreenCells : p[2] \notin {STATUS_TOP_ROW, STATUS_BOTTOM_ROW}},
       LAMBDA p : TileCell(map_get_tile(w.map, p), p[2]))

\* The attack as far as nothing solid stops it.
render_player_attack(pic, w) ==
  LET pl == w.player
      vertical == pl.facing \in {"UP", "DOWN"}
      range == IF vertical THEN ATTACK_RANGE_V ELSE ATTACK_RANGE_H
      Stops(i) == LET a == Along(pl.pos, pl.facing, i) IN ~render_is_valid_pos(a) \/ map_is_solid(w.map, a)
      reach == {i \in 1..range : \A j \in 1..i : ~Stops(j)}
  IN Draw(pic, {Along(pl.pos, pl.facing, i) : i \in reach},
          LAMBDA q : ScreenCell(IF vertical THEN "|" ELSE "-", render_make_color(WHITE, BLACK)))

render_player(pic, w) ==
  LET pl == w.player
      fg == IF pl.state \in {"PUMPING", "ATTACKING"} THEN WHITE ELSE YELLOW
      shown == render_set_cell(pic, pl.pos, ScreenCell("P", render_make_color(fg, BLACK)))
  IN IF pl.state = "DEAD" THEN pic
     ELSE IF pl.attack_timer > 0 THEN render_player_attack(shown, w) ELSE shown

\* Always the whole range, whatever is there.
render_fire(pic, p, d) ==
  IF d \notin {"LEFT", "RIGHT"} THEN pic
  ELSE Draw(pic, {Along(p, d, i) : i \in 1..FYGAR_FIRE_RANGE},
            LAMBDA q : ScreenCell("*", render_make_color(RED, BLACK)))

EnemyCell(e) ==
  LET ch == IF e.state = "INFLATING" /\ e.inflate \in 1..3 THEN <<"o", "0", "O">>[e.inflate]
            ELSE IF e.type = "POOKA" THEN "O" ELSE "F"
      fg == CASE e.state = "INFLATING" -> LIGHT_MAGENTA
              [] e.state = "GHOST" -> WHITE
              [] e.state = "PARALYZED" -> IF e.par % 2 = 0 THEN LIGHT_CYAN ELSE BLACK
              [] OTHER -> IF e.type = "POOKA" THEN LIGHT_RED ELSE GREEN
      bg == IF e.state = "GHOST" THEN render_get_layer_color(e.pos[2]).bg ELSE BLACK
  IN ScreenCell(ch, render_make_color(fg, bg))

render_enemy(pic, e) ==
  LET shown == render_set_cell(pic, e.pos, EnemyCell(e))
  IN IF e.state = "DEAD" THEN pic ELSE IF e.fire THEN render_fire(shown, e.pos, e.dir) ELSE shown

render_enemies(pic, w) == FoldLeft(render_enemy, pic, w.enemies)

\* A rock that moves or blinks is on black, one at rest on its layer; it changes its gray.
RockCell(r) ==
  LET odd == r.timer % 2 = 1
      fg == CASE r.state = "BLINKING" /\ ~odd -> WHITE [] r.state = "WOBBLING" /\ ~odd -> LIGHT_GRAY
              [] OTHER -> DARK_GRAY
      bg == IF r.state \in {"FALLING", "BLINKING"} THEN BLACK ELSE render_get_layer_color(r.pos[2]).bg
  IN ScreenCell("#", render_make_color(fg, bg))

render_rock(pic, r) == IF r.state = "LANDED" THEN pic ELSE render_set_cell(pic, r.pos, RockCell(r))

render_rocks(pic, w) == FoldLeft(render_rock, pic, w.rocks)

\* The line of the pump and its tip.
render_pump(pic, w) ==
  LET pl == w.player
      At(i) == Along(pl.pos, pl.pump_dir, i)
      ch == IF pl.pump_dir \in {"UP", "DOWN"} THEN "|" ELSE "-"
  IN IF pl.pump_length <= 0 \/ pl.pump_dir = "NONE" THEN pic
     ELSE render_set_cell(
            Draw(pic, {At(i) : i \in 1..pl.pump_length},
                 LAMBDA q : ScreenCell(ch, render_make_color(CYAN, render_get_layer_color(q[2]).bg))),
            At(pl.pump_length),
            ScreenCell("+", render_make_color(YELLOW, render_get_layer_color(At(pl.pump_length)[2]).bg)))

\* The player is drawn first.
render_entities_PlayerFirst(pic, w) == render_enemies(render_rocks(render_player(pic, w), w), w)

render_entities(pic, w) ==
  LET p1 == render_enemies(render_rocks(pic, w), w)
      p2 == IF w.player.pumping THEN render_pump(p1, w) ELSE p1
  IN render_player(p2, w)

\* What the render thread draws of the world under the pause screen.
PausedWorld(w) == render_entities(render_map(render_clear_buffer, w), w)

\* What it draws of the world while the game is played: the same, and over it the player, the
\* enemies and the rocks again.
PlayingWorld(w) == render_rocks(render_enemies(render_player(PausedWorld(w), w), w), w)
=============================================================================
