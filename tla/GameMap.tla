------------------------------ MODULE GameMap -------------------------------
(***************************************************************************)
(* The map of the game, game_map.c, as operators on a map: a function from *)
(* positions <<x, y>> to tiles.  The size of the map and the rows of the   *)
(* sky and of the border are constants, so that the same definitions serve *)
(* the real 80 x 24 map and small ones.                                    *)
(***************************************************************************)
EXTENDS Integers, FiniteSets, Sequences

CONSTANTS MAP_WIDTH, MAP_HEIGHT, ROW_SKY_START, ROW_SKY_END, ROW_BORDER

ASSUME MapAssumption ==
  /\ MAP_WIDTH \in Nat \ {0} /\ MAP_HEIGHT \in Nat \ {0}
  /\ ROW_SKY_END \in Nat /\ ROW_SKY_START \in 0..ROW_SKY_END /\ ROW_SKY_END < ROW_BORDER
  /\ ROW_BORDER = MAP_HEIGHT - 1

TileType == {"EMPTY", "DIRT", "SKY", "WALL", "GEM", "BONUS", "BORDER"}
Cells == (0..(MAP_WIDTH - 1)) \X (0..(MAP_HEIGHT - 1))
Maps == [Cells -> TileType]

map_is_valid_position(p) == p \in Cells

map_get_tile(m, p) == IF map_is_valid_position(p) THEN m[p] ELSE "WALL"

map_set_tile(m, p, t) == IF map_is_valid_position(p) THEN [m EXCEPT ![p] = t] ELSE m

\* Every cell of a set gets the tile.
SetTiles(m, S, t) == [p \in Cells |-> IF p \in S THEN t ELSE m[p]]

map_is_walkable(m, p) == map_get_tile(m, p) \in {"EMPTY", "GEM", "BONUS", "SKY", "BORDER"}
map_is_solid(m, p) == map_get_tile(m, p) \in {"DIRT", "WALL"}
map_is_diggable(m, p) == map_get_tile(m, p) = "DIRT"

map_dig(m, p) == IF map_is_diggable(m, p) THEN map_set_tile(m, p, "EMPTY") ELSE m

-----------------------------------------------------------------------------
(* Generation *)

map_clear == [p \in Cells |-> "EMPTY"]

\* Walls all around, then the border row over the bottom wall.
map_create_borders(m) ==
  SetTiles(SetTiles(m, {p \in Cells : p[1] \in {0, MAP_WIDTH - 1} \/ p[2] \in {0, MAP_HEIGHT - 1}},
                    "WALL"),
           {p \in Cells : p[2] = ROW_BORDER}, "BORDER")

\* With density 100: sky down to ROW_SKY_END, dirt below, walls left alone.
place_random_dirt(m) ==
  [p \in Cells |->
     IF p[2] \notin 1..(MAP_HEIGHT - 2) \/ p[1] \notin 1..(MAP_WIDTH - 2) \/ m[p] = "WALL"
     THEN m[p] ELSE IF p[2] <= ROW_SKY_END THEN "SKY" ELSE "DIRT"]

Between(a, b) == IF a <= b THEN a..b ELSE b..a

map_fill_area(m, x1, y1, x2, y2, t) ==
  SetTiles(m, {p \in Cells : p[1] \in Between(x1, x2) /\ p[2] \in Between(y1, y2)}, t)

map_generate_level(m) ==
  map_fill_area(place_random_dirt(map_create_borders(m)), 1, ROW_SKY_START, 5, ROW_SKY_END, "SKY")

map_init == map_generate_level(map_clear)
=============================================================================
