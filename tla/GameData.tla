------------------------------ MODULE GameData ------------------------------
(***************************************************************************)
(* The levels of the game and how one is loaded, game_data.c.              *)
(*                                                                         *)
(* Loading is taken apart into its loops: one step of data_dig_tunnel digs *)
(* one cell.  A level is loaded over the map that the round before left:   *)
(* any one of them, since map_init writes every cell.                      *)
(***************************************************************************)
EXTENDS Levels

CONSTANTS
  Rounds,            \* the arguments of data_load_level
  MAX_ENEMIES, MAX_ROCKS, MAX_TUNNELS,
  POOKA_SPEED, FYGAR_SPEED

VARIABLES
  pc,        \* "map", "tunnels", "dig", "spawn", "loaded", "begun", "playing"
  round, map,
  tunnel,    \* the tunnel of the level being dug
  at,        \* the cell data_dig_tunnel has come to
  player, enemies, rocks    \* what logic_*_init have set up

vars == <<pc, round, map, tunnel, at, player, enemies, rocks>>

-----------------------------------------------------------------------------
(* data_load_level *)

level == data_get_level(round)

\* The speed that logic_enemy_init gives by the type; beyond the defined rounds it is faster.
SpeedLimit(type) ==
  LET base == IF type = "FYGAR" THEN FYGAR_SPEED ELSE POOKA_SPEED
      faster == base - (round - NUM_LEVELS_DEFINED)
  IN IF round <= NUM_LEVELS_DEFINED THEN base ELSE IF faster < 2 THEN 2 ELSE faster

\* The last slots of the arrays are not reached.
Slots(s, max) == SubSeq(s, 1, IF Len(s) < max THEN Len(s) ELSE max)

\* The coordinates are passed in the wrong order.
data_spawn_enemies_Swapped ==
  LET s == Slots(level.enemies, MAX_ENEMIES)
  IN [i \in 1..Len(s) |-> [pos |-> <<s[i].pos[2], s[i].pos[1]>>, type |-> s[i].type,
                           speed |-> SpeedLimit(s[i].type)]]

data_spawn_enemies ==
  LET s == Slots(level.enemies, MAX_ENEMIES)
  IN [i \in 1..Len(s) |-> [pos |-> s[i].pos, type |-> s[i].type, speed |-> SpeedLimit(s[i].type)]]

data_spawn_rocks == Slots(level.rocks, MAX_ROCKS)

Init ==
  /\ pc = "map" /\ round \in Rounds /\ map = map_clear
  /\ tunnel = 0 /\ at = <<0, 0>> /\ player = <<0, 0>> /\ enemies = <<>> /\ rocks = <<>>

InitMap ==
  /\ pc = "map"
  /\ map' = map_init /\ tunnel' = 0 /\ pc' = "tunnels"
  /\ UNCHANGED <<round, at, player, enemies, rocks>>

\* The first tunnel comes after the last.
data_create_tunnels_Wraps ==
  /\ pc = "tunnels"
  /\ LET n == IF tunnel = Len(level.tunnels) THEN 1 ELSE tunnel + 1
         t == level.tunnels[n]
     IN at' = <<t[1], t[2]>> /\ tunnel' = n /\ pc' = "dig"
  /\ UNCHANGED <<round, map, player, enemies, rocks>>

data_create_tunnels ==
  /\ pc = "tunnels"
  /\ IF tunnel < Len(level.tunnels) /\ tunnel < MAX_TUNNELS
     THEN LET t == level.tunnels[tunnel + 1]
          IN at' = <<t[1], t[2]>> /\ tunnel' = tunnel + 1 /\ pc' = "dig"
     ELSE pc' = "spawn" /\ UNCHANGED <<at, tunnel>>
  /\ UNCHANGED <<round, map, player, enemies, rocks>>

Sign(d) == IF d > 0 THEN 1 ELSE IF d < 0 THEN -1 ELSE 0

\* One turn of the loop: dig the cell, stop at the end, else one cell on, x before y.
data_dig_tunnel ==
  /\ pc = "dig"
  /\ map' = map_dig(map, at)
  /\ LET t == level.tunnels[tunnel]
         x == at[1]
         y == at[2]
     IN IF x = t[3] /\ y = t[4] THEN pc' = "tunnels" /\ at' = at
        ELSE /\ at' = IF x # t[3] THEN <<x + Sign(t[3] - t[1]), y>>
                                  ELSE <<x, y + Sign(t[4] - t[2])>>
             /\ pc' = pc
  /\ UNCHANGED <<round, tunnel, player, enemies, rocks>>

\* Player, enemies, rocks and bonuses, in the order of data_load_level.
Spawn ==
  /\ pc = "spawn"
  /\ player' = level.start
  /\ enemies' = data_spawn_enemies
  /\ rocks' = data_spawn_rocks
  /\ map' = data_place_bonuses(map, round)
  /\ pc' = "loaded"
  /\ UNCHANGED <<round, tunnel, at>>

\* The round has been played and some other one is loaded over it.
data_load_level ==
  /\ pc \in {"loaded", "begun", "playing"}
  /\ round' \in Rounds \ {round} /\ tunnel' = 0 /\ pc' = "map"
  /\ UNCHANGED <<map, at, player, enemies, rocks>>

Load == InitMap \/ data_create_tunnels \/ data_dig_tunnel \/ Spawn
Next == Load \/ data_load_level
Spec == Init /\ [][Next]_vars

-----------------------------------------------------------------------------
(* Properties *)

\* Every loop index stays in its table and every spawned thing is one of the level's:
\* the tables have room for the levels.
TypeOK ==
  /\ pc \in {"map", "tunnels", "dig", "spawn", "loaded", "begun", "playing"} /\ round \in Rounds
  /\ map \in Maps /\ at \in Cells /\ player \in Cells
  /\ tunnel \in 0..Len(level.tunnels)
  /\ pc = "loaded" => Len(enemies) = Len(level.enemies) /\ Len(rocks) = Len(level.rocks)

\* Where a walker that starts at a cell gets to.
Neighbours(p) == {<<p[1] - 1, p[2]>>, <<p[1] + 1, p[2]>>, <<p[1], p[2] - 1>>, <<p[1], p[2] + 1>>}
ReachedFrom(S) ==
  LET F[k \in 0..(MAP_WIDTH * MAP_HEIGHT)] ==
        IF k = 0 THEN S
        ELSE LET T == F[k - 1]
                 N == {q \in UNION {Neighbours(p) : p \in T} : map_is_walkable(map, q)} \ T
             IN IF N = {} THEN T ELSE T \cup N
      G[k \in 0..(MAP_WIDTH * MAP_HEIGHT)] ==
        IF k = MAP_WIDTH * MAP_HEIGHT \/ F[k] = F[k + 1] THEN F[k] ELSE G[k + 1]
  IN G[0]

\* A round begins with every enemy in a tunnel of its own: it stands on ground it can
\* walk on, can take a step, and neither reaches the player nor another enemy without
\* going through the dirt (data_spawn_enemies against data_create_tunnels: positions
\* and tunnels are two tables that nothing keeps in step).
EnemiesPenned ==
  pc = "loaded" =>
    \A i \in 1..Len(enemies) :
      LET R == ReachedFrom({enemies[i].pos})
      IN /\ map_is_walkable(map, enemies[i].pos) /\ Cardinality(R) > 1
         /\ player \notin R /\ \A p \in R : p[2] > ROW_SKY_END
         /\ \A j \in 1..Len(enemies) : j # i => enemies[j].pos \notin R

\* No two things of a round share a cell, the player starts in the sky, and a rock sits
\* in the dirt or on a bonus (logic_has_rock_at and the collisions all go by position).
SpawnsApart ==
  pc = "loaded" =>
    LET E == {enemies[i].pos : i \in 1..Len(enemies)}
        R == {rocks[i] : i \in 1..Len(rocks)}
    IN /\ Cardinality(E \cup R \cup {player}) = Len(enemies) + Len(rocks) + 1
       /\ map[player] = "SKY"
       /\ \A p \in R : map[p] \in {"DIRT", "BONUS"}

\* Whatever was loaded before, the same round is the same map: its three bonuses, its
\* tunnels, and no other cell of the ground open (map_init writes every cell).
MapIsTheLevels ==
  pc = "loaded" =>
    \A p \in Cells :
      /\ map[p] = "BONUS" <=> p \in Bonuses(round)
      /\ map[p] = "EMPTY" =>
           \E t \in 1..Len(level.tunnels) :
             LET c == level.tunnels[t] IN p[1] \in Between(c[1], c[3]) /\ p[2] \in Between(c[2], c[4])
      /\ \A t \in 1..Len(level.tunnels) :
           LET c == level.tunnels[t]
           IN p \in {<<c[1], c[2]>>, <<c[3], c[4]>>} => map_is_walkable(map, p)

\* Levels, map and spawns fit each other.
LevelsFit == TypeOK /\ SpawnsApart /\ EnemiesPenned /\ MapIsTheLevels

\* The while (1) of data_dig_tunnel ends for every tunnel of every level, and so every
\* round that is asked for is loaded.
LevelLoads == pc = "map" ~> pc = "loaded"
=============================================================================
