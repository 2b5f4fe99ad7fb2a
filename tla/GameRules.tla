------------------------------ MODULE GameRules -----------------------------
(***************************************************************************)
(* What happens in a frame of the game: process_playing_state of game.c    *)
(* and logic_update of game_logic.c, on a map small enough to check.       *)
(*                                                                         *)
(* A frame is a sequence of turns, as in logic_update: the player's with   *)
(* the input, one for each enemy, one for each rock, and the checks at the *)
(* end.  The player's states other than PLAYER_DEAD only choose a picture  *)
(* and are one state here.  A path search answers with any first step of a *)
(* cheapest way (module PathSearch shows that it does while its queue is   *)
(* large enough); the direction picked by position and timer is any open   *)
(* one.  The clock of the fires is counted in frames.                      *)
(***************************************************************************)
EXTENDS GameMap

CONSTANTS
  InitMap, PlayerStart, EnemySpawns, RockSpawns, InitialLives,  \* the level
  PLAYER_START,                   \* where a player that died comes back
  PLAYER_SPEED, ENEMY_SPEED, GHOST_MODE_THRESHOLD, RESPAWN_DELAY,
  ROCK_WOBBLE_TICKS, ROCK_BLINK_COUNT, ROCK_BLINK_DURATION,
  BLINKS, BLINK_TICKS,            \* a paralysed enemy: 10 blinks of 5 ticks
  INFLATE_LEVELS, ATTACK_RANGE_V, ATTACK_RANGE_H,
  FYGAR_FIRE_RANGE, FYGAR_FIRE_DURATION, FYGAR_FIRE_COOLDOWN,   \* in frames
  LayerPoints(_), ROCK_KILL_MULTIPLIER, BONUS_POINTS, MAX_SCORE,
  FirstDirs(_, _, _, _),          \* the answers of a path search
  Inputs                          \* the inputs of a frame: records with dir, pump, attack, kill

\* What the levels are held to (LevelsFit of GameData): enemies in tunnels, rocks in the
\* dirt or on a bonus, and the player on open ground away from them.
ASSUME LevelAssumption ==
  /\ InitMap \in Maps
  /\ EnemySpawns \in Seq([type : {"POOKA", "FYGAR"}, pos : Cells]) /\ EnemySpawns # <<>>
  /\ RockSpawns \in Seq(Cells)
  /\ \A i \in DOMAIN EnemySpawns : map_is_walkable(InitMap, EnemySpawns[i].pos)
  /\ \A j \in DOMAIN RockSpawns : InitMap[RockSpawns[j]] \in {"DIRT", "BONUS"}
  /\ \A p \in {PlayerStart, PLAYER_START} :
       /\ p \in Cells /\ p[2] \in ROW_SKY_END..(ROW_BORDER - 1) /\ map_is_walkable(InitMap, p)
       /\ \A j \in DOMAIN RockSpawns : RockSpawns[j] # p
  /\ ATTACK_RANGE_V \in Nat /\ ATTACK_RANGE_H \in Nat /\ ENEMY_SPEED \in Nat

VARIABLES
  turn,       \* <<"player", 0>>, <<"enemy", i>>, <<"rock", j>>, <<"end", 0>> or <<"over", 0>>
  map, player, enemies, rocks,
  lives, score, enemies_remaining,
  timer       \* round_start_timer

vars == <<turn, map, player, enemies, rocks, lives, score, enemies_remaining, timer>>

DIR_NONE == "NONE"
Directions == {"UP", "DOWN", "LEFT", "RIGHT"}
Ray(p, d, i) ==
  CASE d = "UP" -> <<p[1], p[2] - i>> [] d = "DOWN" -> <<p[1], p[2] + i>>
    [] d = "LEFT" -> <<p[1] - i, p[2]>> [] d = "RIGHT" -> <<p[1] + i, p[2]>>
    [] OTHER -> p
Step(p, d) == Ray(p, d, 1)

logic_player_init(p) == [pos |-> p, dead |-> FALSE, facing |-> "RIGHT", speed |-> 0, pumping |-> FALSE]

logic_enemy_init(e) ==
  [type |-> e.type, pos |-> e.pos, dir |-> DIR_NONE, state |-> "NORMAL", speed |-> 0,
   inflate |-> 0, ghost_timer |-> 0, left |-> FALSE, blinks |-> 0, par |-> 0,
   fire |-> FALSE, fire_age |-> 0, cool |-> FYGAR_FIRE_COOLDOWN]

logic_rock_init(p) == [pos |-> p, state |-> "STABLE", timer |-> 0, blinks |-> 0]

Enemy == 1..Len(EnemySpawns)
Rock == 1..Len(RockSpawns)

Init ==
  /\ turn = <<"player", 0>> /\ map = InitMap
  /\ player = logic_player_init(PlayerStart)
  /\ enemies = [i \in Enemy |-> logic_enemy_init(EnemySpawns[i])]
  /\ rocks = [j \in Rock |-> logic_rock_init(RockSpawns[j])]
  /\ lives = InitialLives /\ score = 0 /\ enemies_remaining = Len(EnemySpawns) /\ timer = 0

Alive(E) == {i \in Enemy : E[i].state # "DEAD"}
\* The rocks that base.active is set of.
Active == {j \in Rock : rocks[j].state # "LANDED"}
has_rock_at(p) == \E j \in Rock : rocks[j].pos = p /\ rocks[j].state \in {"STABLE", "WOBBLING"}

First(S) == CHOOSE i \in S : \A k \in S : i <= k
logic_add_score(s, points) == IF s + points > MAX_SCORE THEN MAX_SCORE ELSE s + points

\* The player, the lives and the timer, which go through a turn together.
Now == [player |-> player, lives |-> lives, timer |-> timer]
Become(g) == player' = g.player /\ lives' = g.lives /\ timer' = g.timer

\* A death takes its life whether or not the player is dead already.
logic_player_die(g) ==
  [g EXCEPT !.player.dead = TRUE, !.player.pumping = FALSE, !.lives = @ - 1,
            !.timer = IF g.lives - 1 > 0 THEN RESPAWN_DELAY ELSE @]

\* The enemies, their count and the score, which go through a turn together too: each of
\* the four functions that kill takes its victims off the count itself.
Tally == [enemies |-> enemies, remaining |-> enemies_remaining, score |-> score]
Tallied(l) == enemies' = l.enemies /\ enemies_remaining' = l.remaining /\ score' = l.score

\* The enemies S die.  Every function skips an enemy whose base.active is not set: nothing
\* of it is kept.
EnemyKilled(E, S) ==
  [i \in Enemy |-> IF i \in S THEN [logic_enemy_init(EnemySpawns[i]) EXCEPT !.state = "DEAD"] ELSE E[i]]

\* By the depth that the enemy is at.
logic_calculate_enemy_points(e) == LayerPoints(e.pos[2])

-----------------------------------------------------------------------------
(* The player's turn *)

\* Where logic_player_move gets to.
MoveTarget(p, d) ==
  LET n == Step(p, d)
  IN IF /\ map_is_valid_position(n) /\ n[2] >= ROW_SKY_END /\ n[2] < ROW_BORDER
        /\ ~has_rock_at(n) /\ (map_is_diggable(map, n) \/ map_is_walkable(map, n))
     THEN n ELSE p

\* How far an attack reaches: the cells before the first solid one.
attack_path_clear(p, d, range) ==
  LET stop == {i \in 1..range : ~map_is_valid_position(Ray(p, d, i)) \/ map_is_solid(map, Ray(p, d, i))}
  IN IF stop = {} THEN range ELSE First(stop) - 1

\* Everything within reach is paralysed, unless it is so already.
logic_player_attack(E, pl) ==
  LET range == IF pl.facing \in {"UP", "DOWN"} THEN ATTACK_RANGE_V ELSE ATTACK_RANGE_H
      hit == {Ray(pl.pos, pl.facing, i) : i \in 1..attack_path_clear(pl.pos, pl.facing, range)}
  IN [i \in Enemy |->
        IF i \in Alive(E) /\ E[i].state # "PARALYZED" /\ E[i].pos \in hit
        THEN [E[i] EXCEPT !.state = "PARALYZED", !.blinks = BLINKS, !.par = BLINK_TICKS] ELSE E[i]]

\* The first enemy that is alive.
logic_dev_kill_enemy(l) ==
  LET i == First(Alive(l.enemies))
  IN IF Alive(l.enemies) = {} THEN l
     ELSE [enemies |-> EnemyKilled(l.enemies, {i}), remaining |-> l.remaining - 1,
           score |-> logic_add_score(l.score, logic_calculate_enemy_points(l.enemies[i]))]

\* The time that the fires are measured by goes on from frame to frame.
Aged(E) ==
  [i \in Enemy |->
     [E[i] EXCEPT !.fire_age = IF E[i].fire /\ @ < FYGAR_FIRE_DURATION THEN @ + 1 ELSE @,
                  !.cool = IF @ < FYGAR_FIRE_COOLDOWN THEN @ + 1 ELSE @]]

\* The movement part of logic_update_player: the new player and the new map.
Moved(pl, d) ==
  LET move == d # DIR_NONE /\ pl.speed <= 0
      n == IF move THEN MoveTarget(pl.pos, d) ELSE pl.pos
      s == IF move THEN PLAYER_SPEED ELSE pl.speed
  IN [pl EXCEPT !.pos = n, !.facing = IF move THEN d ELSE @, !.speed = IF s > 0 THEN s - 1 ELSE s]

\* A cell that the player has come to: dug, its gem or its bonus taken.
Entered(p, d) == IF d # DIR_NONE /\ player.speed <= 0
                 THEN SetTiles(map, {p} \cap {q \in Cells : map[q] \in {"DIRT", "GEM", "BONUS"}}, "EMPTY")
                 ELSE map

Inflated(e) == [e EXCEPT !.inflate = @ + 1, !.state = "INFLATING"]

\* An enemy that bursts is not taken off the count.
logic_enemy_inflate_Uncounted(l, i) ==
  LET e == l.enemies[i]
  IN IF e.inflate + 1 < INFLATE_LEVELS
     THEN [l EXCEPT !.enemies = [@ EXCEPT ![i] = Inflated(e)]]
     ELSE [l EXCEPT !.enemies = EnemyKilled(@, {i}),
                    !.score = logic_add_score(@, logic_calculate_enemy_points(e))]

\* One more pump; the last one kills.
logic_enemy_inflate(l, i) ==
  LET e == l.enemies[i]
  IN IF e.inflate + 1 < INFLATE_LEVELS
     THEN [l EXCEPT !.enemies = [@ EXCEPT ![i] = Inflated(e)]]
     ELSE [enemies |-> EnemyKilled(l.enemies, {i}), remaining |-> l.remaining - 1,
           score |-> logic_add_score(l.score, logic_calculate_enemy_points(e))]

\* The direction of the pump is base.dir, which the movement has just cleared, so that
\* every cell the pump reaches, however long it is, is the player's own.
logic_player_pump(l, pl) ==
  LET A == {i \in Alive(l.enemies) : l.enemies[i].pos = pl.pos}
  IN IF A = {} THEN l ELSE logic_enemy_inflate(l, First(A))

\* Of the enemies in the player's cell only the first counts, and of the rocks too.
Touched(E, pl) ==
  LET A == {i \in Alive(E) : E[i].pos = pl.pos}
  IN A # {} /\ E[First(A)].state \notin {"INFLATING", "PARALYZED"}
HitByRock(pl) ==
  LET A == {j \in Active : rocks[j].pos = pl.pos}
  IN A # {} /\ rocks[First(A)].state = "FALLING"

NextTurn(t) ==
  CASE t[1] = "enemy" /\ t[2] < Len(EnemySpawns) -> <<"enemy", t[2] + 1>>
    [] t[1] = "rock" /\ t[2] < Len(RockSpawns) -> <<"rock", t[2] + 1>>
    [] t[1] = "player" -> <<"enemy", 1>>
    [] t[1] = "enemy" /\ t[2] = Len(EnemySpawns) /\ Len(RockSpawns) > 0 -> <<"rock", 1>>
    [] OTHER -> <<"end", 0>>

\* What process_playing_state does before logic_update: the key K, then the attack.
BeforeUpdate(in) ==
  LET aged == [Tally EXCEPT !.enemies = Aged(enemies)]
      l == IF in.kill THEN logic_dev_kill_enemy(aged) ELSE aged
  IN IF in.attack /\ ~player.dead
     THEN [l EXCEPT !.enemies = logic_player_attack(l.enemies, player)] ELSE l

\* logic_update while the timer runs: nothing moves; at its end the player is back.
WaitRespawn ==
  /\ turn = <<"player", 0>> /\ timer > 0
  /\ \E in \in Inputs : Tallied(BeforeUpdate(in))
  /\ timer' = timer - 1
  /\ player' = IF timer = 1 /\ player.dead /\ lives > 0 THEN logic_player_init(PLAYER_START) ELSE player
  /\ UNCHANGED <<turn, map, rocks, lives>>

logic_update_player ==
  /\ turn = <<"player", 0>> /\ timer = 0
  /\ \E in \in Inputs :
       LET pl == [Moved(player, in.dir) EXCEPT !.pumping = in.pump]
           bonus == map_get_tile(map, pl.pos) = "BONUS" /\ Entered(pl.pos, in.dir) # map
           l0 == BeforeUpdate(in)
           l1 == IF bonus THEN [l0 EXCEPT !.score = logic_add_score(@, BONUS_POINTS)] ELSE l0
           l2 == IF in.pump THEN logic_player_pump(l1, pl) ELSE l1
           g0 == [Now EXCEPT !.player = pl]
           g1 == IF Touched(l2.enemies, pl) THEN logic_player_die(g0) ELSE g0
           g2 == IF HitByRock(pl) THEN logic_player_die(g1) ELSE g1
       IN IF player.dead THEN Tallied(l0) /\ UNCHANGED map /\ Become(Now)
          ELSE /\ Tallied(l2)
               /\ map' = Entered(pl.pos, in.dir)
               /\ Become(g2)
  /\ turn' = NextTurn(turn) /\ UNCHANGED rocks

-----------------------------------------------------------------------------
(* The turn of an enemy *)

logic_can_see_player(p) ==
  LET t == player.pos
  IN \/ /\ p[2] = t[2]
        /\ \A x \in Between(p[1], t[1]) : map_is_walkable(map, <<x, p[2]>>)
     \/ /\ p[1] = t[1] /\ p[2] # t[2]
        /\ \A y \in Between(p[2], t[2]) : map_is_walkable(map, <<p[1], y>>)

Walkable == {p \in Cells : map_is_walkable(map, p)}

\* What logic_try_enemy_move asks of the new cell.
CanStep(n) ==
  map_is_valid_position(n) /\ ~has_rock_at(n) /\ n[2] < ROW_BORDER /\ map_is_walkable(map, n)

logic_try_enemy_move(e, d) == [e EXCEPT !.pos = Step(e.pos, d), !.dir = d]

\* The directions logic_get_random_direction may give: a seed that depends on the place
\* and on the timer chooses among them.
logic_get_random_direction(e) ==
  {d \in Directions : /\ map_is_walkable(map, Step(e.pos, d)) /\ Step(e.pos, d)[2] < ROW_BORDER
                      /\ ~\E j \in Active : rocks[j].pos = Step(e.pos, d)}

\* The enemies that may come of the move of e.
logic_enemy_move_towards_player(e) ==
  LET D == Directions \cap FirstDirs(Walkable, e.pos, player.pos, FALSE)
      to == {d \in D : CanStep(Step(e.pos, d))}
      any == logic_get_random_direction(e)
  IN {[logic_try_enemy_move(e, d) EXCEPT !.ghost_timer = 0] : d \in to}
     \cup (IF D # {} /\ to = D THEN {}
           ELSE IF any = {} THEN {e} ELSE {logic_try_enemy_move(e, d) : d \in any})

Solidified(e) == [e EXCEPT !.state = "NORMAL", !.ghost_timer = 0, !.left = FALSE]

\* A ghost becomes an enemy again wherever it is.
logic_enemy_ghost_mode_Anywhere(e) ==
  LET D == Directions \cap FirstDirs(Walkable, e.pos, player.pos, TRUE)
  IN IF D = {} THEN {e} ELSE {Solidified(logic_try_enemy_move(e, d)) : d \in D}

\* A ghost goes through everything, and is a ghost until it comes to a tunnel after it
\* has been in the earth.
logic_enemy_ghost_mode(e) ==
  LET out == e.left \/ ~map_is_walkable(map, e.pos)
      D == Directions \cap FirstDirs(Walkable, e.pos, player.pos, TRUE)
      Go(d) == LET n == [logic_try_enemy_move(e, d) EXCEPT !.left = out]
               IN IF map_is_walkable(map, n.pos) /\ out THEN Solidified(n) ELSE n
  IN IF map_is_walkable(map, e.pos) /\ e.left THEN {Solidified(e)}
     ELSE IF D = {} THEN {[e EXCEPT !.left = out]} ELSE {Go(d) : d \in D}

\* The AI and what logic_update_enemies does after it.
logic_enemy_ai(e) ==
  LET after == IF e.state = "GHOST" THEN logic_enemy_ghost_mode(e) ELSE logic_enemy_move_towards_player(e)
      Timed(n) == [n EXCEPT !.speed = ENEMY_SPEED,
                            !.ghost_timer = IF @ > GHOST_MODE_THRESHOLD THEN @ ELSE @ + 1]
      Roused(n) == IF n.ghost_timer > GHOST_MODE_THRESHOLD /\ n.state = "NORMAL"
                      /\ ~logic_can_see_player(n.pos)
                   THEN [n EXCEPT !.state = "GHOST", !.left = FALSE] ELSE n
  IN {Roused(Timed(n)) : n \in after}

Open(e, d) == \A i \in 1..FYGAR_FIRE_RANGE :
                map_is_valid_position(Ray(e.pos, d, i)) /\ map_is_walkable(map, Ray(e.pos, d, i))

logic_check_fire_collision(e) ==
  \E i \in 1..FYGAR_FIRE_RANGE : player.pos = Ray(e.pos, e.dir, i)

\* A Fygar that does not breathe fire starts to, towards the player or the other way.
StartFire(e) ==
  LET d == IF player.pos[1] >= e.pos[1] THEN "RIGHT" ELSE "LEFT"
      o == IF d = "RIGHT" THEN "LEFT" ELSE "RIGHT"
      Fire(f) == [e EXCEPT !.fire = TRUE, !.fire_age = 0, !.dir = f]
  IN IF e.cool < FYGAR_FIRE_COOLDOWN THEN e
     ELSE IF Open(e, d) THEN Fire(d) ELSE IF Open(e, o) THEN Fire(o) ELSE e

\* A paralysed enemy blinks and then dies.
Blinked(l, i) ==
  LET e == l.enemies[i]
      n == IF e.par > 0 THEN [e EXCEPT !.par = @ - 1]
           ELSE [e EXCEPT !.blinks = @ - 1, !.par = BLINK_TICKS]
  IN IF e.par > 0 \/ e.blinks - 1 > 0 THEN [l EXCEPT !.enemies = [@ EXCEPT ![i] = n]]
     ELSE [enemies |-> EnemyKilled(l.enemies, {i}), remaining |-> l.remaining - 1,
           score |-> logic_add_score(l.score, logic_calculate_enemy_points(e))]

logic_enemy_deflate(e) ==
  [e EXCEPT !.inflate = @ - 1, !.state = IF e.inflate - 1 <= 0 THEN "NORMAL" ELSE @]

\* Fire that burns: it ends when its time is over, and burns the player until then.
\* What is left of the enemy, and whether the player is hit.
Burn(e) == IF e.fire_age >= FYGAR_FIRE_DURATION
           THEN <<[e EXCEPT !.fire = FALSE, !.cool = 0], FALSE>>
           ELSE <<e, logic_check_fire_collision(e)>>

\* What one round of the loop of logic_update_enemies may make of an enemy that is not
\* paralysed: pairs of the enemy and of whether its fire has hit the player.
EnemyTurns(e) ==
  CASE e.state = "DEAD" -> {<<e, FALSE>>}
    [] e.state = "INFLATING" -> {<<IF player.pumping THEN e ELSE logic_enemy_deflate(e), FALSE>>}
    [] e.state \in {"NORMAL", "GHOST"} /\ e.speed > 0 -> {<<[e EXCEPT !.speed = @ - 1], FALSE>>}
    [] e.state \in {"NORMAL", "GHOST"} /\ e.speed <= 0 /\ e.fire -> {Burn(e)}
    [] OTHER -> LET f == IF e.type = "FYGAR" THEN StartFire(e) ELSE e
                IN IF f.fire THEN {<<f, FALSE>>} ELSE {<<n, FALSE>> : n \in logic_enemy_ai(f)}

logic_update_enemies ==
  /\ turn[1] = "enemy"
  /\ LET i == turn[2] IN
     \/ enemies[i].state = "PARALYZED" /\ Tallied(Blinked(Tally, i)) /\ Become(Now)
     \/ /\ enemies[i].state # "PARALYZED"
        /\ \E r \in EnemyTurns(enemies[i]) :
             /\ Tallied([Tally EXCEPT !.enemies = [@ EXCEPT ![i] = r[1]]])
             /\ Become(IF r[2] THEN logic_player_die(Now) ELSE Now)
  /\ turn' = NextTurn(turn) /\ UNCHANGED <<map, rocks>>

-----------------------------------------------------------------------------
(* The turn of a rock *)

Below(r) == Step(r.pos, "DOWN")
CanFall(r) == map_is_valid_position(Below(r)) /\ ~map_is_solid(map, Below(r))

\* Only the cell that the rock falls to is looked at.
CrushedCells_Ahead(r) == {Below(r)}

\* The cells a falling rock crushes what is in: the one it leaves and the one it comes to.
CrushedCells(r) == {r.pos, Below(r)}

\* The enemies in the cells that a rock falls through; the points are multiplied.
logic_check_rock_crush(l, cells) ==
  LET hit == {i \in Alive(l.enemies) : l.enemies[i].pos \in cells}
      S[T \in SUBSET hit] ==
        IF T = {} THEN l.score
        ELSE LET i == First(T)
             IN logic_add_score(S[T \ {i}],
                                logic_calculate_enemy_points(l.enemies[i]) * ROCK_KILL_MULTIPLIER)
  IN [enemies |-> EnemyKilled(l.enemies, hit), remaining |-> l.remaining - Cardinality(hit),
      score |-> S[hit]]

\* A rock forgets that it has begun to blink.
RockBlinks_Endless(r) == [r EXCEPT !.timer = ROCK_BLINK_DURATION]

RockBlinks(r) ==
  IF r.timer - 1 > 0 THEN [r EXCEPT !.timer = @ - 1]
  ELSE IF r.blinks - 1 <= 0 THEN [r EXCEPT !.state = "LANDED", !.timer = 0, !.blinks = 0]
  ELSE [r EXCEPT !.blinks = @ - 1, !.timer = ROCK_BLINK_DURATION]

logic_rock_check_fall(r) ==
  IF CanFall(r) THEN [r EXCEPT !.state = "WOBBLING", !.timer = ROCK_WOBBLE_TICKS] ELSE r

\* logic_rock_fall on the rock itself.
logic_rock_fall(r) ==
  IF CanFall(r) THEN [r EXCEPT !.pos = Below(r)]
  ELSE [r EXCEPT !.state = "BLINKING", !.blinks = ROCK_BLINK_COUNT, !.timer = ROCK_BLINK_DURATION]

RockTurn(r) ==
  CASE r.state = "STABLE" -> logic_rock_check_fall(r)
    [] r.state = "WOBBLING" -> [r EXCEPT !.timer = @ - 1, !.state = IF r.timer - 1 <= 0 THEN "FALLING" ELSE @]
    [] r.state = "FALLING" -> logic_rock_fall(r)
    [] r.state = "BLINKING" -> RockBlinks(r)
    [] r.state = "LANDED" -> r

\* One round of the loop, with what a falling rock crushes.
logic_update_rocks ==
  /\ turn[1] = "rock"
  /\ LET r == rocks[turn[2]]
         cells == IF r.state = "FALLING" /\ CanFall(r) THEN CrushedCells(r) ELSE {}
     IN /\ rocks' = [rocks EXCEPT ![turn[2]] = RockTurn(r)]
        /\ Tallied(logic_check_rock_crush(Tally, cells))
        /\ Become(IF player.pos \in cells THEN logic_player_die(Now) ELSE Now)
  /\ turn' = NextTurn(turn) /\ UNCHANGED map

\* The end of the frame: game over, or the round may be over once nothing is left (it is
\* when its three seconds have passed), or the next frame.
EndOfFrame ==
  /\ turn = <<"end", 0>>
  /\ turn' \in IF lives <= 0 THEN {<<"over", 0>>}
               ELSE {<<"player", 0>>} \cup (IF enemies_remaining <= 0 THEN {<<"over", 0>>} ELSE {})
  /\ UNCHANGED <<map, player, enemies, rocks, lives, score, enemies_remaining, timer>>

Next == WaitRespawn \/ logic_update_player \/ logic_update_enemies \/ logic_update_rocks \/ EndOfFrame

Spec == Init /\ [][Next]_vars
\* The frames go on for as long as the round does: weak fairness of Next, with "the round is
\* not over" for ENABLED Next, every step that changes something being one of Next.
FairSpec == Spec /\ (<>[](turn[1] # "over") => []<><<TRUE>>_vars)

-----------------------------------------------------------------------------
(* Properties *)

\* enemies_remaining, which logic_dev_kill_enemy, logic_enemy_inflate, logic_update_enemies
\* and logic_check_rock_crush each take their kills from, and which logic_check_round_complete
\* waits for, counts the enemies that are alive: no kill is forgotten or counted twice,
\* whichever of them meet in one frame.
RemainingCounts == enemies_remaining = Cardinality(Alive(enemies))

\* What moves is on open ground and outside of the rocks that rest: the player, between the sky
\* and the border; every enemy that is not a ghost, wherever it stopped being one (which may be
\* on a bonus with a rock); and a fire that burns, though the Fygar may be a ghost and the tunnel
\* was dug from another side.
OnOpenGround ==
  /\ player.pos[2] \in ROW_SKY_END..(ROW_BORDER - 1)
  /\ map_is_walkable(map, player.pos) /\ ~has_rock_at(player.pos)
  /\ \A i \in Enemy : enemies[i].state \notin {"GHOST", "DEAD"} =>
       map_is_walkable(map, enemies[i].pos) /\ (has_rock_at(enemies[i].pos) => map[enemies[i].pos] = "BONUS")
  /\ \A i \in Enemy : enemies[i].fire /\ enemies[i].state # "DEAD" => Open(enemies[i], enemies[i].dir)

\* A rock that comes down leaves nothing alive where it was and where it is
\* ("Caen verticalmente aplastando jugador/enemigos en su camino").
RocksCrush ==
  [][\A j \in Rock : rocks'[j].pos # rocks[j].pos =>
       /\ \A i \in Alive(enemies') : enemies'[i].pos \notin {rocks[j].pos, rocks'[j].pos}
       /\ player'.pos \in {rocks[j].pos, rocks'[j].pos} => player'.dead]_vars

\* A rock that wobbles comes down and is gone in the end, unless the round ends before.
RocksComeDown ==
  \A j \in Rock : rocks[j].state = "WOBBLING" ~> (rocks[j].state = "LANDED" \/ turn[1] = "over")

=============================================================================
