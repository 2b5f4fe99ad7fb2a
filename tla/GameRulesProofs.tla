-------------------------- MODULE GameRulesProofs ---------------------------
(***************************************************************************)
(* Proofs about GameRules, for every level, every input and every answer   *)
(* of the path searches: where things stand, what falling rocks do, and    *)
(* the count of the enemies that are left.                                 *)
(***************************************************************************)
EXTENDS GameRules, FiniteSetTheorems, WellFoundedInduction, TLAPS

EnemyFields == {"type", "pos", "dir", "state", "speed", "inflate", "ghost_timer", "left", "blinks",
                "par", "fire", "fire_age", "cool"}
IsEnemy(e) == DOMAIN e = EnemyFields /\ e.speed \in Int
Resting == {"STABLE", "WOBBLING"}

\* The condition Open, on the map m.
OpenOn(m, e, d) == \A k \in 1..FYGAR_FIRE_RANGE :
                     map_is_valid_position(Ray(e.pos, d, k)) /\ map_is_walkable(m, Ray(e.pos, d, k))

\* An enemy that is where it may be on the map m.
Placed(m, e) ==
  /\ IsEnemy(e)
  /\ e.state \notin {"GHOST", "DEAD"} => map_is_walkable(m, e.pos)
  /\ e.fire /\ e.state # "DEAD" => OpenOn(m, e, e.dir)

Family(m, E) == DOMAIN E = Enemy /\ \A i \in Enemy : Placed(m, E[i])

\* A tally of enemies that are where they may be, with their count.
Counted(m, l) ==
  /\ DOMAIN l = {"enemies", "remaining", "score"}
  /\ Family(m, l.enemies) /\ l.remaining = Cardinality(Alive(l.enemies))

Turns == ({"enemy"} \X Enemy) \cup ({"rock"} \X Rock) \cup ({"player", "end", "over"} \X {0})

PlayerPlaced ==
  /\ DOMAIN player = {"pos", "dead", "facing", "speed", "pumping"}
  /\ player.pos[2] \in ROW_SKY_END..(ROW_BORDER - 1)
  /\ map_is_walkable(map, player.pos) /\ ~has_rock_at(player.pos)

\* A rock rests where it was put, in the dirt or on a bonus that nobody takes.
RocksBedded ==
  /\ DOMAIN rocks = Rock
  /\ \A j \in Rock :
       /\ DOMAIN rocks[j] = {"pos", "state", "timer", "blinks"}
       /\ rocks[j].state \in Resting \cup {"FALLING", "BLINKING", "LANDED"}
       /\ rocks[j].state \in Resting => rocks[j].pos = RockSpawns[j] /\ map[RockSpawns[j]] \in {"DIRT", "BONUS"}

RulesInv ==
  /\ map \in Maps /\ turn \in Turns /\ map_is_walkable(map, PLAYER_START)
  /\ DOMAIN enemies = Enemy /\ \A i \in Enemy : Placed(map, enemies[i])
  /\ PlayerPlaced /\ RocksBedded /\ RemainingCounts

-----------------------------------------------------------------------------
(* Least indices *)

LEMMA MinimalIn ==
  ASSUME NEW R, IsWellFoundedOn(R, Nat), NEW S, S \subseteq Nat, S # {}
  PROVE  \E x \in S : \A y \in S : ~(<<y, x>> \in R)
  BY WFMin, Zenon

(* A set of natural numbers has a least element. *)
LEMMA LeastIn ==
  ASSUME NEW R, IsWellFoundedOn(R, Nat), \A y \in Nat, x \in Nat : y < x => <<y, x>> \in R,
         NEW S, S \subseteq Nat, S # {}
  PROVE  \E i \in S : \A k \in S : i <= k
  <1>1. PICK x \in S : \A y \in S : ~(<<y, x>> \in R)
    BY MinimalIn, Zenon
  <1>2. \A y \in S : ~(y < x) /\ y \in Nat /\ x \in Nat
    BY <1>1, Zenon
  <1> QED BY <1>2

LEMMA HasLeast == \A S : S \subseteq Nat /\ S # {} => \E i \in S : \A k \in S : i <= k
  <1>1. \A y \in Nat, x \in Nat : y < x => <<y, x>> \in OpToRel(<, Nat)
    BY Zenon DEF OpToRel
  <1> QED BY <1>1, NatLessThanWellFounded, LeastIn, Zenon

(* First picks the least index. *)
LEMMA FirstIsLeast ==
  ASSUME NEW S, S \subseteq Nat, S # {}
  PROVE  First(S) \in S /\ \A k \in S : First(S) <= k
  BY HasLeast DEF First

-----------------------------------------------------------------------------
(* The map *)

LEMMA LevelFacts ==
  /\ Len(EnemySpawns) \in Nat \ {0} /\ Len(RockSpawns) \in Nat
  /\ DOMAIN EnemySpawns = Enemy /\ DOMAIN RockSpawns = Rock
  /\ Enemy \subseteq Nat /\ Rock \subseteq Nat /\ IsFiniteSet(Enemy)
  <1>1. Len(EnemySpawns) \in Nat \ {0} /\ Len(RockSpawns) \in Nat
    BY LevelAssumption
  <1>2. DOMAIN EnemySpawns = Enemy /\ DOMAIN RockSpawns = Rock
    BY LevelAssumption DEF Enemy, Rock
  <1>3. IsFiniteSet(Enemy)
    BY <1>1, FS_Interval DEF Enemy
  <1> QED BY <1>1, <1>2, <1>3 DEF Enemy, Rock

(* Digging, and taking a gem or a bonus, only opens ground. *)
LEMMA OpenGrows ==
  ASSUME NEW m \in Maps, NEW S, NEW p, map_is_walkable(m, p)
  PROVE  SetTiles(m, S, "EMPTY") \in Maps /\ map_is_walkable(SetTiles(m, S, "EMPTY"), p)
  BY DEF SetTiles, Maps, TileType, map_is_walkable, map_get_tile, map_is_valid_position

(* What is not solid, on the map, can be walked on. *)
LEMMA NotSolid ==
  ASSUME map \in Maps, NEW p, map_is_valid_position(p), ~map_is_solid(map, p)
  PROVE  map_is_walkable(map, p)
  BY DEF Maps, TileType, map_is_walkable, map_get_tile, map_is_solid, map_is_valid_position

-----------------------------------------------------------------------------
(* Counting *)

(* An enemy that is dead stands nowhere, and is not alive.                 *)
LEMMA KilledFacts ==
  ASSUME NEW m, NEW E, Family(m, E), NEW S, S \subseteq Alive(E)
  PROVE  /\ Family(m, EnemyKilled(E, S)) /\ Alive(EnemyKilled(E, S)) = Alive(E) \ S
         /\ \A i \in Enemy \ S : EnemyKilled(E, S)[i] = E[i]
         /\ \A i \in S : EnemyKilled(E, S)[i].state = "DEAD"
  <1> DEFINE F == EnemyKilled(E, S)
             D(i) == [logic_enemy_init(EnemySpawns[i]) EXCEPT !.state = "DEAD"]
  <1>1. DOMAIN F = Enemy /\ \A i \in Enemy : F[i] = IF i \in S THEN D(i) ELSE E[i]
    BY DEF EnemyKilled
  <1>2. \A i : D(i).state = "DEAD" /\ IsEnemy(D(i))
    BY DEF logic_enemy_init, IsEnemy, EnemyFields
  <1> HIDE DEF F, D
  <1>3. S \subseteq Enemy
    BY DEF Alive
  <1>4. \A i \in Enemy : F[i] = E[i] \/ (F[i].state = "DEAD" /\ IsEnemy(F[i]))
    BY <1>1, <1>2
  <1>5. \A i \in Enemy : Placed(m, F[i])
    BY <1>4 DEF Family, Placed
  <1>6. Alive(F) = Alive(E) \ S
    BY <1>1, <1>2 DEF Alive
  <1>7. /\ \A i \in Enemy \ S : F[i] = E[i]
        /\ \A i \in S : F[i].state = "DEAD"
    BY <1>1, <1>2, <1>3
  <1> QED BY <1>1, <1>5, <1>6, <1>7 DEF Family, F

LEMMA AliveFinite ==
  ASSUME NEW E
  PROVE  Alive(E) \subseteq Enemy /\ IsFiniteSet(Alive(E)) /\ Cardinality(Alive(E)) \in Nat
  <1>1. Alive(E) \subseteq Enemy
    BY DEF Alive
  <1>2. IsFiniteSet(Alive(E))
    BY <1>1, LevelFacts, FS_Subset
  <1> QED BY <1>1, <1>2, FS_CardinalityType

(* The kills of S, taken off the count, leave it right.                    *)
LEMMA KilledCounted ==
  ASSUME NEW m, NEW l, Counted(m, l), NEW S, S \subseteq Alive(l.enemies), NEW s,
         NEW n, n = Cardinality(S)
  PROVE  Counted(m, [enemies |-> EnemyKilled(l.enemies, S), remaining |-> l.remaining - n, score |-> s])
  <1> DEFINE A == Alive(l.enemies)
             k == [enemies |-> EnemyKilled(l.enemies, S), remaining |-> l.remaining - n, score |-> s]
  <1>1. Family(m, EnemyKilled(l.enemies, S)) /\ Alive(EnemyKilled(l.enemies, S)) = A \ S
    BY KilledFacts DEF Counted
  <1>2. IsFiniteSet(A) /\ Cardinality(A) \in Nat
    BY AliveFinite
  <1>3. l.remaining = Cardinality(A)
    BY DEF Counted
  <1>4. S \subseteq A
    OBVIOUS
  <1>5. /\ DOMAIN k = {"enemies", "remaining", "score"} /\ k.remaining = l.remaining - n
        /\ k.enemies = EnemyKilled(l.enemies, S)
    OBVIOUS
  <1> HIDE DEF A, k
  <1>6. A \cap S = S
    BY <1>4
  <1>7. IsFiniteSet(S) /\ Cardinality(S) \in Nat
    BY <1>2, <1>4, FS_Subset, FS_CardinalityType
  <1>8. Cardinality(A \ S) = Cardinality(A) - Cardinality(S)
    BY <1>2, <1>6, <1>7, FS_Difference
  <1> QED BY <1>1, <1>3, <1>5, <1>8 DEF Counted, k

LEMMA OneKilled ==
  ASSUME NEW m, NEW l, Counted(m, l), NEW i \in Alive(l.enemies), NEW s
  PROVE  Counted(m, [enemies |-> EnemyKilled(l.enemies, {i}), remaining |-> l.remaining - 1, score |-> s])
  <1>1. Cardinality({i}) = 1 /\ {i} \subseteq Alive(l.enemies)
    BY FS_Singleton
  <1> QED BY <1>1, KilledCounted

(* What changes enemies and kills none leaves the count right.              *)
LEMMA NoneKilled ==
  ASSUME NEW m, NEW l, NEW n, Counted(n, l), NEW F, Family(m, F),
         \A i \in Enemy : F[i].state # "DEAD" <=> l.enemies[i].state # "DEAD"
  PROVE  Counted(m, [l EXCEPT !.enemies = F])
  <1>1. Alive(F) = Alive(l.enemies)
    BY DEF Alive
  <1> QED BY <1>1 DEF Counted

(* The tally of a state that satisfies the invariant, and what Tallied does *)
(* with another.                                                           *)
LEMMA TallyCounted == RulesInv => Counted(map, Tally)
  BY DEF RulesInv, Counted, Family, Tally, RemainingCounts

LEMMA TalliedFacts ==
  ASSUME NEW l, Counted(map', l), Tallied(l)
  PROVE  DOMAIN enemies' = Enemy /\ RemainingCounts' /\ \A i \in Enemy : Placed(map', enemies'[i])
  <1>1. enemies' = l.enemies /\ enemies_remaining' = l.remaining
    BY DEF Tallied
  <1>2. Alive(enemies') = Alive(l.enemies)
    BY <1>1 DEF Alive
  <1> QED BY <1>1, <1>2 DEF Counted, Family, RemainingCounts

-----------------------------------------------------------------------------
(* What the player does to the enemies *)

(* A change of the other fields moves nothing. *)
LEMMA SamePlace ==
  ASSUME NEW e, NEW f, Placed(map, e), IsEnemy(f), f.pos = e.pos, f.dir = e.dir, f.fire => e.fire,
         f.state \notin {"GHOST", "DEAD"} => e.state \notin {"GHOST", "DEAD"} \/ map_is_walkable(map, e.pos),
         e.state = "DEAD" => f.state = "DEAD"
  PROVE  Placed(map, f)
  BY DEF Placed, OpenOn

LEMMA AgedFamily ==
  ASSUME DOMAIN enemies = Enemy, \A i \in Enemy : Placed(map, enemies[i])
  PROVE  /\ Family(map, Aged(enemies))
         /\ \A i \in Enemy : Aged(enemies)[i].state = enemies[i].state
  <1>1. DOMAIN Aged(enemies) = Enemy
    BY DEF Aged
  <1>2. ASSUME NEW i \in Enemy
        PROVE  Placed(map, Aged(enemies)[i]) /\ Aged(enemies)[i].state = enemies[i].state
    <2> DEFINE e == enemies[i]
               f == Aged(enemies)[i]
               x == IF e.fire /\ e.fire_age < FYGAR_FIRE_DURATION THEN e.fire_age + 1 ELSE e.fire_age
               y == IF e.cool < FYGAR_FIRE_COOLDOWN THEN e.cool + 1 ELSE e.cool
    <2>1. f = [e EXCEPT !.fire_age = x, !.cool = y]
      BY DEF Aged
    <2>2. Placed(map, e) /\ IsEnemy(e)
      BY DEF Placed
    <2> HIDE DEF e, f, x, y
    <2>3. IsEnemy(f) /\ f.pos = e.pos /\ f.dir = e.dir /\ f.fire = e.fire /\ f.state = e.state
      BY <2>1, <2>2 DEF IsEnemy, EnemyFields
    <2>4. f.fire => e.fire
      BY <2>3
    <2> QED BY <2>2, <2>3, <2>4, SamePlace DEF e, f
  <1> QED BY <1>1, <1>2 DEF Family

LEMMA KillCounted ==
  ASSUME NEW l, Counted(map, l)
  PROVE  Counted(map, logic_dev_kill_enemy(l))
  <1> DEFINE A == Alive(l.enemies)
             i == First(A)
             s == logic_add_score(l.score, logic_calculate_enemy_points(l.enemies[i]))
  <1>1. CASE A = {}
    BY <1>1 DEF logic_dev_kill_enemy
  <1>2. CASE A # {}
    <2>1. A \subseteq Nat
      BY AliveFinite, LevelFacts
    <2>2. logic_dev_kill_enemy(l) = [enemies |-> EnemyKilled(l.enemies, {i}), remaining |-> l.remaining - 1, score |-> s]
      BY <1>2 DEF logic_dev_kill_enemy
    <2> HIDE DEF A, s
    <2>3. i \in A
      BY <1>2, <2>1, FirstIsLeast
    <2> HIDE DEF i
    <2> QED BY <2>2, <2>3, OneKilled DEF A
  <1> QED BY <1>1, <1>2

(* The attack ends before the first solid cell, so what it hits, ghosts    *)
(* included, is in the open.                                               *)
LEMMA AttackHitsOpen ==
  ASSUME map \in Maps, NEW p, NEW d, NEW range \in Nat, NEW i \in 1..attack_path_clear(p, d, range)
  PROVE  map_is_walkable(map, Ray(p, d, i))
  <1> DEFINE stop == {k \in 1..range : ~map_is_valid_position(Ray(p, d, k)) \/ map_is_solid(map, Ray(p, d, k))}
  <1>1. i \in 1..range /\ i \notin stop
    <2>1. CASE stop = {}
      <3>1. attack_path_clear(p, d, range) = range
        BY <2>1 DEF attack_path_clear
      <3> QED BY <2>1, <3>1
    <2>2. CASE stop # {}
      <3>1. attack_path_clear(p, d, range) = First(stop) - 1
        BY <2>2 DEF attack_path_clear
      <3>2. stop \subseteq 1..range /\ stop \subseteq Nat
        OBVIOUS
      <3> HIDE DEF stop
      <3>3. First(stop) \in stop /\ \A k \in stop : First(stop) <= k
        BY <2>2, <3>2, FirstIsLeast
      <3>4. First(stop) \in 1..range
        BY <3>2, <3>3
      <3>5. i \in 1..(First(stop) - 1)
        BY <3>1
      <3>6. First(stop) \in Int /\ i \in Int /\ i < First(stop)
        BY <3>4, <3>5
      <3> QED BY <3>3, <3>4, <3>5, <3>6
    <2> QED BY <2>1, <2>2
  <1>2. map_is_valid_position(Ray(p, d, i)) /\ ~map_is_solid(map, Ray(p, d, i))
    BY <1>1
  <1> QED BY <1>2, NotSolid

LEMMA AttackFamily ==
  ASSUME map \in Maps, NEW E, Family(map, E), NEW pl
  PROVE  /\ Family(map, logic_player_attack(E, pl))
         /\ \A i \in Enemy : logic_player_attack(E, pl)[i].state # "DEAD" <=> E[i].state # "DEAD"
  <1> DEFINE range == IF pl.facing \in {"UP", "DOWN"} THEN ATTACK_RANGE_V ELSE ATTACK_RANGE_H
             hit == {Ray(pl.pos, pl.facing, i) : i \in 1..attack_path_clear(pl.pos, pl.facing, range)}
             F == logic_player_attack(E, pl)
  <1>1. \A p \in hit : map_is_walkable(map, p)
    <2>1. range \in Nat
      BY LevelAssumption
    <2> HIDE DEF range
    <2> QED BY <2>1, AttackHitsOpen
  <1>2. F = [i \in Enemy |->
               IF i \in Alive(E) /\ E[i].state # "PARALYZED" /\ E[i].pos \in hit
               THEN [E[i] EXCEPT !.state = "PARALYZED", !.blinks = BLINKS, !.par = BLINK_TICKS] ELSE E[i]]
    BY DEF logic_player_attack
  <1> HIDE DEF hit, F
  <1>3. ASSUME NEW i \in Enemy
        PROVE  Placed(map, F[i]) /\ (F[i].state # "DEAD" <=> E[i].state # "DEAD")
    <2>0. Placed(map, E[i]) /\ IsEnemy(E[i])
      BY DEF Family, Placed
    <2>1. CASE i \in Alive(E) /\ E[i].state # "PARALYZED" /\ E[i].pos \in hit
      <3>1. F[i] = [E[i] EXCEPT !.state = "PARALYZED", !.blinks = BLINKS, !.par = BLINK_TICKS]
        BY <1>2, <2>1
      <3>2. /\ IsEnemy(F[i]) /\ F[i].pos = E[i].pos /\ F[i].dir = E[i].dir /\ F[i].fire = E[i].fire
            /\ F[i].state = "PARALYZED"
        BY <2>0, <3>1 DEF IsEnemy, EnemyFields
      <3>3. F[i].fire => E[i].fire
        BY <3>2
      <3>4. E[i].state # "DEAD" /\ map_is_walkable(map, E[i].pos)
        BY <1>1, <2>1 DEF Alive
      <3> QED BY <2>0, <3>2, <3>3, <3>4, SamePlace
    <2>2. CASE ~(i \in Alive(E) /\ E[i].state # "PARALYZED" /\ E[i].pos \in hit)
      BY <1>2, <2>0, <2>2
    <2> QED BY <2>1, <2>2
  <1>4. DOMAIN F = Enemy
    BY <1>2
  <1> QED BY <1>3, <1>4 DEF Family, F

LEMMA BeforeUpdateCounted ==
  ASSUME RulesInv, NEW in
  PROVE  Counted(map, BeforeUpdate(in))
  <1> DEFINE a == [Tally EXCEPT !.enemies = Aged(enemies)]
             l == IF in.kill THEN logic_dev_kill_enemy(a) ELSE a
  <1>1. /\ Family(map, Aged(enemies)) /\ Tally.enemies = enemies
        /\ \A i \in Enemy : Aged(enemies)[i].state = enemies[i].state
    BY AgedFamily DEF RulesInv, Tally
  <1>2. Counted(map, a)
    BY <1>1, TallyCounted, NoneKilled
  <1>3. BeforeUpdate(in) = l \/ BeforeUpdate(in) = [l EXCEPT !.enemies = logic_player_attack(l.enemies, player)]
    BY DEF BeforeUpdate
  <1> HIDE DEF a
  <1>4. Counted(map, l)
    BY <1>2, KillCounted
  <1> HIDE DEF l
  <1> DEFINE E == l.enemies
             F == logic_player_attack(E, player)
  <1>5. Family(map, E) /\ map \in Maps
    BY <1>4 DEF Counted, RulesInv
  <1> HIDE DEF E
  <1>6. Family(map, F) /\ \A i \in Enemy : F[i].state # "DEAD" <=> E[i].state # "DEAD"
    BY <1>5, AttackFamily
  <1> HIDE DEF F
  <1>7. Counted(map, [l EXCEPT !.enemies = F])
    BY <1>4, <1>6, NoneKilled DEF E
  <1> QED BY <1>3, <1>4, <1>7 DEF E, F

-----------------------------------------------------------------------------
(* The player's turn *)

(* What is well placed stays so when ground is opened. *)
LEMMA PlacedGrows ==
  ASSUME NEW m, NEW n, \A p : map_is_walkable(m, p) => map_is_walkable(n, p), NEW e, Placed(m, e)
  PROVE  Placed(n, e)
  BY DEF Placed, OpenOn

(* Pumping blows up an enemy in the player's own cell, which is open by now *)
(* even when the enemy is a ghost that the player has dug out.             *)
LEMMA InflateCounted ==
  ASSUME NEW m, NEW l, Counted(m, l), NEW k \in Alive(l.enemies), map_is_walkable(m, l.enemies[k].pos)
  PROVE  Counted(m, logic_enemy_inflate(l, k))
  <1> DEFINE e == l.enemies[k]
             f == Inflated(e)
             F == [l.enemies EXCEPT ![k] = f]
             s == logic_add_score(l.score, logic_calculate_enemy_points(e))
  <1>0. k \in Enemy /\ e.state # "DEAD" /\ Placed(m, e) /\ IsEnemy(e)
    BY DEF Alive, Counted, Family, Placed
  <1>1. \/ logic_enemy_inflate(l, k) = [l EXCEPT !.enemies = F]
        \/ logic_enemy_inflate(l, k) =
             [enemies |-> EnemyKilled(l.enemies, {k}), remaining |-> l.remaining - 1, score |-> s]
    BY DEF logic_enemy_inflate
  <1>2. DOMAIN F = Enemy /\ \A i \in Enemy : F[i] = IF i = k THEN f ELSE l.enemies[i]
    BY DEF Counted, Family
  <1>3. /\ IsEnemy(f) /\ f.pos = e.pos /\ f.dir = e.dir /\ f.fire = e.fire /\ f.state = "INFLATING"
    BY <1>0 DEF IsEnemy, EnemyFields, Inflated
  <1> HIDE DEF f, F, s
  <1>4. f.fire => e.fire
    BY <1>3
  <1>5. OpenOn(m, e, e.dir) => OpenOn(m, f, f.dir)
    BY <1>3 DEF OpenOn
  <1>6. Placed(m, f)
    BY <1>0, <1>3, <1>4, <1>5 DEF Placed
  <1>7. Family(m, F) /\ \A i \in Enemy : F[i].state # "DEAD" <=> l.enemies[i].state # "DEAD"
    BY <1>0, <1>2, <1>3, <1>6 DEF Family, Counted
  <1>8. Counted(m, [l EXCEPT !.enemies = F])
    BY <1>7, NoneKilled
  <1>9. Counted(m, [enemies |-> EnemyKilled(l.enemies, {k}), remaining |-> l.remaining - 1, score |-> s])
    BY OneKilled
  <1> QED BY <1>1, <1>8, <1>9

LEMMA PumpCounted ==
  ASSUME NEW m, NEW l, Counted(m, l), NEW pl, map_is_walkable(m, pl.pos)
  PROVE  Counted(m, logic_player_pump(l, pl))
  <1> DEFINE A == {i \in Alive(l.enemies) : l.enemies[i].pos = pl.pos}
             k == First(A)
  <1>1. CASE A = {}
    BY <1>1 DEF logic_player_pump
  <1>2. CASE A # {}
    <2>1. logic_player_pump(l, pl) = logic_enemy_inflate(l, k)
      BY <1>2 DEF logic_player_pump
    <2>2. A \subseteq Nat
      BY LevelFacts DEF Alive
    <2>3. k \in A
      <3> HIDE DEF A
      <3> QED BY <1>2, <2>2, FirstIsLeast
    <2>4. k \in Alive(l.enemies) /\ l.enemies[k].pos = pl.pos
      BY <2>3
    <2> HIDE DEF k, A
    <2> QED BY <2>1, <2>4, InflateCounted
  <1> QED BY <1>1, <1>2

(* A death leaves the player where it is. *)
LEMMA DieStays ==
  ASSUME NEW pl, NEW g, DOMAIN g = {"player", "lives", "timer"}, g.player = pl,
         {"dead", "pos", "pumping"} \subseteq DOMAIN pl
  PROVE  LET h == logic_player_die(g) IN
         /\ DOMAIN h = {"player", "lives", "timer"} /\ DOMAIN h.player = DOMAIN pl
         /\ h.player.pos = pl.pos /\ h.player.dead
  <1> DEFINE h == logic_player_die(g)
             q == [[pl EXCEPT !.dead = TRUE] EXCEPT !.pumping = FALSE]
  <1>1. DOMAIN h = {"player", "lives", "timer"}
    BY DEF logic_player_die
  <1>2. h.player = q
    BY DEF logic_player_die
  <1>3. DOMAIN q = DOMAIN pl /\ q.pos = pl.pos /\ q.dead
    OBVIOUS
  <1> QED BY <1>1, <1>2, <1>3

(* The player goes to a cell without a resting rock, inside the rows that  *)
(* are the player's, and which is open once it has been entered.           *)
LEMMA MovedFacts ==
  ASSUME RulesInv, NEW d
  PROVE  LET pl == Moved(player, d)
             m == Entered(pl.pos, d)
         IN /\ DOMAIN pl = {"pos", "dead", "facing", "speed", "pumping"}
            /\ pl.pos[2] \in ROW_SKY_END..(ROW_BORDER - 1) /\ ~has_rock_at(pl.pos)
            /\ m \in Maps /\ map_is_walkable(m, pl.pos)
            /\ \A p : map_is_walkable(map, p) => map_is_walkable(m, p)
            /\ \A p \in Cells : p # pl.pos => m[p] = map[p]
  <1> DEFINE pl == Moved(player, d)
             m == Entered(pl.pos, d)
             move == d # DIR_NONE /\ player.speed <= 0
             S == {pl.pos} \cap {q \in Cells : map[q] \in {"DIRT", "GEM", "BONUS"}}
  <1>0. map \in Maps /\ DOMAIN player = {"pos", "dead", "facing", "speed", "pumping"}
    BY DEF RulesInv, PlayerPlaced
  <1>1. DOMAIN pl = {"pos", "dead", "facing", "speed", "pumping"}
        /\ pl.pos = IF move THEN MoveTarget(player.pos, d) ELSE player.pos
    BY <1>0 DEF Moved
  <1>2. m = IF move THEN SetTiles(map, S, "EMPTY") ELSE map
    BY DEF Entered
  <1> HIDE DEF pl, m
  <1>3. m \in Maps
    BY <1>0, <1>2 DEF SetTiles, Maps, TileType
  <1>4. \A p : map_is_walkable(map, p) => map_is_walkable(m, p)
    BY <1>0, <1>2, OpenGrows
  <1>5. \A p \in Cells : p # pl.pos => m[p] = map[p]
    BY <1>0, <1>2 DEF SetTiles
  <1>6. /\ player.pos[2] \in ROW_SKY_END..(ROW_BORDER - 1) /\ ~has_rock_at(player.pos)
        /\ map_is_walkable(map, player.pos)
    BY DEF RulesInv, PlayerPlaced
  <1>7. CASE pl.pos = player.pos
    BY <1>1, <1>3, <1>4, <1>5, <1>6, <1>7 DEF pl, m
  <1>8. CASE pl.pos # player.pos
    <2> DEFINE n == Step(player.pos, d)
    <2>1. move /\ pl.pos = MoveTarget(player.pos, d)
      BY <1>1, <1>8
    <2>2. /\ pl.pos = n /\ map_is_valid_position(n) /\ n[2] >= ROW_SKY_END /\ n[2] < ROW_BORDER
          /\ ~has_rock_at(n) /\ (map_is_diggable(map, n) \/ map_is_walkable(map, n))
      BY <1>8, <2>1 DEF MoveTarget
    <2> HIDE DEF n
    <2>3. n[2] \in 0..(MAP_HEIGHT - 1)
      BY <2>2 DEF map_is_valid_position, Cells
    <2>4. ROW_SKY_END \in Int /\ ROW_BORDER \in Int /\ MAP_HEIGHT \in Int
      BY MapAssumption
    <2>5. n[2] \in ROW_SKY_END..(ROW_BORDER - 1)
      BY <2>2, <2>3, <2>4
    <2>6. map_is_walkable(m, n)
      <3>1. CASE map_is_walkable(map, n)
        BY <1>4, <3>1
      <3>2. CASE map_is_diggable(map, n)
        <4>1. n \in Cells /\ map[n] = "DIRT"
          BY <2>2, <3>2 DEF map_is_diggable, map_get_tile, map_is_valid_position
        <4>2. m[n] = "EMPTY"
          BY <1>2, <2>1, <2>2, <4>1 DEF SetTiles
        <4> QED BY <4>1, <4>2 DEF map_is_walkable, map_get_tile, map_is_valid_position
      <3> QED BY <2>2, <3>1, <3>2
    <2> QED BY <1>1, <1>3, <1>4, <1>5, <2>2, <2>5, <2>6 DEF pl, m
  <1> QED BY <1>7, <1>8

LEMMA NextTurnIsTurn == ASSUME NEW t \in Turns PROVE NextTurn(t) \in Turns
  <1>1. Len(EnemySpawns) \in Nat \ {0} /\ Len(RockSpawns) \in Nat
    BY LevelFacts
  <1>2. 1 \in Enemy /\ (Len(RockSpawns) > 0 => 1 \in Rock) /\ <<"end", 0>> \in Turns
    BY <1>1 DEF Enemy, Rock, Turns
  <1>3. ASSUME t[1] = "enemy", t[2] < Len(EnemySpawns) PROVE t[2] + 1 \in Enemy
    BY <1>1, <1>3 DEF Turns, Enemy
  <1>4. ASSUME t[1] = "rock", t[2] < Len(RockSpawns) PROVE t[2] + 1 \in Rock
    BY <1>1, <1>4 DEF Turns, Rock
  <1>5. /\ \A i \in Enemy : <<"enemy", i>> \in Turns
        /\ \A j \in Rock : <<"rock", j>> \in Turns
    BY DEF Turns
  <1> QED BY <1>2, <1>3, <1>4, <1>5 DEF NextTurn

LEMMA WaitInv == RulesInv /\ WaitRespawn => RulesInv'
  <1> SUFFICES ASSUME RulesInv, WaitRespawn PROVE RulesInv'
    OBVIOUS
  <1>1. PICK in \in Inputs : Tallied(BeforeUpdate(in))
    BY DEF WaitRespawn
  <1>2. UNCHANGED <<turn, map, rocks>>
    BY DEF WaitRespawn
  <1>3. DOMAIN enemies' = Enemy /\ RemainingCounts' /\ \A i \in Enemy : Placed(map', enemies'[i])
    BY <1>1, <1>2, BeforeUpdateCounted, TalliedFacts
  <1>4. RocksBedded'
    BY <1>2 DEF RulesInv, RocksBedded
  <1>5. PlayerPlaced'
    <2>1. CASE player' = player
      BY <1>2, <2>1 DEF RulesInv, PlayerPlaced, has_rock_at
    <2>2. CASE player' = logic_player_init(PLAYER_START)
      <3>1. /\ DOMAIN player' = {"pos", "dead", "facing", "speed", "pumping"}
            /\ player'.pos = PLAYER_START
        BY <2>2 DEF logic_player_init
      <3>2. \A j \in Rock : RockSpawns[j] # PLAYER_START
        BY LevelAssumption, LevelFacts
      <3>3. ~has_rock_at(PLAYER_START)
        BY <3>2 DEF has_rock_at, RulesInv, RocksBedded, Resting
      <3>4. PLAYER_START[2] \in ROW_SKY_END..(ROW_BORDER - 1) /\ map_is_walkable(map, PLAYER_START)
        BY LevelAssumption DEF RulesInv
      <3> QED BY <1>2, <3>1, <3>3, <3>4 DEF PlayerPlaced, has_rock_at
    <2> QED BY <2>1, <2>2 DEF WaitRespawn
  <1> QED BY <1>2, <1>3, <1>4, <1>5 DEF RulesInv

LEMMA PlayerInv == RulesInv /\ logic_update_player => RulesInv'
  <1> SUFFICES ASSUME RulesInv, logic_update_player PROVE RulesInv'
    OBVIOUS
  <1>1. rocks' = rocks /\ turn' = NextTurn(turn) /\ turn' \in Turns
    BY NextTurnIsTurn DEF logic_update_player, RulesInv
  <1>2. PICK in \in Inputs :
          LET pl == [Moved(player, in.dir) EXCEPT !.pumping = in.pump]
              bonus == map_get_tile(map, pl.pos) = "BONUS" /\ Entered(pl.pos, in.dir) # map
              l0 == BeforeUpdate(in)
              l1 == IF bonus THEN [l0 EXCEPT !.score = logic_add_score(@, BONUS_POINTS)] ELSE l0
              l2 == IF in.pump THEN logic_player_pump(l1, pl) ELSE l1
              g0 == [Now EXCEPT !.player = pl]
              g1 == IF Touched(l2.enemies, pl) THEN logic_player_die(g0) ELSE g0
              g2 == IF HitByRock(pl) THEN logic_player_die(g1) ELSE g1
          IN IF player.dead THEN Tallied(l0) /\ UNCHANGED map /\ Become(Now)
             ELSE /\ Tallied(l2)
                  /\ map' = Entered(pl.pos, in.dir)
                  /\ Become(g2)
    BY DEF logic_update_player
  <1>3. CASE player.dead
    <2>1. Tallied(BeforeUpdate(in)) /\ map' = map /\ player' = player
      BY <1>2, <1>3 DEF Become, Now
    <2>2. DOMAIN enemies' = Enemy /\ RemainingCounts' /\ \A i \in Enemy : Placed(map', enemies'[i])
      BY <2>1, BeforeUpdateCounted, TalliedFacts
    <2>3. PlayerPlaced' /\ RocksBedded'
      BY <1>1, <2>1 DEF RulesInv, PlayerPlaced, RocksBedded, has_rock_at
    <2> QED BY <1>1, <2>1, <2>2, <2>3 DEF RulesInv
  <1>4. CASE ~player.dead
    <2> DEFINE mv == Moved(player, in.dir)
               pl == [mv EXCEPT !.pumping = in.pump]
               bonus == map_get_tile(map, pl.pos) = "BONUS" /\ Entered(pl.pos, in.dir) # map
               l0 == BeforeUpdate(in)
               l1 == IF bonus THEN [l0 EXCEPT !.score = logic_add_score(l0.score, BONUS_POINTS)] ELSE l0
               l2 == IF in.pump THEN logic_player_pump(l1, pl) ELSE l1
               g0 == [Now EXCEPT !.player = pl]
               g1 == IF Touched(l2.enemies, pl) THEN logic_player_die(g0) ELSE g0
               g2 == IF HitByRock(pl) THEN logic_player_die(g1) ELSE g1
    <2>1. /\ Tallied(l2)
          /\ map' = Entered(pl.pos, in.dir) /\ player' = g2.player
      BY <1>2, <1>4 DEF Become
    <2>2. /\ DOMAIN mv = {"pos", "dead", "facing", "speed", "pumping"}
          /\ mv.pos[2] \in ROW_SKY_END..(ROW_BORDER - 1) /\ ~has_rock_at(mv.pos)
          /\ Entered(mv.pos, in.dir) \in Maps /\ map_is_walkable(Entered(mv.pos, in.dir), mv.pos)
          /\ \A p : map_is_walkable(map, p) => map_is_walkable(Entered(mv.pos, in.dir), p)
          /\ \A p \in Cells : p # mv.pos => Entered(mv.pos, in.dir)[p] = map[p]
      BY MovedFacts
    <2> HIDE DEF mv
    <2>3. DOMAIN pl = {"pos", "dead", "facing", "speed", "pumping"} /\ pl.pos = mv.pos
      BY <2>2
    <2>4. DOMAIN g0 = {"player", "lives", "timer"} /\ g0.player = pl
      BY DEF Now
    <2> HIDE DEF pl, g0
    <2>5. /\ map' \in Maps /\ map_is_walkable(map', pl.pos)
          /\ \A p : map_is_walkable(map, p) => map_is_walkable(map', p)
          /\ \A p \in Cells : p # pl.pos => map'[p] = map[p]
      BY <2>1, <2>2, <2>3
    <2>6. Counted(map', l2)
      <3>1. Counted(map, l0)
        BY BeforeUpdateCounted
      <3> HIDE DEF l0
      <3>2. Counted(map', l0)
        BY <2>5, <3>1, PlacedGrows DEF Counted, Family
      <3> HIDE DEF bonus
      <3>3. Counted(map', l1)
        BY <3>2 DEF Counted
      <3> HIDE DEF l1
      <3> QED BY <2>5, <3>3, PumpCounted
    <2> HIDE DEF l2
    <2>7. DOMAIN enemies' = Enemy /\ RemainingCounts' /\ \A i \in Enemy : Placed(map', enemies'[i])
      BY <2>1, <2>6, TalliedFacts
    <2>8. DOMAIN g1 = {"player", "lives", "timer"} /\ DOMAIN g1.player = DOMAIN pl /\ g1.player.pos = pl.pos
      BY <2>3, <2>4, DieStays
    <2> HIDE DEF g1
    <2>9. DOMAIN g2.player = DOMAIN pl /\ g2.player.pos = pl.pos
      BY <2>3, <2>8, DieStays
    <2> HIDE DEF g2
    <2>10. PlayerPlaced'
      BY <1>1, <2>1, <2>2, <2>3, <2>5, <2>9 DEF PlayerPlaced, has_rock_at
    <2>11. RocksBedded'
      <3>1. \A j \in Rock : RockSpawns[j] \in Cells
        BY LevelAssumption, LevelFacts
      <3>2. \A j \in Rock : rocks[j].state \in Resting => rocks[j].pos # pl.pos
        BY <2>2, <2>3 DEF has_rock_at, Resting
      <3> QED BY <1>1, <2>5, <3>1, <3>2 DEF RulesInv, RocksBedded
    <2> QED BY <1>1, <2>5, <2>7, <2>10, <2>11 DEF RulesInv
  <1> QED BY <1>3, <1>4

-----------------------------------------------------------------------------
(* The turn of an enemy *)

\* An enemy without fire, in the open unless it is a ghost.
Loose(e) ==
  /\ IsEnemy(e) /\ ~e.fire /\ e.state # "DEAD"
  /\ e.state # "GHOST" => map_is_walkable(map, e.pos)

LEMMA TryMove ==
  ASSUME NEW e, IsEnemy(e), NEW d
  PROVE  LET n == logic_try_enemy_move(e, d) IN
         /\ IsEnemy(n) /\ n.pos = Step(e.pos, d) /\ n.fire = e.fire /\ n.state = e.state
  BY DEF logic_try_enemy_move, IsEnemy, EnemyFields

LEMMA WalkerIsLoose ==
  ASSUME NEW e, Loose(e), e.state # "GHOST", NEW n \in logic_enemy_move_towards_player(e)
  PROVE  Loose(n)
  <1> DEFINE D == Directions \cap FirstDirs(Walkable, e.pos, player.pos, FALSE)
             any == logic_get_random_direction(e)
  <1>1. \/ \E d \in D : CanStep(Step(e.pos, d)) /\ n = [logic_try_enemy_move(e, d) EXCEPT !.ghost_timer = 0]
        \/ n = e
        \/ \E d \in any : n = logic_try_enemy_move(e, d)
    BY DEF logic_enemy_move_towards_player
  <1>2. CASE n = e
    BY <1>2
  <1>3. ASSUME NEW d, n = logic_try_enemy_move(e, d), map_is_walkable(map, Step(e.pos, d))
        PROVE  Loose(n)
    <2>1. IsEnemy(n) /\ n.pos = Step(e.pos, d) /\ n.fire = e.fire /\ n.state = e.state
      BY <1>3, TryMove DEF Loose
    <2>2. n.fire => e.fire
      BY <2>1
    <2> QED BY <1>3, <2>1, <2>2 DEF Loose
  <1>4. ASSUME NEW d, n = [logic_try_enemy_move(e, d) EXCEPT !.ghost_timer = 0],
               map_is_walkable(map, Step(e.pos, d))
        PROVE  Loose(n)
    <2> DEFINE w == logic_try_enemy_move(e, d)
    <2>1. IsEnemy(w) /\ w.pos = Step(e.pos, d) /\ w.fire = e.fire /\ w.state = e.state
      BY TryMove DEF Loose
    <2> HIDE DEF w
    <2>2. IsEnemy(n) /\ n.pos = w.pos /\ n.fire = w.fire /\ n.state = w.state
      BY <1>4, <2>1 DEF IsEnemy, EnemyFields, w
    <2>3. n.fire => e.fire
      BY <2>1, <2>2
    <2> QED BY <1>4, <2>1, <2>2, <2>3 DEF Loose
  <1>5. \A d \in any : map_is_walkable(map, Step(e.pos, d))
    BY DEF logic_get_random_direction
  <1>6. \A d \in D : CanStep(Step(e.pos, d)) => map_is_walkable(map, Step(e.pos, d))
    BY DEF CanStep
  <1> HIDE DEF D, any
  <1> QED BY <1>1, <1>2, <1>3, <1>4, <1>5, <1>6

LEMMA SolidifiedIsLoose ==
  ASSUME NEW e, IsEnemy(e), ~e.fire, map_is_walkable(map, e.pos)
  PROVE  Loose(Solidified(e))
  <1> DEFINE n == Solidified(e)
  <1>1. IsEnemy(n) /\ n.pos = e.pos /\ n.fire = e.fire /\ n.state = "NORMAL"
    BY DEF Solidified, IsEnemy, EnemyFields
  <1> HIDE DEF n
  <1>2. n.fire => e.fire
    BY <1>1
  <1> QED BY <1>1, <1>2 DEF Loose, n

(* A ghost turns solid on open ground only. *)
LEMMA GhostIsLoose ==
  ASSUME NEW e, Loose(e), e.state = "GHOST", NEW n \in logic_enemy_ghost_mode(e)
  PROVE  Loose(n)
  <1> DEFINE out == e.left \/ ~map_is_walkable(map, e.pos)
             G(d) == [logic_try_enemy_move(e, d) EXCEPT !.left = out]
  <1>0. IsEnemy(e) /\ ~e.fire
    BY DEF Loose
  <1>1. \/ map_is_walkable(map, e.pos) /\ n = Solidified(e)
        \/ n = [e EXCEPT !.left = out]
        \/ \E d \in Directions : n = IF map_is_walkable(map, G(d).pos) /\ out THEN Solidified(G(d)) ELSE G(d)
    BY DEF logic_enemy_ghost_mode
  <1>2. CASE map_is_walkable(map, e.pos) /\ n = Solidified(e)
    BY <1>0, <1>2, SolidifiedIsLoose
  <1>3. CASE n = [e EXCEPT !.left = out]
    <2> HIDE DEF out
    <2>1. IsEnemy(n) /\ n.fire = e.fire /\ n.state = "GHOST"
      BY <1>0, <1>3 DEF IsEnemy, EnemyFields
    <2>2. n.fire => e.fire
      BY <2>1
    <2> QED BY <1>0, <2>1, <2>2 DEF Loose
  <1>4. ASSUME NEW d, n = IF map_is_walkable(map, G(d).pos) /\ out THEN Solidified(G(d)) ELSE G(d)
        PROVE  Loose(n)
    <2> DEFINE w == logic_try_enemy_move(e, d)
               g == [w EXCEPT !.left = out]
    <2>1. IsEnemy(w) /\ w.fire = e.fire /\ w.state = "GHOST"
      BY <1>0, TryMove
    <2>2. (map_is_walkable(map, g.pos) /\ n = Solidified(g)) \/ n = g
      BY <1>4
    <2> HIDE DEF w, out
    <2>3. IsEnemy(g) /\ g.fire = w.fire /\ g.state = "GHOST"
      BY <2>1 DEF IsEnemy, EnemyFields
    <2> HIDE DEF g
    <2>4. g.fire => e.fire
      BY <2>1, <2>3
    <2>5. Loose(g)
      BY <1>0, <2>3, <2>4 DEF Loose
    <2> QED BY <1>0, <2>2, <2>3, <2>4, <2>5, SolidifiedIsLoose
  <1> HIDE DEF out, G
  <1> QED BY <1>1, <1>2, <1>3, <1>4

LEMMA AiIsLoose ==
  ASSUME NEW e, Loose(e), NEW n \in logic_enemy_ai(e)
  PROVE  Loose(n)
  <1> DEFINE after == IF e.state = "GHOST" THEN logic_enemy_ghost_mode(e) ELSE logic_enemy_move_towards_player(e)
             Timed(w) == [w EXCEPT !.speed = ENEMY_SPEED,
                                   !.ghost_timer = IF @ > GHOST_MODE_THRESHOLD THEN @ ELSE @ + 1]
  <1>1. PICK w \in after : n \in {Timed(w), [Timed(w) EXCEPT !.state = "GHOST", !.left = FALSE]}
    BY DEF logic_enemy_ai
  <1>2. Loose(w)
    BY <1>1, WalkerIsLoose, GhostIsLoose
  <1> DEFINE t == Timed(w)
             x == IF w.ghost_timer > GHOST_MODE_THRESHOLD THEN w.ghost_timer ELSE w.ghost_timer + 1
  <1>3. t = [w EXCEPT !.speed = ENEMY_SPEED, !.ghost_timer = x]
    OBVIOUS
  <1>4. n = t \/ n = [t EXCEPT !.state = "GHOST", !.left = FALSE]
    BY <1>1
  <1> HIDE DEF t, x, after, Timed
  <1>5. IsEnemy(t) /\ t.fire = w.fire /\ t.state = w.state /\ t.pos = w.pos
    BY <1>2, <1>3, LevelAssumption DEF Loose, IsEnemy, EnemyFields
  <1>6. t.fire => w.fire
    BY <1>5
  <1>7. Loose(t)
    BY <1>2, <1>5, <1>6 DEF Loose
  <1>8. CASE n = [t EXCEPT !.state = "GHOST", !.left = FALSE]
    <2>1. IsEnemy(n) /\ n.fire = t.fire /\ n.state = "GHOST"
      BY <1>5, <1>8 DEF IsEnemy, EnemyFields
    <2>2. n.fire => t.fire
      BY <2>1
    <2> QED BY <1>7, <2>1, <2>2 DEF Loose
  <1> QED BY <1>4, <1>7, <1>8

(* A fire starts over open ground. *)
LEMMA StartFirePlaced ==
  ASSUME NEW e, Placed(map, e), e.state # "DEAD"
  PROVE  Placed(map, StartFire(e)) /\ StartFire(e).state = e.state
  <1> DEFINE d == IF player.pos[1] >= e.pos[1] THEN "RIGHT" ELSE "LEFT"
             o == IF d = "RIGHT" THEN "LEFT" ELSE "RIGHT"
             F(f) == [e EXCEPT !.fire = TRUE, !.fire_age = 0, !.dir = f]
             n == StartFire(e)
  <1>1. n = e \/ (Open(e, d) /\ n = F(d)) \/ (Open(e, o) /\ n = F(o))
    BY DEF StartFire
  <1>2. IsEnemy(e)
    BY DEF Placed
  <1>3. ASSUME NEW f, Open(e, f), n = F(f)
        PROVE  Placed(map, n) /\ n.state = e.state
    <2>1. n = [e EXCEPT !.fire = TRUE, !.fire_age = 0, !.dir = f]
      BY <1>3
    <2> HIDE DEF n
    <2>2. IsEnemy(n) /\ n.pos = e.pos /\ n.dir = f /\ n.state = e.state
      BY <1>2, <2>1 DEF IsEnemy, EnemyFields
    <2>3. OpenOn(map, n, n.dir)
      BY <1>3, <2>2 DEF Open, OpenOn
    <2> QED BY <2>2, <2>3 DEF Placed
  <1> HIDE DEF d, o, n
  <1> QED BY <1>1, <1>3 DEF n

(* An enemy that was shot blinks, and dies at the last blink.              *)
LEMMA BlinkedCounted ==
  ASSUME NEW l, Counted(map, l), NEW k \in Enemy, l.enemies[k].state = "PARALYZED"
  PROVE  Counted(map, Blinked(l, k))
  <1> DEFINE e == l.enemies[k]
             n == IF e.par > 0 THEN [e EXCEPT !.par = e.par - 1]
                  ELSE [e EXCEPT !.blinks = e.blinks - 1, !.par = BLINK_TICKS]
             F == [l.enemies EXCEPT ![k] = n]
             s == logic_add_score(l.score, logic_calculate_enemy_points(e))
  <1>0. Placed(map, e) /\ IsEnemy(e) /\ e.state = "PARALYZED" /\ k \in Alive(l.enemies)
    BY DEF Counted, Family, Placed, Alive
  <1>1. \/ Blinked(l, k) = [l EXCEPT !.enemies = F]
        \/ Blinked(l, k) =
             [enemies |-> EnemyKilled(l.enemies, {k}), remaining |-> l.remaining - 1, score |-> s]
    BY DEF Blinked
  <1>2. DOMAIN F = Enemy /\ \A i \in Enemy : F[i] = IF i = k THEN n ELSE l.enemies[i]
    BY DEF Counted, Family
  <1>3. IsEnemy(n) /\ n.pos = e.pos /\ n.dir = e.dir /\ n.fire = e.fire /\ n.state = "PARALYZED"
    BY <1>0 DEF IsEnemy, EnemyFields
  <1> HIDE DEF n, F, s
  <1>4. n.fire => e.fire
    BY <1>3
  <1>5. Placed(map, n)
    <2> HIDE DEF e
    <2> QED BY <1>0, <1>3, <1>4, SamePlace
  <1>6. Family(map, F) /\ \A i \in Enemy : F[i].state # "DEAD" <=> l.enemies[i].state # "DEAD"
    BY <1>0, <1>2, <1>3, <1>5 DEF Family, Counted
  <1>7. Counted(map, [l EXCEPT !.enemies = F])
    BY <1>6, NoneKilled
  <1>8. Counted(map, [enemies |-> EnemyKilled(l.enemies, {k}), remaining |-> l.remaining - 1, score |-> s])
    BY <1>0, OneKilled
  <1> QED BY <1>1, <1>7, <1>8

(* Whatever its turn makes of an enemy is where it may be, and as alive.    *)
LEMMA EnemyTurnPlaced ==
  ASSUME NEW e, Placed(map, e), e.state # "PARALYZED", NEW r \in EnemyTurns(e)
  PROVE  Placed(map, r[1]) /\ (r[1].state # "DEAD" <=> e.state # "DEAD")
  <1>0. IsEnemy(e)
    BY DEF Placed
  <1>1. CASE e.state = "DEAD"
    BY <1>1 DEF EnemyTurns
  <1>3. CASE e.state = "INFLATING"
    <2>1. r[1] = e \/ r[1] = logic_enemy_deflate(e)
      BY <1>3 DEF EnemyTurns
    <2> DEFINE n == logic_enemy_deflate(e)
    <2>2. IsEnemy(n) /\ n.pos = e.pos /\ n.dir = e.dir /\ n.fire = e.fire /\ n.state \in {"NORMAL", "INFLATING"}
      BY <1>0, <1>3 DEF logic_enemy_deflate, IsEnemy, EnemyFields
    <2> HIDE DEF n
    <2>3. n.fire => e.fire
      BY <2>2
    <2>4. Placed(map, n)
      BY <1>3, <2>2, <2>3, SamePlace
    <2> QED BY <1>3, <2>1, <2>2, <2>4 DEF n
  <1>4. CASE e.state \in {"NORMAL", "GHOST"} /\ e.speed > 0 /\ ~(e.speed <= 0 /\ e.fire)
    <2> DEFINE n == [e EXCEPT !.speed = e.speed - 1]
    <2>a. EnemyTurns(e) = {<<n, FALSE>>}
      BY <1>0, <1>4 DEF EnemyTurns, IsEnemy
    <2>1. r[1] = n
      BY <2>a
    <2>2. IsEnemy(n) /\ n.pos = e.pos /\ n.dir = e.dir /\ n.fire = e.fire /\ n.state = e.state
      BY <1>0 DEF IsEnemy, EnemyFields
    <2> HIDE DEF n
    <2>3. n.fire => e.fire
      BY <2>2
    <2> QED BY <1>4, <2>1, <2>2, <2>3, SamePlace
  <1>5. CASE e.state \in {"NORMAL", "GHOST"} /\ ~(e.speed > 0) /\ e.speed <= 0 /\ e.fire
    <2> DEFINE n == [e EXCEPT !.fire = FALSE, !.cool = 0]
    <2>1. r = Burn(e)
      BY <1>5 DEF EnemyTurns
    <2>2. r[1] = n \/ r[1] = e
      BY <2>1 DEF Burn
    <2>3. IsEnemy(n) /\ n.pos = e.pos /\ n.dir = e.dir /\ n.fire = FALSE /\ n.state = e.state
      BY <1>0 DEF IsEnemy, EnemyFields
    <2> HIDE DEF n
    <2>4. ~n.fire
      BY <2>3
    <2>5. Placed(map, n)
      BY <2>3, <2>4, SamePlace
    <2> QED BY <1>5, <2>2, <2>3, <2>5
  <1>6. CASE /\ e.state \notin {"DEAD", "PARALYZED", "INFLATING"}
             /\ ~(e.state \in {"NORMAL", "GHOST"} /\ e.speed > 0)
             /\ ~(e.state \in {"NORMAL", "GHOST"} /\ e.speed <= 0 /\ e.fire)
    <2> DEFINE f == IF e.type = "FYGAR" THEN StartFire(e) ELSE e
    <2>1. Placed(map, f) /\ f.state = e.state
      BY <1>6, StartFirePlaced
    <2>a. EnemyTurns(e) = IF f.fire THEN {<<f, FALSE>>} ELSE {<<n, FALSE>> : n \in logic_enemy_ai(f)}
      BY <1>6 DEF EnemyTurns
    <2> HIDE DEF f
    <2>2. (f.fire /\ r[1] = f) \/ (~f.fire /\ r[1] \in logic_enemy_ai(f))
      <3>1. ASSUME f.fire PROVE r[1] = f
        BY <2>a, <3>1
      <3>2. ASSUME ~f.fire PROVE r[1] \in logic_enemy_ai(f)
        <4>1. r \in {<<n, FALSE>> : n \in logic_enemy_ai(f)}
          BY <2>a, <3>2
        <4>2. PICK n \in logic_enemy_ai(f) : r = <<n, FALSE>>
          BY <4>1
        <4> QED BY <4>2
      <3> QED BY <3>1, <3>2
    <2>3. ASSUME ~f.fire, r[1] \in logic_enemy_ai(f) PROVE Placed(map, r[1]) /\ r[1].state # "DEAD"
      <3>1. Loose(f)
        BY <1>6, <2>1, <2>3 DEF Placed, Loose
      <3>2. Loose(r[1])
        BY <2>3, <3>1, AiIsLoose
      <3> QED BY <3>2 DEF Loose, Placed
    <2> QED BY <1>6, <2>1, <2>2, <2>3
  <1> QED BY <1>0, <1>1, <1>3, <1>4, <1>5, <1>6 DEF IsEnemy

(* What Become(...) does to the player at an enemy's or a rock's turn. *)
LEMMA PlayerStays ==
  ASSUME RulesInv, NEW b, Become(IF b THEN logic_player_die(Now) ELSE Now)
  PROVE  /\ DOMAIN player' = DOMAIN player /\ player'.pos = player.pos
         /\ b => player'.dead
  <1>1. DOMAIN Now = {"player", "lives", "timer"} /\ Now.player = player
    BY DEF Now
  <1>2. {"dead", "pos", "pumping"} \subseteq DOMAIN player
    BY DEF RulesInv, PlayerPlaced
  <1> DEFINE h == logic_player_die(Now)
  <1>3. DOMAIN h.player = DOMAIN player /\ h.player.pos = player.pos /\ h.player.dead
    BY <1>1, <1>2, DieStays
  <1> HIDE DEF h
  <1>4. CASE b
    <2>1. player' = h.player
      BY <1>4 DEF Become, h
    <2> QED BY <1>3, <2>1
  <1>5. CASE ~b
    <2>1. player' = player
      BY <1>1, <1>5 DEF Become
    <2> QED BY <1>5, <2>1
  <1> QED BY <1>4, <1>5

LEMMA EnemiesInv == RulesInv /\ logic_update_enemies => RulesInv'
  <1> SUFFICES ASSUME RulesInv, logic_update_enemies PROVE RulesInv'
    OBVIOUS
  <1> DEFINE k == turn[2]
  <1>1. map' = map /\ rocks' = rocks /\ turn' \in Turns
    BY NextTurnIsTurn DEF logic_update_enemies, RulesInv
  <1>2. k \in Enemy
    BY DEF logic_update_enemies, RulesInv, Turns
  <1>3. \/ enemies[k].state = "PARALYZED" /\ Tallied(Blinked(Tally, k)) /\ Become(Now)
        \/ /\ enemies[k].state # "PARALYZED"
           /\ \E r \in EnemyTurns(enemies[k]) :
                /\ Tallied([Tally EXCEPT !.enemies = [enemies EXCEPT ![k] = r[1]]])
                /\ Become(IF r[2] THEN logic_player_die(Now) ELSE Now)
    BY DEF logic_update_enemies, Tally
  <1> HIDE DEF k
  <1>4. Counted(map, Tally) /\ Tally.enemies = enemies
    BY TallyCounted DEF Tally
  <1> DEFINE Kept == DOMAIN player' = DOMAIN player /\ player'.pos = player.pos
  <1>5. ASSUME enemies[k].state = "PARALYZED", Tallied(Blinked(Tally, k)), Become(Now)
        PROVE  Kept /\ \E l : Tallied(l) /\ Counted(map', l)
    <2>1. Counted(map', Blinked(Tally, k))
      BY <1>1, <1>2, <1>4, <1>5, BlinkedCounted
    <2>2. player' = player
      BY <1>5 DEF Become, Now
    <2> QED BY <1>5, <2>1, <2>2
  <1>6. ASSUME enemies[k].state # "PARALYZED", NEW r \in EnemyTurns(enemies[k]),
               Tallied([Tally EXCEPT !.enemies = [enemies EXCEPT ![k] = r[1]]]),
               Become(IF r[2] THEN logic_player_die(Now) ELSE Now)
        PROVE  Kept /\ \E l : Tallied(l) /\ Counted(map', l)
    <2> DEFINE E == [enemies EXCEPT ![k] = r[1]]
    <2>1. Placed(map, enemies[k])
      BY <1>2 DEF RulesInv
    <2>2. Placed(map, r[1]) /\ (r[1].state # "DEAD" <=> enemies[k].state # "DEAD")
      BY <1>6, <2>1, EnemyTurnPlaced
    <2>3. DOMAIN E = Enemy /\ \A i \in Enemy : E[i] = IF i = k THEN r[1] ELSE enemies[i]
      BY DEF RulesInv
    <2>4. Tallied([Tally EXCEPT !.enemies = E])
      BY <1>6
    <2> HIDE DEF E
    <2>5. Family(map, E) /\ \A i \in Enemy : E[i].state # "DEAD" <=> enemies[i].state # "DEAD"
      BY <2>2, <2>3 DEF Family, RulesInv
    <2>6. Counted(map', [Tally EXCEPT !.enemies = E])
      BY <1>1, <1>4, <2>5, NoneKilled
    <2>7. Kept
      BY <1>6, PlayerStays
    <2> QED BY <2>4, <2>6, <2>7
  <1>7. Kept /\ \E l : Tallied(l) /\ Counted(map', l)
    BY <1>3, <1>5, <1>6
  <1>8. DOMAIN enemies' = Enemy /\ RemainingCounts' /\ \A i \in Enemy : Placed(map', enemies'[i])
    BY <1>7, TalliedFacts
  <1>9. PlayerPlaced' /\ RocksBedded'
    BY <1>1, <1>7 DEF RulesInv, PlayerPlaced, RocksBedded, has_rock_at
  <1> QED BY <1>1, <1>8, <1>9 DEF RulesInv

-----------------------------------------------------------------------------
(* The turn of a rock *)

(* A rock that rests has not moved, and a rock moves by falling one cell.   *)
LEMMA RockTurnFacts ==
  ASSUME NEW r, DOMAIN r = {"pos", "state", "timer", "blinks"},
         r.state \in Resting \cup {"FALLING", "BLINKING", "LANDED"}
  PROVE  LET n == RockTurn(r) IN
         /\ DOMAIN n = {"pos", "state", "timer", "blinks"}
         /\ n.state \in Resting \cup {"FALLING", "BLINKING", "LANDED"}
         /\ n.state \in Resting => r.state \in Resting
         /\ n.pos # r.pos => r.state = "FALLING" /\ CanFall(r) /\ n.pos = Below(r)
  <1>1. CASE r.state = "STABLE"
    BY <1>1 DEF RockTurn, logic_rock_check_fall, Resting
  <1>2. CASE r.state = "WOBBLING"
    BY <1>2 DEF RockTurn, Resting
  <1>3. CASE r.state = "FALLING"
    BY <1>3 DEF RockTurn, logic_rock_fall, Resting
  <1>4. CASE r.state = "BLINKING"
    BY <1>4 DEF RockTurn, RockBlinks, Resting
  <1>5. CASE r.state = "LANDED"
    BY <1>5 DEF RockTurn, Resting
  <1> QED BY <1>1, <1>2, <1>3, <1>4, <1>5 DEF Resting

(* A rock that falls takes every enemy in its cells, and those only.       *)
LEMMA CrushCounted ==
  ASSUME NEW l, Counted(map, l), NEW cells
  PROVE  LET c == logic_check_rock_crush(l, cells) IN
         Counted(map, c) /\ \A i \in Alive(c.enemies) : c.enemies[i].pos \notin cells
  <1> DEFINE hit == {i \in Alive(l.enemies) : l.enemies[i].pos \in cells}
             n == Cardinality(hit)
             F == EnemyKilled(l.enemies, hit)
             c == logic_check_rock_crush(l, cells)
  <1>1. \E s : c = [enemies |-> F, remaining |-> l.remaining - n, score |-> s]
    BY DEF logic_check_rock_crush
  <1>2. PICK s : c = [enemies |-> F, remaining |-> l.remaining - n, score |-> s]
    BY <1>1
  <1>3. hit \subseteq Alive(l.enemies)
    OBVIOUS
  <1>4. \A i \in Alive(l.enemies) \ hit : l.enemies[i].pos \notin cells
    OBVIOUS
  <1> HIDE DEF hit, c
  <1>5. Counted(map, c)
    BY <1>2, <1>3, KilledCounted
  <1>6. Alive(F) = Alive(l.enemies) \ hit /\ \A i \in Enemy \ hit : F[i] = l.enemies[i]
    <2>1. Family(map, l.enemies)
      BY DEF Counted
    <2> QED BY <1>3, <2>1, KilledFacts
  <1>7. \A i \in Alive(F) : F[i].pos \notin cells
    BY <1>4, <1>6 DEF Alive
  <1>8. c.enemies = F
    BY <1>2
  <1> QED BY <1>5, <1>7, <1>8 DEF c

LEMMA RocksInv == RulesInv /\ logic_update_rocks => RulesInv'
  <1> SUFFICES ASSUME RulesInv, logic_update_rocks PROVE RulesInv'
    OBVIOUS
  <1> DEFINE k == turn[2]
             r == rocks[k]
             cells == IF r.state = "FALLING" /\ CanFall(r) THEN CrushedCells(r) ELSE {}
             c == logic_check_rock_crush(Tally, cells)
  <1>1. map' = map /\ turn' \in Turns /\ k \in Rock
    BY NextTurnIsTurn DEF logic_update_rocks, RulesInv, Turns
  <1>2. /\ rocks' = [rocks EXCEPT ![k] = RockTurn(r)]
        /\ Tallied(c)
        /\ Become(IF player.pos \in cells THEN logic_player_die(Now) ELSE Now)
    BY DEF logic_update_rocks
  <1>3. Counted(map', c)
    BY <1>1, TallyCounted, CrushCounted
  <1>4. DOMAIN player' = DOMAIN player /\ player'.pos = player.pos
    BY <1>2, PlayerStays
  <1> HIDE DEF c, cells
  <1>5. DOMAIN enemies' = Enemy /\ RemainingCounts' /\ \A i \in Enemy : Placed(map', enemies'[i])
    BY <1>2, <1>3, TalliedFacts
  <1>6. /\ DOMAIN r = {"pos", "state", "timer", "blinks"}
        /\ r.state \in Resting \cup {"FALLING", "BLINKING", "LANDED"}
    BY <1>1 DEF RulesInv, RocksBedded
  <1> DEFINE n == RockTurn(r)
  <1>7. /\ DOMAIN n = {"pos", "state", "timer", "blinks"}
        /\ n.state \in Resting \cup {"FALLING", "BLINKING", "LANDED"}
        /\ n.state \in Resting => r.state \in Resting
        /\ n.pos # r.pos => r.state = "FALLING" /\ CanFall(r) /\ n.pos = Below(r)
    BY <1>6, RockTurnFacts
  <1>8. DOMAIN rocks' = Rock /\ \A j \in Rock : rocks'[j] = IF j = k THEN n ELSE rocks[j]
    BY <1>2 DEF RulesInv, RocksBedded
  <1> HIDE DEF n, k
  <1>9. n.state \in Resting => n.pos = r.pos
    BY <1>7 DEF Resting
  <1>10. RocksBedded'
    BY <1>1, <1>7, <1>8, <1>9 DEF RulesInv, RocksBedded
  <1>11. \A j \in Rock : rocks'[j].state \in Resting => rocks[j].state \in Resting /\ rocks'[j].pos = rocks[j].pos
    BY <1>7, <1>8, <1>9
  <1>12. PlayerPlaced'
    BY <1>1, <1>4, <1>11 DEF RulesInv, PlayerPlaced, has_rock_at, Resting
  <1> QED BY <1>1, <1>5, <1>10, <1>12 DEF RulesInv

-----------------------------------------------------------------------------
(* The rules *)

LEMMA InitRules == Init => RulesInv
  <1> SUFFICES ASSUME Init PROVE RulesInv
    OBVIOUS
  <1>1. map \in Maps /\ map_is_walkable(map, PLAYER_START) /\ turn \in Turns
    BY LevelAssumption DEF Init, Turns
  <1>2. DOMAIN enemies = Enemy /\ \A i \in Enemy : enemies[i] = logic_enemy_init(EnemySpawns[i])
    BY DEF Init
  <1>3. \A i \in Enemy : /\ IsEnemy(enemies[i]) /\ enemies[i].state = "NORMAL" /\ enemies[i].fire = FALSE
                         /\ enemies[i].pos = EnemySpawns[i].pos
    BY <1>2 DEF logic_enemy_init, IsEnemy, EnemyFields
  <1>4. \A i \in Enemy : map_is_walkable(map, EnemySpawns[i].pos)
    BY LevelAssumption, LevelFacts DEF Init
  <1>5. ASSUME NEW i \in Enemy PROVE Placed(map, enemies[i])
    <2>1. ~enemies[i].fire
      BY <1>3
    <2> QED BY <1>3, <1>4, <2>1 DEF Placed
  <1>6. /\ DOMAIN rocks = Rock
        /\ \A j \in Rock : /\ DOMAIN rocks[j] = {"pos", "state", "timer", "blinks"}
                           /\ rocks[j].state = "STABLE" /\ rocks[j].pos = RockSpawns[j]
    BY DEF Init, logic_rock_init
  <1>7. RocksBedded
    BY <1>6, LevelAssumption, LevelFacts DEF RocksBedded, Resting, Init
  <1>8. player.pos = PlayerStart /\ DOMAIN player = {"pos", "dead", "facing", "speed", "pumping"}
    BY DEF Init, logic_player_init
  <1>9. /\ PlayerStart[2] \in ROW_SKY_END..(ROW_BORDER - 1) /\ map_is_walkable(map, PlayerStart)
        /\ \A j \in Rock : RockSpawns[j] # PlayerStart
    BY LevelAssumption, LevelFacts DEF Init
  <1>10. PlayerPlaced
    BY <1>6, <1>8, <1>9 DEF PlayerPlaced, has_rock_at
  <1>11. RemainingCounts
    <2>1. Alive(enemies) = Enemy
      BY <1>3 DEF Alive
    <2>2. Cardinality(Enemy) = Len(EnemySpawns)
      <3>1. Len(EnemySpawns) \in Nat \ {0}
        BY LevelFacts
      <3> QED BY <3>1, FS_Interval DEF Enemy
    <2> QED BY <2>1, <2>2 DEF RemainingCounts, Init
  <1> QED BY <1>1, <1>2, <1>5, <1>7, <1>10, <1>11 DEF RulesInv

LEMMA StepRules == RulesInv /\ [Next]_vars => RulesInv'
  <1> SUFFICES ASSUME RulesInv, [Next]_vars PROVE RulesInv'
    OBVIOUS
  <1>1. CASE EndOfFrame \/ UNCHANGED vars
    <2>1. UNCHANGED <<map, player, enemies, rocks, enemies_remaining>>
      BY <1>1 DEF EndOfFrame, vars
    <2>2. turn' \in Turns
      BY <1>1 DEF EndOfFrame, vars, Turns, RulesInv
    <2>3. PlayerPlaced' /\ RocksBedded' /\ RemainingCounts'
      BY <2>1 DEF RulesInv, PlayerPlaced, RocksBedded, RemainingCounts, has_rock_at
    <2> QED BY <2>1, <2>2, <2>3 DEF RulesInv
  <1> QED BY <1>1, WaitInv, PlayerInv, EnemiesInv, RocksInv DEF Next

LEMMA RulesHold == Spec => []RulesInv
  BY InitRules, StepRules, PTL DEF Spec

(* The four functions that kill enemies - logic_update_enemies at the last  *)
(* blink, logic_enemy_inflate, logic_check_rock_crush and                   *)
(* logic_dev_kill_enemy - each take off enemies_remaining what they kill, so *)
(* that however many die in one frame, the number logic_check_round_complete *)
(* waits for counts those that are alive.                                   *)
THEOREM EnemiesAreCounted == Spec => []RemainingCounts
  <1>1. RulesInv => RemainingCounts
    BY DEF RulesInv
  <1> QED BY <1>1, RulesHold, PTL

(* On every level that fits, what logic_player_move, the AI of the enemies, *)
(* the ghosts, the attack, the pump and the fire of a Fygar do keeps the   *)
(* player, every enemy that is not a ghost and every fire on open ground.  *)
THEOREM WalkersStayOnOpenGround == Spec => []OnOpenGround
  <1>1. RulesInv => OnOpenGround
    <2> SUFFICES ASSUME RulesInv PROVE OnOpenGround
      OBVIOUS
    <2>1. PlayerPlaced /\ \A i \in Enemy : Placed(map, enemies[i])
      BY DEF RulesInv
    <2>2. \A p : has_rock_at(p) => map[p] \in {"DIRT", "BONUS"} /\ p \in Cells
      <3>1. \A j \in Rock : RockSpawns[j] \in Cells
        BY LevelAssumption, LevelFacts
      <3>2. \A j \in Rock : rocks[j].state \in Resting =>
              rocks[j].pos = RockSpawns[j] /\ map[RockSpawns[j]] \in {"DIRT", "BONUS"}
        BY DEF RulesInv, RocksBedded
      <3>3. ASSUME NEW p, has_rock_at(p) PROVE map[p] \in {"DIRT", "BONUS"} /\ p \in Cells
        <4>1. PICK j \in Rock : rocks[j].pos = p /\ rocks[j].state \in Resting
          BY <3>3, Zenon DEF has_rock_at, Resting
        <4> QED BY <3>1, <3>2, <4>1, Zenon
      <3> QED BY <3>3
    <2>3. \A p : map_is_walkable(map, p) /\ has_rock_at(p) => map[p] = "BONUS"
      BY <2>2 DEF map_is_walkable, map_get_tile, map_is_valid_position
    <2>4. \A i \in Enemy : enemies[i].fire /\ enemies[i].state # "DEAD" => Open(enemies[i], enemies[i].dir)
      BY <2>1 DEF Placed, OpenOn, Open
    <2>5. \A i \in Enemy : enemies[i].state \notin {"GHOST", "DEAD"} => map_is_walkable(map, enemies[i].pos)
      BY <2>1 DEF Placed
    <2> QED BY <2>1, <2>3, <2>4, <2>5 DEF OnOpenGround, PlayerPlaced
  <1> QED BY <1>1, RulesHold, PTL

\* The step of RocksCrush.
Crushes ==
  \A j \in Rock : rocks'[j].pos # rocks[j].pos =>
    /\ \A i \in Alive(enemies') : enemies'[i].pos \notin {rocks[j].pos, rocks'[j].pos}
    /\ player'.pos \in {rocks[j].pos, rocks'[j].pos} => player'.dead

LEMMA StepCrushes == RulesInv /\ [Next]_vars => [Crushes]_vars
  <1> SUFFICES ASSUME RulesInv, Next PROVE Crushes
    OBVIOUS
  <1>1. CASE rocks' = rocks
    BY <1>1 DEF Crushes
  <1>2. CASE logic_update_rocks
    <2> DEFINE k == turn[2]
               r == rocks[k]
               cells == IF r.state = "FALLING" /\ CanFall(r) THEN CrushedCells(r) ELSE {}
               c == logic_check_rock_crush(Tally, cells)
               n == RockTurn(r)
    <2>1. /\ rocks' = [rocks EXCEPT ![k] = n]
          /\ Tallied(c)
          /\ Become(IF player.pos \in cells THEN logic_player_die(Now) ELSE Now)
      BY <1>2 DEF logic_update_rocks
    <2>2. k \in Rock
      BY <1>2 DEF logic_update_rocks, RulesInv, Turns
    <2>3. n.pos # r.pos => r.state = "FALLING" /\ CanFall(r) /\ n.pos = Below(r)
      BY <2>2, RockTurnFacts DEF RulesInv, RocksBedded
    <2>4. n.pos # r.pos => cells = {r.pos, n.pos}
      BY <2>3 DEF CrushedCells
    <2> HIDE DEF n
    <2>5. \A j \in Rock : rocks'[j].pos # rocks[j].pos =>
            rocks[j].pos = r.pos /\ rocks'[j].pos = n.pos /\ n.pos # r.pos
      BY <2>1, <2>2 DEF RulesInv, RocksBedded
    <2>6. player'.pos = player.pos /\ (player.pos \in cells => player'.dead)
      BY <2>1, PlayerStays
    <2>7. \A i \in Alive(c.enemies) : c.enemies[i].pos \notin cells
      BY TallyCounted, CrushCounted
    <2>8. enemies' = c.enemies
      BY <2>1 DEF Tallied
    <2> HIDE DEF c
    <2>9. Alive(enemies') = Alive(c.enemies)
      BY <2>8 DEF Alive
    <2> HIDE DEF cells, k
    <2> QED BY <2>4, <2>5, <2>6, <2>7, <2>8, <2>9 DEF Crushes
  <1> QED BY <1>1, <1>2 DEF Next, WaitRespawn, logic_update_player, logic_update_enemies, EndOfFrame

(* A rock that comes down a cell in logic_rock_fall leaves no enemy alive  *)
(* in the cell it left or in the one it came to, and a player there dead.  *)
THEOREM FallingRocksCrush == Spec => RocksCrush
  BY RulesHold, StepCrushes, PTL DEF Spec, RocksCrush, Crushes
=============================================================================
