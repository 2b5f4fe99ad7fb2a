----------------------------- MODULE MCGameView -----------------------------
(***************************************************************************)
(* A level of three columns for GameRules and GameView: a row of sky,      *)
(* two of ground and the border row, on a screen of five columns.  The     *)
(* answers of a path search are those PathSearch is shown to give: the     *)
(* first steps of the cheapest ways.                                       *)
(***************************************************************************)
EXTENDS GameView, TLC
LOCAL INSTANCE FiniteSetsExt

WALL_COST == 10
FAR == 99

\* The cell of the ground that is open from the start, which the enemy can only leave as a
\* ghost, and one with a bonus.
MC_Dug == {<<2, 3>>}
MC_Bonus == {<<3, 2>>}

MC_InitMap ==
  SetTiles(SetTiles(place_random_dirt(map_create_borders(map_clear)), MC_Dug, "EMPTY"), MC_Bonus, "BONUS")

RECURSIVE Settle(_, _, _)
Settle(W, ghost, D) ==
  LET cost(q) == IF q \in W THEN 1 ELSE WALL_COST
      near(p) == {q \in {Step(p, d) : d \in Directions} \cap Cells : ghost \/ q \in W}
      E == [p \in Cells |-> Min({D[q] + cost(q) : q \in near(p)} \cup {D[p]})]
  IN IF E = D THEN D ELSE Settle(W, ghost, E)

Always == {p \in Cells : map_is_walkable(MC_InitMap, p)}
Dirt == {p \in Cells : map_is_diggable(MC_InitMap, p)}

Reach == {p \in Always \cup Dirt : p[2] < ROW_BORDER}

\* The costs for every map that digging may leave.
DistTable ==
  [dug \in SUBSET Dirt |-> [t \in Reach |-> [ghost \in BOOLEAN |->
     Settle(Always \cup dug, ghost, [p \in Cells |-> IF p = t THEN 0 ELSE FAR])]]]

MC_FirstDirs(W, s, t, ghost) ==
  LET D == DistTable[W \ Always][t][ghost]
  IN IF s = t \/ D[s] >= FAR THEN {}
     ELSE {d \in Directions : LET n == Step(s, d) IN
             /\ n \in Cells /\ (ghost \/ n \in W)
             /\ D[s] = D[n] + (IF n \in W THEN 1 ELSE WALL_COST)}

MC_NoWorth(y) == 0

MC_Input(d, pump, attack, kill) == [dir |-> d, pump |-> pump, attack |-> attack, kill |-> kill]
MC_Inputs ==
  {MC_Input(d, FALSE, FALSE, FALSE) : d \in Directions \cup {DIR_NONE}}
  \cup {MC_Input(DIR_NONE, TRUE, FALSE, FALSE), MC_Input(DIR_NONE, FALSE, TRUE, FALSE),
        MC_Input(DIR_NONE, FALSE, FALSE, TRUE), MC_Input(DIR_NONE, TRUE, TRUE, TRUE)}

MC_Fygar == <<[type |-> "FYGAR", pos |-> <<2, 3>>]>>
MC_Start == <<2, 1>>
MC_OneRock == <<<<1, 2>>>>

MC_LayerOfRow(y) == IF y = ROW_BORDER THEN 5 ELSE IF y \in 2..3 THEN y - 1 ELSE 0
=============================================================================
