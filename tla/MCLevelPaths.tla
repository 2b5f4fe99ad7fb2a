---------------------------- MODULE MCLevelPaths ----------------------------
(***************************************************************************)
(* What may have been played: in every round a shaft along the left wall,  *)
(* with the player at its bottom and the enemy where it began; in the      *)
(* first one also a shaft and a gallery that cross, where the enemy is.    *)
(***************************************************************************)
EXTENDS LevelPaths

Shaft(x) == {p \in Cells : p[1] = x /\ p[2] \in (ROW_SKY_END + 1)..(ROW_BORDER - 1)}
Gallery(y) == {p \in Cells : p[2] = y /\ p[1] \in 1..(MAP_WIDTH - 2)}

MC_Plays ==
  {[round |-> r, dug |-> Shaft(1), player |-> <<1, ROW_BORDER - 1>>, enemy |-> data_get_level(r).enemies[1].pos] :
     r \in Rounds}
  \cup {[round |-> 1, dug |-> Shaft(40) \cup Gallery(14), player |-> <<15, 2>>, enemy |-> <<40, 14>>]}
=============================================================================
