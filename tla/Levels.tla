------------------------------- MODULE Levels -------------------------------
(***************************************************************************)
(* The tables of game_data.c: the five levels, with their spawn points and *)
(* tunnels <<x1, y1, x2, y2>>, and the places of the bonuses.              *)
(***************************************************************************)
EXTENDS GameMap

Pooka(x, y) == [pos |-> <<x, y>>, type |-> "POOKA"]
Fygar(x, y) == [pos |-> <<x, y>>, type |-> "FYGAR"]

Level1 ==
  [start |-> <<10, 2>>, enemies |-> <<Pooka(60, 8)>>,
   rocks |-> <<<<30, 10>>, <<50, 8>>, <<20, 15>>, <<65, 12>>>>,
   tunnels |-> <<<<5, 2, 15, 2>>, <<58, 7, 62, 7>>, <<60, 7, 60, 9>>>>]

Level2 ==
  [start |-> <<10, 2>>, enemies |-> <<Pooka(60, 6), Fygar(30, 14)>>,
   rocks |-> <<<<25, 7>>, <<45, 13>>, <<15, 18>>, <<70, 10>>>>,
   tunnels |-> <<<<5, 2, 15, 2>>, <<58, 5, 62, 5>>, <<60, 5, 60, 7>>,
                 <<28, 13, 32, 13>>, <<30, 13, 30, 15>>>>]

Level3 ==
  [start |-> <<10, 2>>, enemies |-> <<Pooka(50, 6), Pooka(70, 12), Fygar(35, 18)>>,
   rocks |-> <<<<20, 8>>, <<55, 15>>, <<40, 10>>, <<65, 20>>>>,
   tunnels |-> <<<<5, 2, 20, 2>>, <<48, 5, 52, 5>>, <<50, 5, 50, 7>>, <<68, 11, 72, 11>>,
                 <<70, 11, 70, 13>>, <<33, 17, 37, 17>>, <<35, 17, 35, 19>>>>]

Level4 ==
  [start |-> <<40, 2>>, enemies |-> <<Pooka(15, 8), Pooka(65, 8), Fygar(25, 16), Fygar(55, 16)>>,
   rocks |-> <<<<20, 10>>, <<60, 10>>, <<40, 18>>, <<30, 14>>>>,
   tunnels |-> <<<<35, 2, 45, 2>>, <<13, 7, 17, 7>>, <<15, 7, 15, 9>>, <<63, 7, 67, 7>>,
                 <<65, 7, 65, 9>>, <<23, 15, 27, 15>>, <<25, 15, 25, 17>>, <<53, 15, 57, 15>>,
                 <<55, 15, 55, 17>>>>]

Level5 ==
  [start |-> <<40, 2>>,
   enemies |-> <<Pooka(10, 8), Pooka(70, 8), Pooka(40, 14), Fygar(20, 20), Fygar(60, 20)>>,
   rocks |-> <<<<25, 10>>, <<55, 10>>, <<35, 17>>, <<45, 17>>>>,
   tunnels |-> <<<<35, 2, 45, 2>>, <<8, 7, 12, 7>>, <<10, 7, 10, 9>>, <<68, 7, 72, 7>>,
                 <<70, 7, 70, 9>>, <<38, 13, 42, 13>>, <<40, 13, 40, 15>>, <<18, 19, 22, 19>>,
                 <<20, 19, 20, 21>>, <<58, 19, 62, 19>>, <<60, 19, 60, 21>>>>]

g_levels == <<Level1, Level2, Level3, Level4, Level5>>
NUM_LEVELS_DEFINED == Len(g_levels)

data_get_level(r) ==
  g_levels[IF r < 1 THEN 1 ELSE IF r > NUM_LEVELS_DEFINED THEN NUM_LEVELS_DEFINED ELSE r]

\* The fixed places of the three bonuses; a round that has no case gets the last ones.
Bonuses(r) ==
  CASE r = 1 -> {<<20, 10>>, <<40, 15>>, <<65, 12>>}
    [] r = 2 -> {<<15, 8>>, <<45, 11>>, <<70, 16>>}
    [] r = 3 -> {<<25, 9>>, <<40, 14>>, <<60, 19>>}
    [] r = 4 -> {<<20, 11>>, <<45, 13>>, <<55, 18>>}
    [] OTHER -> {<<25, 10>>, <<50, 16>>, <<65, 18>>}

data_place_bonuses(m, r) == SetTiles(m, Bonuses(r), "BONUS")

=============================================================================
