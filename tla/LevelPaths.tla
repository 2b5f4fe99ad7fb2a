----------------------------- MODULE LevelPaths -----------------------------
(***************************************************************************)
(* The levels of GameData with the path search of PathSearch on them: once *)
(* a level has been loaded its enemies ask for their way to the player, as *)
(* enemies that keep to the tunnels and as ghosts, at the beginning of the *)
(* round and after a part of it has been played.                           *)
(***************************************************************************)
EXTENDS GameData

CONSTANTS
  MAX_PRIORITY_QUEUE_SIZE, INFINITY, WALL_COST,
  Plays      \* what may have been played: records with round, dug, player, enemy

VARIABLES
  call, pq, best, result, dropped      \* those of PathSearch

Search == INSTANCE PathSearch

searchVars == <<call, pq, best, result, dropped>>
pathVars == <<vars, searchVars>>

PathInit == Init /\ Search!NoCall

\* A level is loaded, or the next one, while no search runs.
LoadStep == Load /\ UNCHANGED searchVars
NextLevel == result = "none" /\ data_load_level /\ UNCHANGED searchVars

\* The round begins; or the player has dug and gone on, and the first enemy has followed
\* (both by the rules of GameRules).
Begin ==
  /\ pc = "loaded" /\ pc' = "begun"
  /\ UNCHANGED <<round, map, tunnel, at, player, enemies, rocks, searchVars>>
PlayOn ==
  /\ pc = "loaded" /\ pc' = "playing"
  /\ \E play \in Plays :
       /\ play.round = round
       /\ map' = SetTiles(map, play.dug, "EMPTY") /\ player' = play.player
       /\ enemies' = [enemies EXCEPT ![1].pos = play.enemy]
  /\ UNCHANGED <<round, tunnel, at, rocks, searchVars>>

\* An enemy asks for its way, and takes the answer.
AskWay ==
  /\ pc \in {"begun", "playing"}
  /\ \E i \in 1..Len(enemies), ghost \in BOOLEAN : Search!logic_find_path_bfs(enemies[i].pos, player, ghost)
  /\ UNCHANGED vars
SearchStep == Search!Turn /\ UNCHANGED vars
TakeAnswer == Search!Return /\ UNCHANGED vars

PathNext == LoadStep \/ NextLevel \/ Begin \/ PlayOn \/ AskWay \/ SearchStep \/ TakeAnswer
PathSpec == PathInit /\ [][PathNext]_pathVars
\* The thread that loads a level goes on with it.  (Weak fairness of LoadStep: it is every
\* step of a state that is Loading.)
Loading == pc \in {"map", "tunnels", "dig", "spawn"}
FairPathSpec == PathSpec /\ (<>[]Loading => []<><<TRUE>>_pathVars)

-----------------------------------------------------------------------------
(* Properties *)

\* pq_push and pq_pop keep a heap, and what an enemy is told begins a cheapest way to the player.
\* In a round that has just begun the 256 nodes of the queue are enough, whichever enemy asks:
\* pq_push has nothing to drop, and a ghost, whom nothing stops, is told DIR_NONE only when it
\* is where the player is.
PathsRight ==
  /\ Search!HeapOrder /\ Search!ShortestPath
  /\ pc = "begun" => ~dropped /\ (result = Search!DIR_NONE /\ call.can_pass_walls => call.start = call.target)

\* The while loop of a search ends: a turn of it makes the queue shorter, or a way cheaper
\* (of finitely many ways, which cost at least 0), and no way dearer.
SearchProgresses == [][result = "running" /\ result' = "running" => Search!Progress]_pathVars
=============================================================================
