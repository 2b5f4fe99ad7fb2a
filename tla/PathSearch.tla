----------------------------- MODULE PathSearch -----------------------------
(***************************************************************************)
(* logic_find_path_bfs of game_logic.c: the search, Dijkstra's in spite of *)
(* its name, that tells an enemy the first step of a way to the player,    *)
(* and the bounded priority queue it is built on.  One step of the module  *)
(* is one turn of the while loop.                                          *)
(***************************************************************************)
EXTENDS GameMap, TLC
LOCAL INSTANCE SequencesExt

CONSTANTS
  MAX_PRIORITY_QUEUE_SIZE,
  INFINITY,        \* the cost of a cell that has not been reached (9999)
  WALL_COST        \* the cost of a step into the dirt for a ghost (10)

VARIABLES
  map,
  call,      \* the arguments of the call: start, target, can_pass_walls
  pq,        \* the heap: records with pos, dir, cost
  best,      \* the arrays cost and first_dir: <<cost, dir>> of the cells reached so far
  result,    \* "none" between two calls, "running", then the direction returned
  dropped    \* whether pq_push has dropped a node since the call (history)

DIR_NONE == "NONE"
dirs == <<"UP", "DOWN", "LEFT", "RIGHT">>
Step(p, d) ==
  CASE d = "UP" -> <<p[1], p[2] - 1>> [] d = "DOWN" -> <<p[1], p[2] + 1>>
    [] d = "LEFT" -> <<p[1] - 1, p[2]>> [] d = "RIGHT" -> <<p[1] + 1, p[2]>>
    [] OTHER -> p

\* cost[y][x], in a table of the reached cells; the others still have the initial value.
CostIn(b, p) == IF p \in DOMAIN b THEN b[p][1] ELSE INFINITY
cost(p) == CostIn(best, p)
Write(b, p, c, d) == (p :> <<c, d>>) @@ b

-----------------------------------------------------------------------------
(* The priority queue: a binary min-heap, 1-based here *)

Swap(q, i, j) == [q EXCEPT ![i] = q[j], ![j] = q[i]]

RECURSIVE BubbleUp(_, _)
BubbleUp(q, i) ==
  LET parent == i \div 2
  IN IF i = 1 \/ q[i].cost >= q[parent].cost THEN q ELSE BubbleUp(Swap(q, i, parent), parent)

RECURSIVE BubbleDown(_, _)
BubbleDown(q, i) ==
  LET less(a, b) == a <= Len(q) /\ q[a].cost < q[b].cost
      small == IF less(2 * i, i) THEN 2 * i ELSE i
      smallest == IF less(2 * i + 1, small) THEN 2 * i + 1 ELSE small
  IN IF smallest = i THEN q ELSE BubbleDown(Swap(q, i, smallest), smallest)

pq_full(q) == Len(q) >= MAX_PRIORITY_QUEUE_SIZE

\* A node that does not fit is dropped, and nobody is told.
pq_push(q, n) == IF pq_full(q) THEN q ELSE BubbleUp(Append(q, n), Len(q) + 1)

\* What is left after the top has been taken: the last node goes to the top and sinks.
pq_pop_Rest(q) == IF Len(q) = 1 THEN <<>> ELSE BubbleDown([Front(q) EXCEPT ![1] = q[Len(q)]], 1)

-----------------------------------------------------------------------------
(* The search *)

MayEnter(p) == map_is_valid_position(p) /\ (call.can_pass_walls \/ map_is_walkable(map, p))
move_cost(p) == IF map_is_walkable(map, p) THEN 1 ELSE WALL_COST

\* A way that costs the same is written down and queued again.
Relax_Ties(st, node, d) ==
  LET p == Step(node.pos, d)
      new_cost == node.cost + move_cost(p)
      dir == IF node.dir = DIR_NONE THEN d ELSE node.dir
  IN IF ~MayEnter(p) \/ new_cost > CostIn(st.best, p) THEN st
     ELSE [pq |-> pq_push(st.pq, [pos |-> p, dir |-> dir, cost |-> new_cost]),
           best |-> Write(st.best, p, new_cost, dir), dropped |-> st.dropped \/ pq_full(st.pq)]

\* The way is named by its last step.
Relax_LastDir(st, node, d) ==
  LET p == Step(node.pos, d)
      new_cost == node.cost + move_cost(p)
  IN IF ~MayEnter(p) \/ new_cost >= CostIn(st.best, p) THEN st
     ELSE [pq |-> pq_push(st.pq, [pos |-> p, dir |-> d, cost |-> new_cost]),
           best |-> Write(st.best, p, new_cost, d), dropped |-> st.dropped \/ pq_full(st.pq)]

\* One neighbour of the node: when the way over the node is cheaper it is written
\* down, with the first step of the node's own way, and queued.
Relax(st, node, d) ==
  LET p == Step(node.pos, d)
      new_cost == node.cost + move_cost(p)
      dir == IF node.dir = DIR_NONE THEN d ELSE node.dir
  IN IF ~MayEnter(p) \/ new_cost >= CostIn(st.best, p) THEN st
     ELSE [pq |-> pq_push(st.pq, [pos |-> p, dir |-> dir, cost |-> new_cost]),
           best |-> Write(st.best, p, new_cost, dir), dropped |-> st.dropped \/ pq_full(st.pq)]

NoArgs == [start |-> <<0, 0>>, target |-> <<0, 0>>, can_pass_walls |-> FALSE]
NoCall == call = NoArgs /\ pq = <<>> /\ best = <<>> /\ result = "none" /\ dropped = FALSE

logic_find_path_bfs(start, target, can_pass_walls) ==
  /\ result = "none" /\ result' = "running" /\ dropped' = FALSE
  /\ call' = [start |-> start, target |-> target, can_pass_walls |-> can_pass_walls]
  /\ pq' = pq_push(<<>>, [pos |-> start, dir |-> DIR_NONE, cost |-> 0])
  /\ best' = [p \in {start} |-> <<0, DIR_NONE>>]

\* The queue is empty: no path found.
NoPath ==
  /\ result = "running" /\ pq = <<>>
  /\ result' = DIR_NONE
  /\ UNCHANGED <<call, pq, best, dropped>>

Arrive ==
  /\ result = "running" /\ pq # <<>> /\ pq[1].pos = call.target
  /\ pq' = pq_pop_Rest(pq) /\ result' = best[call.target][2]
  /\ UNCHANGED <<call, best, dropped>>

\* A node that a cheaper way has overtaken.
Skip ==
  /\ result = "running" /\ pq # <<>> /\ pq[1].pos # call.target
  /\ pq[1].cost > cost(pq[1].pos)
  /\ pq' = pq_pop_Rest(pq)
  /\ UNCHANGED <<call, best, result, dropped>>

Expand ==
  /\ result = "running" /\ pq # <<>> /\ pq[1].pos # call.target
  /\ pq[1].cost <= cost(pq[1].pos)
  /\ LET st == FoldLeft(LAMBDA s, d : Relax(s, pq[1], d),
                        [pq |-> pq_pop_Rest(pq), best |-> best, dropped |-> dropped], dirs)
     IN pq' = st.pq /\ best' = st.best /\ dropped' = st.dropped
  /\ UNCHANGED <<call, result>>

\* The caller takes the answer; the arrays of the call are gone.
Return ==
  /\ result \notin {"none", "running"}
  /\ call' = NoArgs /\ pq' = <<>> /\ best' = <<>> /\ result' = "none" /\ dropped' = FALSE

Turn == NoPath \/ Arrive \/ Skip \/ Expand

-----------------------------------------------------------------------------
(* Properties *)

\* pq_push and pq_pop keep the heap: no node is cheaper than its parent.
HeapOrder == \A i \in 2..Len(pq) : pq[i \div 2].cost <= pq[i].cost

Neighbours(p) == {Step(p, dirs[i]) : i \in 1..4}

\* What a turn of the loop does to what is left to do.
Progress ==
  LET Now == {p \in Neighbours(pq[1].pos) : CostIn(best', p) # cost(p)}
  IN (Now = {} => Len(pq') < Len(pq)) /\ \A p \in Now : CostIn(best', p) < cost(p)

\* The way that is written down for a cell is one: it comes over a neighbour, costs what
\* its steps cost, and is named by its first step.
IsWay(p) ==
  \E q \in Neighbours(p) \cap DOMAIN best :
    /\ cost(p) = cost(q) + move_cost(p) /\ MayEnter(p)
    /\ IF q = call.start THEN p = Step(q, best[p][2]) ELSE best[p][2] = best[q][2]

\* And no way over a neighbour is cheaper.
IsBest(p) == \A n \in Neighbours(p) : MayEnter(n) => cost(n) <= cost(p) + move_cost(n)

\* What an enemy is told: the first step of a cheapest way to the player, or DIR_NONE
\* exactly when it stands there or there is no way ("Find shortest path using Dijkstra
\* with weighted costs"), if no node has been dropped.  The costs that are written down
\* prove it: they are those of ways, and up to the target's no step makes one cheaper.
ShortestPath ==
  result \notin {"none", "running"} /\ ~dropped =>
    LET found == call.target \in DOMAIN best
    IN /\ result = IF found THEN best[call.target][2] ELSE DIR_NONE
       /\ best[call.start][1] = 0
       /\ \A p \in DOMAIN best \ {call.start} : IsWay(p)
       /\ \A p \in DOMAIN best : (found => cost(p) < cost(call.target)) => IsBest(p)
=============================================================================
