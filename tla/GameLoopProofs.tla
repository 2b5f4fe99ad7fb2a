--------------------------- MODULE GameLoopProofs ---------------------------
(***************************************************************************)
(* Proofs about GameLoop, for every number of rounds, lives, enemies and   *)
(* deaths and for all delays: the two copies of the game state, which one  *)
(* frame changes write by write, and what the scenes rely on.              *)
(***************************************************************************)
EXTENDS GameLoop, SequenceTheorems, TLAPS

Lives == (1 - MaxDeaths)..INITIAL_LIVES

\* The writes of g_game that a frame may have pending.
Writes ==
  ({"scene"} \X Scenes) \cup ({"level"} \X (1..MAX_ROUNDS)) \cup ({"lives"} \X Lives)
  \cup ({"clear"} \X {0})

Fields == {"scene", "level", "lives"}

\* The field f of g is v once the writes w have been made.
Ends(w, g, f, v) ==
  \/ \E i \in 1..Len(w) : w[i] = <<f, v>> /\ \A j \in 1..Len(w) : j > i => w[j][1] # f
  \/ g[f] = v /\ \A i \in 1..Len(w) : w[i][1] # f

\* The writes w take the game g to the logic state l.
Leads(w, g, l) ==
  /\ w \in Seq(Writes)
  /\ Ends(w, g, "scene", l.scene) /\ Ends(w, g, "level", l.round) /\ Ends(w, g, "lives", l.lives)

InRound == {"PLAYING", "PAUSED", "ROUND_START"}

\* What the scenes rely on, of a logic state and the rounds that are won.
Sane(l, w) ==
  /\ l \in LogicStates /\ w \subseteq 1..MAX_ROUNDS
  /\ l.scene \in InRound \cup {"ROUND_CLEAR"} => l.lives > 0
  /\ l.scene \in {"PLAYING", "PAUSED"} => (l.dead => l.timer > 0)
  /\ l.scene = "ROUND_START" => ~l.dead
  /\ l.scene \in InRound => 1..(l.round - 1) \subseteq w
  /\ l.scene = "ROUND_CLEAR" => l.round < MAX_ROUNDS /\ 1..l.round \subseteq w
  /\ l.scene \in {"VICTORY", "CREDITS"} => 1..MAX_ROUNDS \subseteq w

LoopInv ==
  /\ TypeOK /\ Sane(g_logic, won)
  /\ lpc # "writes" => todo = <<>>
  /\ Leads(todo, g_game, g_logic)

-----------------------------------------------------------------------------
(* Sequences of writes *)

LEMMA LeadsNone ==
  ASSUME NEW g, NEW l, Leads(<<>>, g, l)
  PROVE  g.scene = l.scene /\ g.level = l.round /\ g.lives = l.lives
  BY DEF Leads, Ends

LEMMA NoneLeads ==
  ASSUME NEW g, NEW l, g.scene = l.scene, g.level = l.round, g.lives = l.lives
  PROVE  Leads(<<>>, g, l)
  BY DEF Leads, Ends

(* One more write settles its own field, and no other. *)
LEMMA EndsAppend ==
  ASSUME NEW w \in Seq(Writes), NEW g, NEW f \in Fields, NEW v, NEW h, NEW x, <<h, x>> \in Writes
  PROVE  /\ Append(w, <<h, x>>) \in Seq(Writes)
         /\ h = f /\ x = v => Ends(Append(w, <<h, x>>), g, f, v)
         /\ h # f /\ Ends(w, g, f, v) => Ends(Append(w, <<h, x>>), g, f, v)
  <1> DEFINE a == Append(w, <<h, x>>)
  <1>1. a \in Seq(Writes)
    OBVIOUS
  <1>2. Len(a) = Len(w) + 1 /\ a[Len(a)] = <<h, x>> /\ \A i \in 1..Len(w) : a[i] = w[i]
    OBVIOUS
  <1>3. Len(w) \in Nat
    OBVIOUS
  <1> HIDE DEF a
  <1>4. h = f /\ x = v => Ends(a, g, f, v)
    BY <1>2, <1>3 DEF Ends
  <1>5. ASSUME h # f, Ends(w, g, f, v) PROVE Ends(a, g, f, v)
    <2>1. Len(a) \in Nat /\ \A i \in 1..Len(a) : i \in 1..Len(w) \/ i = Len(a)
      BY <1>2, <1>3
    <2>2. a[Len(a)][1] # f
      BY <1>2, <1>5
    <2>3. CASE g[f] = v /\ \A i \in 1..Len(w) : w[i][1] # f
      <3>1. \A i \in 1..Len(a) : a[i][1] # f
        BY <1>2, <2>1, <2>2, <2>3
      <3> QED BY <2>3, <3>1 DEF Ends
    <2>4. ASSUME NEW i \in 1..Len(w), w[i] = <<f, v>>, \A j \in 1..Len(w) : j > i => w[j][1] # f
          PROVE  Ends(a, g, f, v)
      <3>1. i \in 1..Len(a) /\ a[i] = <<f, v>>
        BY <1>2, <1>3, <2>4
      <3>2. \A j \in 1..Len(a) : j > i => a[j][1] # f
        BY <1>2, <2>1, <2>2, <2>4
      <3> QED BY <3>1, <3>2 DEF Ends
    <2> QED BY <1>5, <2>3, <2>4 DEF Ends
  <1> QED BY <1>1, <1>4, <1>5 DEF a

(* The first of the pending writes leaves the rest. *)
LEMMA EndsTail ==
  ASSUME NEW w \in Seq(Writes), w # <<>>, NEW g, NEW h, NEW f \in Fields, NEW v, Ends(w, g, f, v),
         IF Head(w)[1] = f THEN h[f] = Head(w)[2] ELSE h[f] = g[f]
  PROVE  Tail(w) \in Seq(Writes) /\ Ends(Tail(w), h, f, v)
  <1> DEFINE t == Tail(w)
  <1>1. t \in Seq(Writes) /\ Len(w) \in Nat \ {0}
    OBVIOUS
  <1>2. Len(t) = Len(w) - 1 /\ \A i \in 1..Len(t) : t[i] = w[i + 1]
    OBVIOUS
  <1>3. Head(w) = w[1]
    OBVIOUS
  <1> HIDE DEF t
  <1>4. CASE g[f] = v /\ \A i \in 1..Len(w) : w[i][1] # f
    BY <1>1, <1>2, <1>3, <1>4 DEF Ends, t
  <1>5. CASE \E i \in 1..Len(w) : w[i] = <<f, v>> /\ \A j \in 1..Len(w) : j > i => w[j][1] # f
    <2>1. PICK i \in 1..Len(w) : w[i] = <<f, v>> /\ \A j \in 1..Len(w) : j > i => w[j][1] # f
      BY <1>5
    <2>2. CASE i = 1
      <3>1. h[f] = v
        BY <1>3, <2>1, <2>2
      <3>2. \A j \in 1..Len(t) : t[j][1] # f
        BY <1>1, <1>2, <2>1, <2>2
      <3> QED BY <1>1, <3>1, <3>2 DEF Ends, t
    <2>3. CASE i > 1
      <3>1. i - 1 \in 1..Len(t) /\ t[i - 1] = <<f, v>>
        BY <1>1, <1>2, <2>1, <2>3
      <3>2. \A j \in 1..Len(t) : j > i - 1 => t[j][1] # f
        BY <1>1, <1>2, <2>1, <2>3
      <3> QED BY <1>1, <3>1, <3>2 DEF Ends, t
    <2> QED BY <2>2, <2>3
  <1> QED BY <1>4, <1>5 DEF Ends

LEMMA PairIsAppend ==
  ASSUME NEW a \in Writes, NEW b \in Writes
  PROVE  <<a, b>> = Append(<<a>>, b) /\ <<a>> \in Seq(Writes)
  <1>1. <<a, b>> \in Seq(Writes) /\ <<a>> \in Seq(Writes) /\ Append(<<a>>, b) \in Seq(Writes)
    OBVIOUS
  <1>2. Len(Append(<<a>>, b)) = 2 /\ Append(<<a>>, b)[1] = a /\ Append(<<a>>, b)[2] = b
    OBVIOUS
  <1>3. Len(<<a, b>>) = 2 /\ <<a, b>>[1] = a /\ <<a, b>>[2] = b
    OBVIOUS
  <1>4. \A i \in 1..2 : <<a, b>>[i] = Append(<<a>>, b)[i]
    BY <1>2, <1>3
  <1> QED BY <1>1, <1>2, <1>3, <1>4, SeqEqual

(* One more write takes the game one field further. *)
LEMMA LeadsAppend ==
  ASSUME NEW w \in Seq(Writes), NEW g, NEW l, NEW m, NEW h, NEW x, <<h, x>> \in Writes, Leads(w, g, l),
         m.scene = IF h = "scene" THEN x ELSE l.scene,
         m.round = IF h = "level" THEN x ELSE l.round,
         m.lives = IF h = "lives" THEN x ELSE l.lives
  PROVE  Leads(Append(w, <<h, x>>), g, m)
  <1>1. "scene" \in Fields /\ "level" \in Fields /\ "lives" \in Fields
    BY DEF Fields
  <1>2. Append(w, <<h, x>>) \in Seq(Writes)
    OBVIOUS
  <1>3. Ends(Append(w, <<h, x>>), g, "scene", m.scene)
    BY <1>1, EndsAppend DEF Leads
  <1>4. Ends(Append(w, <<h, x>>), g, "level", m.round)
    BY <1>1, EndsAppend DEF Leads
  <1>5. Ends(Append(w, <<h, x>>), g, "lives", m.lives)
    BY <1>1, EndsAppend DEF Leads
  <1> QED BY <1>2, <1>3, <1>4, <1>5 DEF Leads

-----------------------------------------------------------------------------
(* The scenes *)

\* The rounds that are won after a frame that leads to l.
WonAfter(l) ==
  IF l.scene \in {"ROUND_CLEAR", "VICTORY"} THEN won \cup {g_game.level}
  ELSE IF l.scene = "ROUND_START" /\ l.round = 1 THEN {} ELSE won

\* A result that a frame may have.
Good(r) == Sane(r.logic, WonAfter(r.logic)) /\ Leads(r.writes, g_game, r.logic)

\* Between two frames.
AtFrame ==
  /\ TypeOK /\ Sane(g_logic, won)
  /\ g_game.scene = g_logic.scene /\ g_game.level = g_logic.round /\ g_game.lives = g_logic.lives

LEMMA Numbers ==
  /\ MAX_ROUNDS \in Nat \ {0} /\ INITIAL_LIVES \in Nat \ {0} /\ Enemies \in Nat \ {0}
  /\ RoundStartDelay \in Nat \ {0} /\ RespawnDelay \in Nat \ {0} /\ LevelClearDelay \in Nat \ {0}
  /\ GameOverDelay \in Nat \ {0} /\ ClearedDelay \in Nat \ {0} /\ MaxDeaths \in Nat
  BY GameLoopConstants

LEMMA ResultFields ==
  ASSUME NEW l, NEW w, NEW i
  PROVE  Result(l, w, i).logic = l /\ Result(l, w, i).writes = w
  BY DEF Result

(* No write, and a logic state that is as far as before. *)
LEMMA StaysGood ==
  ASSUME AtFrame, NEW l, NEW i, l \in LogicStates,
         l.scene = g_logic.scene, l.round = g_logic.round, l.lives = g_logic.lives,
         l.dead <=> g_logic.dead, l.scene \in {"PLAYING", "PAUSED"} => l.timer = g_logic.timer
  PROVE  Good(Result(l, <<>>, i))
  <1>1. Leads(<<>>, g_game, l)
    BY NoneLeads DEF AtFrame
  <1>2. g_logic.round \in 1..MAX_ROUNDS
    BY DEF AtFrame, Sane, LogicStates
  <1>3. Sane(l, WonAfter(l))
    <2>1. WonAfter(l) \subseteq 1..MAX_ROUNDS
      BY <1>2 DEF AtFrame, Sane, WonAfter
    <2>2. l.scene \in InRound => 1..(l.round - 1) \subseteq WonAfter(l)
      BY <1>2 DEF AtFrame, Sane, WonAfter, InRound
    <2>3. l.scene = "ROUND_CLEAR" => l.round < MAX_ROUNDS /\ 1..l.round \subseteq WonAfter(l)
      BY DEF AtFrame, Sane, WonAfter
    <2>4. l.scene \in {"VICTORY", "CREDITS"} => 1..MAX_ROUNDS \subseteq WonAfter(l)
      BY DEF AtFrame, Sane, WonAfter
    <2>5. /\ l.scene \in InRound \cup {"ROUND_CLEAR"} => l.lives > 0
          /\ l.scene = "ROUND_START" => ~l.dead
      BY DEF AtFrame, Sane
    <2>6. l.scene \in {"PLAYING", "PAUSED"} => (l.dead => l.timer > 0)
      BY DEF AtFrame, Sane
    <2> QED BY <2>1, <2>2, <2>3, <2>4, <2>5, <2>6 DEF Sane
  <1> QED BY <1>1, <1>3, ResultFields DEF Good

(* One write of the scene. *)
LEMMA SceneLeads ==
  ASSUME AtFrame, NEW l, l.scene \in Scenes, l.round = g_logic.round, l.lives = g_logic.lives
  PROVE  Leads(<<Scene(l.scene)>>, g_game, l)
  <1>1. Leads(<<>>, g_game, g_logic)
    BY NoneLeads DEF AtFrame
  <1>2. <<"scene", l.scene>> \in Writes /\ <<>> \in Seq(Writes)
    BY DEF Writes
  <1>3. Leads(Append(<<>>, <<"scene", l.scene>>), g_game, l)
    BY <1>1, <1>2, LeadsAppend
  <1>4. Append(<<>>, <<"scene", l.scene>>) = <<Scene(l.scene)>>
    BY DEF Scene
  <1> QED BY <1>3, <1>4

(* The pause, and the screens around the victory. *)
LEMMA SetSceneGood ==
  ASSUME AtFrame, NEW i, NEW s,
         \/ s \in {"PLAYING", "PAUSED"} /\ g_logic.scene \in {"PLAYING", "PAUSED"}
         \/ s \in {"MENU", "VICTORY", "CREDITS"} /\ g_logic.scene \in {"VICTORY", "CREDITS"}
  PROVE  Good(SetScene(g_logic, s, i))
  <1> DEFINE l == [g_logic EXCEPT !.scene = s]
  <1>0. s \in Scenes /\ g_logic \in LogicStates
    BY DEF Scenes, AtFrame, Sane
  <1>1. /\ l \in LogicStates /\ l.scene = s /\ l.round = g_logic.round /\ l.lives = g_logic.lives
        /\ l.timer = g_logic.timer /\ l.dead = g_logic.dead /\ g_logic.round \in 1..MAX_ROUNDS
    BY <1>0 DEF LogicStates
  <1>d. l.dead <=> g_logic.dead
    BY <1>1, Zenon
  <1>2. SetScene(g_logic, s, i) = Result(l, <<Scene(s)>>, i)
    BY DEF SetScene
  <1> HIDE DEF l
  <1>3. Leads(<<Scene(s)>>, g_game, l)
    BY <1>0, <1>1, SceneLeads
  <1>4. Sane(l, WonAfter(l))
    <2>1. WonAfter(l) \subseteq 1..MAX_ROUNDS /\ won \subseteq WonAfter(l)
      BY <1>1 DEF AtFrame, Sane, WonAfter
    <2>2. /\ l.scene \in InRound => 1..(l.round - 1) \subseteq WonAfter(l)
          /\ l.scene \in {"VICTORY", "CREDITS"} => 1..MAX_ROUNDS \subseteq WonAfter(l)
      BY <1>1, <2>1 DEF AtFrame, Sane, InRound
    <2>3. l.scene \in {"PLAYING", "PAUSED"} => l.lives > 0 /\ (l.dead => l.timer > 0)
      BY <1>1, <1>d DEF AtFrame, Sane, InRound
    <2> QED BY <1>1, <2>1, <2>2, <2>3 DEF Sane, InRound
  <1> QED BY <1>2, <1>3, <1>4, ResultFields DEF Good

(* game_new_level for a level that exists: a round starts. *)
LEMMA NewLevelGood ==
  ASSUME AtFrame, NEW l, NEW w \in Seq(Writes), NEW i, NEW m, NEW level \in 1..MAX_ROUNDS,
         l \in LogicStates, l.lives > 0, Leads(w, g_game, m), m.round = level, m.lives = l.lives,
         level > 1 => 1..(level - 1) \subseteq won
  PROVE  LET r == game_new_level(l, level, w, i)
         IN /\ Good(r) /\ r.writes \in Seq(Writes) /\ r.logic \in LogicStates
            /\ r = Result(r.logic, r.writes, i)
  <1> DEFINE n == [l EXCEPT !.enemies = Enemies, !.round = level, !.dead = FALSE,
                            !.scene = "ROUND_START", !.timer = RoundStartDelay]
             a == Append(w, Scene("ROUND_START"))
  <1>1. game_new_level(l, level, w, i) = Result(n, a, i)
    BY DEF game_new_level
  <1>v. Enemies \in 0..Enemies /\ RoundStartDelay \in Nat /\ "ROUND_START" \in Scenes
    BY Numbers DEF Scenes
  <1>2. n \in LogicStates
    BY <1>v DEF LogicStates
  <1>3. n.scene = "ROUND_START" /\ n.round = level /\ n.lives = l.lives /\ ~n.dead
    BY DEF LogicStates
  <1> HIDE DEF n
  <1>4. <<"scene", "ROUND_START">> \in Writes
    BY DEF Writes, Scenes
  <1>5. Leads(a, g_game, n) /\ a \in Seq(Writes)
    BY <1>3, <1>4, LeadsAppend DEF Scene
  <1> HIDE DEF a
  <1>6. Sane(n, WonAfter(n))
    <2>0. WonAfter(n) = IF level = 1 THEN {} ELSE won
      BY <1>3 DEF WonAfter
    <2>1. WonAfter(n) \subseteq 1..MAX_ROUNDS /\ 1..(level - 1) \subseteq WonAfter(n)
      <3>1. won \subseteq 1..MAX_ROUNDS
        BY DEF AtFrame, Sane
      <3>2. level = 1 \/ level > 1
        BY Numbers
      <3>3. level = 1 => 1..(level - 1) = {}
        OBVIOUS
      <3> QED BY <2>0, <3>1, <3>2, <3>3
    <2> QED BY <1>2, <1>3, <2>1 DEF Sane, InRound
  <1> QED BY <1>1, <1>2, <1>5, <1>6, ResultFields DEF Good

(* game_reset writes every field before the first round starts. *)
LEMMA NewGameGood ==
  ASSUME AtFrame, NEW i
  PROVE  /\ Good(NewGame(i)) /\ NewGame(i).writes \in Seq(Writes)
         /\ NewGame(i) = Result(NewGame(i).logic, NewGame(i).writes, i)
  <1> DEFINE w == <<<<"lives", INITIAL_LIVES>>, <<"level", 1>>, Scene("MENU"), <<"level", 1>>>>
  <1>1. INITIAL_LIVES \in Lives /\ 1 \in 1..MAX_ROUNDS /\ "MENU" \in Scenes
    BY Numbers DEF Lives, Scenes
  <1>2. w \in Seq(Writes)
    BY <1>1 DEF Writes, Scene
  <1>3. Leads(w, g_game, logic_init)
    <2>1. logic_init.scene = "MENU" /\ logic_init.round = 1 /\ logic_init.lives = INITIAL_LIVES
      BY DEF logic_init
    <2>2. Ends(w, g_game, "scene", "MENU")
      BY DEF Ends, Scene
    <2>3. Ends(w, g_game, "level", 1)
      BY DEF Ends, Scene
    <2>4. Ends(w, g_game, "lives", INITIAL_LIVES)
      BY DEF Ends, Scene
    <2> QED BY <1>2, <2>1, <2>2, <2>3, <2>4 DEF Leads
  <1>4. logic_init \in LogicStates /\ logic_init.lives > 0 /\ logic_init.round = 1
    BY <1>1, Numbers DEF logic_init, LogicStates, NotCleared, Lives
  <1> HIDE DEF w
  <1>5. /\ Good(game_new_level(logic_init, 1, w, i)) /\ game_new_level(logic_init, 1, w, i).writes \in Seq(Writes)
        /\ game_new_level(logic_init, 1, w, i) =
             Result(game_new_level(logic_init, 1, w, i).logic, game_new_level(logic_init, 1, w, i).writes, i)
    BY <1>1, <1>2, <1>3, <1>4, NewLevelGood
  <1> QED BY <1>5 DEF NewGame, w

(* The write that stands for input_clear changes no field. *)
LEMMA ClearGood ==
  ASSUME NEW l, NEW w \in Seq(Writes), Leads(w, g_game, l)
  PROVE  Leads(Append(w, <<"clear", 0>>), g_game, l)
  <1>1. <<"clear", 0>> \in Writes
    BY DEF Writes
  <1> QED BY <1>1, LeadsAppend

LEMMA MenuGood ==
  ASSUME AtFrame, g_game.scene = "MENU", NEW r \in process_menu_state
  PROVE  Good(r)
  <1>1. CASE ~in.action_pressed
    <2>1. r = Result(g_logic, <<>>, in)
      BY <1>1 DEF process_menu_state
    <2> QED BY <2>1, StaysGood DEF AtFrame, Sane
  <1>2. CASE in.action_pressed
    <2> DEFINE n == NewGame(Released("action_pressed"))
    <2>1. r = [n EXCEPT !.writes = Append(@, <<"clear", 0>>)]
      BY <1>2 DEF process_menu_state
    <2>2. Good(n) /\ n.writes \in Seq(Writes) /\ n = Result(n.logic, n.writes, Released("action_pressed"))
      BY NewGameGood
    <2> HIDE DEF n
    <2>3. r.logic = n.logic /\ r.writes = Append(n.writes, <<"clear", 0>>)
      BY <2>1, <2>2 DEF Result
    <2> QED BY <2>2, <2>3, ClearGood DEF Good
  <1> QED BY <1>1, <1>2

LEMMA TickedFacts ==
  ASSUME NEW l \in LogicStates
  PROVE  /\ Ticked(l) \in LogicStates /\ Ticked(l).scene = l.scene /\ Ticked(l).round = l.round
         /\ Ticked(l).lives = l.lives /\ (Ticked(l).dead <=> l.dead)
  <1>1. Ticked(l) = [l EXCEPT !.timer = IF l.timer > 0 THEN l.timer - 1 ELSE 0]
    BY DEF Ticked
  <1>2. (IF l.timer > 0 THEN l.timer - 1 ELSE 0) \in Nat
    BY DEF LogicStates
  <1> QED BY <1>1, <1>2 DEF LogicStates

(* The next level is the next round, and exists. *)
LEMMA LevelClearGood ==
  ASSUME AtFrame, g_game.scene = "ROUND_CLEAR", NEW r \in process_level_clear_state
  PROVE  Good(r)
  <1> DEFINE l == Ticked(g_logic)
             level == g_game.level + 1
             n == [l EXCEPT !.round = @ + 1]
  <1>0. g_logic \in LogicStates /\ g_logic.scene = "ROUND_CLEAR"
    BY DEF AtFrame, Sane
  <1>1. /\ l \in LogicStates /\ l.scene = g_logic.scene /\ l.round = g_logic.round
        /\ l.lives = g_logic.lives /\ (l.dead <=> g_logic.dead)
    BY <1>0, TickedFacts
  <1>2. CASE l.timer > 0
    <2>1. r = Result(l, <<>>, in)
      BY <1>2 DEF process_level_clear_state
    <2> HIDE DEF l
    <2> QED BY <1>0, <1>1, <2>1, StaysGood
  <1>3. CASE ~(l.timer > 0)
    <2>1. g_logic.round \in 1..MAX_ROUNDS /\ g_logic.round < MAX_ROUNDS /\ 1..g_logic.round \subseteq won
          /\ g_logic.lives > 0
      BY <1>0 DEF AtFrame, Sane, LogicStates
    <2>2. level = g_logic.round + 1 /\ level \in 1..MAX_ROUNDS /\ ~(level > MAX_ROUNDS)
      BY <2>1, Numbers DEF AtFrame
    <2>3. r = game_new_level(n, level, <<<<"level", level>>>>, in)
      BY <1>3, <2>2 DEF process_level_clear_state
    <2>4. n \in LogicStates /\ n.lives = g_logic.lives /\ n.round = level /\ n.scene = g_logic.scene
      <3> HIDE DEF l, level
      <3> QED BY <1>1, <2>2 DEF LogicStates
    <2>5. Leads(<<<<"level", level>>>>, g_game, n)
      <3> HIDE DEF n, level
      <3>1. Leads(<<>>, g_game, g_logic)
        BY NoneLeads DEF AtFrame
      <3>2. <<"level", level>> \in Writes /\ <<>> \in Seq(Writes)
        BY <2>2 DEF Writes
      <3>3. Leads(Append(<<>>, <<"level", level>>), g_game, n)
        BY <2>4, <3>1, <3>2, LeadsAppend
      <3> QED BY <3>3
    <2>6. <<<<"level", level>>>> \in Seq(Writes) /\ 1..(level - 1) \subseteq won
      BY <2>1, <2>2 DEF Writes
    <2> HIDE DEF n, level
    <2> QED BY <2>1, <2>2, <2>3, <2>4, <2>5, <2>6, NewLevelGood
  <1> QED BY <1>2, <1>3

LEMMA GameOverGood ==
  ASSUME AtFrame, g_game.scene = "GAME_OVER", NEW r \in process_game_over_state
  PROVE  Good(r)
  <1>1. r = NewGame(Released("action_pressed")) \/ r = Result(Ticked(g_logic), <<>>, in)
    BY DEF process_game_over_state
  <1>2. g_logic \in LogicStates /\ g_logic.scene = "GAME_OVER"
    BY DEF AtFrame, Sane
  <1>3. Good(Result(Ticked(g_logic), <<>>, in))
    BY <1>2, TickedFacts, StaysGood
  <1> QED BY <1>1, <1>3, NewGameGood

(* A round starts with a live player. *)
LEMMA RoundStartGood ==
  ASSUME AtFrame, g_game.scene = "ROUND_START", NEW r \in process_round_start
  PROVE  Good(r)
  <1> DEFINE l == Ticked(g_logic)
             n == [l EXCEPT !.scene = "PLAYING"]
  <1>0. g_logic \in LogicStates /\ g_logic.scene = "ROUND_START" /\ ~g_logic.dead /\ g_logic.lives > 0
        /\ 1..(g_logic.round - 1) \subseteq won /\ won \subseteq 1..MAX_ROUNDS
    BY DEF AtFrame, Sane, InRound
  <1>1. /\ l \in LogicStates /\ l.scene = g_logic.scene /\ l.round = g_logic.round
        /\ l.lives = g_logic.lives /\ (l.dead <=> g_logic.dead)
    BY <1>0, TickedFacts
  <1>2. CASE l.timer > 0
    <2>1. r = Result(l, <<>>, in)
      BY <1>2 DEF process_round_start
    <2> HIDE DEF l
    <2> QED BY <1>0, <1>1, <2>1, StaysGood
  <1>3. CASE ~(l.timer > 0)
    <2>1. r = Result(n, <<Scene("PLAYING"), <<"clear", 0>>>>, in)
      BY <1>3 DEF process_round_start
    <2>2. "PLAYING" \in Scenes
      BY DEF Scenes
    <2>3. /\ n \in LogicStates /\ n.scene = "PLAYING" /\ n.round = g_logic.round
          /\ n.lives = g_logic.lives /\ ~n.dead
      <3> HIDE DEF l
      <3> QED BY <1>0, <1>1, <2>2 DEF LogicStates
    <2> HIDE DEF n
    <2>4. Leads(<<Scene("PLAYING")>>, g_game, n)
      BY <2>2, <2>3, SceneLeads
    <2>5. <<Scene("PLAYING")>> \in Seq(Writes)
      BY <2>4 DEF Leads
    <2>6. Append(<<Scene("PLAYING")>>, <<"clear", 0>>) = <<Scene("PLAYING"), <<"clear", 0>>>>
      <3>1. Scene("PLAYING") \in Writes /\ <<"clear", 0>> \in Writes
        BY <2>2 DEF Scene, Writes
      <3> QED BY <3>1, PairIsAppend
    <2>7. Leads(<<Scene("PLAYING"), <<"clear", 0>>>>, g_game, n)
      BY <2>4, <2>5, <2>6, ClearGood
    <2>8. Sane(n, WonAfter(n))
      BY <1>0, <2>3 DEF Sane, InRound, WonAfter
    <2> QED BY <2>1, <2>7, <2>8, ResultFields DEF Good
  <1> QED BY <1>2, <1>3

LEMMA StillGood ==
  ASSUME AtFrame
  PROVE  Good(Result(g_logic, <<>>, in))
  BY StaysGood DEF AtFrame, Sane

LEMMA PausedGood ==
  ASSUME AtFrame, g_game.scene = "PAUSED", NEW r \in process_paused_state
  PROVE  Good(r)
  <1>1. r = SetScene(g_logic, "PLAYING", Released("pause_pressed")) \/ r = Result(g_logic, <<>>, in)
    BY DEF process_paused_state
  <1>2. g_logic.scene = "PAUSED"
    BY DEF AtFrame
  <1> QED BY <1>1, <1>2, SetSceneGood, StillGood

LEMMA VictoryGood ==
  ASSUME AtFrame, g_game.scene = "VICTORY", NEW r \in process_victory_state
  PROVE  Good(r)
  <1>1. \/ r = NewGame(Released("action_pressed")) \/ r = SetScene(g_logic, "MENU", input_clear_quit(in))
        \/ r = SetScene(g_logic, "CREDITS", in) \/ r = Result(g_logic, <<>>, in)
    BY DEF process_victory_state
  <1>2. g_logic.scene = "VICTORY"
    BY DEF AtFrame
  <1> QED BY <1>1, <1>2, NewGameGood, SetSceneGood, StillGood

LEMMA CreditsGood ==
  ASSUME AtFrame, g_game.scene = "CREDITS", NEW r \in process_credits_state
  PROVE  Good(r)
  <1>1. r = SetScene(g_logic, "VICTORY", input_clear_quit(in)) \/ r = Result(g_logic, <<>>, in)
    BY DEF process_credits_state
  <1>2. g_logic.scene = "CREDITS"
    BY DEF AtFrame
  <1> QED BY <1>1, <1>2, SetSceneGood, StillGood

-----------------------------------------------------------------------------
(* The scene of the game itself *)

\* What logic_update may leave: with the lives that remain, the player is alive or
\* its respawn is scheduled, and a round that is over was the last or not.
Updated(u) ==
  /\ u \in LogicStates /\ u.round = g_logic.round
  /\ u.scene \in {"PLAYING", "VICTORY", "ROUND_CLEAR", "GAME_OVER"}
  /\ u.scene = "GAME_OVER" <=> u.lives <= 0
  /\ u.scene = "PLAYING" => (u.dead => u.timer > 0)
  /\ u.scene = "ROUND_CLEAR" => u.round < MAX_ROUNDS
  /\ u.scene = "VICTORY" => u.round = MAX_ROUNDS

(* logic_player_die: no more deaths than MaxDeaths, from a live player. *)
LEMMA DieFacts ==
  ASSUME NEW l \in LogicStates, l.scene = "PLAYING", l.lives > 0, ~l.dead, NEW n \in 0..MaxDeaths
  PROVE  LET d == logic_player_die(l, n)
         IN /\ d \in LogicStates /\ d.scene = "PLAYING" /\ d.round = l.round
            /\ d.lives > 0 => (d.dead => d.timer > 0)
  <1> DEFINE t == IF n > 0 /\ l.lives > 1 THEN RespawnDelay ELSE l.timer
             b == l.dead \/ n > 0
             d == logic_player_die(l, n)
  <1>1. t \in Nat /\ l.lives - n \in Lives
    BY Numbers DEF LogicStates, Lives
  <1>2. b \in BOOLEAN
    OBVIOUS
  <1>3. d = [l EXCEPT !.lives = l.lives - n, !.dead = b, !.timer = t]
    BY DEF logic_player_die
  <1>4. b => n > 0
    OBVIOUS
  <1>5. b => l.lives - n <= 0 \/ t > 0
    BY <1>4, Numbers DEF LogicStates
  <1> HIDE DEF b, t, d
  <1>6. d \in LogicStates
    BY <1>1, <1>2, <1>3 DEF LogicStates, Lives
  <1>7. d.scene = "PLAYING" /\ d.round = l.round /\ d.lives = l.lives - n /\ d.timer = t
    BY <1>3 DEF LogicStates
  <1>8. d.dead = b
    BY <1>3, Zenon DEF LogicStates
  <1> QED BY <1>1, <1>5, <1>6, <1>7, <1>8 DEF d, Lives

LEMMA RoundCompleteFacts ==
  ASSUME NEW l \in LogicStates, l.scene = "PLAYING"
  PROVE  LET c == logic_check_round_complete(l)
         IN /\ c \in LogicStates /\ c.round = l.round /\ c.lives = l.lives /\ (c.dead <=> l.dead)
            /\ c.scene \in {"PLAYING", "VICTORY", "ROUND_CLEAR"}
            /\ c.scene = "PLAYING" => c.timer = l.timer
            /\ c.scene = "VICTORY" => c.round = MAX_ROUNDS
            /\ c.scene = "ROUND_CLEAR" => c.round < MAX_ROUNDS
  <1> DEFINE s == IF l.cleared = NotCleared THEN [l EXCEPT !.cleared = ClearedDelay] ELSE l
             c == logic_check_round_complete(l)
             v == [s EXCEPT !.scene = "VICTORY"]
             x == [s EXCEPT !.scene = "ROUND_CLEAR", !.timer = LevelClearDelay]
  <1>1. "VICTORY" \in Scenes /\ "ROUND_CLEAR" \in Scenes /\ LevelClearDelay \in Nat
        /\ ClearedDelay \in NotCleared..ClearedDelay
    BY Numbers DEF Scenes, NotCleared
  <1>2. /\ s \in LogicStates /\ s.round = l.round /\ s.lives = l.lives /\ (s.dead <=> l.dead)
        /\ s.scene = "PLAYING" /\ s.timer = l.timer
    BY <1>1 DEF LogicStates
  <1>3. c \in {l, s} \/ (c = v /\ s.round >= MAX_ROUNDS) \/ (c = x /\ ~(s.round >= MAX_ROUNDS))
    BY DEF logic_check_round_complete
  <1> HIDE DEF s, c
  <1>4. v \in LogicStates /\ v.round = s.round /\ v.lives = s.lives /\ (v.dead <=> s.dead) /\ v.scene = "VICTORY"
    BY <1>1, <1>2 DEF LogicStates
  <1>5. x \in LogicStates /\ x.round = s.round /\ x.lives = s.lives /\ (x.dead <=> s.dead) /\ x.scene = "ROUND_CLEAR"
    BY <1>1, <1>2 DEF LogicStates
  <1>6. s.round \in 1..MAX_ROUNDS
    BY <1>2 DEF LogicStates
  <1> HIDE DEF v, x
  <1>7. CASE c \in {l, s}
    <2>1. /\ c \in LogicStates /\ c.round = l.round /\ c.lives = l.lives /\ (c.dead <=> l.dead)
          /\ c.scene = "PLAYING" /\ c.timer = l.timer
      BY <1>2, <1>7
    <2> QED BY <2>1 DEF c
  <1>8. CASE c = v /\ s.round >= MAX_ROUNDS
    BY <1>2, <1>4, <1>6, <1>8, Numbers DEF c
  <1>9. CASE c = x /\ ~(s.round >= MAX_ROUNDS)
    BY <1>2, <1>5, <1>6, <1>9, Numbers DEF c
  <1> QED BY <1>3, <1>7, <1>8, <1>9

(* logic_update: the scenes it may lead to, and with which lives. *)
LEMMA UpdateFacts ==
  ASSUME NEW l \in LogicStates, l.scene = "PLAYING", l.round = g_logic.round, l.lives > 0,
         l.dead => l.timer > 0, NEW u \in logic_update(l)
  PROVE  Updated(u)
  <1>1. CASE l.timer > 0
    <2>1. u = Respawn(l)
      BY <1>1 DEF logic_update
    <2>2. l.timer \in Nat /\ l.timer - 1 \in Nat /\ l.dead \in BOOLEAN
      BY <1>1 DEF LogicStates
    <2>3. ASSUME l.timer = 1
          PROVE  /\ u \in LogicStates /\ u.scene = "PLAYING" /\ u.round = l.round /\ u.lives = l.lives
                 /\ u.dead => u.timer > 0
      <3>1. u = [l EXCEPT !.timer = l.timer - 1, !.dead = FALSE]
        BY <2>1, <2>3 DEF Respawn
      <3>2. /\ u \in LogicStates /\ u.scene = "PLAYING" /\ u.round = l.round /\ u.lives = l.lives /\ ~u.dead
        BY <2>2, <3>1 DEF LogicStates
      <3> QED BY <3>2
    <2>4. ASSUME l.timer # 1
          PROVE  /\ u \in LogicStates /\ u.scene = "PLAYING" /\ u.round = l.round /\ u.lives = l.lives
                 /\ u.dead => u.timer > 0
      <3>1. u = [l EXCEPT !.timer = l.timer - 1]
        BY <2>1, <2>2, <2>4 DEF Respawn, LogicStates
      <3>2. /\ u \in LogicStates /\ u.scene = "PLAYING" /\ u.round = l.round /\ u.lives = l.lives
            /\ u.timer = l.timer - 1 /\ (u.dead <=> l.dead)
        BY <2>2, <3>1 DEF LogicStates
      <3> QED BY <1>1, <2>2, <2>4, <3>2
    <2>5. /\ u \in LogicStates /\ u.scene = "PLAYING" /\ u.round = l.round /\ u.lives = l.lives
          /\ u.dead => u.timer > 0
      BY <2>3, <2>4
    <2>7. l.lives \in Int
      BY Numbers DEF LogicStates
    <2> QED BY <2>5, <2>7 DEF Updated
  <1>2. CASE ~(l.timer > 0)
    <2>1. PICK k \in 0..l.enemies, n \in 0..MaxDeaths :
            u = logic_check_game_over(logic_check_round_complete(
                  logic_player_die([l EXCEPT !.enemies = @ - k], n)))
      BY <1>2 DEF logic_update
    <2> DEFINE e == [l EXCEPT !.enemies = @ - k]
               d == logic_player_die(e, n)
               c == logic_check_round_complete(d)
    <2>2. l.enemies - k \in 0..Enemies
      BY Numbers DEF LogicStates
    <2>3. e \in LogicStates /\ e.scene = "PLAYING" /\ e.round = l.round /\ e.lives = l.lives /\ (e.dead <=> l.dead)
      BY <2>2 DEF LogicStates
    <2> HIDE DEF e
    <2>4. d \in LogicStates /\ d.scene = "PLAYING" /\ d.round = l.round /\ (d.lives > 0 => (d.dead => d.timer > 0))
      BY <1>2, <2>3, DieFacts
    <2> HIDE DEF d
    <2>5. /\ c \in LogicStates /\ c.round = d.round /\ c.lives = d.lives /\ (c.dead <=> d.dead)
          /\ c.scene \in {"PLAYING", "VICTORY", "ROUND_CLEAR"}
          /\ c.scene = "PLAYING" => c.timer = d.timer
          /\ c.scene = "VICTORY" => c.round = MAX_ROUNDS
          /\ c.scene = "ROUND_CLEAR" => c.round < MAX_ROUNDS
      BY <2>4, RoundCompleteFacts
    <2>6. u = logic_check_game_over(c)
      BY <2>1 DEF c, d, e
    <2> HIDE DEF c
    <2>7. c.lives \in Int /\ "GAME_OVER" \in Scenes
      BY <2>5, Numbers DEF LogicStates, Scenes
    <2>8. CASE c.lives <= 0
      <3>1. u = [c EXCEPT !.scene = "GAME_OVER"]
        BY <2>6, <2>8 DEF logic_check_game_over
      <3>2. u \in LogicStates /\ u.scene = "GAME_OVER" /\ u.round = c.round /\ u.lives = c.lives
        BY <2>5, <2>7, <3>1 DEF LogicStates
      <3> QED BY <2>4, <2>5, <2>8, <3>2 DEF Updated
    <2>9. CASE ~(c.lives <= 0)
      <3>1. u = c
        BY <2>6, <2>9 DEF logic_check_game_over
      <3>2. c.scene = "PLAYING" => (c.dead => c.timer > 0)
        BY <2>4, <2>5, <2>7, <2>9
      <3> QED BY <2>4, <2>5, <2>9, <3>1, <3>2 DEF Updated
    <2> QED BY <2>8, <2>9
  <1> QED BY <1>1, <1>2

(* sync_logic_to_game_state writes what logic_update has changed. *)
LEMMA AfterUpdateGood ==
  ASSUME AtFrame, g_game.scene = "PLAYING", NEW u, Updated(u), NEW i
  PROVE  Good(AfterUpdate(u, i))
  <1> DEFINE L == <<"lives", u.lives>>
             tail == IF u.scene # "PLAYING" THEN <<Scene(u.scene)>> ELSE <<>>
             w == <<L>> \o tail
             m == [u EXCEPT !.scene = "PLAYING"]
  <1>0. /\ g_logic.scene = "PLAYING" /\ won \subseteq 1..MAX_ROUNDS /\ 1..(g_logic.round - 1) \subseteq won
        /\ g_logic.round \in 1..MAX_ROUNDS /\ g_game.level = g_logic.round
    BY DEF AtFrame, Sane, InRound, LogicStates
  <1>1. u.lives \in Lives /\ u.lives \in Int /\ u.scene \in Scenes /\ "PLAYING" \in Scenes /\ "GAME_OVER" \in Scenes
    BY Numbers DEF Updated, LogicStates, Lives, Scenes
  <1>2. L \in Writes /\ Scene(u.scene) \in Writes /\ Scene("GAME_OVER") \in Writes /\ <<>> \in Seq(Writes)
    BY <1>1 DEF Writes, Scene
  <1>3. m.scene = "PLAYING" /\ m.round = u.round /\ m.lives = u.lives
    BY DEF Updated, LogicStates
  <1>4. Leads(<<L>>, g_game, m)
    <2>1. Leads(<<>>, g_game, g_logic)
      BY NoneLeads DEF AtFrame
    <2>2. Leads(Append(<<>>, L), g_game, m)
      <3> HIDE DEF m
      <3> QED BY <1>0, <1>2, <1>3, <2>1, LeadsAppend DEF Updated
    <2> QED BY <2>2
  <1> HIDE DEF m, L
  <1>5. <<L>> \in Seq(Writes)
    BY <1>2
  <1>6. w \in Seq(Writes) /\ Leads(w, g_game, u)
    <2>1. CASE u.scene = "PLAYING"
      <3>1. w = <<L>>
        BY <1>5, <2>1, ConcatEmptySeq
      <3> QED BY <1>3, <1>4, <1>5, <2>1, <3>1 DEF Leads
    <2>2. CASE u.scene # "PLAYING"
      <3>1. w = Append(<<L>>, Scene(u.scene))
        <4>1. tail = <<Scene(u.scene)>>
          BY <2>2
        <4>2. Append(<<L>>, Scene(u.scene)) = <<L>> \o <<Scene(u.scene)>>
          BY <1>2, <1>5, AppendIsConcat
        <4> QED BY <4>1, <4>2
      <3>2. Leads(Append(<<L>>, <<"scene", u.scene>>), g_game, u)
        BY <1>2, <1>3, <1>4, <1>5, LeadsAppend DEF Scene
      <3> QED BY <3>1, <3>2 DEF Scene, Leads
    <2> QED BY <2>1, <2>2
  <1> HIDE DEF w
  <1>7. CASE u.lives <= 0
    <2> DEFINE o == [u EXCEPT !.scene = "GAME_OVER", !.timer = GameOverDelay]
    <2>1. AfterUpdate(u, i) = Result(o, Append(w, Scene("GAME_OVER")), i)
      BY <1>7 DEF AfterUpdate, w, L
    <2>2. o \in LogicStates /\ o.scene = "GAME_OVER" /\ o.round = u.round /\ o.lives = u.lives
      BY <1>1, Numbers DEF Updated, LogicStates
    <2> HIDE DEF o
    <2>3. Leads(Append(w, Scene("GAME_OVER")), g_game, o)
      BY <1>2, <1>6, <2>2, LeadsAppend DEF Scene
    <2>4. Sane(o, WonAfter(o))
      BY <1>0, <2>2 DEF Sane, WonAfter, InRound
    <2> QED BY <2>1, <2>3, <2>4, ResultFields DEF Good
  <1>8. CASE ~(u.lives <= 0)
    <2>1. AfterUpdate(u, i) = Result(u, w, i)
      BY <1>8 DEF AfterUpdate, w, L
    <2>2. /\ u \in LogicStates /\ u.round = g_logic.round /\ u.lives > 0
          /\ u.scene \in {"PLAYING", "VICTORY", "ROUND_CLEAR"}
      BY <1>1, <1>8 DEF Updated
    <2>3. WonAfter(u) = IF u.scene = "PLAYING" THEN won ELSE won \cup {g_logic.round}
      BY <1>0, <2>2 DEF WonAfter
    <2>4. WonAfter(u) \subseteq 1..MAX_ROUNDS /\ 1..(u.round - 1) \subseteq WonAfter(u)
      BY <1>0, <2>2, <2>3
    <2>5. u.scene # "PLAYING" => 1..u.round \subseteq WonAfter(u)
      BY <1>0, <2>2, <2>3
    <2>6. /\ u.scene = "PLAYING" => (u.dead => u.timer > 0)
          /\ u.scene = "ROUND_CLEAR" => u.round < MAX_ROUNDS
          /\ u.scene = "VICTORY" => u.round = MAX_ROUNDS
      BY DEF Updated
    <2>7. Sane(u, WonAfter(u))
      BY <2>2, <2>4, <2>5, <2>6 DEF Sane, InRound
    <2> QED BY <1>6, <2>1, <2>7, ResultFields DEF Good
  <1> QED BY <1>7, <1>8

LEMMA PlayingGood ==
  ASSUME AtFrame, g_game.scene = "PLAYING", NEW r \in process_playing_state
  PROVE  Good(r)
  <1>0. /\ g_logic.scene = "PLAYING" /\ g_logic \in LogicStates /\ g_logic.lives > 0
        /\ g_logic.dead => g_logic.timer > 0
    BY DEF AtFrame, Sane, InRound
  <1>1. CASE in.pause_pressed
    <2>1. r = SetScene(g_logic, "PAUSED", Released("pause_pressed"))
      BY <1>1 DEF process_playing_state
    <2> QED BY <1>0, <2>1, SetSceneGood
  <1>2. CASE ~in.pause_pressed
    <2> DEFINE i == [in EXCEPT !.dev_kill_pressed = FALSE, !.action_pressed = FALSE, !.attack_pressed = FALSE]
               l == IF in.dev_kill_pressed /\ g_logic.enemies > 0
                    THEN [g_logic EXCEPT !.enemies = @ - 1] ELSE g_logic
    <2>1. PICK u \in logic_update(l) : r = AfterUpdate(u, i)
      BY <1>2 DEF process_playing_state
    <2>2. g_logic.enemies > 0 => g_logic.enemies - 1 \in 0..Enemies
      BY <1>0, Numbers DEF LogicStates
    <2>3. /\ l \in LogicStates /\ l.scene = "PLAYING" /\ l.round = g_logic.round /\ l.lives > 0
          /\ l.dead => l.timer > 0
      BY <1>0, <2>2 DEF LogicStates
    <2> HIDE DEF l, i
    <2>4. Updated(u)
      BY <2>1, <2>3, UpdateFacts
    <2> QED BY <2>1, <2>4, AfterUpdateGood
  <1> QED BY <1>1, <1>2

-----------------------------------------------------------------------------
(* The invariant *)

LEMMA InitLoopInv == Init => LoopInv
  <1> SUFFICES ASSUME Init PROVE LoopInv
    OBVIOUS
  <1>1. INITIAL_LIVES \in Lives /\ 1 \in 1..MAX_ROUNDS /\ "MENU" \in Scenes /\ 0 \in 0..Enemies
        /\ NotCleared \in NotCleared..ClearedDelay
    BY Numbers DEF Lives, Scenes, NotCleared
  <1>2. /\ logic_init \in LogicStates /\ logic_init.scene = "MENU" /\ logic_init.round = 1
        /\ logic_init.lives = INITIAL_LIVES
    BY <1>1 DEF logic_init, LogicStates, Lives
  <1>3. Sane(g_logic, won)
    BY <1>2, Numbers DEF Init, Sane, InRound
  <1>4. Leads(todo, g_game, g_logic)
    BY <1>2, NoneLeads DEF Init
  <1>5. TypeOK
    BY <1>1, <1>2 DEF Init, TypeOK, Lives, NoScene
  <1> QED BY <1>3, <1>4, <1>5 DEF LoopInv, Init

(* A frame, with the write of every field that it changes still to come. *)
LEMMA FrameInv ==
  ASSUME LoopInv, LogicFrame
  PROVE  LoopInv'
  <1>1. AtFrame
    <2>1. todo = <<>>
      BY DEF LoopInv, LogicFrame
    <2> QED BY <2>1, LeadsNone DEF LoopInv, AtFrame
  <1>2. PICK r \in Processed :
          /\ g_logic' = Later(r.logic) /\ todo' = r.writes /\ won' = WonAfter(r.logic)
    BY DEF LogicFrame, WonAfter
  <1>3. g_game.scene \in Scenes
    BY DEF LoopInv, TypeOK
  <1>4. Good(r)
    BY <1>1, <1>2, <1>3, MenuGood, PlayingGood, PausedGood, LevelClearGood, GameOverGood, RoundStartGood,
       VictoryGood, CreditsGood DEF Processed, Scenes
  <1>5. Sane(r.logic, won') /\ Leads(r.writes, g_game, r.logic)
    BY <1>2, <1>4 DEF Good
  <1> DEFINE l == r.logic
             c == IF l.cleared > 0 THEN l.cleared - 1 ELSE l.cleared
  <1>6. l \in LogicStates
    BY <1>5 DEF Sane
  <1>7. c \in NotCleared..ClearedDelay
    BY <1>6, Numbers DEF LogicStates, NotCleared
  <1>8. g_logic' = [l EXCEPT !.cleared = c]
    BY <1>2 DEF Later
  <1> HIDE DEF l, c
  <1>9. /\ g_logic' \in LogicStates /\ g_logic'.scene = l.scene /\ g_logic'.round = l.round
        /\ g_logic'.lives = l.lives /\ g_logic'.timer = l.timer /\ (g_logic'.dead <=> l.dead)
    BY <1>6, <1>7, <1>8 DEF LogicStates
  <1>10. Sane(g_logic', won')
    BY <1>5, <1>9 DEF Sane, l
  <1>11. Leads(todo', g_game', g_logic')
    BY <1>2, <1>5, <1>9 DEF Leads, LogicFrame, l
  <1>12. TypeOK'
    BY <1>9, <1>10 DEF TypeOK, LoopInv, LogicFrame, render, Sane
  <1>13. lpc' = "writes"
    BY DEF LogicFrame
  <1> QED BY <1>10, <1>11, <1>12, <1>13 DEF LoopInv

(* A write takes the game one step closer to what the frame has decided. *)
LEMMA WriteInv ==
  ASSUME LoopInv, Write
  PROVE  LoopInv'
  <1> DEFINE w == Head(todo)
  <1>1. /\ todo \in Seq(Writes) /\ todo # <<>> /\ todo' = Tail(todo) /\ lpc' = "writes"
        /\ UNCHANGED <<g_logic, g_running, g_frame_ready, rpc, back, screen, won>>
    BY DEF LoopInv, Leads, Write, render
  <1>2. w \in Writes
    BY <1>1
  <1>3. IF w[1] = "clear" THEN g_game' = g_game ELSE g_game' = [g_game EXCEPT ![w[1]] = w[2]]
    BY DEF Write
  <1> HIDE DEF w
  <1>4. g_game \in [scene : Scenes, level : 1..MAX_ROUNDS, lives : Lives]
    BY DEF LoopInv, TypeOK, Lives
  <1>5. /\ w[1] \in Fields \cup {"clear"}
        /\ w[1] = "scene" => w[2] \in Scenes
        /\ w[1] = "level" => w[2] \in 1..MAX_ROUNDS
        /\ w[1] = "lives" => w[2] \in Lives
    BY <1>2 DEF Writes, Fields
  <1>6. /\ g_game' \in [scene : Scenes, level : 1..MAX_ROUNDS, lives : Lives]
        /\ \A f \in Fields : IF w[1] = f THEN g_game'[f] = w[2] ELSE g_game'[f] = g_game[f]
    BY <1>3, <1>4, <1>5 DEF Fields
  <1>7. "scene" \in Fields /\ "level" \in Fields /\ "lives" \in Fields
    BY DEF Fields
  <1>8. Leads(todo', g_game', g_logic')
    <2>0. /\ Ends(todo, g_game, "scene", g_logic.scene) /\ Ends(todo, g_game, "level", g_logic.round)
          /\ Ends(todo, g_game, "lives", g_logic.lives)
      BY DEF LoopInv, Leads
    <2>1. Tail(todo) \in Seq(Writes) /\ Ends(Tail(todo), g_game', "scene", g_logic.scene)
      BY <1>1, <1>6, <1>7, <2>0, EndsTail DEF w
    <2>2. Ends(Tail(todo), g_game', "level", g_logic.round)
      BY <1>1, <1>6, <1>7, <2>0, EndsTail DEF w
    <2>3. Ends(Tail(todo), g_game', "lives", g_logic.lives)
      BY <1>1, <1>6, <1>7, <2>0, EndsTail DEF w
    <2> QED BY <1>1, <2>1, <2>2, <2>3 DEF Leads
  <1>9. TypeOK' /\ Sane(g_logic', won')
    BY <1>1, <1>6 DEF TypeOK, LoopInv, Lives
  <1> QED BY <1>1, <1>8, <1>9 DEF LoopInv

(* The other steps change neither copy. *)
LEMMA OtherInv ==
  ASSUME LoopInv, UNCHANGED <<g_game, g_logic, todo, won>>, TypeOK', lpc' # "writes" => todo = <<>>
  PROVE  LoopInv'
  BY DEF LoopInv

LEMMA StepLoopInv ==
  ASSUME LoopInv, [Next]_vars
  PROVE  LoopInv'
  <1>1. CASE LogicFrame
    BY <1>1, FrameInv
  <1>2. CASE Write
    BY <1>2, WriteInv
  <1>3. CASE Quit \/ Signal \/ game_cleanup
    BY <1>3, OtherInv DEF Quit, Signal, game_cleanup, render, LoopInv, TypeOK, NoScene
  <1>4. CASE Render
    <2>1. UNCHANGED <<g_game, g_logic, lpc, todo, won, g_running>>
      BY <1>4 DEF Render
    <2>2. /\ rpc' \in {"loop", "draw", "present", "done", "gone"}
          /\ {back', screen'} \subseteq Scenes \cup {NoScene}
      BY <1>4 DEF Render, RenderLoop, Draw, render_present, FrameDone, LoopInv, TypeOK
    <2>3. g_frame_ready' \in BOOLEAN
      BY <1>4 DEF Render, RenderLoop, Draw, render_present, FrameDone, LoopInv, TypeOK
    <2>4. TypeOK'
      BY <2>1, <2>2, <2>3 DEF LoopInv, TypeOK
    <2> QED BY <2>1, <2>4, OtherInv DEF LoopInv
  <1>5. CASE Key
    BY <1>5, OtherInv DEF Key, render, LoopInv, TypeOK
  <1>6. CASE UNCHANGED vars
    BY <1>6, OtherInv DEF vars, LoopInv, TypeOK
  <1> QED BY <1>1, <1>2, <1>3, <1>4, <1>5, <1>6 DEF Next, Logic, Over

LEMMA LoopInvHolds == Spec => []LoopInv
  BY InitLoopInv, StepLoopInv, PTL DEF Spec

(* Between frames g_game and g_logic_state agree, whatever sequence of     *)
(* scene changes and of single writes has led there (game.c,               *)
(* sync_logic_to_game_state).                                              *)
THEOREM CopiesStayTogether == Spec => []CopiesAgree
  <1>1. LoopInv => CopiesAgree
    BY LeadsNone DEF LoopInv, CopiesAgree
  <1> QED BY <1>1, LoopInvHolds, PTL

(* The victory screen is only reached when every round of this game was    *)
(* cleared, for every number of rounds.                                    *)
THEOREM VictoryIsEarned == Spec => []VictoryEarned
  <1>1. LoopInv => VictoryEarned
    BY LeadsNone DEF LoopInv, VictoryEarned, Sane
  <1> QED BY <1>1, LoopInvHolds, PTL

(* A frame is only played with a life left and with a player that is alive *)
(* or about to come back, however many deaths one update brings.           *)
THEOREM GameStaysPlayable == Spec => []Playable
  <1>1. LoopInv => Playable
    BY LeadsNone DEF LoopInv, Playable, Sane, InRound
  <1> QED BY <1>1, LoopInvHolds, PTL
=============================================================================
