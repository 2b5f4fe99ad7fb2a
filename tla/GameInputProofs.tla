-------------------------- MODULE GameInputProofs ---------------------------
(***************************************************************************)
(* Proofs about GameInput, for every set of keys and every threshold: the  *)
(* keyboard callback may come between any two accesses of the queries.     *)
(***************************************************************************)
EXTENDS GameInput, TLAPS

(* A press that the pending store would take back came after the load, and *)
(* a query holds a flag in its local: PressKept is inductive with them.    *)
OwedSeen == (pc[1] = "store" => local \in {0, 1}) /\ \A f \in owed : Unseen(f) => f \in late

(* What OneMovePerPress rests on, for a press outside of the windows of    *)
(* Raced: hold_time, and the copy that input_update has loaded, do not run *)
(* ahead of the frames since the press; and once a move has been answered, *)
(* or is about to be, the press is consumed.                               *)
HoldsBack ==
  /\ early <= 1
  /\ in.hold_time <= age
  /\ pc = <<"inc", "store">> => local <= age
  /\ pc = <<"dir", "return">> => age >= HOLD_THRESHOLD \/ (~in.move_just_pressed /\ early = 0)
  /\ early > 0 => /\ ~in.move_just_pressed
                  /\ pc \notin {<<"dir", "processed">>, <<"dir", "mark">>, <<"dir", "consume">>}

InputInv == TypeOK /\ HeldIsDown /\ PressKept /\ OwedSeen /\ (raced \/ HoldsBack)

-----------------------------------------------------------------------------
(* The callback *)

(* What the press of a key does to g_input: a movement key renews the four *)
(* movement fields, and the others set their latch.                        *)
LEMMA PressFacts ==
  ASSUME NEW i \in InputStates, NEW k \in AllKeys
  PROVE  LET j == input_keyboard_handler(i, k, TRUE)
         IN /\ j \in InputStates
            /\ key_dir(k) # DIR_NONE =>
                 /\ j.held_dir = key_dir(k) /\ j.hold_time = 0 /\ (j.attack_held <=> i.attack_held)
                 /\ \A f \in Queried : j[f] <=> i[f]
            /\ key_dir(k) = DIR_NONE =>
                 /\ j.held_dir = i.held_dir /\ j.hold_time = i.hold_time
                 /\ j.move_just_pressed <=> i.move_just_pressed
                 /\ j.attack_held <=> (i.attack_held \/ k = "SPACE")
                 /\ \A f \in Queried : j[f] <=> (i[f] \/ f = Latch(k))
  <1> DEFINE n == Noted(i, k)
             j == input_keyboard_handler(i, k, TRUE)
  <1> USE DEF Queried, Pause, Kill, Action, Attack
  <1>1. /\ n \in InputStates /\ n.held_dir = i.held_dir /\ n.hold_time = i.hold_time
        /\ n.move_just_pressed = i.move_just_pressed /\ n.attack_held = i.attack_held
        /\ \A f \in Queried : n[f] = i[f]
    BY DEF Noted, InputStates, NoKey
  <1> HIDE DEF n
  <1>2. CASE key_dir(k) # DIR_NONE
    <2>1. key_dir(k) \in Direction
      BY DEF key_dir, Direction, DIR_NONE
    <2>2. j = MovePressed(n, key_dir(k))
      BY <1>2 DEF input_keyboard_handler, n
    <2>3. 0 \in 0 .. HOLD_THRESHOLD
      BY HoldAssumption
    <2>4. j \in InputStates
      BY <1>1, <2>1, <2>2, <2>3 DEF MovePressed, InputStates
    <2>5. /\ j.held_dir = key_dir(k) /\ j.hold_time = 0 /\ j.attack_held = n.attack_held
          /\ \A f \in Queried : j[f] = n[f]
      BY <1>1, <2>2 DEF MovePressed, InputStates
    <2> QED BY <1>1, <1>2, <2>4, <2>5
  <1>3. CASE key_dir(k) = DIR_NONE /\ k = "SPACE"
    <2>1. j = SpaceKey(n, TRUE) /\ Latch(k) = "attack_pressed"
      BY <1>3 DEF input_keyboard_handler, n, Latch
    <2>2. j = [n EXCEPT !.attack_held = TRUE, !.attack_pressed = TRUE]
      BY <2>1, Zenon DEF SpaceKey
    <2> QED BY <1>1, <1>3, <2>1, <2>2 DEF InputStates
  <1>4. CASE key_dir(k) = DIR_NONE /\ k # "SPACE"
    <2>1. j = OtherKey(n, k)
      BY <1>4 DEF input_keyboard_handler, n
    <2>2. k \in {"ENTER", "P", "ESC", "Q", "K", "C"}
      BY <1>4 DEF AllKeys, key_dir, DIR_NONE
    <2>3. CASE k = "ENTER"
      <3>1. j = [n EXCEPT !.action_pressed = TRUE] /\ Latch(k) = "action_pressed"
        BY <2>1, <2>3 DEF OtherKey, Latch
      <3> QED BY <1>1, <1>4, <3>1 DEF InputStates
    <2>4. CASE k = "P"
      <3>1. j = [n EXCEPT !.pause_pressed = TRUE] /\ Latch(k) = "pause_pressed"
        BY <2>1, <2>4 DEF OtherKey, Latch
      <3> QED BY <1>1, <1>4, <3>1 DEF InputStates
    <2>5. CASE k \in {"ESC", "Q"}
      <3>1. j = [n EXCEPT !.quit_pressed = TRUE] /\ Latch(k) = "quit_pressed"
        BY <2>1, <2>5 DEF OtherKey, Latch
      <3> QED BY <1>1, <1>4, <3>1 DEF InputStates
    <2>6. CASE k = "K"
      <3>1. j = [n EXCEPT !.dev_kill_pressed = TRUE] /\ Latch(k) = "dev_kill_pressed"
        BY <2>1, <2>6 DEF OtherKey, Latch
      <3> QED BY <1>1, <1>4, <3>1 DEF InputStates
    <2>7. CASE k = "C"
      BY <1>1, <1>4, <2>1, <2>7 DEF OtherKey, InputStates, Latch
    <2> QED BY <2>2, <2>3, <2>4, <2>5, <2>6, <2>7
  <1> QED BY <1>2, <1>3, <1>4

(* What the release of a key does: it gives up the direction that is held, *)
(* if it is its own, and no latch.                                         *)
LEMMA ReleaseFacts ==
  ASSUME NEW i \in InputStates, NEW k \in AllKeys
  PROVE  LET j == input_keyboard_handler(i, k, FALSE)
         IN /\ j \in InputStates
            /\ j.held_dir \in {i.held_dir, DIR_NONE}
            /\ key_dir(k) # DIR_NONE => j.held_dir # key_dir(k)
            /\ j.hold_time \in {i.hold_time, 0}
            /\ j.move_just_pressed => i.move_just_pressed
            /\ j.attack_held <=> (i.attack_held /\ k # "SPACE")
            /\ \A f \in Queried : j[f] <=> i[f]
  <1> DEFINE j == input_keyboard_handler(i, k, FALSE)
  <1> USE DEF Queried, Pause, Kill, Action, Attack
  <1>1. CASE key_dir(k) # DIR_NONE
    <2>1. j = MoveReleased(i, key_dir(k)) /\ k # "SPACE"
      BY <1>1 DEF input_keyboard_handler, key_dir, DIR_NONE
    <2>2. CASE i.held_dir # key_dir(k)
      BY <1>1, <2>1, <2>2 DEF MoveReleased
    <2>3. CASE i.held_dir = key_dir(k)
      <3>1. j = [i EXCEPT !.held_dir = DIR_NONE, !.hold_time = 0, !.move_just_pressed = FALSE]
        BY <2>1, <2>3 DEF MoveReleased
      <3>2. 0 \in 0 .. HOLD_THRESHOLD /\ DIR_NONE \in Direction
        BY HoldAssumption DEF Direction
      <3>3. j \in InputStates
        BY <3>1, <3>2 DEF InputStates
      <3>4. /\ j.held_dir = DIR_NONE /\ j.hold_time = 0 /\ ~j.move_just_pressed
            /\ j.attack_held = i.attack_held /\ \A f \in Queried : j[f] = i[f]
        BY <3>1 DEF InputStates
      <3> QED BY <1>1, <2>1, <3>3, <3>4
    <2> QED BY <2>2, <2>3
  <1>2. CASE key_dir(k) = DIR_NONE /\ k = "SPACE"
    <2>1. j = SpaceKey(i, FALSE)
      BY <1>2 DEF input_keyboard_handler
    <2>2. i.attack_pressed \in BOOLEAN
      BY DEF InputStates
    <2>3. (i.attack_pressed \/ FALSE) = i.attack_pressed
      BY <2>2
    <2>4. j = [i EXCEPT !.attack_held = FALSE, !.attack_pressed = i.attack_pressed]
      BY <2>1, <2>3, Zenon DEF SpaceKey
    <2> QED BY <1>2, <2>4 DEF InputStates
  <1>3. CASE key_dir(k) = DIR_NONE /\ k # "SPACE"
    <2>1. j = i
      BY <1>3 DEF input_keyboard_handler
    <2> QED BY <1>3, <2>1
  <1> QED BY <1>1, <1>2, <1>3

-----------------------------------------------------------------------------
(* The steps *)

(* Before the first frame nothing is held, owed or counted. *)
LEMMA InitInputInv == Init => InputInv
  <1> SUFFICES ASSUME Init PROVE InputInv
    OBVIOUS
  <1>0. /\ in = NoInput /\ pc = <<"wait", "frame">> /\ local = 0 /\ early = 0 /\ age = 0
        /\ down = {} /\ missed = {} /\ owed = {} /\ late = {}
    BY Zenon DEF Init
  <1>r. raced \in BOOLEAN /\ paused \in BOOLEAN
    BY Zenon DEF Init
  <1>h. 0 \in 0 .. HOLD_THRESHOLD
    BY HoldAssumption
  <1>1. in \in InputStates
    BY <1>0, <1>h DEF NoInput, InputStates, Direction, DIR_NONE, NoKey
  <1>2. TypeOK
    BY <1>0, <1>r, <1>1, HoldAssumption DEF TypeOK, Points, MaxEarly
  <1>3. HeldIsDown /\ PressKept /\ OwedSeen
    BY <1>0 DEF HeldIsDown, PressKept, OwedSeen, NoInput
  <1>4. HoldsBack
    BY <1>0 DEF HoldsBack, NoInput
  <1> QED BY <1>2, <1>3, <1>4 DEF InputInv

(* Outside of the second half of a query an owed press is latched unless   *)
(* it was late, and whatever leaves the latches alone keeps it so.         *)
LEMMA PressesStay ==
  ASSUME InputInv, pc[1] # "store", pc'[1] # "store", UNCHANGED presses,
         \A f \in Queried : in'[f] <=> in[f]
  PROVE  PressKept' /\ OwedSeen'
  <1>1. owed' = owed /\ late' = late /\ owed \subseteq Queried
    BY DEF presses, InputInv, TypeOK
  <1>2. ASSUME NEW f \in owed PROVE in[f] <=> f \notin late
    BY <1>2 DEF InputInv, PressKept, Unseen
  <1>3. \A f : pc' # <<"store", f>>
    BY SMT
  <1> QED BY <1>1, <1>2, <1>3 DEF PressKept, OwedSeen, Unseen

(* A press: the latch it sets is owed, late if it is Unseen, and a movement *)
(* key starts the count anew.                                              *)
LEMMA PressedInv ==
  ASSUME InputInv, NEW k \in Keys, KeyPressed(k)
  PROVE  InputInv'
  <1> DEFINE j == input_keyboard_handler(in, k, TRUE)
  <1>k. k \in AllKeys
    BY KeysAssumption
  <1>t. in \in InputStates /\ in' = j /\ UNCHANGED <<pc, local, paused>>
    BY DEF InputInv, TypeOK, KeyPressed, thread
  <1>0. /\ j \in InputStates
        /\ key_dir(k) # DIR_NONE =>
             /\ j.held_dir = key_dir(k) /\ j.hold_time = 0 /\ (j.attack_held <=> in.attack_held)
             /\ \A f \in Queried : j[f] <=> in[f]
        /\ key_dir(k) = DIR_NONE =>
             /\ j.held_dir = in.held_dir /\ j.hold_time = in.hold_time
             /\ j.move_just_pressed <=> in.move_just_pressed
             /\ j.attack_held <=> (in.attack_held \/ k = "SPACE")
             /\ \A f \in Queried : j[f] <=> (in[f] \/ f = Latch(k))
    BY <1>k, <1>t, PressFacts
  <1> HIDE DEF j
  <1>m. IF key_dir(k) # DIR_NONE THEN early' = 0 /\ age' = 0 /\ (raced' <=> Raced)
        ELSE UNCHANGED <<early, age, raced>>
    <2>1. CASE key_dir(k) # DIR_NONE
      <3>1. early' = 0 /\ age' = 0 /\ raced' = Raced
        BY <2>1, Zenon DEF KeyPressed
      <3> QED BY <2>1, <3>1, Zenon
    <2>2. CASE key_dir(k) = DIR_NONE
      BY <2>2, Zenon DEF KeyPressed
    <2> QED BY <2>1, <2>2, Zenon
  <1>r. raced' \in BOOLEAN
    <2>1. raced \in BOOLEAN
      BY DEF InputInv, TypeOK
    <2>2. Raced \in BOOLEAN
      BY DEF Raced
    <2> QED BY <2>1, <2>2, Zenon DEF KeyPressed
  <1>1. TypeOK'
    <2>1. /\ down' \subseteq HeldKeys /\ missed' \subseteq HeldKeys
          /\ owed' \subseteq Queried /\ late' \subseteq Queried
      BY Zenon DEF KeyPressed, InputInv, TypeOK
    <2> QED BY <1>t, <1>0, <1>m, <1>r, <2>1, HoldAssumption DEF InputInv, TypeOK, MaxEarly
  <1>2. HeldIsDown'
    <2>1. down' = down \cup ({k} \cap HeldKeys) /\ missed' = missed \ {k}
      BY DEF KeyPressed
    <2>2. k \in HeldKeys <=> key_dir(k) # DIR_NONE \/ k = "SPACE"
      BY DEF HeldKeys
    <2> QED BY <1>t, <1>0, <2>1, <2>2 DEF InputInv, HeldIsDown
  <1>3. /\ owed' = owed \cup ({Latch(k)} \cap Queried) /\ owed \subseteq Queried
        /\ late' = (late \ {Latch(k)}) \cup {f \in Queried : f = Latch(k) /\ Unseen(f)}
    BY DEF KeyPressed, InputInv, TypeOK
  <1>u. \A f : Unseen(f)' <=> Unseen(f)
    BY <1>t DEF Unseen
  <1>4. OwedSeen'
    <2>1. ASSUME NEW f \in owed', Unseen(f)' PROVE f \in late'
      BY <1>3, <1>u, <2>1 DEF InputInv, OwedSeen
    <2> QED BY <1>t, <2>1 DEF InputInv, OwedSeen
  <1>5. PressKept'
    <2>1. ASSUME NEW f \in owed'
          PROVE  LET kept == in'[f] \/ (pc' = <<"store", f>> /\ local' = 1)
                 IN (f \notin late' => kept) /\ (kept => f \notin late' \/ Unseen(f)')
      <3>1. CASE f # Latch(k)
        <4>1. f \in owed /\ f \in Queried /\ (f \in late' <=> f \in late)
          BY <1>3, <3>1
        <4>2. in'[f] <=> in[f]
          BY <1>t, <1>0, <3>1, <4>1
        <4> QED BY <1>t, <1>u, <4>1, <4>2 DEF InputInv, PressKept
      <3>2. CASE f = Latch(k)
        <4>1. f \in Queried
          BY <1>3, <3>2
        <4>2. key_dir(k) = DIR_NONE
          BY <1>k, <3>2, <4>1 DEF Queried, Pause, Kill, Action, Attack, Latch, AllKeys, key_dir, DIR_NONE
        <4>3. in'[f] /\ (f \in late' <=> Unseen(f))
          BY <1>t, <1>0, <1>3, <3>2, <4>1, <4>2
        <4> QED BY <1>u, <4>3
      <3> QED BY <3>1, <3>2
    <2> QED BY <2>1 DEF PressKept
  <1>6. raced' \/ HoldsBack'
    <2>1. CASE key_dir(k) # DIR_NONE
      BY <1>t, <1>0, <1>m, <2>1 DEF HoldsBack, Raced
    <2>2. CASE key_dir(k) = DIR_NONE
      BY <1>t, <1>0, <1>m, <2>2 DEF InputInv, HoldsBack
    <2> QED BY <2>1, <2>2
  <1> QED BY <1>1, <1>2, <1>4, <1>5, <1>6 DEF InputInv

(* A release gives up what its key held, and no latch. *)
LEMMA ReleasedInv ==
  ASSUME InputInv, NEW k \in HeldKeys, KeyReleased(k)
  PROVE  InputInv'
  <1> DEFINE j == input_keyboard_handler(in, k, FALSE)
  <1>k. k \in AllKeys
    BY KeysAssumption DEF HeldKeys
  <1>t. in \in InputStates /\ in' = j /\ UNCHANGED <<pc, local, paused, owed, late, early, age, raced>>
    BY DEF InputInv, TypeOK, KeyReleased, thread, presses, moves
  <1>0. /\ j \in InputStates
        /\ j.held_dir \in {in.held_dir, DIR_NONE}
        /\ key_dir(k) # DIR_NONE => j.held_dir # key_dir(k)
        /\ j.hold_time \in {in.hold_time, 0}
        /\ j.move_just_pressed => in.move_just_pressed
        /\ j.attack_held <=> (in.attack_held /\ k # "SPACE")
        /\ \A f \in Queried : j[f] <=> in[f]
    BY <1>k, <1>t, ReleaseFacts
  <1> HIDE DEF j
  <1>1. TypeOK'
    BY <1>t, <1>0 DEF InputInv, TypeOK, KeyReleased
  <1>2. HeldIsDown'
    <2>1. down' = down \ {k} /\ missed' = missed \ {k}
      BY DEF KeyReleased
    <2> QED BY <1>t, <1>0, <2>1 DEF InputInv, HeldIsDown
  <1>3. OwedSeen' /\ PressKept'
    BY <1>t, <1>0 DEF InputInv, TypeOK, OwedSeen, PressKept, Unseen
  <1>4. raced' \/ HoldsBack'
    <2>1. age \in Nat
      BY HoldAssumption DEF InputInv, TypeOK
    <2> QED BY <1>t, <1>0, <2>1 DEF InputInv, HoldsBack
  <1> QED BY <1>1, <1>2, <1>3, <1>4 DEF InputInv

(* A key that no handler gets changes the keyboard only. *)
LEMMA DroppedInv ==
  ASSUME InputInv, NEW k \in HeldKeys, KeyDropped(k)
  PROVE  InputInv'
  <1>t. UNCHANGED <<in, pc, local, paused, owed, late, early, age, raced>>
    BY DEF KeyDropped, thread, presses, moves
  <1>1. /\ down \cup missed \subseteq down' \cup missed'
        /\ down' \subseteq HeldKeys /\ missed' \subseteq HeldKeys
    BY DEF KeyDropped, InputInv, TypeOK
  <1>2. TypeOK' /\ HeldIsDown'
    BY <1>t, <1>1 DEF InputInv, TypeOK, HeldIsDown
  <1>3. OwedSeen' /\ PressKept' /\ (raced' \/ HoldsBack')
    BY <1>t DEF InputInv, OwedSeen, PressKept, Unseen, HoldsBack
  <1> QED BY <1>2, <1>3 DEF InputInv

(* Steps that only move the thread, to a point outside of the queries. *)
LEMMA MovesOnInv ==
  ASSUME InputInv, UNCHANGED <<in, local, paused, down, missed, owed, late, early, age, raced>>, pc' \in Points,
         pc[1] \notin {"store", "load", "dir", "inc"}, pc'[1] \notin {"store", "dir"}, pc' # <<"inc", "store">>
  PROVE  InputInv'
  <1>1. TypeOK' /\ HeldIsDown'
    BY DEF InputInv, TypeOK, HeldIsDown
  <1>2. PressKept' /\ OwedSeen'
    BY PressesStay DEF presses
  <1>3. raced' \/ HoldsBack'
    BY DEF InputInv, HoldsBack
  <1> QED BY <1>1, <1>2, <1>3 DEF InputInv

(* input_update: the copy of hold_time is no older than the press. *)
LEMMA UpdateInv ==
  ASSUME InputInv, Update
  PROVE  InputInv'
  <1>t. /\ UNCHANGED <<paused, down, missed, owed, late, early, raced>> /\ pc[1] = "inc"
        /\ in \in InputStates /\ age \in 0 .. HOLD_THRESHOLD /\ local \in 0 .. HOLD_THRESHOLD
        /\ in.hold_time \in 0 .. HOLD_THRESHOLD /\ HOLD_THRESHOLD \in Nat
    BY HoldAssumption DEF Update, keyboard, presses, InputInv, TypeOK, InputStates
  <1>c. \A n \in 0 .. HOLD_THRESHOLD : Capped(n) \in 0 .. HOLD_THRESHOLD
    BY <1>t DEF Capped
  <1>1. CASE pc[2] = "test"
    <2>1. UNCHANGED <<in, local>> /\ pc' \in {<<"inc", "load">>, <<"load", Pause>>} /\ age' \in {age, Capped(age)}
      BY <1>1 DEF Update
    <2>2. TypeOK' /\ HeldIsDown'
      BY <1>t, <1>c, <2>1 DEF InputInv, TypeOK, HeldIsDown, Points, Queried, Pause
    <2>o. PressKept' /\ OwedSeen'
      BY <1>t, <2>1, PressesStay DEF presses
    <2>3. raced' \/ HoldsBack'
      BY <1>t, <2>1 DEF InputInv, HoldsBack, Capped
    <2> QED BY <2>2, <2>o, <2>3 DEF InputInv
  <1>2. CASE pc[2] = "load"
    <2>1. in' = in /\ age' = age /\ local' = in.hold_time /\ pc' = <<"inc", "store">>
      BY <1>2 DEF Update
    <2>2. TypeOK' /\ HeldIsDown'
      BY <1>t, <2>1 DEF InputInv, TypeOK, HeldIsDown, Points
    <2>o. PressKept' /\ OwedSeen'
      BY <1>t, <2>1, PressesStay DEF presses
    <2>3. raced' \/ HoldsBack'
      BY <1>t, <2>1 DEF InputInv, HoldsBack
    <2> QED BY <2>2, <2>o, <2>3 DEF InputInv
  <1>3. CASE pc[2] = "store"
    <2>1. /\ in' = [in EXCEPT !.hold_time = Capped(local)] /\ local' = 0
          /\ pc' = <<"load", Pause>> /\ age' = Capped(age)
      BY <1>3 DEF Update
    <2>2. /\ in' \in InputStates /\ in'.hold_time = Capped(local) /\ in'.held_dir = in.held_dir
          /\ in'.attack_held = in.attack_held /\ in'.move_just_pressed = in.move_just_pressed
          /\ \A f \in Queried : in'[f] = in[f]
      BY <1>t, <1>c, <2>1 DEF InputStates, Queried, Pause, Kill, Action, Attack
    <2>q. Pause \in Queried /\ 0 \in 0 .. HOLD_THRESHOLD
      BY <1>t DEF Queried
    <2>3. TypeOK' /\ HeldIsDown'
      BY <1>t, <1>c, <2>1, <2>2, <2>q DEF InputInv, TypeOK, HeldIsDown, Points
    <2>o. PressKept' /\ OwedSeen'
      BY <1>t, <2>1, <2>2, PressesStay DEF presses
    <2>4. pc = <<"inc", "store">>
      BY <1>t, <1>3 DEF InputInv, TypeOK, Points
    <2>5. raced' \/ HoldsBack'
      BY <1>t, <2>1, <2>2, <2>4 DEF InputInv, HoldsBack, Capped
    <2> QED BY <2>3, <2>o, <2>5 DEF InputInv
  <1> QED BY <1>1, <1>2, <1>3 DEF Update

(* The first half of a query finds every press that is owed and not late. *)
LEMMA LoadInv ==
  ASSUME InputInv, NEW f \in Queried, LoadFlag(f)
  PROVE  InputInv'
  <1>t. /\ UNCHANGED <<in, paused, down, missed, owed, late, early, age, raced>> /\ pc = <<"load", f>>
        /\ pc' = <<"store", f>> /\ local' = IF in[f] THEN 1 ELSE 0
    BY DEF LoadFlag, keyboard, presses, moves
  <1>1. TypeOK' /\ HeldIsDown'
    BY <1>t, HoldAssumption DEF InputInv, TypeOK, HeldIsDown, Points
  <1>2. PressKept' /\ OwedSeen'
    BY <1>t DEF InputInv, PressKept, OwedSeen, Unseen
  <1>3. raced' \/ HoldsBack'
    BY <1>t DEF InputInv, HoldsBack
  <1> QED BY <1>1, <1>2, <1>3 DEF InputInv

(* The second half reports what it takes back. *)
LEMMA StoreInv ==
  ASSUME InputInv, NEW f \in Queried, StoreFlag(f)
  PROVE  InputInv'
  <1>t. /\ UNCHANGED <<down, missed, early, age, raced>> /\ pc = <<"store", f>>
        /\ owed' = (IF local = 1 THEN owed \ {f} ELSE owed)
        /\ late' = (IF local = 1 THEN late \ {f} ELSE late)
        /\ local' = 0 /\ in' = [in EXCEPT ![f] = FALSE] /\ local \in 0 .. HOLD_THRESHOLD
    BY DEF StoreFlag, keyboard, moves, Consume, InputInv, TypeOK
  <1>p. pc' \in {<<"wait", "frame">>, <<"load", Kill>>, <<"dir", "held">>, <<"load", Attack>>, <<"held", "attack">>}
    BY DEF StoreFlag, AfterQuery, Queried, Pause, Kill, Action, Attack
  <1>b. paused' \in BOOLEAN
    <2>1. paused \in BOOLEAN
      BY DEF InputInv, TypeOK
    <2> QED BY <2>1, Zenon DEF StoreFlag, AfterQuery
  <1>i. /\ in' \in InputStates /\ in'.held_dir = in.held_dir /\ in'.attack_held = in.attack_held
        /\ in'.hold_time = in.hold_time /\ in'.move_just_pressed = in.move_just_pressed
        /\ \A g \in Queried \ {f} : in'[g] = in[g]
    BY <1>t DEF InputInv, TypeOK, InputStates, Queried, Pause, Kill, Action, Attack
  <1>q. Kill \in Queried /\ Attack \in Queried /\ 0 \in 0 .. HOLD_THRESHOLD
    BY HoldAssumption DEF Queried
  <1>0. pc' \in Points /\ owed' \subseteq owed /\ late' \subseteq late
    BY <1>t, <1>p, <1>q DEF Points
  <1>1. TypeOK' /\ HeldIsDown'
    BY <1>t, <1>0, <1>b, <1>i, <1>q DEF InputInv, TypeOK, HeldIsDown
  <1>2. f \in owed' => f \in late' /\ ~in'[f]
    BY <1>t DEF InputInv, TypeOK, InputStates, Queried, Pause, Kill, Action, Attack, OwedSeen, Unseen
  <1>o. ASSUME NEW g \in owed', g # f
        PROVE  g \in Queried /\ (in'[g] <=> g \notin late')
    <2>1. g \in owed /\ g \in Queried /\ (g \in late' <=> g \in late) /\ pc # <<"store", g>>
      BY <1>t, <1>0, <1>o DEF InputInv, TypeOK
    <2>2. in[g] <=> g \notin late
      BY <2>1 DEF InputInv, PressKept, Unseen
    <2> QED BY <1>i, <1>o, <2>1, <2>2
  <1>n. pc'[1] # "store" /\ \A g : pc' # <<"store", g>>
    BY <1>p
  <1>3. PressKept' /\ OwedSeen'
    BY <1>n, <1>2, <1>o DEF PressKept, OwedSeen, Unseen
  <1>4. raced' \/ HoldsBack'
    <2>1. pc' \notin {<<"inc", "store">>, <<"dir", "return">>, <<"dir", "processed">>, <<"dir", "mark">>, <<"dir", "consume">>}
      BY <1>p
    <2> QED BY <1>t, <1>i, <2>1 DEF InputInv, HoldsBack
  <1> QED BY <1>1, <1>3, <1>4 DEF InputInv

(* input_get_direction: the press is consumed before it is answered. *)
LEMMA DirectionInv ==
  ASSUME InputInv, input_get_direction
  PROVE  InputInv'
  <1>t. /\ UNCHANGED <<local, paused, down, missed, owed, late, age, raced>> /\ pc[1] = "dir"
        /\ in \in InputStates /\ HOLD_THRESHOLD \in Nat /\ pc \in Points
        /\ early \in 0 .. MaxEarly /\ age \in 0 .. HOLD_THRESHOLD
    BY HoldAssumption DEF input_get_direction, keyboard, presses, InputInv, TypeOK
  <1>h. in.hold_time \in 0 .. HOLD_THRESHOLD /\ in.move_just_pressed \in BOOLEAN
    BY <1>t DEF InputStates
  <1>d. pc = <<"dir", pc[2]>>
    BY <1>t DEF Points
  (* What every step of it needs to show. *)
  <1>k. ASSUME pc' \in {<<"load", Action>>} \cup ({"dir"} \X {"just", "processed", "time", "mark", "consume", "return"}),
               in' \in InputStates, early' \in 0 .. MaxEarly,
               in'.held_dir = in.held_dir, in'.attack_held = in.attack_held, \A f \in Queried : in'[f] = in[f]
        PROVE  TypeOK' /\ HeldIsDown' /\ PressKept' /\ OwedSeen'
    <2>1. pc' \in Points
      BY <1>k DEF Points, Queried
    <2>2. TypeOK' /\ HeldIsDown'
      BY <1>t, <1>k, <2>1 DEF InputInv, TypeOK, HeldIsDown
    <2>3. PressKept' /\ OwedSeen'
      <3>1. pc'[1] # "store"
        BY <1>k
      <3> QED BY <1>t, <1>k, <3>1, PressesStay DEF presses
    <2> QED BY <2>2, <2>3
  <1>1. CASE pc[2] \in {"held", "just", "processed", "time"}
    <2>1. /\ UNCHANGED <<in, early>>
          /\ pc[2] = "held" => pc' \in {<<"load", Action>>, <<"dir", "just">>}
          /\ pc[2] = "just" => IF in.move_just_pressed THEN pc' = <<"dir", "processed">> ELSE pc' = <<"dir", "time">>
          /\ pc[2] = "processed" => pc' \in {<<"dir", "mark">>, <<"dir", "time">>}
          /\ pc[2] = "time" => IF in.hold_time >= HOLD_THRESHOLD THEN pc' = <<"dir", "return">> ELSE pc' = <<"load", Action>>
      BY <1>1 DEF input_get_direction, Answered
    <2>2. TypeOK' /\ HeldIsDown' /\ PressKept' /\ OwedSeen'
      BY <1>t, <1>k, <1>1, <2>1
    <2>3. ASSUME HoldsBack PROVE HoldsBack'
      BY <1>t, <1>h, <1>d, <1>1, <2>1, <2>3 DEF HoldsBack
    <2> QED BY <1>t, <2>2, <2>3 DEF InputInv
  <1>2. CASE pc[2] = "mark"
    <2>1. in' = [in EXCEPT !.move_processed = TRUE] /\ early' = early /\ pc' = <<"dir", "consume">>
      BY <1>2 DEF input_get_direction
    <2>2. /\ in' \in InputStates /\ in'.hold_time = in.hold_time /\ in'.held_dir = in.held_dir
          /\ in'.attack_held = in.attack_held /\ in'.move_just_pressed = in.move_just_pressed
          /\ \A f \in Queried : in'[f] = in[f]
      BY <1>t, <2>1 DEF InputStates, Queried, Pause, Kill, Action, Attack
    <2>3. TypeOK' /\ HeldIsDown' /\ PressKept' /\ OwedSeen'
      BY <1>t, <1>k, <2>1, <2>2
    <2>4. ASSUME HoldsBack PROVE HoldsBack'
      BY <1>t, <1>h, <1>d, <1>2, <2>1, <2>2, <2>4 DEF HoldsBack
    <2> QED BY <1>t, <2>3, <2>4 DEF InputInv
  <1>3. CASE pc[2] = "consume"
    <2>1. in' = [in EXCEPT !.move_just_pressed = FALSE] /\ early' = early /\ pc' = <<"dir", "return">>
      BY <1>3 DEF input_get_direction
    <2>2. /\ in' \in InputStates /\ in'.hold_time = in.hold_time /\ in'.held_dir = in.held_dir
          /\ in'.attack_held = in.attack_held /\ ~in'.move_just_pressed
          /\ \A f \in Queried : in'[f] = in[f]
      BY <1>t, <2>1 DEF InputStates, Queried, Pause, Kill, Action, Attack
    <2>3. TypeOK' /\ HeldIsDown' /\ PressKept' /\ OwedSeen'
      BY <1>t, <1>k, <2>1, <2>2
    <2>4. ASSUME HoldsBack PROVE HoldsBack'
      BY <1>t, <1>h, <1>d, <1>3, <2>1, <2>2, <2>4 DEF HoldsBack
    <2> QED BY <1>t, <2>3, <2>4 DEF InputInv
  <1>4. CASE pc[2] = "return"
    <2>1. /\ in' = in /\ pc' = <<"load", Action>>
          /\ early' = early \/ (age < HOLD_THRESHOLD /\ early < MaxEarly /\ early' = early + 1)
      BY <1>4 DEF input_get_direction, Answered
    <2>e. early' \in 0 .. MaxEarly
      BY <1>t, <2>1 DEF MaxEarly
    <2>2. TypeOK' /\ HeldIsDown' /\ PressKept' /\ OwedSeen'
      BY <1>t, <1>k, <2>1, <2>e
    <2>3. ASSUME HoldsBack PROVE HoldsBack'
      BY <1>t, <1>h, <1>d, <1>4, <2>1, <2>3 DEF HoldsBack
    <2> QED BY <1>t, <2>2, <2>3 DEF InputInv
  <1> QED BY <1>1, <1>2, <1>3, <1>4 DEF input_get_direction

(* A store of input_clear gives up the presses of its own field only. *)
LEMMA ClearFacts ==
  ASSUME NEW i \in InputStates, NEW c \in {ClearOrder[n] : n \in DOMAIN ClearOrder}
  PROVE  LET j == [i EXCEPT ![c] = NoInput[c]]
         IN /\ j \in InputStates
            /\ j.held_dir \in {DIR_NONE, i.held_dir} /\ j.hold_time \in {0, i.hold_time}
            /\ j.attack_held => i.attack_held
            /\ j.move_just_pressed => i.move_just_pressed
            /\ \A f \in Queried \ {c} : j[f] = i[f]
  <1>1. c \in {"direction", "held_dir", "move_just_pressed", "hold_time", "action_pressed",
               "attack_pressed", "attack_held", "pause_pressed", "move_processed"}
    BY DEF ClearOrder
  <1>2. NoInput \in InputStates
    BY HoldAssumption DEF NoInput, InputStates, DIR_NONE, Direction
  <1>3. [i EXCEPT ![c] = NoInput[c]] \in InputStates
    BY <1>1, <1>2 DEF InputStates
  <1>4. /\ NoInput.held_dir = DIR_NONE /\ NoInput.hold_time = 0 /\ ~NoInput.attack_held
        /\ ~NoInput.move_just_pressed
    BY DEF NoInput
  <1> QED BY <1>1, <1>3, <1>4 DEF InputStates, Queried, Pause, Kill, Action, Attack

LEMMA ClearInv ==
  ASSUME InputInv, ClearField
  PROVE  InputInv'
  <1>t. /\ UNCHANGED <<local, paused, down, missed, early, age, raced>> /\ pc[1] = "clear"
        /\ in \in InputStates /\ pc \in Points /\ age \in 0 .. HOLD_THRESHOLD
        /\ owed' = owed \ {pc[2]} /\ late' = late \ {pc[2]}
    BY DEF ClearField, keyboard, moves, InputInv, TypeOK
  <1>c. pc[2] \in {ClearOrder[n] : n \in DOMAIN ClearOrder}
    BY <1>t DEF Points
  <1>p. pc' \in Points /\ pc'[1] \in {"clear", "wait"}
    <2>1. PICK n \in DOMAIN ClearOrder :
            pc' = IF n < Len(ClearOrder) THEN <<"clear", ClearOrder[n + 1]>> ELSE <<"wait", "frame">>
      BY DEF ClearField
    <2>2. n < Len(ClearOrder) => n + 1 \in DOMAIN ClearOrder
      BY DEF ClearOrder
    <2> QED BY <2>1, <2>2 DEF Points
  <1>i. /\ in' \in InputStates
        /\ in'.held_dir \in {DIR_NONE, in.held_dir} /\ in'.hold_time \in {0, in.hold_time}
        /\ in'.attack_held => in.attack_held
        /\ in'.move_just_pressed => in.move_just_pressed
        /\ \A f \in Queried \ {pc[2]} : in'[f] = in[f]
    <2>1. in' = [in EXCEPT ![pc[2]] = NoInput[pc[2]]]
      BY DEF ClearField
    <2> DEFINE c == pc[2]
    <2>2. c \in {ClearOrder[n] : n \in DOMAIN ClearOrder}
      BY <1>c
    <2>3. LET j == [in EXCEPT ![c] = NoInput[c]]
          IN /\ j \in InputStates
             /\ j.held_dir \in {DIR_NONE, in.held_dir} /\ j.hold_time \in {0, in.hold_time}
             /\ j.attack_held => in.attack_held
             /\ j.move_just_pressed => in.move_just_pressed
             /\ \A f \in Queried \ {c} : j[f] = in[f]
      <3> HIDE DEF c
      <3> QED BY <1>t, <2>2, ClearFacts
    <2> QED BY <2>1, <2>3
  <1>1. TypeOK' /\ HeldIsDown'
    BY <1>t, <1>p, <1>i DEF InputInv, TypeOK, HeldIsDown
  <1>2. PressKept' /\ OwedSeen'
    <2>1. ASSUME NEW f \in owed' PROVE in'[f] <=> f \notin late'
      <3>1. f \in owed /\ f \in Queried \ {pc[2]} /\ (f \in late' <=> f \in late)
        BY <1>t DEF InputInv, TypeOK
      <3>2. in[f] <=> f \notin late
        BY <1>t, <3>1 DEF InputInv, PressKept, Unseen
      <3> QED BY <1>i, <3>1, <3>2
    <2>2. pc'[1] # "store" /\ \A f : pc' # <<"store", f>>
      BY <1>p
    <2> QED BY <2>1, <2>2 DEF PressKept, OwedSeen, Unseen
  <1>3. ASSUME HoldsBack PROVE HoldsBack'
    BY <1>t, <1>p, <1>i, <1>3 DEF HoldsBack
  <1> QED BY <1>t, <1>1, <1>2, <1>3 DEF InputInv

-----------------------------------------------------------------------------
(* The inductive step, one case for each action. *)
LEMMA StepInputInv ==
  ASSUME InputInv, [Next]_vars
  PROVE  InputInv'
  <1>1. CASE wait_for_next_frame \/ input_is_attack_held \/ StartClear
    <2>1. /\ UNCHANGED <<in, local, paused, down, missed, owed, late, early, age, raced>>
          /\ pc[1] \in {"wait", "held"}
          /\ pc' \in {<<"inc", "test">>, <<"wait", "frame">>, <<"clear", ClearOrder[1]>>}
      BY <1>1 DEF wait_for_next_frame, input_is_attack_held, StartClear, keyboard, presses, moves
    <2>2. 1 \in DOMAIN ClearOrder
      BY DEF ClearOrder
    <2>3. pc' \in Points
      BY <2>1, <2>2 DEF Points
    <2>4. pc'[1] \notin {"store", "dir"} /\ pc' # <<"inc", "store">>
      BY <2>1
    <2> QED BY <2>1, <2>3, <2>4, MovesOnInv
  <1>2. CASE Update
    BY <1>2, UpdateInv
  <1>3. CASE input_get_direction
    BY <1>3, DirectionInv
  <1>4. CASE \E f \in Queried : LoadFlag(f) \/ StoreFlag(f)
    BY <1>4, LoadInv, StoreInv
  <1>5. CASE ClearField
    BY <1>5, ClearInv
  <1>6. CASE KeyEvent
    BY <1>6, PressedInv, ReleasedInv, DroppedInv DEF KeyEvent
  <1>7. CASE UNCHANGED vars
    BY <1>7 DEF vars, InputInv, TypeOK, HeldIsDown, PressKept, OwedSeen, Unseen, HoldsBack
  <1> QED BY <1>1, <1>2, <1>3, <1>4, <1>5, <1>6, <1>7 DEF Next, LogicStep

LEMMA InputInvHolds == Spec => []InputInv
  BY InitInputInv, StepInputInv, PTL DEF Spec

(* For every set of keys, wherever the callback falls between the accesses *)
(* of input_is_pause_pressed and the three like it, and through pauses: a   *)
(* press that no query has reported is lost exactly when it came between   *)
(* the load and the store of a query that had found nothing, and every     *)
(* other one is latched or being reported.                                 *)
THEOREM PressesAreKept == Spec => []PressKept
  <1>1. InputInv => PressKept
    BY DEF InputInv
  <1> QED BY <1>1, InputInvHolds, PTL

(* What g_input calls held is down, whatever events the kernel drops       *)
(* (keyboard.c) and whichever fields input_clear has reached.              *)
THEOREM HeldKeysAreDown == Spec => []HeldIsDown
  <1>1. InputInv => HeldIsDown
    BY DEF InputInv
  <1> QED BY <1>1, InputInvHolds, PTL

(* input_get_direction answers a press with one move before HOLD_THRESHOLD *)
(* frames have passed, for every threshold.                                *)
THEOREM OneMove == Spec => []OneMovePerPress
  <1>1. InputInv => OneMovePerPress
    BY DEF InputInv, HoldsBack, OneMovePerPress
  <1> QED BY <1>1, InputInvHolds, PTL
=============================================================================
