---------------------------- MODULE SchedProofs ----------------------------
(***************************************************************************)
(* Proofs about the scheduler of module Sched, for every number of tasks,  *)
(* quantum and bound, and about the lists its queues are kept in, for      *)
(* heaps of any size: they stay circular and consistent in both            *)
(* directions, no NULL pointer is written through, and nothing outside the *)
(* operands' lists changes.                                                *)
(***************************************************************************)
EXTENDS Sched, TLAPS

-----------------------------------------------------------------------------
(* What list_add_tail does to a queue: one more member, still linked once. *)
LEMMA AppendFacts ==
  ASSUME NEW q \in Seq(Tasks), NEW t \in Tasks
  PROVE  /\ Append(q, t) \in Seq(Tasks)
         /\ Members(Append(q, t)) = Members(q) \cup {t}
         /\ Distinct(q) /\ t \notin Members(q) => Distinct(Append(q, t))
  <1>1. Append(q, t) \in Seq(Tasks)
    OBVIOUS
  <1>2. Members(Append(q, t)) = Members(q) \cup {t}
    <2>1. ASSUME NEW u \in Members(q) PROVE u \in Members(Append(q, t))
      BY DEF Members
    <2>2. t \in Members(Append(q, t))
      <3>1. Len(q) + 1 \in DOMAIN Append(q, t) /\ Append(q, t)[Len(q) + 1] = t
        OBVIOUS
      <3> QED BY <3>1 DEF Members
    <2>3. ASSUME NEW u \in Members(Append(q, t)) PROVE u \in Members(q) \cup {t}
      BY DEF Members
    <2> QED BY <2>1, <2>2, <2>3
  <1>3. ASSUME Distinct(q), t \notin Members(q)
        PROVE  Distinct(Append(q, t))
    BY <1>3 DEF Distinct, Members
  <1> QED BY <1>1, <1>2, <1>3

(* What draining one queue into another does: the members of both. *)
LEMMA ConcatFacts ==
  ASSUME NEW q \in Seq(Tasks), NEW r \in Seq(Tasks)
  PROVE  /\ q \o r \in Seq(Tasks)
         /\ Members(q \o r) = Members(q) \cup Members(r)
         /\ Distinct(q) /\ Distinct(r) /\ Members(q) \cap Members(r) = {} => Distinct(q \o r)
  <1>1. q \o r \in Seq(Tasks)
    OBVIOUS
  <1>2. Members(q \o r) = Members(q) \cup Members(r)
    <2>1. ASSUME NEW t \in Members(r) PROVE t \in Members(q \o r)
      <3>1. PICK i \in DOMAIN r : r[i] = t
        BY DEF Members
      <3>2. Len(q) + i \in DOMAIN (q \o r) /\ (q \o r)[Len(q) + i] = t
        BY <3>1
      <3> QED BY <3>2 DEF Members
    <2>2. ASSUME NEW t \in Members(q) PROVE t \in Members(q \o r)
      BY DEF Members
    <2>3. ASSUME NEW t \in Members(q \o r) PROVE t \in Members(q) \cup Members(r)
      BY DEF Members
    <2> QED BY <2>1, <2>2, <2>3
  <1>3. ASSUME Distinct(q), Distinct(r), Members(q) \cap Members(r) = {}
        PROVE  Distinct(q \o r)
    <2> SUFFICES ASSUME NEW i \in DOMAIN (q \o r), NEW j \in DOMAIN (q \o r),
                        (q \o r)[i] = (q \o r)[j], i <= j
                 PROVE  i = j
      BY DEF Distinct
    <2>1. CASE j <= Len(q)
      BY <1>3, <2>1 DEF Distinct
    <2>2. CASE i <= Len(q) /\ j > Len(q)
      <3>1. i \in DOMAIN q /\ (q \o r)[i] = q[i]
        BY <2>2
      <3>2. j - Len(q) \in DOMAIN r /\ (q \o r)[j] = r[j - Len(q)]
        BY <2>2
      <3> QED BY <1>3, <3>1, <3>2 DEF Members
    <2>3. CASE i > Len(q)
      <3>1. i - Len(q) \in DOMAIN r /\ (q \o r)[i] = r[i - Len(q)]
        BY <2>3
      <3>2. j - Len(q) \in DOMAIN r /\ (q \o r)[j] = r[j - Len(q)]
        BY <2>3
      <3>3. i - Len(q) = j - Len(q)
        BY <1>3, <3>1, <3>2 DEF Distinct
      <3> QED BY <3>3
    <2> QED BY <2>1, <2>2, <2>3
  <1> QED BY <1>1, <1>2, <1>3

(* What unlinking the head of a queue does. *)
LEMMA TailFacts ==
  ASSUME NEW q \in Seq(Tasks), q # <<>>
  PROVE  /\ Head(q) \in Tasks /\ Tail(q) \in Seq(Tasks)
         /\ Members(q) = Members(Tail(q)) \cup {Head(q)}
         /\ Distinct(q) => Distinct(Tail(q)) /\ Head(q) \notin Members(Tail(q))
  <1>1. Head(q) \in Tasks /\ Tail(q) \in Seq(Tasks)
    OBVIOUS
  <1>2. Members(q) = Members(Tail(q)) \cup {Head(q)}
    <2>1. ASSUME NEW t \in Members(q), t # Head(q) PROVE t \in Members(Tail(q))
      <3>1. PICK i \in DOMAIN q : q[i] = t
        BY DEF Members
      <3>2. i - 1 \in DOMAIN Tail(q) /\ Tail(q)[i - 1] = t
        BY <3>1, <2>1
      <3> QED BY <3>2 DEF Members
    <2>2. Head(q) \in Members(q)
      BY DEF Members
    <2>3. ASSUME NEW t \in Members(Tail(q)) PROVE t \in Members(q)
      BY DEF Members
    <2> QED BY <2>1, <2>2, <2>3
  <1>3. ASSUME Distinct(q) PROVE Distinct(Tail(q)) /\ Head(q) \notin Members(Tail(q))
    BY <1>3 DEF Distinct, Members
  <1> QED BY <1>1, <1>2, <1>3

(* A queue of tasks has only tasks as members. *)
LEMMA MembersType ==
  ASSUME NEW q \in Seq(Tasks)
  PROVE  Members(q) \subseteq Tasks
  BY DEF Members

(* What list_del leaves of a queue. *)
LEMMA WithoutFacts ==
  ASSUME NEW q \in Seq(Tasks), NEW S, NEW r \in Without(q, S)
  PROVE  /\ r \in Seq(Tasks) /\ Distinct(r)
         /\ Members(r) = Members(q) \ S
         /\ \A t, u : Before(r, t, u) => Before(q, t, u)
  <1>1. r \in Seq(Tasks)
    <2>1. PICK n \in 0 .. Len(q) : r \in [1 .. n -> Members(q) \ S]
      BY DEF Without
    <2>2. r \in [1 .. n -> Tasks] /\ n \in Nat
      BY <2>1, MembersType
    <2> QED BY <2>2
  <1> QED BY <1>1 DEF Without, Before

-----------------------------------------------------------------------------
(* The queues and the set run of running tasks partition the task_structs, *)
(* but for a parked idle, and st tells where each live task is.  Inside a  *)
(* handler run is {} between the moment the caller has been queued and the *)
(* dispatch of the next task.                                              *)
Placed(run, rq, bq, tq, fq, st) ==
  /\ rq \in Seq(Tasks) /\ bq \in Seq(Tasks) /\ tq \in Seq(Tasks) /\ fq \in Seq(Tasks)
  /\ Distinct(rq) /\ Distinct(bq) /\ Distinct(tq) /\ Distinct(fq)
  /\ \A t \in Tasks :
       /\ t \in Members(rq) => t \notin Members(bq) \cup Members(tq) \cup Members(fq) \cup run
       /\ t \in Members(bq) => t \notin Members(tq) \cup Members(fq) \cup run
       /\ t \in Members(tq) => t \notin Members(fq) \cup run
       /\ t \in Members(fq) => t \notin run
       /\ t # idle_task =>
            t \in Members(rq) \cup Members(bq) \cup Members(tq) \cup Members(fq) \cup run
  /\ idle_task \notin Members(bq) \cup Members(tq) \cup Members(fq)
  /\ st \in [Tasks -> Statuses]
  /\ \A t \in Tasks \ Members(fq) :
       /\ st[t] = ST_READY <=> t \in Members(rq)
       /\ st[t] = ST_BLOCKED <=> t \in Members(bq) \cup Members(tq)

PlacedNow == Placed({current_task}, readyqueue, blockedqueue, tick_blockedqueue, freequeue, status)

(* idle and init are two different task_structs. *)
LEMMA TasksFacts == idle_task \in Tasks /\ init_task \in Tasks /\ idle_task # init_task
  BY SchedConstants DEF Tasks, idle_task, init_task

(* The indices of the four queues, listed. *)
LEMMA QueueIndices == 1 .. 4 = {1, 2, 3, 4}
  OBVIOUS

(* The queued tasks are those on one of the four queues of sched.c. *)
LEMMA QueuedIs ==
  Queued = Members(readyqueue) \cup Members(blockedqueue) \cup Members(tick_blockedqueue)
             \cup Members(freequeue)
  BY QueueIndices DEF Queued, Queues

(* OnePlace without its indices, one conjunct for each queue and pair. *)
LEMMA OnePlaceIs ==
  OnePlace <=>
    /\ Distinct(readyqueue) /\ Distinct(blockedqueue)
    /\ Distinct(tick_blockedqueue) /\ Distinct(freequeue)
    /\ Members(readyqueue) \cap Members(blockedqueue) = {}
    /\ Members(readyqueue) \cap Members(tick_blockedqueue) = {}
    /\ Members(readyqueue) \cap Members(freequeue) = {}
    /\ Members(blockedqueue) \cap Members(tick_blockedqueue) = {}
    /\ Members(blockedqueue) \cap Members(freequeue) = {}
    /\ Members(tick_blockedqueue) \cap Members(freequeue) = {}
    /\ current_task \notin Queued
    /\ Tasks \ {idle_task, current_task} \subseteq Queued
    /\ idle_task \notin Members(blockedqueue)
    /\ idle_task \notin Members(tick_blockedqueue)
    /\ idle_task \notin Members(freequeue)
  BY QueueIndices DEF OnePlace, Queues

(* The invariant is Placed, with the running task, and the counters. *)
LEMMA SchedInvIs ==
  SchedInv <=>
    /\ PlacedNow
    /\ current_task \in Tasks
    /\ current_quantum \in 1 .. DEFAULT_QUANTUM
    /\ pending_unblocks \in [Tasks -> 0 .. MaxPending]
    /\ zeos_ticks \in 0 .. TickMod - 1
    /\ SleepersHaveNoPending
  <1>1. ASSUME TypeOK
        PROVE  OnePlace /\ StatusTellsQueue <=> PlacedNow
    <2>1. /\ Members(readyqueue) \subseteq Tasks /\ Members(blockedqueue) \subseteq Tasks
          /\ Members(tick_blockedqueue) \subseteq Tasks /\ Members(freequeue) \subseteq Tasks
      BY <1>1, MembersType DEF TypeOK
    <2> QED BY <1>1, <2>1, OnePlaceIs, QueuedIs DEF TypeOK, StatusTellsQueue, PlacedNow, Placed
  <1>2. PlacedNow =>
          /\ status \in [Tasks -> Statuses]
          /\ readyqueue \in Seq(Tasks) /\ blockedqueue \in Seq(Tasks)
          /\ tick_blockedqueue \in Seq(Tasks) /\ freequeue \in Seq(Tasks)
    BY DEF PlacedNow, Placed
  <1> QED BY <1>1, <1>2 DEF SchedInv, TypeOK
-----------------------------------------------------------------------------
(* sched_next_rr: from a state in which nothing runs and every task but a  *)
(* parked idle is queued, the dispatched task is the only one running.     *)
LEMMA Dispatch ==
  ASSUME NEW rq, NEW st,
         Placed({}, rq, blockedqueue', tick_blockedqueue', freequeue', st),
         sched_next_rr(rq, st)
  PROVE  /\ PlacedNow'
         /\ current_task' \in Tasks
         /\ current_quantum' \in 1 .. DEFAULT_QUANTUM
  <1>1. current_quantum' \in 1 .. DEFAULT_QUANTUM
    BY SchedConstants DEF sched_next_rr
  <1>2. CASE rq = <<>>
    <2>1. Members(rq) = {}
      BY <1>2 DEF Members
    <2> QED BY <1>1, <1>2, <2>1, TasksFacts DEF sched_next_rr, Placed, PlacedNow
  <1>3. CASE rq # <<>>
    <2>1. rq \in Seq(Tasks) /\ Distinct(rq)
      BY DEF Placed
    <2>2. /\ Head(rq) \in Tasks /\ Tail(rq) \in Seq(Tasks)
          /\ Members(rq) = Members(Tail(rq)) \cup {Head(rq)}
          /\ Distinct(Tail(rq)) /\ Head(rq) \notin Members(Tail(rq))
      BY <1>3, <2>1, TailFacts
    <2>3. current_task' = Head(rq) /\ readyqueue' = Tail(rq)
          /\ status' = [st EXCEPT ![Head(rq)] = ST_RUN]
      BY <1>3 DEF sched_next_rr
    <2>4. status' \in [Tasks -> Statuses]
      BY <2>2, <2>3 DEF Placed, Statuses
    <2> QED BY <1>1, <2>2, <2>3, <2>4 DEF Placed, PlacedNow, ST_RUN, ST_READY, ST_BLOCKED
  <1> QED BY <1>2, <1>3

(* needs_sched_rr and its outcomes keep the partition, entered with the    *)
(* running task either running or already queued as blocked.               *)
LEMMA Reschedules ==
  ASSUME NEW rq, NEW st,
         \/ /\ st[current_task] = ST_BLOCKED
            /\ Placed({}, rq, blockedqueue', tick_blockedqueue', freequeue', st)
         \/ /\ st[current_task] # ST_BLOCKED
            /\ Placed({current_task}, rq, blockedqueue', tick_blockedqueue', freequeue', st),
         current_task \in Tasks, current_quantum \in 1 .. DEFAULT_QUANTUM,
         Reschedule(rq, st)
  PROVE  /\ PlacedNow'
         /\ current_task' \in Tasks
         /\ current_quantum' \in 1 .. DEFAULT_QUANTUM
  <1>1. CASE st[current_task] = ST_BLOCKED
    BY <1>1, Dispatch DEF Reschedule
  <1>2. CASE st[current_task] # ST_BLOCKED /\ Preempt(rq, st)
    <2> DEFINE rq2 == Append(rq, current_task)
               st2 == [st EXCEPT ![current_task] = ST_READY]
    <2>1. rq \in Seq(Tasks) /\ Distinct(rq) /\ current_task \notin Members(rq)
      BY <1>2 DEF Placed
    <2>2. rq2 \in Seq(Tasks) /\ Distinct(rq2) /\ Members(rq2) = Members(rq) \cup {current_task}
      BY <2>1, AppendFacts
    <2>3. st2 \in [Tasks -> Statuses]
      BY <1>2 DEF Placed, Statuses
    <2>4. current_task \notin Members(freequeue') \cup Members(blockedqueue') \cup Members(tick_blockedqueue')
      BY <1>2 DEF Placed
    <2> HIDE DEF rq2
    <2>5. Placed({}, rq2, blockedqueue', tick_blockedqueue', freequeue', st2)
      BY <1>2, <2>2, <2>3, <2>4 DEF Placed, ST_READY, ST_BLOCKED
    <2> QED BY <1>2, <2>5, Dispatch DEF Preempt, rq2
  <1>3. CASE st[current_task] # ST_BLOCKED /\ KeepRunning(rq, st)
    <2>1. current_quantum' \in 1 .. DEFAULT_QUANTUM
      BY <1>3, SchedConstants DEF KeepRunning
    <2> QED BY <1>3, <2>1 DEF KeepRunning, PlacedNow
  <1> QED BY <1>1, <1>2, <1>3 DEF Reschedule

(* scheduler() drains tick_blockedqueue into the ready queue. *)
LEMMA Woken ==
  ASSUME NEW run, NEW bq, NEW fq, NEW st,
         Placed(run, readyqueue, bq, tick_blockedqueue, fq, st)
  PROVE  Placed(run, readyqueue \o tick_blockedqueue, bq, <<>>, fq, WokenStatus(st))
  <1> DEFINE rq == readyqueue \o tick_blockedqueue
             ws == WokenStatus(st)
  <1>1. /\ rq \in Seq(Tasks) /\ Distinct(rq)
        /\ Members(rq) = Members(readyqueue) \cup Members(tick_blockedqueue)
    <2>1. Members(readyqueue) \cap Members(tick_blockedqueue) = {}
      BY MembersType DEF Placed
    <2> QED BY <2>1, ConcatFacts DEF Placed
  <1>2. <<>> \in Seq(Tasks) /\ Distinct(<<>>) /\ Members(<<>>) = {}
    BY DEF Distinct, Members
  <1>3. ws \in [Tasks -> Statuses]
    BY DEF WokenStatus, Placed, Statuses
  <1>4. \A t \in Tasks : ws[t] = IF t \in Members(tick_blockedqueue) THEN ST_READY ELSE st[t]
    BY DEF WokenStatus
  <1> HIDE DEF rq, ws
  <1>5. Placed(run, rq, bq, <<>>, fq, ws)
    BY <1>1, <1>2, <1>3, <1>4 DEF Placed, ST_READY, ST_BLOCKED
  <1> QED BY <1>5 DEF rq, ws

(* scheduler() leaves every task in one place with the matching status, called
   by the running task or by one that has just blocked itself. *)
LEMMA SchedulerKeeps ==
  ASSUME NEW st,
         \/ /\ st[current_task] = ST_BLOCKED
            /\ Placed({}, readyqueue, blockedqueue', tick_blockedqueue, freequeue', st)
         \/ /\ st[current_task] # ST_BLOCKED
            /\ Placed({current_task}, readyqueue, blockedqueue', tick_blockedqueue, freequeue', st),
         current_task \in Tasks, current_task \notin Members(tick_blockedqueue),
         current_quantum \in 1 .. DEFAULT_QUANTUM,
         scheduler(st)
  PROVE  /\ PlacedNow'
         /\ current_task' \in Tasks
         /\ current_quantum' \in 1 .. DEFAULT_QUANTUM
  <1>1. WokenStatus(st)[current_task] = st[current_task]
    BY DEF WokenStatus
  <1>2. tick_blockedqueue' = <<>> /\ Reschedule(readyqueue \o tick_blockedqueue, WokenStatus(st))
    BY DEF scheduler
  <1> QED BY <1>1, <1>2, Woken, Reschedules

-----------------------------------------------------------------------------
(* init_queues, init_idle and init_task1 establish the inductive invariant. *)
LEMMA InitSchedInv == Init => SchedInv
  <1> SUFFICES ASSUME Init PROVE SchedInv
    OBVIOUS
  <1>1. <<>> \in Seq(Tasks) /\ Distinct(<<>>) /\ Members(<<>>) = {}
    BY DEF Distinct, Members
  <1>2. freequeue \in Seq(Tasks)
    BY SchedConstants DEF Init, Tasks
  <1>3. Distinct(freequeue) /\ Members(freequeue) = 2 .. NR_TASKS - 1
    <2>1. DOMAIN freequeue = 1 .. NR_TASKS - 2 /\ \A k \in 1 .. NR_TASKS - 2 : freequeue[k] = k + 1
      BY DEF Init
    <2>2. ASSUME NEW t \in 2 .. NR_TASKS - 1 PROVE t \in Members(freequeue)
      <3>1. t - 1 \in 1 .. NR_TASKS - 2 /\ (t - 1) + 1 = t
        BY SchedConstants
      <3>2. freequeue[t - 1] = t
        BY <3>1, <2>1
      <3> QED BY <3>1, <3>2, <2>1 DEF Members
    <2>3. Members(freequeue) \subseteq 2 .. NR_TASKS - 1
      BY <2>1, SchedConstants DEF Members
    <2>4. Distinct(freequeue)
      BY <2>1, SchedConstants DEF Distinct
    <2> QED BY <2>2, <2>3, <2>4
  <1>4. \A t \in Tasks : t \in 2 .. NR_TASKS - 1 \/ t = idle_task \/ t = init_task
    BY SchedConstants DEF Tasks, idle_task, init_task
  <1>5. idle_task \notin 2 .. NR_TASKS - 1 /\ init_task \notin 2 .. NR_TASKS - 1
    BY DEF idle_task, init_task
  <1>6. status \in [Tasks -> Statuses] /\ \A t \in Tasks : status[t] = ST_RUN
    BY DEF Init, Statuses
  <1>7. current_task = init_task /\ readyqueue = <<>> /\ blockedqueue = <<>> /\ tick_blockedqueue = <<>>
    BY DEF Init
  <1>8. PlacedNow
    BY <1>1, <1>2, <1>3, <1>4, <1>5, <1>6, <1>7 DEF PlacedNow, Placed, ST_RUN, ST_READY, ST_BLOCKED
  <1>9. /\ current_quantum \in 1 .. DEFAULT_QUANTUM
        /\ pending_unblocks \in [Tasks -> 0 .. MaxPending]
        /\ zeos_ticks \in 0 .. TickMod - 1
    BY SchedConstants DEF Init
  <1>10. SleepersHaveNoPending
    BY <1>1, <1>7 DEF SleepersHaveNoPending
  <1> QED BY <1>7, <1>8, <1>9, <1>10, TasksFacts, SchedInvIs

(* The same invariant in the next state. *)
LEMMA SchedInvNext ==
  ASSUME PlacedNow', current_task' \in Tasks, current_quantum' \in 1 .. DEFAULT_QUANTUM,
         (pending_unblocks \in [Tasks -> 0 .. MaxPending])',
         (zeos_ticks \in 0 .. TickMod - 1)', SleepersHaveNoPending'
  PROVE  SchedInv'
  <1>1. (SchedInv <=>
    /\ PlacedNow
    /\ current_task \in Tasks
    /\ current_quantum \in 1 .. DEFAULT_QUANTUM
    /\ pending_unblocks \in [Tasks -> 0 .. MaxPending]
    /\ zeos_ticks \in 0 .. TickMod - 1
    /\ SleepersHaveNoPending)'
    BY SchedInvIs, PTL
  <1> QED BY <1>1

(* Each handler preserves the invariant. *)
LEMMA StepSchedInv == SchedInv /\ [Next]_vars => SchedInv'
  <1> SUFFICES ASSUME SchedInv, [Next]_vars PROVE SchedInv'
    OBVIOUS
  <1>inv. /\ PlacedNow /\ current_task \in Tasks
          /\ current_quantum \in 1 .. DEFAULT_QUANTUM
          /\ pending_unblocks \in [Tasks -> 0 .. MaxPending]
          /\ zeos_ticks \in 0 .. TickMod - 1
          /\ \A t \in Members(blockedqueue) : pending_unblocks[t] = 0
    BY SchedInvIs DEF SleepersHaveNoPending
  <1>seq. /\ readyqueue \in Seq(Tasks) /\ blockedqueue \in Seq(Tasks)
          /\ tick_blockedqueue \in Seq(Tasks) /\ freequeue \in Seq(Tasks)
          /\ Distinct(readyqueue) /\ Distinct(blockedqueue)
          /\ Distinct(tick_blockedqueue) /\ Distinct(freequeue)
          /\ current_task \notin Members(readyqueue) /\ current_task \notin Members(blockedqueue)
          /\ current_task \notin Members(tick_blockedqueue) /\ current_task \notin Members(freequeue)
          /\ status \in [Tasks -> Statuses]
    BY <1>inv DEF PlacedNow, Placed
  <1>cur. status[current_task] # ST_BLOCKED
    BY <1>inv, <1>seq DEF PlacedNow, Placed
  <1>1. CASE clock_routine
    <2>1. PlacedNow' /\ current_task' \in Tasks /\ current_quantum' \in 1 .. DEFAULT_QUANTUM
      BY <1>1, <1>inv, <1>seq, <1>cur, SchedulerKeeps DEF clock_routine, PlacedNow
    <2>2. zeos_ticks' \in 0 .. TickMod - 1
      BY <1>1, <1>inv, SchedConstants DEF clock_routine
    <2> QED BY <1>1, <1>inv, <2>1, <2>2, SchedInvNext DEF clock_routine, SleepersHaveNoPending
  <1>2. CASE sys_block_pending
    <2>1. pending_unblocks' \in [Tasks -> 0 .. MaxPending]
      BY <1>2, <1>inv, SchedConstants DEF sys_block_pending
    <2>2. SleepersHaveNoPending'
      BY <1>2, <1>inv, <1>seq DEF sys_block_pending, SleepersHaveNoPending
    <2> QED BY <1>2, <1>inv, <2>1, <2>2, SchedInvNext DEF sys_block_pending, PlacedNow
  <1>3. CASE sys_block_sleep
    <2> DEFINE st == [status EXCEPT ![current_task] = ST_BLOCKED]
    <2>1. /\ blockedqueue' \in Seq(Tasks) /\ Distinct(blockedqueue')
          /\ Members(blockedqueue') = Members(blockedqueue) \cup {current_task}
      BY <1>3, <1>inv, <1>seq, AppendFacts DEF sys_block_sleep
    <2>2. st \in [Tasks -> Statuses]
      BY <1>seq DEF Statuses
    <2>3. Placed({}, readyqueue, blockedqueue', tick_blockedqueue, freequeue', st)
      BY <1>3, <1>inv, <1>seq, <2>1, <2>2
      DEF sys_block_sleep, PlacedNow, Placed, InUser, ST_READY, ST_BLOCKED
    <2>4. st[current_task] = ST_BLOCKED
      BY <1>inv, <1>seq
    <2>5. PlacedNow' /\ current_task' \in Tasks /\ current_quantum' \in 1 .. DEFAULT_QUANTUM
      BY <1>3, <1>inv, <1>seq, <2>3, <2>4, SchedulerKeeps DEF sys_block_sleep
    <2>6. SleepersHaveNoPending'
      BY <1>3, <1>inv, <2>1 DEF sys_block_sleep, SleepersHaveNoPending
    <2> QED BY <1>3, <1>inv, <2>5, <2>6, SchedInvNext DEF sys_block_sleep
  <1>4. CASE sys_waitfortick
    <2> DEFINE st == [status EXCEPT ![current_task] = ST_BLOCKED]
    <2>1. /\ tick_blockedqueue' \in Seq(Tasks) /\ Distinct(tick_blockedqueue')
          /\ Members(tick_blockedqueue') = Members(tick_blockedqueue) \cup {current_task}
      BY <1>4, <1>inv, <1>seq, AppendFacts DEF sys_waitfortick
    <2>2. st \in [Tasks -> Statuses]
      BY <1>seq DEF Statuses
    <2>3. Placed({}, readyqueue, blockedqueue', tick_blockedqueue', freequeue', st)
      BY <1>4, <1>inv, <1>seq, <2>1, <2>2
      DEF sys_waitfortick, PlacedNow, Placed, InUser, ST_READY, ST_BLOCKED
    <2>4. PlacedNow' /\ current_task' \in Tasks /\ current_quantum' \in 1 .. DEFAULT_QUANTUM
      BY <1>4, <2>3, Dispatch DEF sys_waitfortick
    <2> QED BY <1>4, <1>inv, <2>4, SchedInvNext DEF sys_waitfortick, SleepersHaveNoPending
  <1>5. ASSUME NEW c \in Tasks, sys_unblock_wake(c) PROVE SchedInv'
    <2>1. /\ blockedqueue' \in Seq(Tasks) /\ Distinct(blockedqueue')
          /\ Members(blockedqueue') = Members(blockedqueue) \ {c}
      BY <1>5, <1>seq, WithoutFacts DEF sys_unblock_wake
    <2>2. /\ tick_blockedqueue' \in Seq(Tasks) /\ Distinct(tick_blockedqueue')
          /\ Members(tick_blockedqueue') = Members(tick_blockedqueue) \ {c}
      BY <1>5, <1>seq, WithoutFacts DEF sys_unblock_wake
    <2>3. c \notin Members(readyqueue) /\ c \notin Members(freequeue) /\ c # current_task /\ c # idle_task
      BY <1>5, <1>inv DEF sys_unblock_wake, Live, PlacedNow, Placed, ST_READY, ST_BLOCKED
    <2>4. /\ readyqueue' \in Seq(Tasks) /\ Distinct(readyqueue')
          /\ Members(readyqueue') = Members(readyqueue) \cup {c}
      BY <1>5, <1>seq, <2>3, AppendFacts DEF sys_unblock_wake
    <2>5. status' \in [Tasks -> Statuses] /\ status' = [status EXCEPT ![c] = ST_READY]
      BY <1>5, <1>seq DEF sys_unblock_wake, Statuses
    <2>6. freequeue' = freequeue /\ current_task' = current_task
      BY <1>5 DEF sys_unblock_wake
    <2>7. PlacedNow'
      BY <1>inv, <1>seq, <2>1, <2>2, <2>3, <2>4, <2>5, <2>6
      DEF PlacedNow, Placed, ST_READY, ST_BLOCKED
    <2> QED BY <1>5, <1>inv, <2>1, <2>7, SchedInvNext DEF sys_unblock_wake, SleepersHaveNoPending
  <1>6. ASSUME NEW c \in Tasks, sys_unblock_pend(c) PROVE SchedInv'
    <2>1. pending_unblocks' \in [Tasks -> 0 .. MaxPending]
      BY <1>6, <1>inv, SchedConstants DEF sys_unblock_pend
    <2>2. c \notin Members(blockedqueue)
      BY <1>6, <1>inv DEF sys_unblock_pend, Live, PlacedNow, Placed
    <2>3. SleepersHaveNoPending'
      BY <1>6, <1>inv, <2>2 DEF sys_unblock_pend, SleepersHaveNoPending
    <2> QED BY <1>6, <1>inv, <2>1, <2>3, SchedInvNext DEF sys_unblock_pend, PlacedNow
  <1>7. CASE Spawn
    <2>1. /\ Head(freequeue) \in Tasks /\ freequeue' \in Seq(Tasks) /\ Distinct(freequeue')
          /\ Members(freequeue) = Members(freequeue') \cup {Head(freequeue)}
          /\ Head(freequeue) \notin Members(freequeue')
      BY <1>7, <1>seq, TailFacts DEF Spawn
    <2>2. Head(freequeue) \notin Members(readyqueue) /\ Head(freequeue) \notin Members(blockedqueue)
          /\ Head(freequeue) \notin Members(tick_blockedqueue) /\ Head(freequeue) # idle_task
      BY <1>inv, <2>1 DEF PlacedNow, Placed
    <2>3. /\ readyqueue' \in Seq(Tasks) /\ Distinct(readyqueue')
          /\ Members(readyqueue') = Members(readyqueue) \cup {Head(freequeue)}
      BY <1>7, <1>seq, <2>1, <2>2, AppendFacts DEF Spawn
    <2>4. status' \in [Tasks -> Statuses] /\ status' = [status EXCEPT ![Head(freequeue)] = ST_READY]
      BY <1>7, <1>seq DEF Spawn, Statuses
    <2>5. /\ blockedqueue' = blockedqueue /\ tick_blockedqueue' = tick_blockedqueue
          /\ current_task' = current_task
      BY <1>7 DEF Spawn
    <2>6. PlacedNow'
      BY <1>inv, <1>seq, <2>1, <2>2, <2>3, <2>4, <2>5
      DEF PlacedNow, Placed, ST_READY, ST_BLOCKED
    <2>7. pending_unblocks' \in [Tasks -> 0 .. MaxPending]
      BY <1>7, <1>inv, <2>1, SchedConstants DEF Spawn
    <2>8. SleepersHaveNoPending'
      BY <1>7, <1>inv, <2>2 DEF Spawn, SleepersHaveNoPending
    <2> QED BY <1>7, <1>inv, <2>6, <2>7, <2>8, SchedInvNext DEF Spawn
  <1>8. CASE SpawnFails
    <2> DEFINE h == Head(freequeue)
    <2>1. /\ h \in Tasks /\ Tail(freequeue) \in Seq(Tasks) /\ Distinct(Tail(freequeue))
          /\ Members(freequeue) = Members(Tail(freequeue)) \cup {h}
          /\ h \notin Members(Tail(freequeue))
      BY <1>8, <1>seq, TailFacts DEF SpawnFails
    <2>2. freequeue' \in Seq(Tasks) /\ Distinct(freequeue') /\ Members(freequeue') = Members(freequeue)
      BY <1>8, <2>1, AppendFacts DEF SpawnFails
    <2>3. h \notin Members(blockedqueue)
      BY <1>inv, <2>1 DEF PlacedNow, Placed
    <2>4. status' \in [Tasks -> Statuses] /\ \A t \in Tasks \ {h} : status'[t] = status[t]
      BY <1>8, <1>inv, <1>seq, <2>1 DEF SpawnFails, Statuses
    <2>5. /\ blockedqueue' = blockedqueue /\ tick_blockedqueue' = tick_blockedqueue
          /\ readyqueue' = readyqueue /\ current_task' = current_task
      BY <1>8 DEF SpawnFails
    <2>6. PlacedNow'
      BY <1>inv, <1>seq, <2>1, <2>2, <2>4, <2>5 DEF PlacedNow, Placed
    <2>7. /\ pending_unblocks' \in [Tasks -> 0 .. MaxPending]
          /\ \A t \in Tasks \ {h} : pending_unblocks'[t] = pending_unblocks[t]
      BY <1>8, <1>inv, <2>1, SchedConstants DEF SpawnFails
    <2>8. SleepersHaveNoPending'
      BY <1>inv, <1>seq, <2>3, <2>5, <2>7, MembersType DEF SleepersHaveNoPending
    <2> QED BY <1>8, <1>inv, <2>6, <2>7, <2>8, SchedInvNext DEF SpawnFails
  <1>9. ASSUME NEW sq \in Siblings, Exit(sq) PROVE SchedInv'
    <2>1. /\ sq \in Seq(Tasks) /\ Distinct(sq)
          /\ \A t \in Members(sq) : t \notin Members(freequeue) /\ t # idle_task /\ t # current_task
      BY DEF Siblings, Live, Members
    <2>2. /\ freequeue \o sq \in Seq(Tasks) /\ Distinct(freequeue \o sq)
          /\ Members(freequeue \o sq) = Members(freequeue) \cup Members(sq)
      BY <1>seq, <2>1, ConcatFacts
    <2>3. /\ freequeue' \in Seq(Tasks) /\ Distinct(freequeue')
          /\ Members(freequeue') = Members(freequeue) \cup Members(sq) \cup {current_task}
      BY <1>9, <1>inv, <1>seq, <2>1, <2>2, AppendFacts DEF Exit
    <2>4. /\ blockedqueue' \in Seq(Tasks) /\ Distinct(blockedqueue')
          /\ Members(blockedqueue') = Members(blockedqueue) \ Members(sq)
      BY <1>9, <1>seq, WithoutFacts DEF Exit
    <2>5. /\ tick_blockedqueue' \in Seq(Tasks) /\ Distinct(tick_blockedqueue')
          /\ Members(tick_blockedqueue') = Members(tick_blockedqueue) \ Members(sq)
      BY <1>9, <1>seq, WithoutFacts DEF Exit
    <2>6. PICK rq \in Without(readyqueue, Members(sq)) : sched_next_rr(rq, status)
      BY <1>9 DEF Exit
    <2>7. rq \in Seq(Tasks) /\ Distinct(rq) /\ Members(rq) = Members(readyqueue) \ Members(sq)
      BY <1>seq, <2>6, WithoutFacts
    <2>8. Placed({}, rq, blockedqueue', tick_blockedqueue', freequeue', status)
      BY <1>9, <1>inv, <1>seq, <2>1, <2>3, <2>4, <2>5, <2>7 DEF Exit, InUser, PlacedNow, Placed
    <2>9. PlacedNow' /\ current_task' \in Tasks /\ current_quantum' \in 1 .. DEFAULT_QUANTUM
      BY <2>6, <2>8, Dispatch
    <2> QED BY <1>9, <1>inv, <2>4, <2>9, SchedInvNext DEF Exit, SleepersHaveNoPending
  <1>10. CASE UNCHANGED vars
    BY <1>10, <1>inv, SchedInvNext DEF vars, PlacedNow, SleepersHaveNoPending
  <1> QED BY <1>1, <1>2, <1>3, <1>4, <1>5, <1>6, <1>7, <1>8, <1>9, <1>10 DEF Next

(* Every reachable state of the scheduler is well typed, every task_struct *)
(* is in exactly one place, status tells which, no sleeper has a pending   *)
(* unblock and a dispatched task has ticks left: sched.c and sys.c, for    *)
(* any number of tasks.                                                    *)
THEOREM SchedSafe == Spec => []SchedInv
  BY InitSchedInv, StepSchedInv, PTL DEF Spec

-----------------------------------------------------------------------------
(* Queue r keeps the order of queue q: whatever is ahead, in r, of a task  *)
(* of q was ahead of it in q.                                              *)
KeepsOrder(q, r) ==
  \A t \in Members(q) \cap Members(r), u \in Tasks : Before(r, u, t) => Before(q, u, t)

(* Adding the woken tick waiters at the tail lets none of them pass. *)
LEMMA ConcatKeepsOrder ==
  ASSUME NEW q \in Seq(Tasks), NEW r \in Seq(Tasks), Members(q) \cap Members(r) = {}
  PROVE  KeepsOrder(q, q \o r)
  <1> SUFFICES ASSUME NEW t \in Members(q), NEW u \in Tasks, Before(q \o r, u, t)
               PROVE  Before(q, u, t)
    BY DEF KeepsOrder
  <1>1. PICK i, j \in DOMAIN (q \o r) : i < j /\ (q \o r)[i] = u /\ (q \o r)[j] = t
    BY DEF Before
  <1>2. j <= Len(q)
    BY <1>1 DEF Members
  <1> QED BY <1>1, <1>2 DEF Before

(* Neither does list_add_tail of one task. *)
LEMMA AppendKeepsOrder ==
  ASSUME NEW q \in Seq(Tasks), NEW r \in Seq(Tasks), NEW x \in Tasks,
         KeepsOrder(q, r), x \notin Members(q)
  PROVE  KeepsOrder(q, Append(r, x))
  <1> SUFFICES ASSUME NEW t \in Members(q), NEW u \in Tasks, Before(Append(r, x), u, t)
               PROVE  Before(q, u, t)
    BY DEF KeepsOrder
  <1>1. PICK i, j \in DOMAIN Append(r, x) : i < j /\ Append(r, x)[i] = u /\ Append(r, x)[j] = t
    BY DEF Before
  <1>2. j <= Len(r)
    BY <1>1
  <1>3. i \in DOMAIN r /\ j \in DOMAIN r /\ r[i] = u /\ r[j] = t
    BY <1>1, <1>2
  <1>4. Before(r, u, t) /\ t \in Members(r)
    BY <1>1, <1>3 DEF Before, Members
  <1> QED BY <1>4 DEF KeepsOrder

(* The head is ahead of all others, and taking it keeps their order. *)
LEMMA TailOrder ==
  ASSUME NEW q \in Seq(Tasks), q # <<>>, NEW t \in Members(Tail(q))
  PROVE  /\ Before(q, Head(q), t)
         /\ \A u \in Tasks : Before(Tail(q), u, t) => Before(q, u, t)
  <1>1. Before(q, Head(q), t)
    <2>1. PICK i \in DOMAIN Tail(q) : Tail(q)[i] = t
      BY DEF Members
    <2>2. i + 1 \in DOMAIN q /\ 1 \in DOMAIN q /\ q[i + 1] = t /\ q[1] = Head(q) /\ 1 < i + 1
      BY <2>1
    <2> QED BY <2>2 DEF Before
  <1>2. ASSUME NEW u \in Tasks, Before(Tail(q), u, t) PROVE Before(q, u, t)
    <2>1. PICK i, j \in DOMAIN Tail(q) : i < j /\ Tail(q)[i] = u /\ Tail(q)[j] = t
      BY <1>2 DEF Before
    <2>2. /\ i + 1 \in DOMAIN q /\ j + 1 \in DOMAIN q /\ i + 1 < j + 1
          /\ q[i + 1] = u /\ q[j + 1] = t
      BY <2>1
    <2> QED BY <2>2 DEF Before
  <1> QED BY <1>1, <1>2

NoOvertakingStep ==
  \A t \in Members(readyqueue) \cap Members(readyqueue)', u \in Tasks :
    (Before(readyqueue, u, t)' \/ (u = current_task' /\ u # current_task))
      => Before(readyqueue, u, t)

(* sched_next_rr dispatches the head, so nothing overtakes. *)
LEMMA DispatchOrder ==
  ASSUME NEW rq \in Seq(Tasks), NEW st, KeepsOrder(readyqueue, rq), sched_next_rr(rq, st)
  PROVE  NoOvertakingStep
  <1>1. CASE rq = <<>>
    BY <1>1 DEF sched_next_rr, NoOvertakingStep, Members
  <1>2. CASE rq # <<>>
    <2>1. current_task' = Head(rq) /\ readyqueue' = Tail(rq)
      BY <1>2 DEF sched_next_rr
    <2> SUFFICES ASSUME NEW t \in Members(readyqueue) \cap Members(Tail(rq)), NEW u \in Tasks,
                        Before(Tail(rq), u, t) \/ u = Head(rq)
                 PROVE  Before(readyqueue, u, t)
      BY <2>1 DEF NoOvertakingStep
    <2>2. t \in Members(rq) /\ Before(rq, u, t)
      BY <1>2, TailFacts, TailOrder
    <2> QED BY <2>2 DEF KeepsOrder
  <1> QED BY <1>1, <1>2

(* A step that keeps the running task and the queue order lets nothing pass. *)
LEMMA KeepOrder ==
  ASSUME KeepsOrder(readyqueue, readyqueue'), current_task' = current_task
  PROVE  NoOvertakingStep
  BY DEF KeepsOrder, NoOvertakingStep

(* The tail of scheduler(), whichever way it goes, lets nothing pass. *)
LEMMA RescheduleOrder ==
  ASSUME NEW rq \in Seq(Tasks), NEW st, KeepsOrder(readyqueue, rq), current_task \in Tasks,
         readyqueue \in Seq(Tasks), current_task \notin Members(readyqueue), Reschedule(rq, st)
  PROVE  NoOvertakingStep
  <1>1. CASE sched_next_rr(rq, st)
    BY <1>1, DispatchOrder
  <1>2. CASE Preempt(rq, st)
    <2>1. Append(rq, current_task) \in Seq(Tasks)
      OBVIOUS
    <2>2. KeepsOrder(readyqueue, Append(rq, current_task))
      BY AppendKeepsOrder
    <2> QED BY <1>2, <2>1, <2>2, DispatchOrder DEF Preempt
  <1>3. CASE KeepRunning(rq, st)
    BY <1>3, KeepOrder DEF KeepRunning
  <1> QED BY <1>1, <1>2, <1>3 DEF Reschedule

(* No step of the system lets a task pass one that stays ready. *)
LEMMA StepNoOvertaking == SchedInv /\ [Next]_vars => NoOvertakingStep
  <1> SUFFICES ASSUME SchedInv, [Next]_vars PROVE NoOvertakingStep
    OBVIOUS
  <1>seq. /\ readyqueue \in Seq(Tasks) /\ tick_blockedqueue \in Seq(Tasks)
          /\ freequeue \in Seq(Tasks) /\ current_task \in Tasks
          /\ current_task \notin Members(readyqueue)
          /\ \A t \in Members(readyqueue) :
               t \notin Members(tick_blockedqueue) /\ t \notin Members(freequeue) /\ status[t] = ST_READY
    BY SchedInvIs, MembersType DEF PlacedNow, Placed
  <1>same. KeepsOrder(readyqueue, readyqueue)
    BY DEF KeepsOrder
  <1>woken. /\ readyqueue \o tick_blockedqueue \in Seq(Tasks)
            /\ KeepsOrder(readyqueue, readyqueue \o tick_blockedqueue)
    BY <1>seq, ConcatFacts, ConcatKeepsOrder
  <1>1. CASE clock_routine \/ sys_block_sleep
    BY <1>1, <1>seq, <1>woken, RescheduleOrder DEF clock_routine, sys_block_sleep, scheduler
  <1>2. CASE sys_waitfortick
    BY <1>2, <1>seq, <1>same, DispatchOrder DEF sys_waitfortick
  <1>3. ASSUME NEW c \in Tasks, sys_unblock_wake(c) PROVE NoOvertakingStep
    <2>1. c \notin Members(readyqueue)
      BY <1>3, <1>seq DEF sys_unblock_wake, ST_READY, ST_BLOCKED
    <2> QED BY <1>3, <2>1, <1>seq, <1>same, AppendKeepsOrder, KeepOrder DEF sys_unblock_wake
  <1>4. CASE Spawn
    <2>1. Head(freequeue) \in Tasks /\ Head(freequeue) \in Members(freequeue)
      BY <1>4, <1>seq, TailFacts DEF Spawn
    <2> QED BY <1>4, <2>1, <1>seq, <1>same, AppendKeepsOrder, KeepOrder DEF Spawn
  <1>5. ASSUME NEW sq \in Siblings, Exit(sq) PROVE NoOvertakingStep
    <2>1. PICK rq \in Without(readyqueue, Members(sq)) : sched_next_rr(rq, status)
      BY <1>5 DEF Exit
    <2>2. rq \in Seq(Tasks) /\ KeepsOrder(readyqueue, rq)
      BY <1>seq, <2>1, WithoutFacts DEF KeepsOrder
    <2> QED BY <2>1, <2>2, DispatchOrder
  <1>6. ASSUME readyqueue' = readyqueue, current_task' = current_task PROVE NoOvertakingStep
    BY <1>6, <1>same, KeepOrder
  <1>7. CASE sys_block_pending \/ SpawnFails \/ UNCHANGED vars \/ \E c \in Tasks : sys_unblock_pend(c)
    BY <1>7, <1>6 DEF sys_block_pending, SpawnFails, vars, sys_unblock_pend
  <1> QED BY <1>1, <1>2, <1>3, <1>4, <1>5, <1>7 DEF Next

(* Round robin for any number of tasks: no step of sched.c or sys.c lets a *)
(* task pass one that is and stays ready.                                  *)
THEOREM RoundRobin == Spec => NoOvertaking
  <1>1. SchedInv /\ [Next]_vars => [NoOvertakingStep]_vars
    BY StepNoOvertaking
  <1>2. NoOvertaking <=> [][NoOvertakingStep]_vars
    BY PTL DEF NoOvertaking, NoOvertakingStep
  <1> QED BY InitSchedInv, StepSchedInv, <1>1, <1>2, PTL DEF Spec
-----------------------------------------------------------------------------
BlockedStep ==
  \A t \in Members(blockedqueue) \ Members(blockedqueue)' :
    \/ t \in Members(freequeue)'
    \/ readyqueue' = Append(readyqueue, t) /\ zeos_ticks' = zeos_ticks

(* Only sys_unblock and the death of the process take a sleeper out. *)
LEMMA StepBlocked == SchedInv /\ [Next]_vars => BlockedStep
  <1> SUFFICES ASSUME SchedInv, [Next]_vars PROVE BlockedStep
    OBVIOUS
  <1>seq. blockedqueue \in Seq(Tasks) /\ freequeue \in Seq(Tasks) /\ current_task \in Tasks
    BY DEF SchedInv, TypeOK
  <1>1. ASSUME Members(blockedqueue) \subseteq Members(blockedqueue') PROVE BlockedStep
    BY <1>1 DEF BlockedStep
  <1>2. CASE \/ clock_routine \/ sys_waitfortick \/ sys_block_pending \/ Spawn \/ SpawnFails
             \/ UNCHANGED vars \/ \E c \in Tasks : sys_unblock_pend(c)
    BY <1>1, <1>2 DEF clock_routine, sys_waitfortick, sys_block_pending, Spawn, SpawnFails, vars,
                      sys_unblock_pend
  <1>3. CASE sys_block_sleep
    <2>1. Members(Append(blockedqueue, current_task)) = Members(blockedqueue) \cup {current_task}
      BY <1>seq, AppendFacts
    <2> QED BY <1>1, <1>3, <2>1 DEF sys_block_sleep
  <1>4. ASSUME NEW c \in Tasks, sys_unblock_wake(c) PROVE BlockedStep
    <2>1. Members(blockedqueue') = Members(blockedqueue) \ {c}
      BY <1>4, <1>seq, WithoutFacts DEF sys_unblock_wake
    <2> QED BY <1>4, <2>1 DEF sys_unblock_wake, BlockedStep
  <1>5. ASSUME NEW sq \in Siblings, Exit(sq) PROVE BlockedStep
    <2>1. sq \in Seq(Tasks)
      BY DEF Siblings
    <2>2. Members(blockedqueue') = Members(blockedqueue) \ Members(sq)
      BY <1>5, <1>seq, WithoutFacts DEF Exit
    <2>3. freequeue \o sq \in Seq(Tasks) /\ Members(sq) \subseteq Members(freequeue \o sq)
      BY <1>seq, <2>1, ConcatFacts
    <2>4. Members(sq) \subseteq Members(freequeue')
      <3>1. freequeue' = Append(freequeue \o sq, current_task)
        BY <1>5, Zenon DEF Exit
      <3>2. Members(freequeue') = Members(freequeue \o sq) \cup {current_task}
        BY <1>seq, <2>3, <3>1, AppendFacts, Zenon
      <3> QED BY <2>3, <3>2
    <2> QED BY <2>2, <2>4 DEF BlockedStep
  <1> QED BY <1>2, <1>3, <1>4, <1>5 DEF Next

(* A sleeper in blockedqueue is woken by sys_unblock alone, whatever the   *)
(* clock, forks and dispatches do meanwhile, for any number of tasks.      *)
THEOREM SleepersWait == Spec => BlockedUntilUnblocked
  <1>1. SchedInv /\ [Next]_vars => [BlockedStep]_vars
    BY StepBlocked
  <1>2. BlockedUntilUnblocked <=> [][BlockedStep]_vars
    BY PTL DEF BlockedUntilUnblocked, BlockedStep
  <1> QED BY InitSchedInv, StepSchedInv, <1>1, <1>2, PTL DEF Spec

-----------------------------------------------------------------------------
(* The operations of list.c. *)
INSTANCE ListHead

(* A heap over a set N of nodes that has NULL among them. *)
Heap(N) == [next : [N -> N], prev : [N -> N], wild : BOOLEAN]

(* list_add_tail keeps lists linked: a new node joins the lists of L in    *)
(* front of head, as the last element of head's list, and no pointer of    *)
(* another node changes.                                                   *)
THEOREM AddTailLinks ==
  ASSUME NEW N, NULL \in N, NEW h \in Heap(N), NEW L \in SUBSET (N \ {NULL}),
         WellLinked(h, L), NEW head \in L, NEW new \in N \ (L \cup {NULL})
  PROVE  LET g == list_add_tail(h, new, head)
         IN /\ g \in Heap(N) /\ g.wild = h.wild
            /\ WellLinked(g, L \cup {new})
            /\ g.prev[head] = new /\ g.prev[new] = h.prev[head]
            /\ \A n \in N \ {new, h.prev[head]} : g.next[n] = h.next[n]
            /\ \A n \in N \ {new, head} : g.prev[n] = h.prev[n]
  <1> DEFINE prv == h.prev[head]
             g == list_add_tail(h, new, head)
  <1>1. prv \in L /\ prv # NULL /\ head # NULL /\ h.next[prv] = head
    BY DEF WellLinked
  <1>2. h.next \in [N -> N] /\ h.prev \in [N -> N] /\ h.wild \in BOOLEAN
    BY DEF Heap
  <1>3. /\ g.next = [h.next EXCEPT ![new] = head, ![prv] = new]
        /\ g.prev = [h.prev EXCEPT ![head] = new, ![new] = prv]
        /\ g.wild = (h.wild \/ prv = NULL \/ head = NULL)
    BY DEF list_add_tail, list_add_between
  <1>4. g = [next |-> g.next, prev |-> g.prev, wild |-> g.wild]
    BY DEF list_add_tail, list_add_between
  <1> HIDE DEF g
  <1>5. g \in Heap(N) /\ g.wild = h.wild
    BY <1>1, <1>2, <1>3, <1>4 DEF Heap
  <1>6. /\ \A n \in N \ {new, prv} : g.next[n] = h.next[n]
        /\ \A n \in N \ {new, head} : g.prev[n] = h.prev[n]
        /\ g.next[new] = head /\ g.next[prv] = new
        /\ g.prev[head] = new /\ g.prev[new] = prv
    BY <1>1, <1>2, <1>3
  <1>7. WellLinked(g, L \cup {new})
    <2> SUFFICES ASSUME NEW n \in L \cup {new}
                 PROVE  /\ g.next[n] \in L \cup {new} /\ g.prev[g.next[n]] = n
                        /\ g.prev[n] \in L \cup {new} /\ g.next[g.prev[n]] = n
      BY DEF WellLinked
    <2>1. CASE n = new
      BY <2>1, <1>1, <1>6
    <2>2. CASE n # new
      <3>1. /\ n \in L /\ n \in N
            /\ h.next[n] \in L /\ h.prev[h.next[n]] = n
            /\ h.prev[n] \in L /\ h.next[h.prev[n]] = n
        BY <2>2 DEF WellLinked
      <3>2. n # prv => h.next[n] # head
        BY <3>1
      <3>3. n # head => h.prev[n] # prv
        BY <3>1, <1>1
      <3> QED BY <2>2, <3>1, <3>2, <3>3, <1>1, <1>6
    <2> QED BY <2>1, <2>2
  <1> QED BY <1>5, <1>6, <1>7 DEF g

(* list_del keeps lists linked: the entry leaves, its neighbours meet, its *)
(* own pointers are NULL, and no pointer of another node changes.          *)
THEOREM DelLinks ==
  ASSUME NEW N, NULL \in N, NEW h \in Heap(N), NEW L \in SUBSET (N \ {NULL}),
         WellLinked(h, L), NEW entry \in L
  PROVE  LET g == list_del(h, entry)
         IN /\ g \in Heap(N) /\ g.wild = h.wild
            /\ WellLinked(g, L \ {entry})
            /\ g.next[entry] = NULL /\ g.prev[entry] = NULL
            /\ \A n \in N \ {entry, h.prev[entry]} : g.next[n] = h.next[n]
            /\ \A n \in N \ {entry, h.next[entry]} : g.prev[n] = h.prev[n]
  <1> DEFINE prv == h.prev[entry]
             nxt == h.next[entry]
             g == list_del(h, entry)
  <1>1. /\ prv \in L /\ nxt \in L /\ prv # NULL /\ nxt # NULL
        /\ h.next[prv] = entry /\ h.prev[nxt] = entry
    BY DEF WellLinked
  <1>2. h.next \in [N -> N] /\ h.prev \in [N -> N] /\ h.wild \in BOOLEAN
    BY DEF Heap
  <1>3. /\ g.next = [h.next EXCEPT ![prv] = nxt, ![entry] = NULL]
        /\ g.prev = [h.prev EXCEPT ![nxt] = prv, ![entry] = NULL]
        /\ g.wild = (h.wild \/ prv = NULL \/ nxt = NULL)
    BY DEF list_del
  <1>4. g = [next |-> g.next, prev |-> g.prev, wild |-> g.wild]
    BY DEF list_del
  <1> HIDE DEF g
  <1>5. g \in Heap(N) /\ g.wild = h.wild
    BY <1>1, <1>2, <1>3, <1>4 DEF Heap
  <1>6. /\ \A n \in N \ {entry, prv} : g.next[n] = h.next[n]
        /\ \A n \in N \ {entry, nxt} : g.prev[n] = h.prev[n]
        /\ g.next[entry] = NULL /\ g.prev[entry] = NULL
        /\ prv # entry => g.next[prv] = nxt
        /\ nxt # entry => g.prev[nxt] = prv
    BY <1>1, <1>2, <1>3
  <1>7. WellLinked(g, L \ {entry})
    <2> SUFFICES ASSUME NEW n \in L \ {entry}
                 PROVE  /\ g.next[n] \in L \ {entry} /\ g.prev[g.next[n]] = n
                        /\ g.prev[n] \in L \ {entry} /\ g.next[g.prev[n]] = n
      BY DEF WellLinked
    <2>1. /\ n \in N /\ h.next[n] \in L /\ h.prev[h.next[n]] = n
          /\ h.prev[n] \in L /\ h.next[h.prev[n]] = n
      BY DEF WellLinked
    <2>2. n # prv => h.next[n] # entry /\ h.next[n] # nxt
      BY <2>1, <1>1
    <2>3. n # nxt => h.prev[n] # entry /\ h.prev[n] # prv
      BY <2>1, <1>1
    <2>4. n = prv => nxt # entry /\ n # entry
      BY <1>1
    <2>5. n = nxt => prv # entry
      BY <1>1
    <2>6. g.next[n] \in L \ {entry} /\ g.prev[g.next[n]] = n
      BY <2>1, <2>2, <2>4, <1>1, <1>6
    <2>7. g.prev[n] \in L \ {entry} /\ g.next[g.prev[n]] = n
      BY <2>1, <2>3, <2>5, <1>1, <1>6
    <2> QED BY <2>6, <2>7
  <1> QED BY <1>5, <1>6, <1>7 DEF g

(* INIT_LIST_HEAD makes a node outside the lists of L a list of its own.   *)
THEOREM InitLinks ==
  ASSUME NEW N, NEW h \in Heap(N), NEW L \in SUBSET N,
         WellLinked(h, L), NEW n \in N \ L
  PROVE  LET g == INIT_LIST_HEAD(h, n)
         IN g \in Heap(N) /\ g.wild = h.wild /\ WellLinked(g, L \cup {n}) /\ list_empty(g, n)
  <1> DEFINE g == INIT_LIST_HEAD(h, n)
  <1>1. h.next \in [N -> N] /\ h.prev \in [N -> N]
    BY DEF Heap
  <1>2. g.next = [h.next EXCEPT ![n] = n] /\ g.prev = [h.prev EXCEPT ![n] = n] /\ g.wild = h.wild
    BY DEF INIT_LIST_HEAD, Heap
  <1>3. g \in Heap(N)
    BY <1>1 DEF INIT_LIST_HEAD, Heap
  <1> HIDE DEF g
  <1>4. \A m \in L : g.next[m] = h.next[m] /\ g.prev[m] = h.prev[m]
    BY <1>1, <1>2
  <1>5. g.next[n] = n /\ g.prev[n] = n
    BY <1>1, <1>2
  <1>6. WellLinked(g, L \cup {n})
    BY <1>4, <1>5 DEF WellLinked
  <1> QED BY <1>2, <1>3, <1>5, <1>6 DEF list_empty, g
=============================================================================
