---------------------------- MODULE KernelProofs ----------------------------
(***************************************************************************)
(* Theorems about the kernel, for any number of tasks, mutexes and         *)
(* devices, any periods and any width of the clock: its invariant, that it *)
(* implements PriorityScheduler, and the highest-locker protocol.          *)
(***************************************************************************)
EXTENDS Kernel, FiniteSetTheorems, WellFoundedInduction, TLAPS

----------------------------------------------------------------------------
(* The ready queue. *)

(* A set of priorities that is not empty has a least element. *)
LEMMA LeastExists ==
    ASSUME NEW S \in SUBSET Nat, S # {}
    PROVE  Min(S) \in S /\ \A y \in S : Min(S) <= y
<1> DEFINE R == OpToRel(<, Nat)
<1>1. IsWellFoundedOn(R, Nat)
  BY NatLessThanWellFounded
<1>2. PICK x \in S : \A y \in S : ~ (<<y, x>> \in R)
  <2> HIDE DEF R
  <2> QED BY <1>1, WFMin
<1>3. \A y \in Nat : y < x => <<y, x>> \in R
  BY DEF OpToRel
<1> HIDE DEF R
<1>4. ASSUME NEW y \in S PROVE x <= y
  <2>1. x \in Nat /\ y \in Nat
    OBVIOUS
  <2>2. ~ (y < x)
    BY <1>2, <1>3, <2>1
  <2> QED BY <2>1, <2>2
<1> QED
  BY <1>4 DEF Min

(* The numbers of priorities and tasks. *)
LEMMA PrioFacts ==
    /\ IDLE_PRIO \in Tcb
    /\ Tcb \subseteq Prio
    /\ Prio \subseteq Nat
    /\ 0 \in Prio
    /\ NULL \notin Prio
    /\ NULL \notin Tcb
BY OsMaxTasksAssumption, NullAssumption DEF IDLE_PRIO, Tcb, Prio

(* highest_prio names the first occupied slot. *)
LEMMA HighestPrioLeast ==
    ASSUME NEW rl \in RunList, Occupied(rl) # {}
    PROVE  /\ HighestPrio(rl) \in Prio
           /\ rl[HighestPrio(rl)] \in Tcb
           /\ \A p \in Occupied(rl) : HighestPrio(rl) <= p
<1>1. Occupied(rl) \in SUBSET Nat
  BY PrioFacts DEF Occupied
<1>2. HighestPrio(rl) = Min(Occupied(rl))
  BY DEF HighestPrio
<1>3. HighestPrio(rl) \in Occupied(rl)
  BY <1>1, <1>2, LeastExists
<1>4. \A p \in Occupied(rl) : HighestPrio(rl) <= p
  BY <1>1, <1>2, LeastExists
<1> QED
  BY <1>3, <1>4 DEF Occupied, RunList

(* A dispatch from a queue where every task is in its native slot takes    *)
(* the task of the lowest number and leaves the others.                    *)
LEMMA DispatchNative ==
    ASSUME NEW rl \in RunList, NEW n \in Tcb, rl[n] = n,
           \A p \in Prio : rl[p] \in {NULL, p},
           DispatchTo(rl)
    PROVE  /\ cur_tcb' \in Tcb
           /\ rl[cur_tcb'] = cur_tcb'
           /\ run_list' \in RunList
           /\ \A p \in Prio : run_list'[p] \in {NULL, p}
           /\ \A t \in Tcb : run_list'[t] = t <=> rl[t] = t /\ t # cur_tcb'
           /\ \A p \in Prio : run_list'[p] # NULL => cur_tcb' <= p
           /\ irq_on' = FALSE
<1> DEFINE h == HighestPrio(rl)
<1>1. Occupied(rl) # {}
  BY PrioFacts DEF Occupied
<1>2. /\ h \in Prio
      /\ rl[h] \in Tcb
      /\ \A p \in Occupied(rl) : h <= p
  BY <1>1, HighestPrioLeast
<1>3. h \in Tcb /\ rl[h] = h
  BY <1>2, PrioFacts
<1>4. cur_tcb' = h /\ run_list' = [rl EXCEPT ![h] = NULL] /\ irq_on' = FALSE
  BY <1>3 DEF DispatchTo, RunqueueRemove
<1> HIDE DEF h
<1>5. \A p \in Prio : run_list'[p] = IF p = h THEN NULL ELSE rl[p]
  BY <1>4 DEF RunList
<1>6. run_list' \in RunList
  BY <1>4, <1>2 DEF RunList
<1>7. \A p \in Prio : run_list'[p] # NULL => h <= p
  BY <1>5, <1>2 DEF Occupied
<1>8. \A t \in Tcb : run_list'[t] = t <=> rl[t] = t /\ t # h
  BY <1>5, PrioFacts
<1> QED
  BY <1>3, <1>4, <1>5, <1>6, <1>7, <1>8

(* dispatch_save of a running task that is not pending.  A boosted task    *)
(* (priority 0) goes on; otherwise the ready task of the lowest number     *)
(* runs, the caller counted as ready.                                      *)
LEMMA SaveLemma ==
    ASSUME NEW rl \in RunList, \A p \in Prio : rl[p] \in {NULL, p},
           cur_tcb \in Tcb, rl[cur_tcb] = NULL, ~pending[cur_tcb],
           NEW prio \in {0, cur_tcb}, NEW fn, DispatchSave(rl, prio, fn)
    PROVE  /\ cur_tcb' \in Tcb
           /\ cur_tcb' = cur_tcb \/ rl[cur_tcb'] = cur_tcb'
           /\ run_list' \in RunList
           /\ \A p \in Prio : run_list'[p] \in {NULL, p}
           /\ \A t \in Tcb : run_list'[t] = t
                <=> (rl[t] = t \/ t = cur_tcb) /\ t # cur_tcb'
           /\ \A p \in Prio : run_list'[p] # NULL =>
                cur_tcb' <= p \/ (prio = 0 /\ cur_tcb' = cur_tcb)
           /\ irq_on' = FALSE
           /\ prio = 0 => cur_tcb' = cur_tcb
<1> DEFINE filled == [rl EXCEPT ![prio] = cur_tcb]
<1>1. rl[0] = NULL
  BY PrioFacts DEF RunList, Tcb
<1>2. DispatchTo(filled)
  BY <1>1 DEF DispatchSave, RunqueueAdd
<1>3. prio \in Prio /\ filled \in RunList
  BY PrioFacts DEF RunList
<1>4. \A p \in Prio : filled[p] = IF p = prio THEN cur_tcb ELSE rl[p]
  BY <1>3 DEF RunList
<1> HIDE DEF filled
<1>5. CASE prio = cur_tcb
  <2>1. \A p \in Prio : filled[p] \in {NULL, p}
    BY <1>4, <1>5
  <2>2. filled[cur_tcb] = cur_tcb
    BY <1>4, <1>5, PrioFacts
  <2>3. /\ cur_tcb' \in Tcb
        /\ filled[cur_tcb'] = cur_tcb'
        /\ run_list' \in RunList
        /\ \A p \in Prio : run_list'[p] \in {NULL, p}
        /\ \A t \in Tcb : run_list'[t] = t <=> filled[t] = t /\ t # cur_tcb'
        /\ \A p \in Prio : run_list'[p] # NULL => cur_tcb' <= p
        /\ irq_on' = FALSE
    BY <1>2, <1>3, <2>1, <2>2, DispatchNative
  <2>4. \A t \in Tcb : filled[t] = t <=> rl[t] = t \/ t = cur_tcb
    BY <1>4, <1>5, PrioFacts
  <2>5. prio # 0
    BY <1>5 DEF Tcb
  <2> QED
    BY <1>2, <2>3, <2>4, <2>5
<1>6. CASE prio = 0
  <2> DEFINE h == HighestPrio(filled)
  <2>1. filled[0] = cur_tcb
    BY <1>4, <1>6, PrioFacts
  <2>2. 0 \in Occupied(filled)
    BY <2>1, PrioFacts DEF Occupied
  <2>3. h \in Prio /\ h <= 0
    BY <2>2, <1>3, HighestPrioLeast
  <2> HIDE DEF h
  <2>4. h = 0
    BY <2>3 DEF Prio
  <2>5. /\ cur_tcb' = cur_tcb
        /\ run_list' = [filled EXCEPT ![0] = NULL]
        /\ irq_on' = FALSE
    BY <1>2, <2>1, <2>4 DEF DispatchTo, RunqueueRemove, h
  <2>6. run_list' = rl
    BY <2>5, <1>1, <1>6, PrioFacts DEF RunList, filled
  <2>7. \A t \in Tcb : rl[t] = t => t # cur_tcb
    BY PrioFacts
  <2> QED
    BY <1>2, <1>6, <2>5, <2>6, <2>7
<1> QED
  BY <1>5, <1>6

----------------------------------------------------------------------------
(* The inductive invariant, for every client. *)

(* Every slot of the run queue holds the task of its own number: a task is *)
(* added at another priority than its native one only when it is boosted,  *)
(* and then it is dispatched at once.  In particular slot 0 is empty.      *)
Slots == \A p \in Prio : run_list[p] \in {NULL, p}

Prios == \A t \in Tcb : cur_prio[t] \in {0, t}

(* The processor has a task from the first task_create on. *)
Booted == cur_prio[IDLE_PRIO] = IDLE_PRIO
Boot ==
    /\ Booted => cur_tcb \in TasksOf(num_tasks)
    /\ ~Booted => /\ cur_tcb = NULL
                  /\ \A p \in Prio : run_list[p] = NULL
                  /\ \A q \in QueueWord : sleep_q[q] = {}
                  /\ \A m \in Mutex : pSleep_queue[m] = <<>>

Position(m) == 1 .. Len(pSleep_queue[m])
Waits(t) == \E m \in Mutex : \E i \in Position(m) : pSleep_queue[m][i] = t
Asleep(t) == \E q \in QueueWord : t \in sleep_q[q]
Blocked(t) == t \in UserTasks /\ t # cur_tcb /\ run_list[t] # t

(* The four places are disjoint, without repetition inside the queues ... *)
ReadyApart ==
    \A t \in Tcb : run_list[t] = t => t \in TasksOf(num_tasks) /\ t # cur_tcb
AsleepApart ==
    \A q, r \in QueueWord : \A t \in sleep_q[q] :
        Blocked(t) /\ ~Waits(t) /\ (t \in sleep_q[r] => q = r)
WaitsApart ==
    \A m \in Mutex : \A i \in Position(m) :
        /\ Blocked(pSleep_queue[m][i])
        /\ \A n \in Mutex : \A j \in Position(n) :
             pSleep_queue[m][i] = pSleep_queue[n][j] => m = n /\ i = j
(* ... and hold every task. *)
Placed ==
    \A t \in Alive : t = cur_tcb \/ run_list[t] = t \/ Asleep(t) \/ Waits(t)

(* HighestRuns, with interrupts off as well. *)
TopRuns == cur_tcb # NULL => \A p \in Occupied(run_list) : cur_prio[cur_tcb] <= p

PendingWaits == \A t \in Alive : pending[t] <=> Waits(t)

IdleCalm == frame[IDLE_PRIO] # "mutex_lock"

Inv ==
    /\ TypeOK /\ Slots /\ Prios /\ Boot
    /\ ReadyApart /\ AsleepApart /\ WaitsApart /\ Placed
    /\ TopRuns /\ PendingWaits /\ WaitersOnlyOnLocked /\ IdleCalm
----------------------------------------------------------------------------
(* What Inv says of the running task. *)
LEMMA TaskFacts ==
    ASSUME TypeOK
    PROVE  /\ UserTasks \subseteq Tcb
           /\ TasksOf(num_tasks) \subseteq Tcb
           /\ IDLE_PRIO \notin UserTasks
           /\ TasksOf(num_tasks) = UserTasks \cup {IDLE_PRIO}
BY OsMaxTasksAssumption
DEF TypeOK, SchedTypeOK, UserTasks, TasksOf, Tcb, IDLE_PRIO

LEMMA Running ==
    ASSUME Inv, cur_tcb # NULL
    PROVE  /\ Booted
           /\ Alive = TasksOf(num_tasks)
           /\ cur_tcb \in Alive
           /\ cur_tcb \in Tcb
           /\ run_list[cur_tcb] = NULL
           /\ ~Waits(cur_tcb)
           /\ ~Asleep(cur_tcb)
           /\ ~pending[cur_tcb]
<1>1. Booted /\ Alive = TasksOf(num_tasks) /\ cur_tcb \in Alive
  BY DEF Inv, Boot, Alive, Booted
<1>2. cur_tcb \in Tcb
  BY DEF Inv, TypeOK, SchedTypeOK
<1>3. run_list[cur_tcb] = NULL
  BY <1>2, PrioFacts DEF Inv, Slots, ReadyApart
<1>4. ~Waits(cur_tcb)
  BY DEF Inv, WaitsApart, Waits, Blocked
<1>5. ~Asleep(cur_tcb)
  BY DEF Inv, AsleepApart, Asleep, Blocked
<1> QED
  BY <1>1, <1>2, <1>3, <1>4, <1>5 DEF Inv, PendingWaits

LEMMA IdleIsReady ==
    ASSUME Inv, cur_tcb \in UserTasks
    PROVE  run_list[IDLE_PRIO] = IDLE_PRIO
<1>1. TypeOK /\ cur_tcb # NULL
  BY TaskFacts, PrioFacts DEF Inv
<1>2. IDLE_PRIO \in Alive /\ IDLE_PRIO \notin UserTasks
  BY <1>1, Running, TaskFacts
<1>3. ~Asleep(IDLE_PRIO) /\ ~Waits(IDLE_PRIO)
  BY <1>2 DEF Inv, AsleepApart, WaitsApart, Asleep, Waits, Blocked
<1> QED
  BY <1>2, <1>3 DEF Inv, Placed

(* A step that moves no task keeps Inv: it may change the running user     *)
(* task's priority to 0, and it unlocks nothing.                           *)
LEMMA Quiet ==
    ASSUME Inv, TypeOK',
           UNCHANGED <<num_tasks, run_list, cur_tcb, sleep_q, pSleep_queue,
                       pending>>,
           \/ cur_prio' = cur_prio
           \/ /\ cur_tcb \in UserTasks
              /\ cur_prio' = [cur_prio EXCEPT ![cur_tcb] = 0],
           \A m \in Mutex : bLock[m] => bLock'[m],
           IdleCalm'
    PROVE  Inv'
<1>1. cur_prio'[IDLE_PRIO] = cur_prio[IDLE_PRIO]
  BY TaskFacts, PrioFacts DEF Inv, TypeOK, SchedTypeOK
<1>2. Booted' = Booted /\ Alive' = Alive
  BY <1>1 DEF Booted, Alive, TasksOf
<1>3. /\ \A t : Waits(t)' <=> Waits(t)
      /\ \A t : Asleep(t)' <=> Asleep(t)
      /\ \A t : Blocked(t)' <=> Blocked(t)
  BY DEF Waits, Position, Asleep, Blocked, UserTasks
<1>4. Slots' /\ ReadyApart'
  BY DEF Inv, Slots, ReadyApart, TasksOf
<1>5. Prios'
  BY DEF Inv, Prios, TypeOK, SchedTypeOK
<1>6. Boot'
  BY <1>2 DEF Inv, Boot, TasksOf
<1>7. AsleepApart'
  BY <1>3 DEF Inv, AsleepApart
<1>8. WaitsApart'
  BY <1>3 DEF Inv, WaitsApart, Position
<1>9. Placed'
  BY <1>2, <1>3 DEF Inv, Placed
<1>10. TopRuns'
  <2>1. ASSUME cur_tcb # NULL PROVE cur_prio'[cur_tcb] \in {0, cur_prio[cur_tcb]}
    BY <2>1, Running DEF Inv, TypeOK, SchedTypeOK
  <2>2. Occupied(run_list)' = Occupied(run_list)
    BY DEF Occupied
  <2> QED
    BY <2>1, <2>2, PrioFacts DEF Inv, TopRuns, Occupied
<1>11. PendingWaits' /\ WaitersOnlyOnLocked'
  BY <1>2, <1>3 DEF Inv, PendingWaits, WaitersOnlyOnLocked
<1> QED
  BY <1>4, <1>5, <1>6, <1>7, <1>8, <1>9, <1>10, <1>11 DEF Inv
----------------------------------------------------------------------------
(* Steps that block the running task. *)

(* A user task that gives up the processor without being made ready. *)
LEMMA SleepLemma ==
    ASSUME Inv, cur_tcb \in UserTasks, NEW fn \in Frames, DispatchSleep(fn),
           UNCHANGED <<num_tasks, cur_prio>>
    PROVE  /\ cur_tcb' \in Tcb
           /\ run_list[cur_tcb'] = cur_tcb'
           /\ run_list' \in RunList
           /\ Slots'
           /\ \A t \in Tcb : run_list'[t] = t <=> run_list[t] = t /\ t # cur_tcb'
           /\ TopRuns'
           /\ irq_on' \in BOOLEAN
           /\ frame' \in [Tcb -> Frames]
           /\ frame'[IDLE_PRIO] = frame[IDLE_PRIO]
           /\ cur_tcb # cur_tcb'
<1>1. cur_tcb \in Tcb /\ cur_tcb # NULL /\ cur_tcb # IDLE_PRIO
  BY TaskFacts, PrioFacts DEF Inv
<1>2. DispatchTo(run_list) /\ frame' = [frame EXCEPT ![cur_tcb] = fn]
  BY DEF DispatchSleep
<1>3. run_list \in RunList /\ frame \in [Tcb -> Frames]
  BY DEF Inv, TypeOK, SchedTypeOK
<1>4. /\ cur_tcb' \in Tcb
      /\ run_list[cur_tcb'] = cur_tcb'
      /\ run_list' \in RunList
      /\ \A p \in Prio : run_list'[p] \in {NULL, p}
      /\ \A t \in Tcb : run_list'[t] = t <=> run_list[t] = t /\ t # cur_tcb'
      /\ \A p \in Prio : run_list'[p] # NULL => cur_tcb' <= p
      /\ irq_on' = FALSE
  BY <1>2, <1>3, IdleIsReady, PrioFacts, DispatchNative DEF Inv, Slots
<1>5. TopRuns'
  <2>1. cur_prio'[cur_tcb'] \in {0, cur_tcb'}
    BY <1>4 DEF Inv, Prios
  <2> QED
    BY <1>4, <2>1, PrioFacts DEF TopRuns, Occupied
<1>6. cur_tcb' # cur_tcb
  BY <1>1, <1>4 DEF Inv, ReadyApart
<1> QED
  BY <1>1, <1>2, <1>3, <1>4, <1>5, <1>6, PrioFacts DEF Slots

LEMMA EventWaitInv ==
    ASSUME Inv, NEW dev \in WaitArg, EventWait(dev), UNCHANGED mutexVars
    PROVE  Inv'
<1>1. /\ cur_tcb \in UserTasks
      /\ dev \in QueueWord
      /\ sleep_q' = [sleep_q EXCEPT ![dev] = @ \cup {cur_tcb}]
      /\ DispatchSleep("dev_wait")
      /\ UNCHANGED <<next_match, system_time, time_drift, num_tasks, cur_prio,
                     holds_lock, pending>>
      /\ UNCHANGED <<bAvailable, bLock, pHolding_Tcb, pSleep_queue, lock_arg,
                     owned>>
  BY WaitArgAssumption, NumDevicesAssumption DEF EventWait, Calling, QueueWord, mutexVars
<1>2. cur_tcb \in Tcb /\ cur_tcb # NULL /\ cur_tcb # IDLE_PRIO
  BY <1>1, TaskFacts, PrioFacts DEF Inv
<1>3. /\ cur_tcb' \in Tcb
      /\ run_list[cur_tcb'] = cur_tcb'
      /\ run_list' \in RunList
      /\ Slots'
      /\ \A t \in Tcb : run_list'[t] = t <=> run_list[t] = t /\ t # cur_tcb'
      /\ TopRuns'
      /\ irq_on' \in BOOLEAN
      /\ frame' \in [Tcb -> Frames]
      /\ frame'[IDLE_PRIO] = frame[IDLE_PRIO]
      /\ cur_tcb # cur_tcb'
  BY <1>1, SleepLemma DEF Frames
<1>4. /\ sleep_q \in [QueueWord -> SUBSET Tcb]
      /\ \A q \in QueueWord : \A t :
           t \in sleep_q'[q] <=> t \in sleep_q[q] \/ (q = dev /\ t = cur_tcb)
  BY <1>1 DEF Inv, TypeOK, DeviceTypeOK
<1>5. TypeOK'
  BY <1>1, <1>2, <1>3, <1>4
  DEF Inv, TypeOK, SchedTypeOK, MutexTypeOK, DeviceTypeOK
<1>6. /\ Booted /\ Booted'
      /\ Alive' = Alive /\ Alive = TasksOf(num_tasks)
      /\ TasksOf(num_tasks)' = TasksOf(num_tasks)
      /\ UserTasks' = UserTasks
  BY <1>1, <1>2, Running DEF Booted, Alive, TasksOf, UserTasks
<1>7. \A t : Waits(t)' <=> Waits(t)
  BY <1>1 DEF Waits, Position
<1>8. \A t : Asleep(t)' <=> Asleep(t) \/ t = cur_tcb
  BY <1>1, <1>4 DEF Asleep
<1>9. cur_tcb' \in TasksOf(num_tasks)
  BY <1>3 DEF Inv, ReadyApart
<1>10. ~Waits(cur_tcb) /\ ~Asleep(cur_tcb) /\ run_list[cur_tcb] = NULL
  BY <1>2, Running
<1>11. ASSUME NEW t, t = cur_tcb PROVE Blocked(t)'
  BY <1>11, <1>1, <1>2, <1>3, <1>6, <1>10, PrioFacts DEF Blocked
<1>12. ASSUME NEW t, Blocked(t) PROVE Blocked(t)'
  BY <1>12, <1>3, <1>6, TaskFacts DEF Blocked, Inv
<1>13. Prios' /\ Boot'
  BY <1>1, <1>6, <1>9 DEF Inv, Prios, Boot
<1>14. ReadyApart'
  BY <1>3, <1>6 DEF Inv, ReadyApart
<1>15. AsleepApart'
  BY <1>4, <1>7, <1>10, <1>11, <1>12 DEF Inv, AsleepApart, Asleep
<1>16. WaitsApart'
  BY <1>1, <1>12 DEF Inv, WaitsApart, Position
<1>17. Placed'
  BY <1>2, <1>3, <1>6, <1>7, <1>8, TaskFacts DEF Inv, Placed
<1>18. PendingWaits' /\ WaitersOnlyOnLocked'
  BY <1>1, <1>6, <1>7 DEF Inv, PendingWaits, WaitersOnlyOnLocked
<1>19. IdleCalm'
  BY <1>3 DEF Inv, IdleCalm
<1> QED
  BY <1>3, <1>5, <1>13, <1>14, <1>15, <1>16, <1>17, <1>18, <1>19 DEF Inv

LEMMA MutexLockSleepInv ==
    ASSUME Inv, NEW m \in MutexArg, MutexLockSleep(m), UNCHANGED deviceVars
    PROVE  Inv'
<1> DEFINE last == Len(pSleep_queue[m]) + 1
<1>1. /\ cur_tcb \in UserTasks
      /\ m \in Mutex
      /\ bLock[m]
      /\ pending' = [pending EXCEPT ![cur_tcb] = TRUE]
      /\ pSleep_queue' = [pSleep_queue EXCEPT ![m] = Append(@, cur_tcb)]
      /\ lock_arg' = [lock_arg EXCEPT ![cur_tcb] = m]
      /\ DispatchSleep("mutex_lock")
      /\ UNCHANGED <<bAvailable, bLock, pHolding_Tcb, owned, num_tasks,
                     cur_prio, holds_lock>>
      /\ UNCHANGED <<sleep_q, next_match, system_time, time_drift>>
  BY DEF MutexLockSleep, Calling, Enqueue, deviceVars
<1>2. cur_tcb \in Tcb /\ cur_tcb # NULL /\ cur_tcb # IDLE_PRIO
  BY <1>1, TaskFacts, PrioFacts DEF Inv
<1>3. /\ cur_tcb' \in Tcb
      /\ run_list[cur_tcb'] = cur_tcb'
      /\ run_list' \in RunList
      /\ Slots'
      /\ \A t \in Tcb : run_list'[t] = t <=> run_list[t] = t /\ t # cur_tcb'
      /\ TopRuns'
      /\ irq_on' \in BOOLEAN
      /\ frame' \in [Tcb -> Frames]
      /\ frame'[IDLE_PRIO] = frame[IDLE_PRIO]
      /\ cur_tcb # cur_tcb'
  BY <1>1, SleepLemma DEF Frames
<1>4. pSleep_queue \in [Mutex -> Seq(Tcb)]
  BY DEF Inv, TypeOK, MutexTypeOK
<1>5. /\ pSleep_queue' \in [Mutex -> Seq(Tcb)]
      /\ \A n \in Mutex : n # m => pSleep_queue'[n] = pSleep_queue[n]
      /\ pSleep_queue'[m] = Append(pSleep_queue[m], cur_tcb)
  BY <1>1, <1>2, <1>4
<1>6. /\ pSleep_queue[m] \in Seq(Tcb)
      /\ last \in Nat
      /\ \A i : i \in Position(m)' <=> i \in Position(m) \/ i = last
      /\ last \notin Position(m)
      /\ \A i \in Position(m) : pSleep_queue'[m][i] = pSleep_queue[m][i]
      /\ pSleep_queue'[m][last] = cur_tcb
  BY <1>1, <1>2, <1>4, <1>5 DEF Position
<1> HIDE DEF last
<1>7. /\ \A n \in Mutex : \A i :
           i \in Position(n)' <=> i \in Position(n) \/ (n = m /\ i = last)
      /\ \A n \in Mutex : \A i \in Position(n) :
           pSleep_queue'[n][i] = pSleep_queue[n][i]
  <2>1. \A n \in Mutex : n # m => Position(n)' = Position(n)
    BY <1>5 DEF Position
  <2> QED
    BY <1>5, <1>6, <2>1
<1>8. TypeOK'
  BY <1>1, <1>2, <1>3, <1>5
  DEF Inv, TypeOK, SchedTypeOK, MutexTypeOK, DeviceTypeOK
<1>9. /\ Booted /\ Booted'
      /\ Alive' = Alive /\ Alive = TasksOf(num_tasks)
      /\ TasksOf(num_tasks)' = TasksOf(num_tasks)
      /\ UserTasks' = UserTasks
  BY <1>1, <1>2, Running DEF Booted, Alive, TasksOf, UserTasks
<1>10. \A t : Waits(t)' <=> Waits(t) \/ t = cur_tcb
  <2>1. ASSUME NEW t, Waits(t) PROVE Waits(t)'
    BY <1>7, <2>1 DEF Waits
  <2>2. ASSUME NEW t, t = cur_tcb PROVE Waits(t)'
    BY <1>1, <1>6, <1>7, <2>2 DEF Waits
  <2>3. ASSUME NEW t, Waits(t)', t # cur_tcb PROVE Waits(t)
    BY <1>6, <1>7, <2>3 DEF Waits
  <2> QED
    BY <2>1, <2>2, <2>3
<1>11. \A t : Asleep(t)' <=> Asleep(t)
  BY <1>1 DEF Asleep
<1>12. cur_tcb' \in TasksOf(num_tasks)
  BY <1>3 DEF Inv, ReadyApart
<1>13. /\ ~Waits(cur_tcb) /\ ~Asleep(cur_tcb) /\ run_list[cur_tcb] = NULL
       /\ ~pending[cur_tcb]
  BY <1>2, Running
<1>14. ASSUME NEW t, t = cur_tcb PROVE Blocked(t)'
  BY <1>14, <1>1, <1>2, <1>3, <1>9, <1>13, PrioFacts DEF Blocked
<1>15. ASSUME NEW t, Blocked(t) PROVE Blocked(t)'
  BY <1>15, <1>3, <1>9, TaskFacts DEF Blocked, Inv
<1>16. Prios' /\ Boot'
  BY <1>1, <1>9, <1>12 DEF Inv, Prios, Boot
<1>17. ReadyApart'
  BY <1>3, <1>9 DEF Inv, ReadyApart
<1>18. AsleepApart'
  BY <1>1, <1>10, <1>13, <1>15 DEF Inv, AsleepApart, Asleep
<1>19. WaitsApart'
  <2>1. ASSUME NEW n \in Mutex, NEW i \in Position(n)'
        PROVE  \/ i \in Position(n) /\ pSleep_queue'[n][i] = pSleep_queue[n][i]
                    /\ Blocked(pSleep_queue[n][i])
                    /\ pSleep_queue[n][i] # cur_tcb
               \/ n = m /\ i = last /\ pSleep_queue'[n][i] = cur_tcb
    <3>1. CASE i \in Position(n)
      BY <3>1, <1>7, <1>13 DEF Inv, WaitsApart, Waits
    <3>2. CASE i \notin Position(n)
      BY <3>2, <1>6, <1>7
    <3> QED BY <3>1, <3>2
  <2>2. ASSUME NEW n \in Mutex, NEW i \in Position(n)', NEW t,
               t = pSleep_queue'[n][i]
        PROVE  Blocked(t)'
    BY <2>1, <2>2, <1>14, <1>15
  <2>3. ASSUME NEW n \in Mutex, NEW i \in Position(n)',
               NEW k \in Mutex, NEW j \in Position(k)',
               pSleep_queue'[n][i] = pSleep_queue'[k][j]
        PROVE  n = k /\ i = j
    BY <2>1, <2>3 DEF Inv, WaitsApart
  <2>4. \A n \in Mutex : \A i \in Position(n)' : Blocked(pSleep_queue[n][i])'
    BY <2>2 DEF Blocked
  <2> QED
    BY <2>3, <2>4 DEF WaitsApart
<1>20. Placed'
  BY <1>2, <1>3, <1>9, <1>10, <1>11, TaskFacts DEF Inv, Placed
<1>21. PendingWaits'
  <2>1. \A t \in Tcb : pending'[t] <=> pending[t] \/ t = cur_tcb
    BY <1>1 DEF Inv, TypeOK, SchedTypeOK
  <2> QED
    BY <2>1, <1>9, <1>10, TaskFacts DEF Inv, PendingWaits
<1>22. WaitersOnlyOnLocked'
  BY <1>1, <1>5 DEF Inv, WaitersOnlyOnLocked
<1>23. IdleCalm'
  BY <1>3 DEF Inv, IdleCalm
<1> QED
  BY <1>3, <1>8, <1>16, <1>17, <1>18, <1>19, <1>20, <1>21, <1>22, <1>23 DEF Inv
----------------------------------------------------------------------------
(* Steps that make blocked tasks ready and dispatch. *)

(* The tasks of W and the caller join the ready ones; one of all runs. *)
Wakes(W) ==
    /\ cur_tcb' \in Tcb
    /\ cur_tcb' = cur_tcb \/ run_list[cur_tcb'] = cur_tcb' \/ cur_tcb' \in W
    /\ \A t \in Tcb : run_list'[t] = t
         <=> (run_list[t] = t \/ t \in W \/ t = cur_tcb) /\ t # cur_tcb'

(* The tasks of W are made ready, the caller too, and the best one runs. *)
LEMMA WakeLemma ==
    ASSUME Inv, cur_tcb # NULL,
           NEW W \in SUBSET UserTasks, \A t \in W : Blocked(t),
           NEW rl \in RunList,
           \A p \in Prio : rl[p] = IF p \in W THEN p ELSE run_list[p],
           NEW prio \in {0, cur_tcb}, cur_prio'[cur_tcb] = prio, Prios',
           NEW fn \in Frames \ {"mutex_lock"}, DispatchSave(rl, prio, fn)
    PROVE  /\ cur_tcb' \in Tcb
           /\ cur_tcb' = cur_tcb \/ run_list[cur_tcb'] = cur_tcb' \/ cur_tcb' \in W
           /\ run_list' \in RunList
           /\ Slots'
           /\ \A t \in Tcb : run_list'[t] = t
                <=> (run_list[t] = t \/ t \in W \/ t = cur_tcb) /\ t # cur_tcb'
           /\ TopRuns'
           /\ irq_on' \in BOOLEAN
           /\ frame' \in [Tcb -> Frames]
           /\ IdleCalm'
           /\ prio = 0 => cur_tcb' = cur_tcb
<1>1. /\ cur_tcb \in Tcb
      /\ run_list[cur_tcb] = NULL
      /\ ~pending[cur_tcb]
  BY Running
<1>2. W \subseteq Tcb /\ cur_tcb \notin W
  BY TaskFacts DEF Inv, Blocked
<1>3. \A p \in Prio : rl[p] \in {NULL, p}
  BY DEF Inv, Slots
<1>4. rl[cur_tcb] = NULL
  BY <1>1, <1>2, PrioFacts
<1>5. \A t \in Tcb : rl[t] = t <=> run_list[t] = t \/ t \in W
  BY PrioFacts
<1>6. /\ cur_tcb' \in Tcb
      /\ cur_tcb' = cur_tcb \/ rl[cur_tcb'] = cur_tcb'
      /\ run_list' \in RunList
      /\ \A p \in Prio : run_list'[p] \in {NULL, p}
      /\ \A t \in Tcb : run_list'[t] = t
           <=> (rl[t] = t \/ t = cur_tcb) /\ t # cur_tcb'
      /\ \A p \in Prio : run_list'[p] # NULL =>
           cur_tcb' <= p \/ (prio = 0 /\ cur_tcb' = cur_tcb)
      /\ irq_on' = FALSE
      /\ prio = 0 => cur_tcb' = cur_tcb
  BY <1>1, <1>3, <1>4, SaveLemma
<1>7. TopRuns'
  <2>1. cur_prio'[cur_tcb'] \in {0, cur_tcb'}
    BY <1>6 DEF Prios
  <2>2. \A p \in Prio : run_list'[p] # NULL => cur_prio'[cur_tcb'] <= p
    BY <1>6, <2>1, PrioFacts
  <2> QED
    BY <2>2 DEF TopRuns, Occupied
<1>8. frame' \in [Tcb -> Frames] /\ IdleCalm'
  BY <1>1, PrioFacts DEF DispatchSave, Inv, TypeOK, SchedTypeOK, IdleCalm
<1> QED
  BY <1>5, <1>6, <1>7, <1>8 DEF Slots

(* The interrupt of a timer tick that releases somebody. *)
LEMMA TimerWakeInv ==
    ASSUME Inv, NEW now \in 0 .. WORD - 1, UNCHANGED mutexVars,
           UNION {sleep_q[d] : d \in Due(now)} # {}, DevUpdate(now),
           system_time' \in 0 .. WORD - 1, time_drift' \in 0 .. OSTMR_COUNT - 1
    PROVE  /\ Inv'
           /\ cur_prio[cur_tcb] = 0 => cur_tcb' = cur_tcb
           /\ \A t \in Tcb : run_list'[t] = t =>
                run_list[t] = t \/ t = cur_tcb \/ Asleep(t)
           /\ Wakes(UNION {sleep_q[d] : d \in Due(now)})
<1> DEFINE W == UNION {sleep_q[d] : d \in Due(now)}
           rl == RunqueueAddAll(run_list, W)
<1>1. /\ next_match' \in [Device -> 0 .. WORD - 1]
      /\ sleep_q' = [q \in QueueWord |-> IF q \in Due(now) THEN {} ELSE sleep_q[q]]
      /\ DispatchSave(rl, cur_prio[cur_tcb], "dev_update")
      /\ UNCHANGED <<num_tasks, cur_prio, holds_lock, pending>>
      /\ UNCHANGED <<bAvailable, bLock, pHolding_Tcb, pSleep_queue, lock_arg,
                     owned>>
  <2>1. next_match' \in [Device -> 0 .. WORD - 1]
    <3>1. \A d \in Device : dev_freq[d] \in Nat /\ next_match[d] \in 0 .. WORD - 1
      BY DevFreqAssumption DEF Inv, TypeOK, DeviceTypeOK, Device
    <3>2. \A d \in Device : (next_match[d] + dev_freq[d]) % WORD \in 0 .. WORD - 1
      BY <3>1, TimerAssumption
    <3> QED
      BY <3>1, <3>2 DEF DevUpdate
  <2> QED
    BY <2>1 DEF DevUpdate, mutexVars
<1>2. /\ Due(now) \subseteq QueueWord
      /\ W \subseteq UserTasks
      /\ \A t \in W : Blocked(t) /\ ~Waits(t) /\ Asleep(t)
      /\ W # {}
  BY NumDevicesAssumption
  DEF Due, Device, QueueWord, Inv, AsleepApart, Blocked, Asleep
<1>3. cur_tcb # NULL
  BY <1>2, TaskFacts, PrioFacts DEF Inv, Boot, Asleep
<1>4. /\ cur_tcb \in Tcb
      /\ Booted
      /\ cur_tcb \in TasksOf(num_tasks)
      /\ Alive = TasksOf(num_tasks)
      /\ ~Waits(cur_tcb) /\ ~Asleep(cur_tcb)
  BY <1>3, Running
<1>5. rl \in RunList /\ \A p \in Prio : rl[p] = IF p \in W THEN p ELSE run_list[p]
  <2>1. W \subseteq Tcb
    BY <1>2, TaskFacts DEF Inv
  <2>2. \A p \in W : run_list[p] = NULL
    BY <1>2, <2>1, PrioFacts DEF Blocked, Inv, Slots
  <2>3. run_list \in RunList
    BY DEF Inv, TypeOK, SchedTypeOK
  <2> HIDE DEF W
  <2> QED
    BY <2>1, <2>2, <2>3 DEF RunqueueAddAll, RunList
<1> HIDE DEF W, rl
<1>6. /\ cur_prio[cur_tcb] \in {0, cur_tcb}
      /\ cur_prio'[cur_tcb] = cur_prio[cur_tcb]
      /\ Prios'
  BY <1>1, <1>4 DEF Inv, Prios
<1>7. /\ cur_tcb' \in Tcb
      /\ cur_tcb' = cur_tcb \/ run_list[cur_tcb'] = cur_tcb' \/ cur_tcb' \in W
      /\ run_list' \in RunList
      /\ Slots'
      /\ \A t \in Tcb : run_list'[t] = t
           <=> (run_list[t] = t \/ t \in W \/ t = cur_tcb) /\ t # cur_tcb'
      /\ TopRuns'
      /\ irq_on' \in BOOLEAN
      /\ frame' \in [Tcb -> Frames]
      /\ IdleCalm'
      /\ cur_prio[cur_tcb] = 0 => cur_tcb' = cur_tcb
  BY <1>1, <1>2, <1>3, <1>5, <1>6, WakeLemma DEF Frames
<1>8. TypeOK'
  BY <1>1, <1>7 DEF Inv, TypeOK, SchedTypeOK, MutexTypeOK, DeviceTypeOK
<1>9. /\ Booted'
      /\ Alive' = Alive
      /\ TasksOf(num_tasks)' = TasksOf(num_tasks)
      /\ UserTasks' = UserTasks
  BY <1>1, <1>4 DEF Booted, Alive, TasksOf, UserTasks
<1>10. \A t : Waits(t)' <=> Waits(t)
  BY <1>1 DEF Waits, Position
<1>11. \A q \in QueueWord : \A t \in sleep_q'[q] : t \in sleep_q[q] /\ t \notin W
  <2> SUFFICES ASSUME NEW q \in QueueWord, NEW t \in sleep_q'[q]
               PROVE  t \in sleep_q[q] /\ t \notin W
    OBVIOUS
  <2>1. q \notin Due(now) /\ t \in sleep_q[q]
    BY <1>1
  <2>2. ASSUME NEW d \in Due(now), t \in sleep_q[d] PROVE FALSE
    BY <1>2, <2>1, <2>2 DEF Inv, AsleepApart
  <2> QED
    BY <2>1, <2>2 DEF W
<1>12. \A t : Asleep(t) /\ t \notin W => Asleep(t)'
  BY <1>1 DEF Asleep, W
<1>13. cur_tcb' \in TasksOf(num_tasks)
  BY <1>2, <1>4, <1>7, TaskFacts DEF Inv, ReadyApart
<1>14. ASSUME NEW t, Blocked(t), t \notin W PROVE Blocked(t)'
  BY <1>14, <1>7, <1>9, TaskFacts DEF Blocked, Inv
<1>15. Boot'
  BY <1>1, <1>9, <1>13 DEF Boot
<1>16. ReadyApart'
  BY <1>2, <1>4, <1>7, <1>9, TaskFacts DEF Inv, ReadyApart
<1>17. AsleepApart'
  BY <1>10, <1>11, <1>14 DEF Inv, AsleepApart
<1>18. WaitsApart'
  <2>1. ASSUME NEW m \in Mutex, NEW i \in Position(m)
        PROVE  Blocked(pSleep_queue[m][i]) /\ pSleep_queue[m][i] \notin W
    BY <1>2 DEF Inv, WaitsApart, Waits
  <2>2. \A m \in Mutex : \A i \in Position(m) : Blocked(pSleep_queue[m][i])'
    BY <1>1, <1>7, <1>9, <2>1, TaskFacts DEF Blocked, Inv
  <2> QED
    BY <1>1, <2>2 DEF Inv, WaitsApart, Position
<1>19. Placed'
  BY <1>4, <1>7, <1>9, <1>10, <1>12, TaskFacts DEF Inv, Placed
<1>20. PendingWaits' /\ WaitersOnlyOnLocked'
  BY <1>1, <1>9, <1>10 DEF Inv, PendingWaits, WaitersOnlyOnLocked
<1>21. Wakes(UNION {sleep_q[d] : d \in Due(now)})
  BY <1>7 DEF Wakes, W
<1> QED
  BY <1>2, <1>6, <1>7, <1>8, <1>15, <1>16, <1>17, <1>18, <1>19, <1>20, <1>21
  DEF Inv

LEMMA UnlockFacts ==
    ASSUME Inv, cur_tcb \in UserTasks
    PROVE  /\ cur_tcb \in Tcb /\ cur_tcb # NULL /\ cur_tcb # IDLE_PRIO
           /\ PrioAfterUnlock(cur_tcb) \in {0, cur_tcb}
<1>1. cur_tcb \in Tcb /\ cur_tcb # NULL /\ cur_tcb # IDLE_PRIO
  BY TaskFacts, PrioFacts DEF Inv
<1> QED
  BY <1>1 DEF PrioAfterUnlock, native_prio, Inv, Prios

(* What mutex_unlock changes beside the queues and the processor. *)
LEMMA UnlockTypes ==
    ASSUME Inv, NEW m \in MutexArg, MutexUnlock(m)
    PROVE  /\ cur_tcb \in UserTasks
           /\ m \in Mutex
           /\ holds_lock' \in [Tcb -> Nat]
           /\ owned' \in [Tcb -> SUBSET Mutex]
           /\ UNCHANGED <<bAvailable, pHolding_Tcb, lock_arg, num_tasks>>
           /\ Release(cur_tcb, m) \/ HandOff(cur_tcb, m)
<1>1. cur_tcb \in UserTasks
  BY DEF MutexUnlock, Calling
<1>2. cur_tcb \in Tcb
  BY <1>1, UnlockFacts
<1>3. holds_lock' \in [Tcb -> Nat]
  <2>1. holds_lock \in [Tcb -> Nat]
    BY DEF Inv, TypeOK, SchedTypeOK
  <2>2. (IF holds_lock[cur_tcb] > 1 THEN holds_lock[cur_tcb] - 1 ELSE 0) \in Nat
    BY <1>2, <2>1
  <2> QED
    BY <2>1, <2>2 DEF MutexUnlock
<1>4. owned' \in [Tcb -> SUBSET Mutex]
  BY DEF MutexUnlock, Inv, TypeOK, MutexTypeOK
<1> QED
  BY <1>1, <1>3, <1>4 DEF MutexUnlock

(* mutex_unlock without a waiter. *)
LEMMA ReleaseInv ==
    ASSUME Inv, NEW m \in MutexArg, MutexUnlock(m), Release(cur_tcb, m),
           UNCHANGED deviceVars
    PROVE  /\ Inv'
           /\ PrioAfterUnlock(cur_tcb) = 0 => cur_tcb' = cur_tcb
           /\ \A t \in Tcb : run_list'[t] = t => run_list[t] = t \/ t = cur_tcb
           /\ Wakes({})
<1>1. /\ cur_tcb \in UserTasks
      /\ m \in Mutex
      /\ holds_lock' \in [Tcb -> Nat]
      /\ owned' \in [Tcb -> SUBSET Mutex]
      /\ UNCHANGED <<bAvailable, pHolding_Tcb, lock_arg, num_tasks>>
      /\ pSleep_queue[m] = <<>>
      /\ bLock' = [bLock EXCEPT ![m] = FALSE]
      /\ cur_prio' = [cur_prio EXCEPT ![cur_tcb] = PrioAfterUnlock(cur_tcb)]
      /\ DispatchSave(run_list, PrioAfterUnlock(cur_tcb), "mutex_unlock")
      /\ UNCHANGED <<pSleep_queue, pending>>
      /\ UNCHANGED <<sleep_q, next_match, system_time, time_drift>>
  BY UnlockTypes DEF Release, deviceVars
<1>2. /\ cur_tcb \in Tcb /\ cur_tcb # NULL /\ cur_tcb # IDLE_PRIO
      /\ PrioAfterUnlock(cur_tcb) \in {0, cur_tcb}
  BY <1>1, UnlockFacts
<1>3. /\ Booted
      /\ cur_tcb \in TasksOf(num_tasks)
      /\ Alive = TasksOf(num_tasks)
  BY <1>2, Running
<1>4. /\ cur_prio' \in [Tcb -> Prio]
      /\ \A t \in Tcb : t # cur_tcb => cur_prio'[t] = cur_prio[t]
      /\ cur_prio'[cur_tcb] = PrioAfterUnlock(cur_tcb)
  BY <1>1, <1>2, PrioFacts DEF Inv, TypeOK, SchedTypeOK
<1>5. Prios'
  BY <1>2, <1>4 DEF Inv, Prios
<1>6. run_list \in RunList
  BY DEF Inv, TypeOK, SchedTypeOK
<1>7. /\ cur_tcb' \in Tcb
      /\ cur_tcb' = cur_tcb \/ run_list[cur_tcb'] = cur_tcb'
      /\ run_list' \in RunList
      /\ Slots'
      /\ \A t \in Tcb : run_list'[t] = t
           <=> (run_list[t] = t \/ t = cur_tcb) /\ t # cur_tcb'
      /\ TopRuns'
      /\ irq_on' \in BOOLEAN
      /\ frame' \in [Tcb -> Frames]
      /\ IdleCalm'
      /\ PrioAfterUnlock(cur_tcb) = 0 => cur_tcb' = cur_tcb
  <2> DEFINE W    == {}
             rl   == run_list
             prio == PrioAfterUnlock(cur_tcb)
  <2>1. /\ W \in SUBSET UserTasks
        /\ \A t \in W : Blocked(t)
        /\ rl \in RunList
        /\ \A p \in Prio : rl[p] = IF p \in W THEN p ELSE run_list[p]
        /\ prio \in {0, cur_tcb}
        /\ cur_prio'[cur_tcb] = prio
        /\ DispatchSave(rl, prio, "mutex_unlock")
    BY <1>1, <1>2, <1>4, <1>6
  <2>2. "mutex_unlock" \in Frames \ {"mutex_lock"}
    BY DEF Frames
  <2> HIDE DEF W, rl, prio
  <2>3. /\ cur_tcb' \in Tcb
        /\ cur_tcb' = cur_tcb \/ run_list[cur_tcb'] = cur_tcb' \/ cur_tcb' \in W
        /\ run_list' \in RunList
        /\ Slots'
        /\ \A t \in Tcb : run_list'[t] = t
             <=> (run_list[t] = t \/ t \in W \/ t = cur_tcb) /\ t # cur_tcb'
        /\ TopRuns'
        /\ irq_on' \in BOOLEAN
        /\ frame' \in [Tcb -> Frames]
        /\ IdleCalm'
        /\ prio = 0 => cur_tcb' = cur_tcb
    BY <1>2, <1>5, <2>1, <2>2, WakeLemma
  <2> QED
    BY <2>3 DEF W, prio
<1>8. TypeOK'
  BY <1>1, <1>4, <1>7 DEF Inv, TypeOK, SchedTypeOK, MutexTypeOK, DeviceTypeOK
<1>9. /\ Booted'
      /\ Alive' = Alive
      /\ TasksOf(num_tasks)' = TasksOf(num_tasks)
      /\ UserTasks' = UserTasks
  BY <1>1, <1>2, <1>3, <1>4, PrioFacts DEF Booted, Alive, TasksOf, UserTasks
<1>10. /\ \A t : Waits(t)' <=> Waits(t)
       /\ \A t : Asleep(t)' <=> Asleep(t)
  BY <1>1 DEF Waits, Position, Asleep
<1>11. cur_tcb' \in TasksOf(num_tasks)
  BY <1>3, <1>7 DEF Inv, ReadyApart
<1>12. ASSUME NEW t, Blocked(t) PROVE Blocked(t)'
  BY <1>12, <1>7, <1>9, TaskFacts DEF Blocked, Inv
<1>13. Boot'
  BY <1>1, <1>9, <1>11 DEF Boot
<1>14. ReadyApart'
  BY <1>3, <1>7, <1>9 DEF Inv, ReadyApart
<1>15. AsleepApart'
  BY <1>1, <1>10, <1>12 DEF Inv, AsleepApart
<1>16. WaitsApart'
  BY <1>1, <1>12 DEF Inv, WaitsApart, Position
<1>17. Placed'
  BY <1>3, <1>7, <1>9, <1>10, TaskFacts DEF Inv, Placed
<1>18. PendingWaits'
  BY <1>1, <1>9, <1>10 DEF Inv, PendingWaits
<1>19. WaitersOnlyOnLocked'
  BY <1>1 DEF Inv, WaitersOnlyOnLocked, TypeOK, MutexTypeOK
<1>20. Wakes({})
  BY <1>7 DEF Wakes
<1> QED
  BY <1>5, <1>7, <1>8, <1>13, <1>14, <1>15, <1>16, <1>17, <1>18, <1>19, <1>20
  DEF Inv

(* mutex_unlock with waiters. *)
LEMMA HandOffInv ==
    ASSUME Inv, NEW m \in MutexArg, MutexUnlock(m), HandOff(cur_tcb, m),
           UNCHANGED deviceVars
    PROVE  /\ Inv'
           /\ PrioAfterUnlock(cur_tcb) = 0 => cur_tcb' = cur_tcb
           /\ Head(pSleep_queue[m]) \in Tcb \ {cur_tcb}
           /\ \A t \in Tcb : run_list'[t] = t =>
                run_list[t] = t \/ t = cur_tcb \/ t = Head(pSleep_queue[m])
           /\ Blocked(Head(pSleep_queue[m]))
           /\ Wakes({Head(pSleep_queue[m])})
<1> DEFINE s     == pSleep_queue[m]
           first == Head(s)
           W     == {first}
           rl    == RunqueueAdd(run_list, first, native_prio(first))
           prio  == PrioAfterUnlock(cur_tcb)
<1>1. /\ cur_tcb \in UserTasks
      /\ m \in Mutex
      /\ holds_lock' \in [Tcb -> Nat]
      /\ owned' \in [Tcb -> SUBSET Mutex]
      /\ UNCHANGED <<bAvailable, pHolding_Tcb, lock_arg, num_tasks>>
      /\ s # <<>>
      /\ pSleep_queue' = [pSleep_queue EXCEPT ![m] = Tail(@)]
      /\ pending' = [pending EXCEPT ![first] = FALSE]
      /\ cur_prio' = [cur_prio EXCEPT ![first] = native_prio(first),
                                     ![cur_tcb] = prio]
      /\ DispatchSave(rl, prio, "mutex_unlock")
      /\ UNCHANGED bLock
      /\ UNCHANGED <<sleep_q, next_match, system_time, time_drift>>
  BY UnlockTypes DEF HandOff, deviceVars
<1>2. /\ cur_tcb \in Tcb /\ cur_tcb # NULL /\ cur_tcb # IDLE_PRIO
      /\ prio \in {0, cur_tcb}
  BY <1>1, UnlockFacts
<1>3. /\ Booted
      /\ cur_tcb \in TasksOf(num_tasks)
      /\ Alive = TasksOf(num_tasks)
  BY <1>2, Running
<1>4. pSleep_queue \in [Mutex -> Seq(Tcb)] /\ s \in Seq(Tcb)
  BY <1>1 DEF Inv, TypeOK, MutexTypeOK
<1>5. /\ 1 \in Position(m)
      /\ first = pSleep_queue[m][1]
      /\ pSleep_queue' \in [Mutex -> Seq(Tcb)]
      /\ \A n \in Mutex : n # m => pSleep_queue'[n] = pSleep_queue[n]
      /\ pSleep_queue'[m] = Tail(s)
  BY <1>1, <1>4 DEF Position
<1>6. \A i : i \in Position(m)' <=>
          i \in Position(m) /\ i + 1 \in Position(m)
  BY <1>1, <1>4, <1>5 DEF Position
<1>7. \A i \in Position(m)' : pSleep_queue'[m][i] = pSleep_queue[m][i + 1]
  BY <1>1, <1>4, <1>5 DEF Position
<1>8. \A n \in Mutex : n # m => Position(n)' = Position(n)
  BY <1>5 DEF Position
<1>9. /\ Blocked(first) /\ first \in Tcb /\ first # cur_tcb
      /\ run_list[first] = NULL
  <2>1. Blocked(first)
    BY <1>1, <1>5 DEF Inv, WaitsApart
  <2>2. first \in Tcb /\ first # cur_tcb
    BY <2>1, TaskFacts DEF Blocked, Inv
  <2> QED
    BY <2>1, <2>2, PrioFacts DEF Blocked, Inv, Slots
<1>10. Waits(first) /\ ~Asleep(first)
  BY <1>1, <1>5 DEF Waits, Asleep, Inv, AsleepApart
<1>11. run_list \in RunList
  BY DEF Inv, TypeOK, SchedTypeOK
<1>12. rl \in RunList /\ \A p \in Prio : rl[p] = IF p \in W THEN p ELSE run_list[p]
  <2> HIDE DEF first
  <2> QED
    BY <1>9, <1>11, PrioFacts DEF RunqueueAdd, native_prio, RunList
<1> HIDE DEF s, first, rl, prio
<1>13. /\ cur_prio' \in [Tcb -> Prio]
       /\ \A t \in Tcb : cur_prio'[t] = IF t = cur_tcb THEN prio
                          ELSE IF t = first THEN first ELSE cur_prio[t]
  BY <1>1, <1>2, <1>9, PrioFacts DEF native_prio, Inv, TypeOK, SchedTypeOK
<1>14. Prios'
  BY <1>2, <1>13 DEF Inv, Prios
<1>15. /\ cur_tcb' \in Tcb
       /\ cur_tcb' = cur_tcb \/ run_list[cur_tcb'] = cur_tcb' \/ cur_tcb' \in W
       /\ run_list' \in RunList
       /\ Slots'
       /\ \A t \in Tcb : run_list'[t] = t
            <=> (run_list[t] = t \/ t \in W \/ t = cur_tcb) /\ t # cur_tcb'
       /\ TopRuns'
       /\ irq_on' \in BOOLEAN
       /\ frame' \in [Tcb -> Frames]
       /\ IdleCalm'
       /\ prio = 0 => cur_tcb' = cur_tcb
  <2>1. W \in SUBSET UserTasks /\ \A t \in W : Blocked(t)
    BY <1>9 DEF Blocked
  <2>2. cur_prio'[cur_tcb] = prio
    BY <1>2, <1>13
  <2>3. DispatchSave(rl, prio, "mutex_unlock")
    BY <1>1
  <2>4. "mutex_unlock" \in Frames \ {"mutex_lock"}
    BY DEF Frames
  <2> HIDE DEF W
  <2> QED
    BY SMTT(30), <1>2, <1>12, <1>14, <2>1, <2>2, <2>3, <2>4, WakeLemma
<1>16. TypeOK'
  BY <1>1, <1>5, <1>9, <1>13, <1>15
  DEF Inv, TypeOK, SchedTypeOK, MutexTypeOK, DeviceTypeOK
<1>17. first # IDLE_PRIO
  BY <1>9, TaskFacts DEF Blocked, Inv
<1>18. /\ Booted'
       /\ Alive' = Alive
       /\ TasksOf(num_tasks)' = TasksOf(num_tasks)
       /\ UserTasks' = UserTasks
  BY <1>1, <1>2, <1>3, <1>13, <1>17, PrioFacts
  DEF Booted, Alive, TasksOf, UserTasks
<1>19. \A n \in Mutex : \A i \in Position(n)' :
          \E j \in Position(n) : /\ pSleep_queue'[n][i] = pSleep_queue[n][j]
                                 /\ pSleep_queue[n][j] # first
                                 /\ j = IF n = m THEN i + 1 ELSE i
  <2> SUFFICES ASSUME NEW n \in Mutex, NEW i \in Position(n)'
               PROVE  \E j \in Position(n) :
                        /\ pSleep_queue'[n][i] = pSleep_queue[n][j]
                        /\ pSleep_queue[n][j] # first
                        /\ j = IF n = m THEN i + 1 ELSE i
    OBVIOUS
  <2>1. CASE n = m
    <3>1. i + 1 \in Position(m) /\ i + 1 # 1
      BY <1>6, <2>1 DEF Position
    <3>2. pSleep_queue[m][i + 1] # first
      BY <1>1, <1>5, <3>1 DEF Inv, WaitsApart
    <3> QED
      BY <1>7, <2>1, <3>1, <3>2
  <2>2. CASE n # m
    <3>1. i \in Position(n) /\ pSleep_queue'[n][i] = pSleep_queue[n][i]
      BY <1>5, <1>8, <2>2
    <3>2. pSleep_queue[n][i] # first
      BY <1>1, <1>5, <2>2, <3>1 DEF Inv, WaitsApart
    <3> QED
      BY <2>2, <3>1, <3>2
  <2> QED
    BY <2>1, <2>2
<1>20. \A t : Waits(t)' <=> Waits(t) /\ t # first
  <2>1. ASSUME NEW t, Waits(t)' PROVE Waits(t) /\ t # first
    BY <1>19, <2>1 DEF Waits
  <2>2. ASSUME NEW t, Waits(t), t # first PROVE Waits(t)'
    <3>1. PICK n \in Mutex : \E j \in Position(n) : pSleep_queue[n][j] = t
      BY <2>2 DEF Waits
    <3>2. PICK j \in Position(n) : pSleep_queue[n][j] = t
      BY <3>1
    <3>3. CASE n # m
      BY <1>5, <1>8, <3>2, <3>3 DEF Waits
    <3>4. CASE n = m
      <4>1. j # 1 /\ j - 1 \in Position(m) /\ j \in Int
        BY <1>4, <1>5, <2>2, <3>2, <3>4 DEF Position, s
      <4>2. (j - 1) + 1 = j
        BY <4>1
      <4>3. j - 1 \in Position(m)'
        BY <1>6, <3>2, <3>4, <4>1, <4>2
      <4>4. pSleep_queue'[m][j - 1] = t
        BY <1>7, <3>2, <3>4, <4>2, <4>3
      <4> QED
        BY <1>1, <4>3, <4>4 DEF Waits
    <3> QED
      BY <3>3, <3>4
  <2> QED
    BY <2>1, <2>2
<1>21. \A t : Asleep(t)' <=> Asleep(t)
  BY <1>1 DEF Asleep
<1>22. cur_tcb' \in TasksOf(num_tasks)
  BY <1>3, <1>9, <1>15, TaskFacts DEF Inv, ReadyApart, Blocked
<1>23. ASSUME NEW t, Blocked(t), t # first PROVE Blocked(t)'
  BY <1>23, <1>15, <1>18, TaskFacts DEF Blocked, Inv
<1>24. Boot'
  BY <1>1, <1>18, <1>22 DEF Boot
<1>25. ReadyApart'
  BY <1>3, <1>9, <1>15, <1>18, TaskFacts DEF Inv, ReadyApart, Blocked
<1>26. AsleepApart'
  BY <1>1, <1>10, <1>20, <1>23 DEF Inv, AsleepApart, Asleep
<1>27. WaitsApart'
  <2>1. ASSUME NEW n \in Mutex, NEW i \in Position(n)', NEW t,
               t = pSleep_queue'[n][i]
        PROVE  Blocked(t)'
    BY <1>19, <1>23, <2>1 DEF Inv, WaitsApart
  <2>2. ASSUME NEW n \in Mutex, NEW i \in Position(n)',
               NEW k \in Mutex, NEW j \in Position(k)',
               pSleep_queue'[n][i] = pSleep_queue'[k][j]
        PROVE  n = k /\ i = j
    <3>1. PICK ii \in Position(n) :
            /\ pSleep_queue'[n][i] = pSleep_queue[n][ii]
            /\ ii = IF n = m THEN i + 1 ELSE i
      BY <1>19
    <3>2. PICK jj \in Position(k) :
            /\ pSleep_queue'[k][j] = pSleep_queue[k][jj]
            /\ jj = IF k = m THEN j + 1 ELSE j
      BY <1>19
    <3>3. n = k /\ ii = jj
      <4>1. pSleep_queue[n][ii] = pSleep_queue[k][jj]
        BY <2>2, <3>1, <3>2
      <4> QED
        BY <4>1 DEF Inv, WaitsApart
    <3>4. i \in Int /\ j \in Int
      BY DEF Position
    <3> QED
      BY <3>1, <3>2, <3>3, <3>4
  <2>3. \A n \in Mutex : \A i \in Position(n)' : Blocked(pSleep_queue[n][i])'
    BY <2>1
  <2> QED
    BY <2>2, <2>3 DEF WaitsApart
<1>28. Placed'
  BY <1>3, <1>15, <1>18, <1>20, <1>21, TaskFacts DEF Inv, Placed
<1>29. PendingWaits'
  <2>1. \A t \in Tcb : pending'[t] <=> pending[t] /\ t # first
    BY <1>1, <1>9 DEF Inv, TypeOK, SchedTypeOK
  <2> QED
    BY <2>1, <1>3, <1>18, <1>20, TaskFacts DEF Inv, PendingWaits
<1>30. WaitersOnlyOnLocked'
  <2>1. bLock[m]
    BY <1>1 DEF Inv, WaitersOnlyOnLocked, s
  <2> QED
    BY <1>1, <1>5, <2>1 DEF Inv, WaitersOnlyOnLocked
<1>31. /\ PrioAfterUnlock(cur_tcb) = 0 => cur_tcb' = cur_tcb
       /\ Head(pSleep_queue[m]) \in Tcb \ {cur_tcb}
       /\ \A t \in Tcb : run_list'[t] = t =>
            run_list[t] = t \/ t = cur_tcb \/ t = Head(pSleep_queue[m])
  BY <1>9, <1>15 DEF prio, first, s
<1>32. Blocked(Head(pSleep_queue[m])) /\ Wakes({Head(pSleep_queue[m])})
  BY <1>9, <1>15 DEF Wakes, W, first, s
<1> QED
  BY <1>31, <1>32, <1>14, <1>15, <1>16, <1>24, <1>25, <1>26, <1>27, <1>28,
     <1>29, <1>30 DEF Inv
----------------------------------------------------------------------------
(* task_create. *)

LEMMA TaskCreateInv ==
    ASSUME Inv, NEW n \in TaskCounts, TaskCreate(n)
    PROVE  /\ Inv'
           /\ Alive' = TasksOf(n)
           /\ IDLE_PRIO \in TasksOf(n) /\ TasksOf(n) \subseteq Tcb
           /\ cur_tcb' \in TasksOf(n) /\ cur_prio'[cur_tcb'] = cur_tcb'
           /\ \A t \in Tcb : run_list'[t] = t
                <=> t \in TasksOf(n) /\ t # cur_tcb'
<1> DEFINE rl == RunqueueAddAll(EmptyRunList, TasksOf(n))
<1>1. /\ num_tasks' = n
      /\ cur_prio' = [t \in Tcb |-> IF t \in TasksOf(n) THEN native_prio(t)
                                     ELSE cur_prio[t]]
      /\ holds_lock' = [t \in Tcb |-> IF t \in TasksOf(n) THEN 0
                                       ELSE holds_lock[t]]
      /\ pending' = [t \in Tcb |-> t \notin TasksOf(n) /\ pending[t]]
      /\ frame' = [t \in Tcb |-> IF t \in TasksOf(n) THEN "launch" ELSE frame[t]]
      /\ DispatchTo(rl)
      /\ sleep_q' = [q \in QueueWord |-> IF q \in Device THEN {} ELSE sleep_q[q]]
      /\ next_match' = [d \in Device |-> dev_freq[d] % WORD]
      /\ owned' = [t \in Tcb |-> {}]
      /\ UNCHANGED <<system_time, time_drift>>
      /\ UNCHANGED <<bAvailable, bLock, pHolding_Tcb, pSleep_queue, lock_arg>>
  BY DEF TaskCreate, AllocateTcbs, DispatchNosave, DevInit, ForgetOwners
<1>2. /\ n \in 0 .. OS_MAX_TASKS - 2
      /\ TasksOf(n) \subseteq Tcb
      /\ IDLE_PRIO \in TasksOf(n)
  BY TaskCountsAssumption, OsMaxTasksAssumption DEF TasksOf, Tcb, IDLE_PRIO
<1>3. /\ \A m \in Mutex : pSleep_queue[m] = <<>>
      /\ sleep_q[NUM_DEVICES] = {}
  <2>1. CASE cur_tcb = NULL
    <3>1. ~Booted
      BY <2>1, TaskFacts, PrioFacts DEF Inv, Boot
    <3> QED
      BY <3>1, NumDevicesAssumption DEF Inv, Boot, QueueWord
  <2>2. CASE cur_tcb # NULL
    BY <2>2 DEF TaskCreate
  <2> QED
    BY <2>1, <2>2
<1>4. \A q \in QueueWord : sleep_q'[q] = {}
  BY <1>1, <1>3, NumDevicesAssumption DEF QueueWord, Device
<1>5. \A m \in Mutex : Position(m)' = {}
  BY <1>1, <1>3 DEF Position
<1>6. rl \in RunList /\ \A p \in Prio : rl[p] = IF p \in TasksOf(n) THEN p ELSE NULL
  BY <1>2 DEF RunqueueAddAll, EmptyRunList, RunList
<1> HIDE DEF rl
<1>7. /\ cur_tcb' \in Tcb
      /\ rl[cur_tcb'] = cur_tcb'
      /\ run_list' \in RunList
      /\ \A p \in Prio : run_list'[p] \in {NULL, p}
      /\ \A t \in Tcb : run_list'[t] = t <=> rl[t] = t /\ t # cur_tcb'
      /\ \A p \in Prio : run_list'[p] # NULL => cur_tcb' <= p
      /\ irq_on' = FALSE
  <2>1. rl[IDLE_PRIO] = IDLE_PRIO
    BY <1>2, <1>6, PrioFacts
  <2>2. \A p \in Prio : rl[p] \in {NULL, p}
    BY <1>6
  <2> QED
    BY <1>1, <1>6, <2>1, <2>2, PrioFacts, DispatchNative
<1>8. \A t \in Tcb : rl[t] = t <=> t \in TasksOf(n)
  BY <1>6, PrioFacts
<1>9. /\ cur_prio' \in [Tcb -> Prio]
      /\ holds_lock' \in [Tcb -> Nat]
      /\ pending' \in [Tcb -> BOOLEAN]
      /\ frame' \in [Tcb -> Frames]
  BY <1>1, <1>2, PrioFacts DEF native_prio, Frames, Inv, TypeOK, SchedTypeOK
<1>10. SchedTypeOK'
  BY <1>1, <1>2, <1>7, <1>9 DEF SchedTypeOK
<1>11. MutexTypeOK'
  BY <1>1 DEF Inv, TypeOK, MutexTypeOK
<1>12. DeviceTypeOK'
  <2>1. \A d \in Device : dev_freq[d] % WORD \in 0 .. WORD - 1
    BY DevFreqAssumption, TimerAssumption DEF Device
  <2> QED
    BY <1>1, <2>1 DEF Inv, TypeOK, DeviceTypeOK
<1>13. Slots' /\ Prios'
  BY <1>1, <1>7, <1>9 DEF Slots, Prios, native_prio, Inv
<1>14. Booted' /\ Boot'
  BY <1>1, <1>2, <1>7, <1>8 DEF Booted, Boot, native_prio, TasksOf
<1>15. Alive' = TasksOf(n)
  BY <1>1, <1>14 DEF Alive, Booted, TasksOf
<1>16. ReadyApart'
  BY <1>1, <1>7, <1>8 DEF ReadyApart, TasksOf
<1>17. AsleepApart' /\ WaitsApart'
  BY <1>4, <1>5 DEF AsleepApart, WaitsApart
<1>18. Placed'
  BY <1>2, <1>7, <1>8, <1>15 DEF Placed
<1>19. TopRuns' /\ cur_prio'[cur_tcb'] = cur_tcb'
  <2>1. cur_prio'[cur_tcb'] = cur_tcb'
    BY <1>1, <1>7, <1>8 DEF native_prio
  <2> QED
    BY <1>7, <2>1 DEF TopRuns, Occupied
<1>20. PendingWaits'
  BY <1>1, <1>2, <1>5, <1>15 DEF PendingWaits, Waits
<1>21. WaitersOnlyOnLocked'
  BY <1>1, <1>3 DEF WaitersOnlyOnLocked
<1>22. IdleCalm'
  BY <1>1, <1>2 DEF IdleCalm
<1> QED
  BY <1>2, <1>7, <1>8, <1>10, <1>11, <1>12, <1>13, <1>14, <1>15, <1>16, <1>17,
     <1>18, <1>19, <1>20, <1>21, <1>22 DEF Inv, TypeOK
----------------------------------------------------------------------------
(* The initial states, and the steps that move no task. *)

LEMMA InitInv == Init => Inv
<1> SUFFICES ASSUME Init PROVE Inv
  OBVIOUS
<1> USE DEF Init, SchedInit, MutexInit, DeviceInit
<1>1. IDLE_PRIO # 0 /\ IDLE_PRIO \in Tcb /\ OS_MAX_TASKS - 2 \in Nat
  BY OsMaxTasksAssumption DEF IDLE_PRIO, Tcb
<1>2. SchedTypeOK
  BY <1>1, PrioFacts DEF SchedTypeOK, EmptyRunList, RunList, Frames
<1>3. MutexTypeOK
  BY OsNumMutexAssumption DEF MutexTypeOK, Mutex
<1>4. DeviceTypeOK
  BY NumDevicesAssumption, TimerAssumption DEF DeviceTypeOK
<1>5. ~Booted /\ Alive = {}
  BY <1>1 DEF Booted, Alive
<1>6. \A p \in Prio : run_list[p] = NULL
  BY DEF EmptyRunList
<1>7. Slots /\ Prios /\ ReadyApart /\ TopRuns
  BY <1>6, PrioFacts DEF Slots, Prios, ReadyApart, TopRuns
<1>8. \A m \in Mutex : pSleep_queue[m] = <<>> /\ Position(m) = {}
  BY DEF Position
<1>9. Boot
  BY <1>5, <1>6, <1>8 DEF Boot
<1>10. AsleepApart /\ WaitsApart /\ Placed /\ PendingWaits /\ WaitersOnlyOnLocked
  BY <1>5, <1>8 DEF AsleepApart, WaitsApart, Placed, PendingWaits, WaitersOnlyOnLocked
<1>11. IdleCalm
  BY <1>1 DEF IdleCalm
<1> QED
  BY <1>2, <1>3, <1>4, <1>7, <1>9, <1>10, <1>11 DEF Inv, TypeOK

(* The clock after an interrupt: ticks modulo the word, drift below a tick. *)
LEMMA ClockTypes ==
    ASSUME DeviceTypeOK, NEW oscr \in Oscr
    PROVE  Now(oscr) \in 0 .. WORD - 1 /\ Drift(oscr) \in 0 .. OSTMR_COUNT - 1
<1> DEFINE r == oscr % OSTMR_COUNT
           q == oscr \div OSTMR_COUNT
<1>1. /\ r \in 0 .. OSTMR_COUNT - 1
      /\ q \in Int
      /\ time_drift \in 0 .. OSTMR_COUNT - 1
      /\ system_time \in Int
      /\ OSTMR_COUNT \in Nat \ {0}
      /\ WORD \in Nat \ {0}
  BY TimerAssumption DEF DeviceTypeOK
<1> HIDE DEF r, q
<1>2. Carry(oscr) \in {0, 1}
  BY DEF Carry
<1>3. Now(oscr) \in 0 .. WORD - 1
  <2>1. system_time + q + Carry(oscr) \in Int
    BY <1>1, <1>2
  <2> QED
    BY <1>1, <2>1 DEF Now, q
<1>4. CASE time_drift + r >= OSTMR_COUNT
  <2>1. Carry(oscr) = 1
    BY <1>4 DEF Carry, r
  <2>2. Drift(oscr) = time_drift + r - OSTMR_COUNT
    BY <1>1, <2>1 DEF Drift, r
  <2> QED
    BY <1>1, <1>3, <1>4, <2>2
<1>5. CASE ~(time_drift + r >= OSTMR_COUNT)
  <2>1. Carry(oscr) = 0
    BY <1>5 DEF Carry, r
  <2>2. Drift(oscr) = time_drift + r
    BY <1>1, <2>1 DEF Drift, r
  <2> QED
    BY <1>1, <1>3, <1>5, <2>2
<1> QED
  BY <1>4, <1>5

(* A tick that releases nobody. *)
LEMMA TimerIdleInv ==
    ASSUME Inv, NEW now \in 0 .. WORD - 1, UNCHANGED mutexVars,
           UNION {sleep_q[d] : d \in Due(now)} = {}, DevUpdate(now),
           system_time' \in 0 .. WORD - 1, time_drift' \in 0 .. OSTMR_COUNT - 1
    PROVE  Inv'
<1>1. next_match' \in [Device -> 0 .. WORD - 1]
  <2>1. \A d \in Device : dev_freq[d] \in Nat /\ next_match[d] \in 0 .. WORD - 1
    BY DevFreqAssumption DEF Inv, TypeOK, DeviceTypeOK, Device
  <2>2. \A d \in Device : (next_match[d] + dev_freq[d]) % WORD \in 0 .. WORD - 1
    BY <2>1, TimerAssumption
  <2> QED
    BY <2>1, <2>2 DEF DevUpdate
<1>2. sleep_q' = sleep_q
  <2>1. sleep_q \in [QueueWord -> SUBSET Tcb]
    BY DEF Inv, TypeOK, DeviceTypeOK
  <2>2. \A d \in Due(now) : sleep_q[d] = {}
    OBVIOUS
  <2>3. sleep_q' = [q \in QueueWord |-> IF q \in Due(now) THEN {} ELSE sleep_q[q]]
    BY DEF DevUpdate
  <2> QED
    BY <2>1, <2>2, <2>3
<1>3. UNCHANGED schedVars
  BY DEF DevUpdate
<1>4. UNCHANGED <<bAvailable, bLock, pHolding_Tcb, pSleep_queue, lock_arg, owned>>
  BY DEF mutexVars
<1>5. TypeOK'
  BY <1>1, <1>2, <1>3, <1>4
  DEF Inv, TypeOK, SchedTypeOK, MutexTypeOK, DeviceTypeOK, schedVars
<1>6. IdleCalm'
  BY <1>3 DEF Inv, IdleCalm, schedVars
<1> QED
  BY <1>2, <1>3, <1>4, <1>5, <1>6, Quiet DEF schedVars

LEMMA InterruptInv ==
    ASSUME Inv, Interrupt
    PROVE  Inv'
<1>1. PICK oscr \in Oscr : /\ system_time' = Now(oscr)
                           /\ time_drift' = Drift(oscr)
                           /\ DevUpdate(Now(oscr))
  BY DEF Interrupt, TimerIrq
<1>2. Now(oscr) \in 0 .. WORD - 1 /\ Drift(oscr) \in 0 .. OSTMR_COUNT - 1
  BY ClockTypes DEF Inv, TypeOK
<1>3. UNCHANGED mutexVars
  BY DEF Interrupt
<1> QED
  BY <1>1, <1>2, <1>3, TimerIdleInv, TimerWakeInv

(* Calls that fail or take a free mutex, and mutex_create. *)
LEMMA StayInv ==
    ASSUME Inv, UNCHANGED deviceVars,
           NEW m \in MutexArg,
           MutexCreate \/ MutexLockFails(m) \/ MutexUnlockFails(m) \/ MutexLockTake(m)
    PROVE  Inv'
<1>1. UNCHANGED <<num_tasks, run_list, cur_tcb, pending, frame, irq_on>>
  BY DEF MutexCreate, MutexLockFails, MutexUnlockFails, MutexLockTake, schedVars
<1>2. UNCHANGED <<sleep_q, next_match, system_time, time_drift>>
  BY DEF deviceVars
<1>3. CASE MutexCreate \/ MutexLockFails(m) \/ MutexUnlockFails(m)
  <2>1. /\ UNCHANGED <<cur_prio, holds_lock, bLock, pHolding_Tcb, pSleep_queue,
                       lock_arg, owned>>
        /\ bAvailable' \in [Mutex -> BOOLEAN]
    BY <1>3 DEF MutexCreate, MutexLockFails, MutexUnlockFails, schedVars,
       mutexVars, Inv, TypeOK, MutexTypeOK
  <2>2. TypeOK' /\ IdleCalm'
    BY <1>1, <1>2, <2>1
    DEF Inv, TypeOK, SchedTypeOK, MutexTypeOK, DeviceTypeOK, IdleCalm
  <2> QED
    BY <1>1, <1>2, <2>1, <2>2, Quiet
<1>4. CASE MutexLockTake(m)
  <2>1. /\ cur_tcb \in UserTasks
        /\ m \in Mutex
        /\ bLock' = [bLock EXCEPT ![m] = TRUE]
        /\ holds_lock' = [holds_lock EXCEPT ![cur_tcb] = @ + 1]
        /\ cur_prio' = [cur_prio EXCEPT ![cur_tcb] = 0]
        /\ pHolding_Tcb' = [pHolding_Tcb EXCEPT ![m] = cur_tcb]
        /\ owned' = [owned EXCEPT ![cur_tcb] = @ \cup {m}]
        /\ UNCHANGED <<bAvailable, pSleep_queue, lock_arg>>
    BY <1>4 DEF MutexLockTake, Calling, Acquire
  <2>2. cur_tcb \in Tcb
    BY <2>1, TaskFacts DEF Inv
  <2>3. SchedTypeOK'
    BY <1>1, <2>1, <2>2, PrioFacts DEF Inv, TypeOK, SchedTypeOK
  <2>4. MutexTypeOK'
    BY <2>1, <2>2 DEF Inv, TypeOK, MutexTypeOK
  <2>5. TypeOK' /\ IdleCalm'
    BY <1>1, <1>2, <2>3, <2>4 DEF Inv, TypeOK, DeviceTypeOK, IdleCalm
  <2>6. \A k \in Mutex : bLock[k] => bLock'[k]
    BY <2>1 DEF Inv, TypeOK, MutexTypeOK
  <2> QED
    BY <1>1, <1>2, <2>1, <2>5, <2>6, Quiet
<1> QED
  BY <1>3, <1>4

LEMMA EventWaitFailsInv ==
    ASSUME Inv, NEW dev, EventWaitFails(dev), UNCHANGED mutexVars
    PROVE  Inv'
<1>1. UNCHANGED <<deviceVars, schedVars, mutexVars>>
  BY DEF EventWaitFails
<1>2. TypeOK' /\ IdleCalm'
  BY <1>1 DEF deviceVars, schedVars, mutexVars, Inv, TypeOK, SchedTypeOK,
     MutexTypeOK, DeviceTypeOK, IdleCalm
<1> QED
  BY <1>1, <1>2, Quiet DEF deviceVars, schedVars, mutexVars

(* The rest of a kernel function that did not run to its end at once. *)
LEMMA ReturnInv ==
    ASSUME Inv, Return
    PROVE  Inv'
<1>1. /\ UNCHANGED <<num_tasks, run_list, cur_tcb, pending>>
      /\ UNCHANGED <<sleep_q, next_match, system_time, time_drift>>
      /\ UNCHANGED <<bAvailable, bLock, pSleep_queue, lock_arg>>
      /\ cur_tcb # NULL
      /\ frame' = [frame EXCEPT ![cur_tcb] = "none"]
      /\ irq_on' = TRUE
  BY DEF Return, LaunchTask, MutexLockReturn, MutexUnlockReturn, DevWaitReturn,
     DevUpdateReturn, Resume, deviceVars, mutexVars
<1>2. cur_tcb \in Tcb
  BY <1>1, Running
<1>3. frame' \in [Tcb -> Frames] /\ IdleCalm'
  BY <1>1, <1>2 DEF Inv, TypeOK, SchedTypeOK, Frames, IdleCalm
<1>4. CASE MutexLockReturn
  <2> DEFINE m == lock_arg[cur_tcb]
  <2>1. /\ frame[cur_tcb] = "mutex_lock"
        /\ holds_lock' = [holds_lock EXCEPT ![cur_tcb] = @ + 1]
        /\ cur_prio' = [cur_prio EXCEPT ![cur_tcb] = 0]
        /\ pHolding_Tcb' = [pHolding_Tcb EXCEPT ![m] = cur_tcb]
        /\ owned' = [owned EXCEPT ![cur_tcb] = @ \cup {m}]
    BY <1>4 DEF MutexLockReturn, Acquire, Resume
  <2>2. cur_tcb \in UserTasks
    <3>1. cur_tcb # IDLE_PRIO
      BY <2>1 DEF Inv, IdleCalm
    <3> QED
      BY <1>1, <3>1, Running, TaskFacts DEF Inv
  <2>3. m \in Mutex
    BY <1>2 DEF Inv, TypeOK, MutexTypeOK
  <2> HIDE DEF m
  <2>4. SchedTypeOK'
    BY <1>1, <1>2, <1>3, <2>1, PrioFacts DEF Inv, TypeOK, SchedTypeOK
  <2>5. MutexTypeOK'
    BY <1>1, <1>2, <2>1, <2>3 DEF Inv, TypeOK, MutexTypeOK
  <2>6. TypeOK'
    BY <1>1, <2>4, <2>5 DEF Inv, TypeOK, DeviceTypeOK
  <2> QED
    BY <1>1, <1>3, <2>1, <2>2, <2>6, Quiet
<1>5. CASE ~MutexLockReturn
  <2>1. UNCHANGED <<cur_prio, holds_lock, pHolding_Tcb, owned>>
    BY <1>5 DEF Return, LaunchTask, MutexUnlockReturn, DevWaitReturn,
       DevUpdateReturn, mutexVars
  <2>2. TypeOK'
    BY <1>1, <1>3, <2>1
    DEF Inv, TypeOK, SchedTypeOK, MutexTypeOK, DeviceTypeOK
  <2> QED
    BY <1>1, <1>3, <2>1, <2>2, Quiet
<1> QED
  BY <1>4, <1>5

----------------------------------------------------------------------------
(* The theorems for every client. *)

LEMMA NextInv == Inv /\ [Next]_vars => Inv'
<1> SUFFICES ASSUME Inv, [Next]_vars PROVE Inv'
  OBVIOUS
<1>1. CASE SystemCall
  <2>1. ASSUME NEW n \in TaskCounts, TaskCreate(n) PROVE Inv'
    BY <2>1, TaskCreateInv
  <2>2. CASE MutexCreate /\ UNCHANGED deviceVars
    <3>1. 0 \in MutexArg
      BY OsNumMutexAssumption DEF MutexArg
    <3> QED
      BY <2>2, <3>1, StayInv
  <2>3. ASSUME NEW m \in MutexArg, UNCHANGED deviceVars,
               MutexLockFails(m) \/ MutexLockTake(m) \/ MutexUnlockFails(m)
        PROVE  Inv'
    BY <2>3, StayInv
  <2>4. ASSUME NEW m \in MutexArg, UNCHANGED deviceVars, MutexLockSleep(m)
        PROVE  Inv'
    BY <2>4, MutexLockSleepInv
  <2>5. ASSUME NEW m \in MutexArg, UNCHANGED deviceVars, MutexUnlock(m)
        PROVE  Inv'
    <3>1. Release(cur_tcb, m) \/ HandOff(cur_tcb, m)
      BY <2>5 DEF MutexUnlock
    <3> QED
      BY <2>5, <3>1, ReleaseInv, HandOffInv
  <2>6. ASSUME NEW dev \in WaitArg, UNCHANGED mutexVars,
               EventWaitFails(dev) \/ EventWait(dev)
        PROVE  Inv'
    BY <2>6, EventWaitFailsInv, EventWaitInv
  <2> QED
    BY <1>1, <2>1, <2>2, <2>3, <2>4, <2>5, <2>6 DEF SystemCall
<1>2. CASE Return
  BY <1>2, ReturnInv
<1>3. CASE Interrupt
  BY <1>3, InterruptInv
<1>4. CASE UNCHANGED vars
  <2>1. UNCHANGED <<schedVars, mutexVars, deviceVars>>
    BY <1>4 DEF vars
  <2>2. TypeOK' /\ IdleCalm'
    BY <2>1 DEF deviceVars, schedVars, mutexVars, Inv, TypeOK, SchedTypeOK,
       MutexTypeOK, DeviceTypeOK, IdleCalm
  <2> QED
    BY <2>1, <2>2, Quiet DEF deviceVars, schedVars, mutexVars
<1> QED
  BY <1>1, <1>2, <1>3, <1>4 DEF Next

LEMMA Invariance == Spec => []Inv
BY InitInv, NextInv, PTL DEF Spec
(* The state of the kernel has its type: no clock value outgrows its word, *)
(* no drift a tick, and the queues only ever hold TCBs.                    *)
THEOREM TypeCorrect == Spec => []TypeOK
<1>1. Inv => TypeOK
  BY DEF Inv
<1> QED
  BY <1>1, Invariance, PTL

(* No task that task_create made is ever lost by runqueue_add, dev_update, *)
(* mutex_unlock or dispatch_save, and none is in two places, for clients   *)
(* that lock and unlock as they like.                                      *)
THEOREM NoTaskLost == Spec => []OnePlace
<1>1. ASSUME Inv, NEW t \in Alive PROVE \E place \in Places(t) : Places(t) = {place}
  <2> DEFINE C == {<<"cpu">> : c \in {c \in {cur_tcb} : c = t}}
             R == {<<"ready", p>> : p \in {p \in Prio : run_list[p] = t}}
             D == {<<"device", q>> : q \in {q \in QueueWord : t \in sleep_q[q]}}
             M == UNION {{<<"mutex", m, i>> :
                            i \in {i \in 1 .. Len(pSleep_queue[m]) :
                                     pSleep_queue[m][i] = t}} : m \in Mutex}
  <2>1. Places(t) = C \cup R \cup D \cup M
    BY DEF Places
  <2>2. t \in Tcb
    BY <1>1, TaskFacts DEF Alive, Inv
  <2>3. C = IF t = cur_tcb THEN {<<"cpu">>} ELSE {}
    OBVIOUS
  <2>4. R = IF run_list[t] = t THEN {<<"ready", t>>} ELSE {}
    <3>1. \A p \in Prio : run_list[p] = t <=> p = t /\ run_list[t] = t
      BY <1>1, <2>2, PrioFacts DEF Inv, Slots
    <3> QED
      BY <3>1, <2>2, PrioFacts
  <2>5. \A x : x \in D <=> \E q \in QueueWord : x = <<"device", q>> /\ t \in sleep_q[q]
    OBVIOUS
  <2>6. \A x : x \in M <=> \E m \in Mutex : \E i \in Position(m) :
                             x = <<"mutex", m, i>> /\ pSleep_queue[m][i] = t
    BY DEF Position
  <2> HIDE DEF C, R, D, M
  <2>7. ~Asleep(t) => D = {}
    BY <2>5 DEF Asleep
  <2>8. ~Waits(t) => M = {}
    BY <2>6 DEF Waits
  <2>9. CASE t = cur_tcb
    <3>1. ~Asleep(t) /\ ~Waits(t) /\ run_list[t] # t
      BY <1>1, <2>2, <2>9, PrioFacts, Running
    <3> QED
      BY <2>1, <2>3, <2>4, <2>7, <2>8, <2>9, <3>1
  <2>10. CASE run_list[t] = t
    <3>1. ~Asleep(t) /\ ~Waits(t) /\ t # cur_tcb
      BY <1>1, <2>2, <2>10 DEF Inv, AsleepApart, WaitsApart, ReadyApart, Asleep,
         Waits, Blocked
    <3> QED
      BY <2>1, <2>3, <2>4, <2>7, <2>8, <2>10, <3>1
  <2>11. CASE Asleep(t)
    <3>1. PICK q \in QueueWord : t \in sleep_q[q]
      BY <2>11 DEF Asleep
    <3>2. ~Waits(t) /\ t # cur_tcb /\ run_list[t] # t
      BY <1>1, <3>1 DEF Inv, AsleepApart, Blocked
    <3>3. \A r \in QueueWord : t \in sleep_q[r] => q = r
      BY <1>1, <3>1 DEF Inv, AsleepApart
    <3>4. D = {<<"device", q>>}
      BY <2>5, <3>1, <3>3
    <3> QED
      BY <2>1, <2>3, <2>4, <2>8, <3>2, <3>4
  <2>12. CASE Waits(t)
    <3>0. PICK m \in Mutex : \E i \in Position(m) : pSleep_queue[m][i] = t
      BY <2>12 DEF Waits
    <3>1. PICK i \in Position(m) : pSleep_queue[m][i] = t
      BY <3>0
    <3>2. t # cur_tcb /\ run_list[t] # t
      BY <1>1, <3>1 DEF Inv, WaitsApart, Blocked
    <3>3. ~Asleep(t)
      BY <1>1, <2>12 DEF Inv, AsleepApart, Asleep
    <3>4. M = {<<"mutex", m, i>>}
      BY <1>1, <2>6, <3>1 DEF Inv, WaitsApart
    <3> QED
      BY <2>1, <2>3, <2>4, <2>7, <3>2, <3>3, <3>4
  <2> QED
    BY <1>1, <2>9, <2>10, <2>11, <2>12 DEF Inv, Placed
<1>2. Inv => OnePlace
  BY <1>1 DEF OnePlace
<1> QED
  BY <1>2, Invariance, PTL

(* Fixed-priority scheduling: after every dispatch_save, dispatch_sleep    *)
(* and dispatch_nosave the best ready task is the one that runs.           *)
THEOREM HighestPriorityRuns == Spec => []HighestRuns
<1>1. Inv => HighestRuns
  BY DEF Inv, TopRuns, HighestRuns
<1> QED
  BY <1>1, Invariance, PTL

(* "There is always an idle task to switch to" (ctx_switch.c:60,74).       *)
THEOREM IdleAlwaysReady == Spec => []IdleReady
<1>1. Inv => IdleReady
  <2> SUFFICES ASSUME Inv PROVE IdleReady
    OBVIOUS
  <2>1. Alive # {} => cur_tcb # NULL
    BY TaskFacts, PrioFacts DEF Alive, Inv, Boot, Booted
  <2> QED
    BY <2>1, IdleIsReady DEF IdleReady
<1> QED
  BY <1>1, Invariance, PTL

(* tcb.pending marks exactly the tasks in a mutex's sleep queue.           *)
THEOREM PendingExact == Spec => []PendingIffQueued
<1>1. ASSUME Inv PROVE PendingIffQueued
  <2>1. \A m \in Mutex : pSleep_queue[m] \in Seq(Tcb)
    BY <1>1 DEF Inv, TypeOK, MutexTypeOK
  <2>2. ASSUME NEW m \in Mutex, NEW t
        PROVE  t \in Range(pSleep_queue[m])
                 <=> \E i \in Position(m) : pSleep_queue[m][i] = t
    <3>1. DOMAIN pSleep_queue[m] = Position(m)
      BY <2>1 DEF Position
    <3> QED
      BY <3>1 DEF Range
  <2>3. \A t : Waits(t) <=> \E m \in Mutex : t \in Range(pSleep_queue[m])
    BY <2>2 DEF Waits
  <2> QED
    BY <1>1, <2>3 DEF Inv, PendingWaits, PendingIffQueued
<1> QED
  BY <1>1, Invariance, PTL

(* mutex_unlock never clears bLock while a task is queued.                 *)
THEOREM WaitersKeepLock == Spec => []WaitersOnlyOnLocked
<1>1. Inv => WaitersOnlyOnLocked
  BY DEF Inv
<1> QED
  BY <1>1, Invariance, PTL
----------------------------------------------------------------------------
(* Preemption, for every client. *)

(* A task that holds no lock is at its native priority, and so is a ready  *)
(* one, even if a client's unlocks have mixed up holds_lock: mutex_unlock  *)
(* resets the priority of the task it wakes, dev_wait refuses a holder.    *)
Unboosted ==
    \A t \in Alive :
        /\ holds_lock[t] = 0 => cur_prio[t] = t
        /\ Asleep(t) => holds_lock[t] = 0
        /\ run_list[t] = t => cur_prio[t] = t

(* A step that moves no task; the running one may have acquired a mutex.   *)
LEMMA UnboostedQuiet ==
    ASSUME Inv, Unboosted, UNCHANGED <<num_tasks, run_list, cur_tcb, sleep_q>>,
           \/ UNCHANGED <<cur_prio, holds_lock>>
           \/ /\ cur_tcb \in UserTasks
              /\ cur_prio' = [cur_prio EXCEPT ![cur_tcb] = 0]
              /\ holds_lock' = [holds_lock EXCEPT ![cur_tcb] = @ + 1]
    PROVE  Unboosted'
<1>1. \A t : Asleep(t)' <=> Asleep(t)
  BY DEF Asleep
<1>2. CASE UNCHANGED <<cur_prio, holds_lock>>
  BY <1>1, <1>2 DEF Unboosted, Alive, TasksOf
<1>3. CASE /\ cur_tcb \in UserTasks
           /\ cur_prio' = [cur_prio EXCEPT ![cur_tcb] = 0]
           /\ holds_lock' = [holds_lock EXCEPT ![cur_tcb] = @ + 1]
  <2>1. cur_tcb \in Tcb /\ cur_tcb # NULL /\ cur_tcb # IDLE_PRIO
    BY <1>3, UnlockFacts
  <2>2. run_list[cur_tcb] = NULL /\ ~Asleep(cur_tcb) /\ NULL \notin Tcb
    BY <2>1, Running, PrioFacts
  <2>3. cur_prio'[IDLE_PRIO] = cur_prio[IDLE_PRIO]
    BY <1>3, <2>1, PrioFacts DEF Inv, TypeOK, SchedTypeOK
  <2>4. Alive' = Alive /\ Alive \subseteq Tcb
    BY <2>3, TaskFacts DEF Alive, TasksOf, Inv
  <2>5. \A t \in Alive : t # cur_tcb =>
          cur_prio'[t] = cur_prio[t] /\ holds_lock'[t] = holds_lock[t]
    BY <1>3, <2>4 DEF Inv, TypeOK, SchedTypeOK
  <2>6. holds_lock'[cur_tcb] # 0
    BY <1>3, <2>1 DEF Inv, TypeOK, SchedTypeOK
  <2> QED
    BY <1>1, <2>1, <2>2, <2>4, <2>5, <2>6 DEF Unboosted
<1> QED
  BY <1>2, <1>3

(* mutex_unlock. *)
LEMMA UnboostedUnlock ==
    ASSUME Inv, Unboosted, NEW m \in MutexArg, MutexUnlock(m),
           UNCHANGED deviceVars
    PROVE  Unboosted'
<1> DEFINE prio  == PrioAfterUnlock(cur_tcb)
           first == Head(pSleep_queue[m])
<1>1. /\ cur_tcb \in UserTasks
      /\ m \in Mutex
      /\ num_tasks' = num_tasks
      /\ sleep_q' = sleep_q
      /\ Release(cur_tcb, m) \/ HandOff(cur_tcb, m)
      /\ holds_lock' = [holds_lock EXCEPT ![cur_tcb] = IF @ > 1 THEN @ - 1 ELSE 0]
  BY UnlockTypes DEF MutexUnlock, deviceVars
<1>2. cur_tcb \in Tcb /\ cur_tcb # NULL /\ cur_tcb # IDLE_PRIO /\ prio \in {0, cur_tcb}
  BY <1>1, UnlockFacts
<1>3. /\ Alive = TasksOf(num_tasks)
      /\ cur_prio[IDLE_PRIO] = IDLE_PRIO
      /\ Alive \subseteq Tcb
      /\ ~Asleep(cur_tcb)
  BY <1>2, Running, TaskFacts DEF Booted, Inv
<1>4. \A t : Asleep(t)' <=> Asleep(t)
  BY <1>1 DEF Asleep
<1>5. /\ \A t \in Tcb : t # cur_tcb => holds_lock'[t] = holds_lock[t]
      /\ holds_lock'[cur_tcb] = 0 => prio = cur_tcb
  <2>1. holds_lock[cur_tcb] \in Nat /\ holds_lock \in [Tcb -> Nat]
    BY <1>2 DEF Inv, TypeOK, SchedTypeOK
  <2> QED
    BY <1>1, <1>2, <2>1 DEF PrioAfterUnlock, native_prio
<1>6. CASE Release(cur_tcb, m)
  <2>1. /\ prio = 0 => cur_tcb' = cur_tcb
        /\ Inv'
        /\ \A t \in Tcb : run_list'[t] = t => run_list[t] = t \/ t = cur_tcb
    BY <1>1, <1>6, ReleaseInv DEF deviceVars
  <2>2. \A t \in Tcb : cur_prio'[t] = IF t = cur_tcb THEN prio ELSE cur_prio[t]
    BY <1>2, <1>6 DEF Release, Inv, TypeOK, SchedTypeOK
  <2>3. Alive' = Alive
    BY <1>1, <1>2, <1>3, <2>2, PrioFacts DEF Alive, TasksOf
  <2>4. run_list'[cur_tcb] = cur_tcb => prio = cur_tcb
    BY <1>2, <2>1 DEF Inv, ReadyApart
  <2> HIDE DEF prio
  <2> QED
    BY <1>3, <1>4, <1>5, <2>1, <2>2, <2>3, <2>4 DEF Unboosted
<1>7. CASE HandOff(cur_tcb, m)
  <2>1. /\ prio = 0 => cur_tcb' = cur_tcb
        /\ Inv'
        /\ first \in Tcb \ {cur_tcb}
        /\ \A t \in Tcb : run_list'[t] = t =>
             run_list[t] = t \/ t = cur_tcb \/ t = first
    BY <1>1, <1>7, HandOffInv DEF deviceVars
  <2>2. \A t \in Tcb : cur_prio'[t] = IF t = cur_tcb THEN prio
                                      ELSE IF t = first THEN t ELSE cur_prio[t]
    BY <1>2, <1>7, <2>1 DEF HandOff, Inv, TypeOK, SchedTypeOK, native_prio
  <2> HIDE DEF prio, first
  <2>3. Alive' = Alive
    BY <1>1, <1>2, <1>3, <2>2, PrioFacts DEF Alive, TasksOf
  <2>4. run_list'[cur_tcb] = cur_tcb => prio = cur_tcb
    BY <1>2, <2>1 DEF Inv, ReadyApart
  <2> QED
    BY <1>3, <1>4, <1>5, <2>1, <2>2, <2>3, <2>4 DEF Unboosted
<1> QED
  BY <1>1, <1>6, <1>7

(* event_wait and mutex_lock of a taken mutex. *)
LEMMA UnboostedSleep ==
    ASSUME Inv, Unboosted, cur_tcb \in UserTasks, NEW fn \in Frames,
           DispatchSleep(fn), UNCHANGED <<num_tasks, cur_prio, holds_lock>>,
           \A t \in Tcb : Asleep(t)' =>
               Asleep(t) \/ (t = cur_tcb /\ holds_lock[t] = 0)
    PROVE  Unboosted'
<1>1. \A t \in Tcb : run_list'[t] = t => run_list[t] = t
  BY SleepLemma
<1>2. Alive' = Alive /\ Alive \subseteq Tcb
  BY TaskFacts DEF Alive, TasksOf, Inv
<1> QED
  BY <1>1, <1>2 DEF Unboosted

(* The timer interrupt. *)
LEMMA UnboostedTimer ==
    ASSUME Inv, Unboosted, Interrupt
    PROVE  Unboosted'
<1>1. PICK oscr \in Oscr : /\ system_time' = Now(oscr)
                           /\ time_drift' = Drift(oscr)
                           /\ DevUpdate(Now(oscr))
  BY DEF Interrupt, TimerIrq
<1>2. Now(oscr) \in 0 .. WORD - 1 /\ Drift(oscr) \in 0 .. OSTMR_COUNT - 1
  BY ClockTypes DEF Inv, TypeOK
<1>3. UNCHANGED <<num_tasks, cur_prio, holds_lock>> /\ UNCHANGED mutexVars
  BY <1>1 DEF Interrupt, DevUpdate, schedVars
<1>4. Alive' = Alive /\ Alive \subseteq Tcb
  BY <1>3, TaskFacts DEF Alive, TasksOf, Inv
<1>5. \A t : Asleep(t)' => Asleep(t)
  BY <1>1 DEF DevUpdate, Asleep
<1>6. CASE UNION {sleep_q[d] : d \in Due(Now(oscr))} = {}
  <2>1. run_list' = run_list
    BY <1>1, <1>6 DEF DevUpdate, schedVars
  <2> QED
    BY <1>3, <1>4, <1>5, <2>1 DEF Unboosted
<1>7. CASE UNION {sleep_q[d] : d \in Due(Now(oscr))} # {}
  <2>1. /\ Inv'
        /\ cur_prio[cur_tcb] = 0 => cur_tcb' = cur_tcb
        /\ \A t \in Tcb : run_list'[t] = t =>
             run_list[t] = t \/ t = cur_tcb \/ Asleep(t)
    BY <1>1, <1>2, <1>3, <1>7, TimerWakeInv
  <2>2. \A t \in Tcb : run_list'[t] = t /\ t = cur_tcb => cur_prio[t] = t
    BY <2>1 DEF Inv, ReadyApart, Prios
  <2> QED
    BY <1>3, <1>4, <1>5, <2>1, <2>2 DEF Unboosted
<1> QED
  BY <1>6, <1>7

LEMMA UnboostedInit == Init => Unboosted
<1>1. ASSUME Init PROVE Alive = {}
  BY <1>1, OsMaxTasksAssumption DEF Init, SchedInit, Alive, IDLE_PRIO, Tcb
<1> QED
  BY <1>1 DEF Unboosted

LEMMA UnboostedNext == Inv /\ Unboosted /\ [Next]_vars => Unboosted'
<1> SUFFICES ASSUME Inv, Unboosted, [Next]_vars PROVE Unboosted'
  OBVIOUS
<1>1. ASSUME NEW n \in TaskCounts, TaskCreate(n) PROVE Unboosted'
  <2>1. /\ num_tasks' = n
        /\ \A t \in Tcb : t \in TasksOf(n) =>
             cur_prio'[t] = t /\ holds_lock'[t] = 0
    BY <1>1 DEF TaskCreate, AllocateTcbs, native_prio
  <2>2. TasksOf(n) \subseteq Tcb
    BY TaskCountsAssumption, OsMaxTasksAssumption DEF TasksOf, Tcb, IDLE_PRIO
  <2>3. Alive' \subseteq TasksOf(n)
    BY <2>1 DEF Alive, TasksOf
  <2> QED
    BY <2>1, <2>2, <2>3 DEF Unboosted
<1>2. ASSUME MutexCreate, UNCHANGED deviceVars PROVE Unboosted'
  BY <1>2, UnboostedQuiet DEF MutexCreate, schedVars, deviceVars
<1>3. ASSUME NEW m \in MutexArg, UNCHANGED deviceVars,
             MutexLockFails(m) \/ MutexUnlockFails(m)
      PROVE  Unboosted'
  BY <1>3, UnboostedQuiet
  DEF MutexLockFails, MutexUnlockFails, schedVars, deviceVars
<1>4. ASSUME NEW m \in MutexArg, UNCHANGED deviceVars, MutexLockTake(m)
      PROVE  Unboosted'
  BY <1>4, UnboostedQuiet DEF MutexLockTake, Calling, Acquire, deviceVars
<1>5. ASSUME NEW m \in MutexArg, UNCHANGED deviceVars, MutexLockSleep(m)
      PROVE  Unboosted'
  <2>1. /\ cur_tcb \in UserTasks
        /\ DispatchSleep("mutex_lock")
        /\ UNCHANGED <<num_tasks, cur_prio, holds_lock>>
        /\ sleep_q' = sleep_q
    BY <1>5 DEF MutexLockSleep, Calling, deviceVars
  <2>2. \A t : Asleep(t)' => Asleep(t)
    BY <2>1 DEF Asleep
  <2> QED
    BY <2>1, <2>2, UnboostedSleep DEF Frames
<1>6. ASSUME NEW m \in MutexArg, UNCHANGED deviceVars, MutexUnlock(m)
      PROVE  Unboosted'
  BY <1>6, UnboostedUnlock
<1>7. ASSUME NEW dev \in WaitArg, EventWaitFails(dev) PROVE Unboosted'
  BY <1>7, UnboostedQuiet DEF EventWaitFails, schedVars, deviceVars
<1>8. ASSUME NEW dev \in WaitArg, EventWait(dev) PROVE Unboosted'
  <2>1. /\ cur_tcb \in UserTasks
        /\ holds_lock[cur_tcb] = 0
        /\ sleep_q' = [sleep_q EXCEPT ![dev] = @ \cup {cur_tcb}]
        /\ DispatchSleep("dev_wait")
        /\ UNCHANGED <<num_tasks, cur_prio, holds_lock>>
    BY <1>8 DEF EventWait, Calling
  <2>2. \A t : Asleep(t)' => Asleep(t) \/ t = cur_tcb
    BY <2>1 DEF Asleep, Inv, TypeOK, DeviceTypeOK
  <2> QED
    BY <2>1, <2>2, UnboostedSleep DEF Frames
<1>9. CASE Return
  <2>1. UNCHANGED <<num_tasks, run_list, cur_tcb, sleep_q>> /\ cur_tcb # NULL
    BY <1>9 DEF Return, LaunchTask, MutexLockReturn, MutexUnlockReturn,
       DevWaitReturn, DevUpdateReturn, Resume, deviceVars
  <2>2. CASE MutexLockReturn
    <3>1. cur_tcb # IDLE_PRIO
      BY <2>2 DEF MutexLockReturn, Resume, Inv, IdleCalm
    <3>2. cur_tcb \in UserTasks
      BY <2>1, <3>1, Running, TaskFacts DEF Inv
    <3> QED
      BY <2>1, <2>2, <3>2, UnboostedQuiet DEF MutexLockReturn, Acquire
  <2>3. CASE ~MutexLockReturn
    <3>1. UNCHANGED <<cur_prio, holds_lock>>
      BY <1>9, <2>3 DEF Return, LaunchTask, MutexUnlockReturn, DevWaitReturn,
         DevUpdateReturn
    <3> QED
      BY <2>1, <3>1, UnboostedQuiet
  <2> QED
    BY <2>2, <2>3
<1>10. CASE Interrupt
  BY <1>10, UnboostedTimer
<1>11. CASE UNCHANGED vars
  BY <1>11, UnboostedQuiet DEF vars, schedVars, deviceVars
<1> QED
  BY <1>1, <1>2, <1>3, <1>4, <1>5, <1>6, <1>7, <1>8, <1>9, <1>10, <1>11
  DEF Next, SystemCall

(* Only a higher task takes the processor from a task that stays ready:    *)
(* neither an interrupt that releases lower ones nor an unlock that nobody *)
(* waits for does (ctx_switch.c:37).                                       *)
THEOREM PreemptionJustified == Spec => PreemptedOnlyByHigher
<1>1. ASSUME Inv', Unboosted', cur_tcb \in Tcb, cur_tcb \in Range(run_list')
      PROVE  cur_prio'[cur_tcb'] < cur_prio'[cur_tcb]
  <2>1. PICK p \in Prio : run_list'[p] = cur_tcb
    BY <1>1 DEF Range, Inv, TypeOK, SchedTypeOK, RunList
  <2>2. run_list'[cur_tcb] = cur_tcb
    BY <1>1, <2>1, PrioFacts DEF Inv, Slots
  <2>3. cur_tcb' # cur_tcb /\ cur_tcb \in TasksOf(num_tasks)'
    BY <1>1, <2>2 DEF Inv, ReadyApart
  <2>4. Booted'
    BY <1>1, <2>1, PrioFacts DEF Inv, Boot
  <2>5. cur_prio'[cur_tcb] = cur_tcb
    BY <1>1, <2>2, <2>3, <2>4 DEF Unboosted, Alive, Booted
  <2>6. cur_tcb' \in Tcb
    BY <1>1, <2>4, PrioFacts, TaskFacts, OsMaxTasksAssumption
    DEF Inv, Boot, TypeOK, SchedTypeOK, TasksOf, Tcb, IDLE_PRIO
  <2>7. cur_prio'[cur_tcb'] <= cur_tcb
    BY <1>1, <2>2, <2>6, PrioFacts DEF Inv, TopRuns, Occupied
  <2>8. cur_prio'[cur_tcb'] \in {0, cur_tcb'}
    BY <1>1, <2>6 DEF Inv, Prios
  <2>9. \A a \in Tcb : a \in Nat /\ a > 0
    BY DEF Tcb
  <2> QED
    BY <1>1, <2>3, <2>5, <2>6, <2>7, <2>8, <2>9
<1>2. Inv /\ Unboosted /\ [Next]_vars =>
        [(cur_tcb \in Tcb \cap Range(run_list')) =>
           (cur_prio'[cur_tcb'] < cur_prio'[cur_tcb])]_vars
  BY <1>1, NextInv, UnboostedNext
<1> QED
  BY <1>2, InitInv, NextInv, UnboostedInit, UnboostedNext, PTL
  DEF Spec, PreemptedOnlyByHigher
----------------------------------------------------------------------------
(* The kernel implements PriorityScheduler: every step of the kernel is    *)
(* one step of the abstract scheduler or changes nothing that a task could *)
(* tell.                                                                   *)

(* The refinement mapping, as named parts. *)
Ready == {run_list[p] : p \in Occupied(run_list)}
Boosted == cur_tcb # NULL /\ cur_prio[cur_tcb] = 0
AbsVars == <<Alive, cur_tcb, Ready, Boosted>>

(* First(S) is the least of S. *)
LEMMA FirstIsLeast ==
    ASSUME NEW S \in SUBSET Int, NEW t \in S, \A u \in S : t <= u
    PROVE  Scheduler!First(S) = t
<1> DEFINE x == CHOOSE x \in S : \A u \in S : x <= u
<1>1. x \in S /\ \A u \in S : x <= u
  OBVIOUS
<1>2. Scheduler!First(S) = x
  BY DEF Scheduler!First
<1> HIDE DEF x
<1>3. x <= t /\ t <= x /\ x \in Int /\ t \in Int
  BY <1>1
<1> QED
  BY <1>2, <1>3

(* The tasks in a run queue of native slots. *)
LEMMA ReadyTasks ==
    ASSUME NEW rl \in RunList, \A p \in Prio : rl[p] \in {NULL, p}
    PROVE  {rl[p] : p \in Occupied(rl)} = {t \in Tcb : rl[t] = t}
<1>1. ASSUME NEW p \in Occupied(rl) PROVE rl[p] = p /\ p \in Tcb
  BY <1>1, PrioFacts DEF Occupied, RunList
<1>2. ASSUME NEW t \in Tcb, rl[t] = t PROVE t \in Occupied(rl)
  BY <1>2, PrioFacts DEF Occupied
<1> QED
  BY <1>1, <1>2

LEMMA ReadyNow ==
    ASSUME Inv
    PROVE  Ready = {t \in Tcb : run_list[t] = t}
BY ReadyTasks DEF Ready, Inv, TypeOK, SchedTypeOK, Slots

LEMMA ReadyNext ==
    ASSUME Inv'
    PROVE  Ready' = {t \in Tcb : run_list'[t] = t}
<1>1. run_list' \in RunList /\ \A p \in Prio : run_list'[p] \in {NULL, p}
  BY DEF Inv, TypeOK, SchedTypeOK, Slots
<1>2. {run_list'[p] : p \in Occupied(run_list')}
        = {t \in Tcb : run_list'[t] = t}
  BY <1>1, ReadyTasks
<1> QED
  BY <1>2 DEF Ready

(* The task that runs after a step is the first of a set if the others of  *)
(* the set are ready.                                                      *)
LEMMA RunnerIsFirst ==
    ASSUME Inv', cur_tcb' \in Tcb, cur_prio'[cur_tcb'] = cur_tcb',
           NEW S \in SUBSET Tcb, cur_tcb' \in S,
           \A t \in S : t = cur_tcb' \/ run_list'[t] = t
    PROVE  Scheduler!First(S) = cur_tcb'
<1>1. Tcb \subseteq Int /\ S \in SUBSET Int
  BY DEF Tcb
<1>2. ASSUME NEW t \in S PROVE cur_tcb' <= t
  <2>1. CASE t = cur_tcb'
    BY <1>1, <2>1
  <2>2. CASE run_list'[t] = t
    BY <2>2, PrioFacts DEF Inv, TopRuns, Occupied
  <2> QED
    BY <2>1, <2>2
<1> QED
  BY <1>1, <1>2, FirstIsLeast
----------------------------------------------------------------------------
(* One lemma per action of PriorityScheduler. *)

(* Start: task_create. *)
LEMMA StartsAll ==
    ASSUME Inv, NEW n \in TaskCounts, TaskCreate(n)
    PROVE  Scheduler!Start(TasksOf(n)) /\ TasksOf(n) \subseteq Tcb
<1>1. /\ Inv'
      /\ Alive' = TasksOf(n)
      /\ IDLE_PRIO \in TasksOf(n) /\ TasksOf(n) \subseteq Tcb
      /\ cur_tcb' \in TasksOf(n) /\ cur_prio'[cur_tcb'] = cur_tcb'
      /\ \A t \in Tcb : run_list'[t] = t <=> t \in TasksOf(n) /\ t # cur_tcb'
  BY TaskCreateInv
<1>2. Scheduler!First(TasksOf(n)) = cur_tcb'
  BY <1>1, RunnerIsFirst
<1>3. Ready' = TasksOf(n) \ {cur_tcb'}
  BY <1>1, ReadyNext
<1>4. Boosted' = FALSE
  BY <1>1, PrioFacts DEF Boosted, Tcb
<1> QED
  BY <1>1, <1>2, <1>3, <1>4 DEF Scheduler!Start, Ready, Boosted

(* Boost: mutex_lock that returns with the mutex. *)
LEMMA Boosts ==
    ASSUME Inv, cur_tcb \in UserTasks,
           cur_prio' = [cur_prio EXCEPT ![cur_tcb] = 0],
           UNCHANGED <<num_tasks, run_list, cur_tcb>>
    PROVE  Scheduler!Boost
<1>1. cur_tcb \in Tcb /\ cur_tcb # NULL /\ cur_tcb # IDLE_PRIO
  BY UnlockFacts
<1>2. cur_prio'[cur_tcb] = 0 /\ cur_prio'[IDLE_PRIO] = cur_prio[IDLE_PRIO]
  BY <1>1, PrioFacts DEF Inv, TypeOK, SchedTypeOK
<1>3. Alive' = Alive /\ Boosted'
  BY <1>1, <1>2 DEF Alive, TasksOf, Boosted
<1>4. Ready' = Ready
  BY DEF Ready, Occupied
<1> QED
  BY <1>1, <1>3, <1>4 DEF Scheduler!Boost, Ready, Boosted

(* Sleep: event_wait, and mutex_lock of a mutex that is taken. *)
LEMMA Sleeps ==
    ASSUME Inv, Unboosted, Inv', cur_tcb \in UserTasks,
           NEW fn \in Frames, DispatchSleep(fn),
           UNCHANGED <<num_tasks, cur_prio>>
    PROVE  Scheduler!Sleep
<1>1. /\ cur_tcb' \in Tcb
      /\ run_list[cur_tcb'] = cur_tcb'
      /\ \A t \in Tcb : run_list'[t] = t <=> run_list[t] = t /\ t # cur_tcb'
  BY SleepLemma
<1>2. cur_tcb \in Tcb /\ cur_tcb # NULL /\ cur_tcb # IDLE_PRIO
  BY UnlockFacts
<1>3. /\ Alive' = Alive
      /\ Alive = TasksOf(num_tasks)
      /\ cur_tcb \in Alive
  BY <1>2, Running DEF Alive, TasksOf
<1>4. cur_prio'[cur_tcb'] = cur_tcb'
  BY <1>1, <1>3 DEF Unboosted, Inv, ReadyApart
<1>5. /\ Ready = {t \in Tcb : run_list[t] = t}
      /\ Ready' = {t \in Tcb : run_list'[t] = t}
  BY ReadyNow, ReadyNext
<1>6. Scheduler!First(Ready) = cur_tcb'
  BY <1>1, <1>4, <1>5, RunnerIsFirst
<1>7. Ready' = Ready \ {cur_tcb'}
  BY <1>1, <1>5
<1>8. Boosted' = FALSE
  BY <1>1, <1>4 DEF Boosted, Tcb
<1> QED
  BY <1>2, <1>3, <1>6, <1>7, <1>8 DEF Scheduler!Sleep, Ready, Boosted

(* Wake: a timer interrupt that releases somebody, and mutex_unlock. *)
LEMMA Awakes ==
    ASSUME Inv, Inv', cur_tcb # NULL, num_tasks' = num_tasks,
           NEW W \in SUBSET UserTasks, \A t \in W : Blocked(t), Wakes(W),
           NEW prio \in {0, cur_tcb}, prio = 0 => Boosted /\ cur_tcb' = cur_tcb,
           cur_prio'[cur_tcb'] = IF prio = 0 THEN 0 ELSE cur_tcb'
    PROVE  Scheduler!Next
<1> DEFINE S == Ready \cup W \cup {cur_tcb}
<1>1. /\ cur_tcb \in Alive
      /\ cur_tcb \in Tcb
      /\ Alive = TasksOf(num_tasks)
  BY Running
<1>2. UserTasks \subseteq Tcb /\ UserTasks \subseteq Alive
  BY <1>1, TaskFacts DEF Inv
<1>3. /\ Ready = {t \in Tcb : run_list[t] = t}
      /\ Ready' = {t \in Tcb : run_list'[t] = t}
  BY ReadyNow, ReadyNext
<1>4. /\ cur_tcb' \in Tcb
      /\ cur_tcb' \in S
      /\ \A t \in Tcb : t \in Ready' <=> t \in S /\ t # cur_tcb'
      /\ S \subseteq Tcb
  BY <1>1, <1>2, <1>3 DEF Wakes
<1>5. Ready' = S \ {cur_tcb'}
  BY <1>3, <1>4
<1>6. W \subseteq Alive \ (Ready \cup {cur_tcb})
  BY <1>2, <1>3 DEF Blocked
<1>7. prio # 0 => Scheduler!First(S) = cur_tcb'
  <2> SUFFICES ASSUME prio # 0 PROVE Scheduler!First(S) = cur_tcb'
    OBVIOUS
  <2> HIDE DEF S
  <2>1. \A t \in S : t = cur_tcb' \/ run_list'[t] = t
    BY <1>3, <1>4
  <2> QED
    BY <1>4, <2>1, RunnerIsFirst
<1>8. Boosted' = (prio = 0)
  <2>1. cur_tcb' # NULL /\ cur_tcb' # 0
    BY <1>4, PrioFacts DEF Tcb
  <2> QED
    BY <2>1 DEF Boosted
<1>9. cur_tcb' = IF prio = 0 THEN cur_tcb ELSE Scheduler!First(S)
  BY <1>7
<1>10. /\ W \subseteq Alive \ (Ready \cup {cur_tcb})
       /\ prio = 0 => Boosted
       /\ Boosted' = (prio = 0)
       /\ cur_tcb' = IF prio = 0 THEN cur_tcb
                     ELSE Scheduler!First(Ready \cup W \cup {cur_tcb})
       /\ Ready' = (Ready \cup W \cup {cur_tcb}) \ {cur_tcb'}
  BY <1>5, <1>6, <1>8, <1>9
<1>11. Alive' = Alive
  <2>1. Booted'
    BY <1>4, PrioFacts DEF Inv, Boot
  <2> QED
    BY <1>1, <2>1 DEF Alive, Booted, TasksOf
<1>12. Scheduler!Wake(W, prio = 0)
  BY <1>10, <1>11 DEF Scheduler!Wake, Ready, Boosted
<1>13. W \in SUBSET Tcb /\ (prio = 0) \in BOOLEAN
  BY <1>2
<1> QED
  BY <1>12, <1>13 DEF Scheduler!Next

(* What changes none of the four is no step of the abstract scheduler. *)
LEMMA Stays ==
    ASSUME UNCHANGED <<num_tasks, run_list, cur_tcb, cur_prio>>
    PROVE  UNCHANGED AbsVars
BY DEF AbsVars, Alive, TasksOf, Ready, Occupied, Boosted
----------------------------------------------------------------------------
(* The steps of the kernel that wake somebody or end a boost. *)

LEMMA UnlockWakes ==
    ASSUME Inv, Unboosted, NEW m \in MutexArg, MutexUnlock(m),
           UNCHANGED deviceVars
    PROVE  Scheduler!Next
<1> DEFINE prio  == PrioAfterUnlock(cur_tcb)
           first == Head(pSleep_queue[m])
<1>1. /\ cur_tcb \in UserTasks
      /\ num_tasks' = num_tasks
      /\ Release(cur_tcb, m) \/ HandOff(cur_tcb, m)
  BY UnlockTypes
<1>2. /\ cur_tcb \in Tcb /\ cur_tcb # NULL /\ cur_tcb # 0
      /\ prio \in {0, cur_tcb}
      /\ Alive = TasksOf(num_tasks)
      /\ UserTasks \subseteq Tcb
  BY <1>1, UnlockFacts, Running, TaskFacts DEF Tcb, Inv
<1>3. prio = 0 => Boosted
  BY <1>2 DEF PrioAfterUnlock, native_prio, Boosted
<1>4. \A t \in Tcb : run_list[t] = t => cur_prio[t] = t /\ t # cur_tcb
  BY <1>2 DEF Unboosted, Inv, ReadyApart
<1>5. CASE Release(cur_tcb, m)
  <2>1. /\ Inv'
        /\ prio = 0 => cur_tcb' = cur_tcb
        /\ Wakes({})
    BY <1>1, <1>5, ReleaseInv
  <2>2. \A t \in Tcb : cur_prio'[t] = IF t = cur_tcb THEN prio ELSE cur_prio[t]
    BY <1>2, <1>5 DEF Release, Inv, TypeOK, SchedTypeOK
  <2> HIDE DEF prio
  <2>3. cur_prio'[cur_tcb'] = IF prio = 0 THEN 0 ELSE cur_tcb'
    BY <1>2, <1>4, <2>1, <2>2 DEF Wakes
  <2>4. {} \in SUBSET UserTasks /\ \A t \in {} : Blocked(t)
    OBVIOUS
  <2> QED
    BY <1>1, <1>2, <1>3, <2>1, <2>3, <2>4, Awakes
<1>6. CASE HandOff(cur_tcb, m)
  <2>1. /\ Inv'
        /\ prio = 0 => cur_tcb' = cur_tcb
        /\ first \in Tcb \ {cur_tcb}
        /\ Blocked(first)
        /\ Wakes({first})
    BY <1>1, <1>6, HandOffInv
  <2>2. \A t \in Tcb : cur_prio'[t] = IF t = cur_tcb THEN prio
                                      ELSE IF t = first THEN t ELSE cur_prio[t]
    BY <1>2, <1>6, <2>1 DEF HandOff, Inv, TypeOK, SchedTypeOK, native_prio
  <2> HIDE DEF prio, first
  <2>3. cur_prio'[cur_tcb'] = IF prio = 0 THEN 0 ELSE cur_tcb'
    BY <1>2, <1>4, <2>1, <2>2 DEF Wakes
  <2>4. {first} \in SUBSET UserTasks /\ \A t \in {first} : Blocked(t)
    BY <2>1 DEF Blocked
  <2> QED
    BY <1>1, <1>2, <1>3, <2>1, <2>3, <2>4, Awakes
<1> QED
  BY <1>1, <1>5, <1>6

LEMMA InterruptWakes ==
    ASSUME Inv, Unboosted, Interrupt
    PROVE  Scheduler!Next \/ UNCHANGED AbsVars
<1>1. PICK oscr \in Oscr : /\ system_time' = Now(oscr)
                           /\ time_drift' = Drift(oscr)
                           /\ DevUpdate(Now(oscr))
  BY DEF Interrupt, TimerIrq
<1> DEFINE W == UNION {sleep_q[d] : d \in Due(Now(oscr))}
           prio == cur_prio[cur_tcb]
<1>2. Now(oscr) \in 0 .. WORD - 1 /\ Drift(oscr) \in 0 .. OSTMR_COUNT - 1
  BY ClockTypes DEF Inv, TypeOK
<1>3. CASE W = {}
  <2>1. UNCHANGED <<num_tasks, run_list, cur_tcb, cur_prio>>
    BY <1>1, <1>3 DEF DevUpdate, schedVars
  <2> QED
    BY <2>1, Stays
<1>4. CASE W # {}
  <2>1. /\ Inv'
        /\ prio = 0 => cur_tcb' = cur_tcb
        /\ Wakes(W)
    BY <1>1, <1>2, <1>4, TimerWakeInv DEF Interrupt
  <2>2. UNCHANGED <<num_tasks, cur_prio>>
    BY <1>1, <1>4 DEF DevUpdate
  <2>3. /\ W \in SUBSET UserTasks
        /\ \A t \in W : Blocked(t) /\ Asleep(t)
    BY NumDevicesAssumption
    DEF Due, Device, QueueWord, Inv, AsleepApart, Blocked, Asleep
  <2> HIDE DEF W
  <2>4. cur_tcb # NULL
    BY <1>4, <2>3, TaskFacts, PrioFacts DEF Inv, Boot, Asleep
  <2>5. /\ Alive = TasksOf(num_tasks)
        /\ cur_tcb \in Tcb
        /\ UserTasks \subseteq Tcb
        /\ UserTasks \subseteq Alive
    BY <2>4, Running, TaskFacts DEF Inv
  <2>6. \A t \in Tcb : run_list[t] = t \/ t \in W => cur_prio[t] = t
    BY <2>3, <2>5 DEF Unboosted, Inv, ReadyApart
  <2>7. prio \in {0, cur_tcb} /\ \A t \in Tcb : t # 0
    BY <2>5 DEF Inv, Prios, Tcb
  <2>8. cur_prio'[cur_tcb'] = IF prio = 0 THEN 0 ELSE cur_tcb'
    BY <2>1, <2>2, <2>5, <2>6, <2>7 DEF Wakes
  <2>9. prio = 0 => Boosted
    BY <2>4 DEF Boosted
  <2> HIDE DEF prio
  <2> QED
    BY <2>1, <2>2, <2>3, <2>4, <2>7, <2>8, <2>9, Awakes
<1> QED
  BY <1>3, <1>4
----------------------------------------------------------------------------
(* The simulation. *)

LEMMA AbsInit == Init => Scheduler!Init
<1> SUFFICES ASSUME Init PROVE Scheduler!Init
  OBVIOUS
<1>1. Alive = {} /\ cur_tcb = NULL
  BY OsMaxTasksAssumption DEF Init, SchedInit, Alive, IDLE_PRIO, Tcb
<1>2. \A p \in Prio : run_list[p] = NULL
  BY DEF Init, SchedInit, EmptyRunList
<1>3. Ready = {}
  BY <1>2, PrioFacts DEF Ready, Occupied
<1> QED
  BY <1>1, <1>3 DEF Scheduler!Init, Ready

LEMMA AbsNext ==
    Inv /\ Unboosted /\ [Next]_vars => [Scheduler!Next]_(Scheduler!vars)
<1> SUFFICES ASSUME Inv, Unboosted, [Next]_vars
             PROVE  Scheduler!Next \/ UNCHANGED AbsVars
  BY DEF Scheduler!vars, AbsVars, Ready, Boosted
<1>0. Inv'
  BY NextInv
<1>1. ASSUME NEW n \in TaskCounts, TaskCreate(n) PROVE Scheduler!Next
  BY <1>1, StartsAll DEF Scheduler!Next
<1>2. ASSUME NEW m \in MutexArg,
             MutexCreate \/ MutexLockFails(m) \/ MutexUnlockFails(m)
      PROVE  UNCHANGED AbsVars
  BY <1>2, Stays DEF MutexCreate, MutexLockFails, MutexUnlockFails, schedVars
<1>3. ASSUME NEW m \in MutexArg, MutexLockTake(m) PROVE Scheduler!Next
  BY <1>3, Boosts DEF MutexLockTake, Calling, Acquire, Scheduler!Next
<1>4. ASSUME NEW m \in MutexArg, MutexLockSleep(m) PROVE Scheduler!Next
  BY <1>0, <1>4, Sleeps DEF MutexLockSleep, Calling, Frames, Scheduler!Next
<1>5. ASSUME NEW m \in MutexArg, MutexUnlock(m), UNCHANGED deviceVars
      PROVE  Scheduler!Next
  BY <1>5, UnlockWakes DEF Scheduler!Next
<1>6. ASSUME NEW dev \in WaitArg, EventWaitFails(dev) PROVE UNCHANGED AbsVars
  BY <1>6, Stays DEF EventWaitFails, schedVars
<1>7. ASSUME NEW dev \in WaitArg, EventWait(dev) PROVE Scheduler!Next
  BY <1>0, <1>7, Sleeps DEF EventWait, Calling, Frames, Scheduler!Next
<1>8. CASE Return
  <2>1. UNCHANGED <<num_tasks, run_list, cur_tcb>> /\ cur_tcb # NULL
    BY <1>8 DEF Return, LaunchTask, MutexLockReturn, MutexUnlockReturn,
       DevWaitReturn, DevUpdateReturn, Resume
  <2>2. CASE MutexLockReturn
    <3>1. cur_tcb # IDLE_PRIO
      BY <2>2 DEF MutexLockReturn, Resume, Inv, IdleCalm
    <3>2. cur_tcb \in UserTasks
      BY <2>1, <3>1, Running, TaskFacts DEF Inv
    <3> QED
      BY <2>1, <2>2, <3>2, Boosts DEF MutexLockReturn, Acquire, Scheduler!Next
  <2>3. CASE ~MutexLockReturn
    <3>1. cur_prio' = cur_prio
      BY <1>8, <2>3 DEF Return, LaunchTask, MutexUnlockReturn, DevWaitReturn,
         DevUpdateReturn
    <3> QED
      BY <2>1, <3>1, Stays
  <2> QED
    BY <2>2, <2>3
<1>9. CASE Interrupt
  BY <1>9, InterruptWakes DEF Scheduler!Next
<1>10. CASE UNCHANGED vars
  BY <1>10, Stays DEF vars, schedVars
<1>11. 0 \in MutexArg
  BY OsNumMutexAssumption DEF MutexArg
<1> QED
  BY <1>1, <1>2, <1>3, <1>4, <1>5, <1>6, <1>7, <1>8, <1>9, <1>10, <1>11
  DEF Next, SystemCall

(* To its tasks the kernel is a fixed-priority preemptive scheduler, for   *)
(* every client: which task runs next is decided by highest_prio on the    *)
(* run queue, and that is always the answer of PriorityScheduler.          *)
THEOREM SchedulerImplemented == Spec => SchedulesByPriority
BY InitInv, NextInv, UnboostedInit, UnboostedNext, AbsInit, AbsNext, PTL
DEF Spec, SchedulesByPriority, Scheduler!Spec
----------------------------------------------------------------------------
(* The highest-locker protocol of kernel/lock/mutex.c, for clients that    *)
(* lock created mutexes and unlock what they own.                          *)

(* Only the tasks of the last task_create own mutexes. *)
OwnersAreUsers == \A t \in Tcb : owned[t] # {} => t \in UserTasks

(* Nobody sleeps in mutex_lock. *)
NobodyInLock == \A t \in Tcb : frame[t] # "mutex_lock"

LockInv ==
    HolderRuns /\ NoContention /\ RecordsAgree /\ OwnersAreUsers /\ NobodyInLock
----------------------------------------------------------------------------
(* A set of mutexes is finite, and holds_lock of the running task counts.  *)
LEMMA CountFacts ==
    ASSUME Inv, LockInv, cur_tcb \in UserTasks
    PROVE  /\ cur_tcb \in Tcb
           /\ cur_tcb \in Alive
           /\ Alive = TasksOf(num_tasks)
           /\ cur_tcb # IDLE_PRIO
           /\ IsFiniteSet(owned[cur_tcb])
           /\ Cardinality(owned[cur_tcb]) \in Nat
           /\ holds_lock[cur_tcb] = Cardinality(owned[cur_tcb])
           /\ Cardinality(owned[cur_tcb]) = 0 <=> owned[cur_tcb] = {}
<1>1. cur_tcb \in Tcb /\ cur_tcb # NULL /\ cur_tcb # IDLE_PRIO
  BY UnlockFacts
<1>2. cur_tcb \in Alive /\ Alive = TasksOf(num_tasks)
  BY <1>1, Running
<1>3. IsFiniteSet(Mutex)
  BY OsNumMutexAssumption, FS_Interval DEF Mutex
<1>4. owned[cur_tcb] \subseteq Mutex
  BY <1>1 DEF Inv, TypeOK, MutexTypeOK
<1>5. IsFiniteSet(owned[cur_tcb])
  BY <1>3, <1>4, FS_Subset
<1> QED
  BY <1>1, <1>2, <1>5, FS_CardinalityType, FS_EmptySet DEF LockInv, RecordsAgree

(* A step that changes no record of a mutex, and no task if one is owned. *)
LEMMA LockKept ==
    ASSUME Inv, LockInv, NobodyInLock',
           UNCHANGED <<num_tasks, cur_prio, holds_lock, bLock, pHolding_Tcb,
                       pSleep_queue, owned>>,
           \A t \in Tcb : owned[t] # {} => cur_tcb' = cur_tcb
    PROVE  LockInv'
<1>1. Alive' = Alive
  BY DEF Alive, TasksOf
<1>2. HolderRuns' /\ NoContention' /\ OwnersAreUsers'
  BY DEF LockInv, HolderRuns, NoContention, OwnersAreUsers, UserTasks
<1>3. RecordsAgree'
  BY <1>1 DEF LockInv, RecordsAgree
<1> QED
  BY <1>2, <1>3 DEF LockInv

(* mutex_lock of a free mutex. *)
LEMMA TakeKeeps ==
    ASSUME Inv, LockInv, NEW m \in MutexArg, MutexLockTake(m)
    PROVE  LockInv'
<1> DEFINE mine == owned[cur_tcb]
<1>1. /\ cur_tcb \in UserTasks
      /\ m \in Mutex
      /\ ~bLock[m]
      /\ bLock' = [bLock EXCEPT ![m] = TRUE]
      /\ holds_lock' = [holds_lock EXCEPT ![cur_tcb] = @ + 1]
      /\ cur_prio' = [cur_prio EXCEPT ![cur_tcb] = 0]
      /\ pHolding_Tcb' = [pHolding_Tcb EXCEPT ![m] = cur_tcb]
      /\ owned' = [owned EXCEPT ![cur_tcb] = @ \cup {m}]
      /\ UNCHANGED <<pSleep_queue, num_tasks, cur_tcb, frame>>
  BY DEF MutexLockTake, Calling, Acquire
<1>2. /\ cur_tcb \in Tcb /\ cur_tcb \in Alive /\ cur_tcb # IDLE_PRIO
      /\ Alive = TasksOf(num_tasks)
      /\ IsFiniteSet(mine)
      /\ Cardinality(mine) \in Nat
      /\ holds_lock[cur_tcb] = Cardinality(mine)
  BY <1>1, CountFacts
<1>3. /\ \A t \in Tcb : owned'[t] = IF t = cur_tcb THEN mine \cup {m} ELSE owned[t]
      /\ \A t \in Tcb : t # cur_tcb => owned[t] = {}
  BY <1>1 DEF Inv, TypeOK, MutexTypeOK, LockInv, HolderRuns
<1>4. \A t \in Tcb : m \notin owned[t]
  BY <1>1 DEF LockInv, RecordsAgree
<1>5. Cardinality(mine \cup {m}) = Cardinality(mine) + 1
  BY <1>2, <1>4, FS_AddElement
<1>6. Alive' = Alive /\ Alive \subseteq Tcb
  <2>1. cur_prio'[IDLE_PRIO] = cur_prio[IDLE_PRIO]
    BY <1>1, <1>2, PrioFacts DEF Inv, TypeOK, SchedTypeOK
  <2> QED
    BY <1>1, <2>1, TaskFacts DEF Alive, TasksOf, Inv
<1>7. HolderRuns' /\ NoContention' /\ OwnersAreUsers' /\ NobodyInLock'
  BY <1>1, <1>3
  DEF LockInv, HolderRuns, NoContention, OwnersAreUsers, UserTasks, NobodyInLock
<1> HIDE DEF mine
<1>8. \A k \in Mutex : bLock'[k] <=> \E t \in Tcb : k \in owned'[t]
  <2>1. \A k \in Mutex : bLock'[k] <=> bLock[k] \/ k = m
    BY <1>1 DEF Inv, TypeOK, MutexTypeOK
  <2>2. \A k \in Mutex : (\E t \in Tcb : k \in owned'[t])
                            <=> (\E t \in Tcb : k \in owned[t]) \/ k = m
    BY <1>2, <1>3 DEF mine
  <2> QED
    BY <2>1, <2>2 DEF LockInv, RecordsAgree
<1>9. \A t \in Tcb : \A k \in owned'[t] : pHolding_Tcb'[k] = t
  <2>1. \A k \in mine \cup {m} : pHolding_Tcb'[k] = cur_tcb
    BY <1>1, <1>2 DEF mine, Inv, TypeOK, MutexTypeOK, LockInv, RecordsAgree
  <2> QED
    BY <1>3, <2>1
<1>10. \A t \in Alive :
         /\ holds_lock'[t] = Cardinality(owned'[t])
         /\ cur_prio'[t] = IF owned'[t] = {} THEN native_prio(t) ELSE 0
  <2>1. ASSUME NEW t \in Alive, t # cur_tcb
        PROVE  /\ holds_lock'[t] = Cardinality(owned'[t])
               /\ cur_prio'[t] = IF owned'[t] = {} THEN native_prio(t) ELSE 0
    <3>1. /\ holds_lock'[t] = holds_lock[t]
          /\ cur_prio'[t] = cur_prio[t]
          /\ owned'[t] = owned[t]
      BY <1>1, <1>3, <1>6, <2>1 DEF Inv, TypeOK, SchedTypeOK
    <3> QED
      BY <3>1 DEF LockInv, RecordsAgree
  <2>2. holds_lock'[cur_tcb] = Cardinality(owned'[cur_tcb])
    BY <1>1, <1>2, <1>3, <1>5 DEF Inv, TypeOK, SchedTypeOK
  <2>3. cur_prio'[cur_tcb] = 0 /\ owned'[cur_tcb] # {}
    BY <1>1, <1>2, <1>3 DEF Inv, TypeOK, SchedTypeOK
  <2> QED
    BY <2>1, <2>2, <2>3
<1>11. RecordsAgree'
  BY <1>6, <1>8, <1>9, <1>10 DEF RecordsAgree
<1> QED
  BY <1>7, <1>11 DEF LockInv

(* mutex_unlock by the owner. *)
LEMMA UnlockKeeps ==
    ASSUME Inv, LockInv, NEW m \in MutexArg, MutexUnlock(m), m \in owned[cur_tcb],
           UNCHANGED deviceVars
    PROVE  LockInv'
<1> DEFINE mine == owned[cur_tcb]
           prio == PrioAfterUnlock(cur_tcb)
<1>1. /\ cur_tcb \in UserTasks
      /\ m \in Mutex
      /\ m \in mine
      /\ holds_lock' = [holds_lock EXCEPT ![cur_tcb] = IF @ > 1 THEN @ - 1 ELSE 0]
      /\ owned' = [owned EXCEPT ![cur_tcb] = @ \ {m}]
      /\ UNCHANGED <<pHolding_Tcb, num_tasks>>
  BY DEF MutexUnlock, Calling
<1>2. Release(cur_tcb, m)
  BY <1>1 DEF MutexUnlock, HandOff, LockInv, NoContention
<1>3. /\ bLock' = [bLock EXCEPT ![m] = FALSE]
      /\ cur_prio' = [cur_prio EXCEPT ![cur_tcb] = prio]
      /\ UNCHANGED pSleep_queue
      /\ frame' = [frame EXCEPT ![cur_tcb] = "mutex_unlock"]
  BY <1>2 DEF Release, DispatchSave
<1>4. prio = 0 => cur_tcb' = cur_tcb
  BY <1>2, ReleaseInv
<1>5. /\ cur_tcb \in Tcb /\ cur_tcb \in Alive /\ cur_tcb # IDLE_PRIO
      /\ Alive = TasksOf(num_tasks)
      /\ IsFiniteSet(mine)
      /\ Cardinality(mine) \in Nat
      /\ holds_lock[cur_tcb] = Cardinality(mine)
  BY <1>1, CountFacts
<1>6. /\ \A t \in Tcb : owned'[t] = IF t = cur_tcb THEN mine \ {m} ELSE owned[t]
      /\ \A t \in Tcb : t # cur_tcb => owned[t] = {}
  BY <1>1 DEF Inv, TypeOK, MutexTypeOK, LockInv, HolderRuns
<1>7. /\ IsFiniteSet(mine \ {m})
      /\ Cardinality(mine \ {m}) = Cardinality(mine) - 1
  BY <1>1, <1>5, FS_RemoveElement
<1>8. Cardinality(mine \ {m}) = 0 <=> mine \ {m} = {}
  BY <1>7, FS_EmptySet
<1>9. Cardinality(mine) # 0
  BY <1>1, <1>5, FS_EmptySet
<1>10. prio = IF mine \ {m} = {} THEN cur_tcb ELSE 0
  <2>1. cur_prio[cur_tcb] = 0
    BY <1>1, <1>5 DEF LockInv, RecordsAgree
  <2> QED
    BY <1>5, <1>7, <1>8, <1>9, <2>1 DEF PrioAfterUnlock, native_prio
<1>11. Alive' = Alive /\ Alive \subseteq Tcb
  <2>1. cur_prio'[IDLE_PRIO] = cur_prio[IDLE_PRIO]
    BY <1>3, <1>5, PrioFacts DEF Inv, TypeOK, SchedTypeOK
  <2> QED
    BY <1>1, <2>1, TaskFacts DEF Alive, TasksOf, Inv
<1> HIDE DEF mine, prio
<1>12. HolderRuns'
  BY <1>4, <1>6, <1>10 DEF HolderRuns
<1>13. NoContention' /\ NobodyInLock'
  BY <1>3, <1>5
  DEF LockInv, NoContention, NobodyInLock, Inv, TypeOK, SchedTypeOK
<1>14. OwnersAreUsers'
  BY <1>1, <1>6 DEF OwnersAreUsers, UserTasks
<1>15. \A k \in Mutex : bLock'[k] <=> \E t \in Tcb : k \in owned'[t]
  <2>1. \A k \in Mutex : bLock'[k] <=> bLock[k] /\ k # m
    BY <1>1, <1>3 DEF Inv, TypeOK, MutexTypeOK
  <2>2. \A k \in Mutex : (\E t \in Tcb : k \in owned'[t])
                            <=> (\E t \in Tcb : k \in owned[t]) /\ k # m
    BY <1>5, <1>6 DEF mine
  <2> QED
    BY <2>1, <2>2 DEF LockInv, RecordsAgree
<1>16. \A t \in Tcb : \A k \in owned'[t] : pHolding_Tcb'[k] = t
  BY <1>1, <1>6 DEF mine, LockInv, RecordsAgree
<1>17. \A t \in Alive :
         /\ holds_lock'[t] = Cardinality(owned'[t])
         /\ cur_prio'[t] = IF owned'[t] = {} THEN native_prio(t) ELSE 0
  <2>1. ASSUME NEW t \in Alive, t # cur_tcb
        PROVE  /\ holds_lock'[t] = Cardinality(owned'[t])
               /\ cur_prio'[t] = IF owned'[t] = {} THEN native_prio(t) ELSE 0
    <3>1. /\ holds_lock'[t] = holds_lock[t]
          /\ cur_prio'[t] = cur_prio[t]
          /\ owned'[t] = owned[t]
      BY <1>1, <1>3, <1>6, <1>11, <2>1 DEF Inv, TypeOK, SchedTypeOK
    <3> QED
      BY <3>1 DEF LockInv, RecordsAgree
  <2>2. holds_lock'[cur_tcb] = Cardinality(owned'[cur_tcb])
    <3>1. holds_lock'[cur_tcb] = IF holds_lock[cur_tcb] > 1
                                 THEN holds_lock[cur_tcb] - 1 ELSE 0
      BY <1>1, <1>5 DEF Inv, TypeOK, SchedTypeOK
    <3>2. owned'[cur_tcb] = mine \ {m}
      BY <1>5, <1>6
    <3> QED
      BY <1>5, <1>7, <1>9, <3>1, <3>2
  <2>3. cur_prio'[cur_tcb] = prio
    BY <1>3, <1>5 DEF Inv, TypeOK, SchedTypeOK
  <2> QED
    BY <1>5, <1>6, <1>10, <2>1, <2>2, <2>3 DEF native_prio
<1>18. RecordsAgree'
  BY <1>11, <1>15, <1>16, <1>17 DEF RecordsAgree
<1> QED
  BY <1>12, <1>13, <1>14, <1>18 DEF LockInv

(* mutex_lock never finds the mutex taken by another task. *)
LEMMA NobodySleeps ==
    ASSUME Inv, LockInv, NEW m \in MutexArg, MutexLockSleep(m)
    PROVE  FALSE
<1>1. m \in Mutex /\ bLock[m] /\ pHolding_Tcb[m] # cur_tcb
  BY DEF MutexLockSleep
<1>2. PICK t \in Tcb : m \in owned[t]
  BY <1>1 DEF LockInv, RecordsAgree
<1>3. t = cur_tcb /\ pHolding_Tcb[m] = t
  BY <1>1, <1>2 DEF LockInv, HolderRuns, RecordsAgree
<1> QED
  BY <1>1, <1>3

(* A task that owns a mutex may not sleep on a device: EHOLDSLOCK. *)
LEMMA WaitKeeps ==
    ASSUME Inv, LockInv, NEW dev \in WaitArg, EventWait(dev), UNCHANGED mutexVars
    PROVE  LockInv'
<1>1. /\ cur_tcb \in UserTasks
      /\ holds_lock[cur_tcb] = 0
      /\ UNCHANGED <<num_tasks, cur_prio, holds_lock>>
      /\ UNCHANGED <<bLock, pHolding_Tcb, pSleep_queue, owned>>
      /\ frame' = [frame EXCEPT ![cur_tcb] = "dev_wait"]
  BY DEF EventWait, Calling, DispatchSleep, mutexVars
<1>2. owned[cur_tcb] = {} /\ cur_tcb \in Tcb
  BY <1>1, CountFacts
<1>3. \A t \in Tcb : owned[t] = {}
  BY <1>2 DEF LockInv, HolderRuns
<1>4. NobodyInLock'
  BY <1>1, <1>2 DEF LockInv, NobodyInLock, Inv, TypeOK, SchedTypeOK
<1> QED
  BY <1>1, <1>3, <1>4, LockKept

(* The timer interrupt goes on with a boosted task. *)
LEMMA TimerKeeps ==
    ASSUME Inv, LockInv, Interrupt
    PROVE  LockInv'
<1>1. PICK oscr \in Oscr : /\ system_time' = Now(oscr)
                           /\ time_drift' = Drift(oscr)
                           /\ DevUpdate(Now(oscr))
  BY DEF Interrupt, TimerIrq
<1>2. Now(oscr) \in 0 .. WORD - 1 /\ Drift(oscr) \in 0 .. OSTMR_COUNT - 1
  BY ClockTypes DEF Inv, TypeOK
<1>3. UNCHANGED mutexVars
  BY DEF Interrupt
<1>4. /\ UNCHANGED <<num_tasks, cur_prio, holds_lock>>
      /\ UNCHANGED <<bLock, pHolding_Tcb, pSleep_queue, owned>>
  BY <1>1, <1>3 DEF DevUpdate, schedVars, mutexVars
<1>5. CASE UNION {sleep_q[d] : d \in Due(Now(oscr))} = {}
  <2>1. UNCHANGED schedVars
    BY <1>1, <1>5 DEF DevUpdate
  <2>2. cur_tcb' = cur_tcb /\ NobodyInLock'
    BY <2>1 DEF schedVars, LockInv, NobodyInLock
  <2> QED
    BY <1>4, <2>2, LockKept
<1>6. CASE UNION {sleep_q[d] : d \in Due(Now(oscr))} # {}
  <2>1. cur_prio[cur_tcb] = 0 => cur_tcb' = cur_tcb
    BY <1>1, <1>2, <1>3, <1>6, TimerWakeInv
  <2>2. \A t \in Tcb : owned[t] # {} => cur_tcb' = cur_tcb
    <3> SUFFICES ASSUME NEW t \in Tcb, owned[t] # {} PROVE cur_prio[cur_tcb] = 0
      BY <2>1
    <3>1. t = cur_tcb /\ t \in UserTasks
      BY DEF LockInv, HolderRuns, OwnersAreUsers
    <3> QED
      BY <3>1, CountFacts DEF LockInv, RecordsAgree
  <2>3. NobodyInLock'
    <3>1. frame' = [frame EXCEPT ![cur_tcb] = "dev_update"]
      BY <1>1, <1>6 DEF DevUpdate, DispatchSave
    <3> QED
      BY <3>1 DEF LockInv, NobodyInLock, Inv, TypeOK, SchedTypeOK
  <2> QED
    BY <1>4, <2>2, <2>3, LockKept
<1> QED
  BY <1>5, <1>6

(* task_create while nobody owns a mutex: the mutexes are free. *)
LEMMA CreateKeeps ==
    ASSUME Inv, LockInv, NEW n \in TaskCounts, TaskCreate(n),
           \A t \in Tcb : owned[t] = {}
    PROVE  LockInv'
<1>1. /\ num_tasks' = n
      /\ \A t \in Tcb : t \in TasksOf(n) =>
           cur_prio'[t] = native_prio(t) /\ holds_lock'[t] = 0
      /\ frame' = [t \in Tcb |-> IF t \in TasksOf(n) THEN "launch" ELSE frame[t]]
      /\ owned' = [t \in Tcb |-> {}]
      /\ UNCHANGED <<bLock, pHolding_Tcb, pSleep_queue>>
  BY DEF TaskCreate, AllocateTcbs, ForgetOwners
<1>2. TasksOf(n) \subseteq Tcb
  BY TaskCountsAssumption, OsMaxTasksAssumption DEF TasksOf, Tcb, IDLE_PRIO
<1>3. Alive' \subseteq TasksOf(n)
  BY <1>1 DEF Alive, TasksOf
<1>4. \A m \in Mutex : ~bLock[m]
  BY DEF LockInv, RecordsAgree
<1>5. RecordsAgree'
  BY <1>1, <1>2, <1>3, <1>4, FS_EmptySet DEF RecordsAgree
<1>6. HolderRuns' /\ NoContention' /\ OwnersAreUsers' /\ NobodyInLock'
  BY <1>1
  DEF LockInv, HolderRuns, NoContention, OwnersAreUsers, NobodyInLock
<1> QED
  BY <1>5, <1>6 DEF LockInv

LEMMA ReturnKeeps ==
    ASSUME Inv, LockInv, Return
    PROVE  LockInv'
<1>1. ~MutexLockReturn
  BY Running DEF MutexLockReturn, Resume, LockInv, NobodyInLock
<1>2. /\ UNCHANGED <<num_tasks, cur_tcb, cur_prio, holds_lock>>
      /\ UNCHANGED <<bLock, pHolding_Tcb, pSleep_queue, owned>>
      /\ frame' = [frame EXCEPT ![cur_tcb] = "none"]
  BY <1>1 DEF Return, LaunchTask, MutexUnlockReturn, DevWaitReturn,
     DevUpdateReturn, Resume, mutexVars
<1>3. NobodyInLock'
  BY <1>2 DEF LockInv, NobodyInLock, Inv, TypeOK, SchedTypeOK
<1> QED
  BY <1>2, <1>3, LockKept

LEMMA LockNext ==
    ASSUME Disciplined
    PROVE  Inv /\ LockInv /\ [Next]_vars => LockInv'
<1> SUFFICES ASSUME Inv, LockInv, [Next]_vars PROVE LockInv'
  OBVIOUS
<1>1. ASSUME NEW n \in TaskCounts, TaskCreate(n) PROVE LockInv'
  <2>1. \A t \in Tcb : owned[t] = {}
    BY <1>1, PrioFacts DEF TaskCreate, LockInv, HolderRuns
  <2> QED
    BY <1>1, <2>1, CreateKeeps
<1>2. ASSUME UNCHANGED <<num_tasks, cur_tcb, cur_prio, holds_lock, bLock,
                         pHolding_Tcb, pSleep_queue, owned, frame>>
      PROVE  LockInv'
  <2>1. NobodyInLock'
    BY <1>2 DEF LockInv, NobodyInLock
  <2> QED
    BY <1>2, <2>1, LockKept
<1>3. CASE MutexCreate
  BY <1>2, <1>3 DEF MutexCreate, schedVars
<1>4. ASSUME NEW m \in MutexArg, MutexLockFails(m) \/ MutexUnlockFails(m)
      PROVE  LockInv'
  BY <1>2, <1>4 DEF MutexLockFails, MutexUnlockFails, schedVars, mutexVars
<1>5. ASSUME NEW m \in MutexArg, MutexLockTake(m) PROVE LockInv'
  BY <1>5, TakeKeeps
<1>6. ASSUME NEW m \in MutexArg, MutexLockSleep(m) PROVE LockInv'
  BY <1>6, NobodySleeps
<1>7. ASSUME NEW m \in MutexArg, MutexUnlock(m), UNCHANGED deviceVars
      PROVE  LockInv'
  <2>1. m \in owned[cur_tcb]
    BY <1>7 DEF MutexUnlock, MayUnlock
  <2> QED
    BY <1>7, <2>1, UnlockKeeps
<1>8. ASSUME NEW dev \in WaitArg, EventWaitFails(dev), UNCHANGED mutexVars
      PROVE  LockInv'
  BY <1>2, <1>8 DEF EventWaitFails, schedVars, mutexVars
<1>9. ASSUME NEW dev \in WaitArg, EventWait(dev), UNCHANGED mutexVars
      PROVE  LockInv'
  BY <1>9, WaitKeeps
<1>10. CASE Return
  BY <1>10, ReturnKeeps
<1>11. CASE Interrupt
  BY <1>11, TimerKeeps
<1>12. CASE UNCHANGED vars
  BY <1>2, <1>12 DEF vars, schedVars, mutexVars
<1> QED
  BY <1>1, <1>3, <1>4, <1>5, <1>6, <1>7, <1>8, <1>9, <1>10, <1>11, <1>12
  DEF Next, SystemCall

LEMMA LockInit == Init => LockInv
<1> SUFFICES ASSUME Init PROVE LockInv
  OBVIOUS
<1>1. Alive = {}
  BY OsMaxTasksAssumption DEF Init, SchedInit, Alive, IDLE_PRIO, Tcb
<1> QED
  BY <1>1 DEF Init, SchedInit, MutexInit, LockInv, HolderRuns, NoContention,
     RecordsAgree, OwnersAreUsers, NobodyInLock

LEMMA LockInvariance ==
    ASSUME Disciplined
    PROVE  Spec => []LockInv
<1>1. Inv /\ LockInv /\ [Next]_vars => LockInv'
  BY LockNext
<1> QED
  BY <1>1, LockInit, Invariance, PTL DEF Spec
----------------------------------------------------------------------------
(* The highest-locker protocol: a task that owns a mutex is not switched   *)
(* out, by an interrupt, an unlock or event_wait.                          *)
THEOREM HolderKeepsProcessor ==
    ASSUME Disciplined
    PROVE  Spec => []HolderRuns
<1>1. LockInv => HolderRuns
  BY DEF LockInv
<1> QED
  BY <1>1, LockInvariance, PTL

(* So mutex_lock never puts a task to sleep: the sleep queues of the       *)
(* mutexes stay empty.                                                     *)
THEOREM NoTaskWaits ==
    ASSUME Disciplined
    PROVE  Spec => []NoContention
<1>1. LockInv => NoContention
  BY DEF LockInv
<1> QED
  BY <1>1, LockInvariance, PTL

(* bLock, pHolding_Tcb, holds_lock and cur_prio record exactly who owns    *)
(* what: holds_lock (task.h:59) is the number of mutexes a task owns and   *)
(* its priority is raised for just as long.                                *)
THEOREM RecordsExact ==
    ASSUME Disciplined
    PROVE  Spec => []RecordsAgree
<1>1. LockInv => RecordsAgree
  BY DEF LockInv
<1> QED
  BY <1>1, LockInvariance, PTL

(* Mutual exclusion: no mutex belongs to two tasks at once.                *)
MutualExclusion ==
    \A m \in Mutex : \A t, u \in Tcb : m \in owned[t] /\ m \in owned[u] => t = u

(* mutex_lock gives a mutex to one task at a time, through hand-offs too.  *)
THEOREM MutexesExclude ==
    ASSUME Disciplined
    PROVE  Spec => []MutualExclusion
<1>1. LockInv => MutualExclusion
  BY DEF LockInv, HolderRuns, MutualExclusion
<1> QED
  BY <1>1, LockInvariance, PTL
=============================================================================
