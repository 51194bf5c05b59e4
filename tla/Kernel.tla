------------------------------- MODULE Kernel -------------------------------
(***************************************************************************)
(* The running kernel: scheduler, mutexes, devices and timer interrupt,    *)
(* with task_create and the user tasks that call it all.  A user task may  *)
(* make any call at any point where it runs.                               *)
(***************************************************************************)
EXTENDS Mutex, Device

CONSTANTS
    TaskCounts,     \* the task-set sizes that task_create is called with
    Recreate        \* tasks may call task_create too (tasks/cyclone)

ASSUME TaskCountsAssumption == TaskCounts \subseteq 0 .. OS_MAX_TASKS - 2
ASSUME RecreateAssumption == Recreate \in BOOLEAN

vars == <<schedVars, mutexVars, deviceVars>>

Init == SchedInit /\ MutexInit /\ DeviceInit

(* task_create of n admitted tasks, by main or by a task, which it ends.   *)
(* A task calls it only while no task is in a queue that it leaves alone   *)
(* (the links of such a queue would get mixed up), and a disciplined task  *)
(* only while no mutex is locked.                                          *)
TaskCreate(n) ==
    /\ InUserMode
    /\ cur_tcb # NULL =>
         /\ Recreate
         /\ \A m \in Mutex : pSleep_queue[m] = <<>>
         /\ sleep_q[NUM_DEVICES] = {}
         /\ Disciplined => \A t \in Tcb : owned[t] = {}
    /\ DevInit
    /\ AllocateTcbs(n)
    /\ ForgetOwners

SystemCall ==
    \/ \E n \in TaskCounts : TaskCreate(n)
    \/ /\ MutexCreate
       /\ UNCHANGED deviceVars
    \/ \E m \in MutexArg :
         /\ MutexLockFails(m) \/ MutexLockTake(m) \/ MutexLockSleep(m)
              \/ MutexUnlockFails(m) \/ MutexUnlock(m)
         /\ UNCHANGED deviceVars
    \/ \E dev \in WaitArg :
         /\ EventWaitFails(dev) \/ EventWait(dev)
         /\ UNCHANGED mutexVars

(* The task that was switched to finishes the kernel function it is in. *)
Return ==
    \/ /\ LaunchTask
       /\ UNCHANGED <<mutexVars, deviceVars>>
    \/ /\ MutexLockReturn \/ MutexUnlockReturn
       /\ UNCHANGED deviceVars
    \/ /\ DevWaitReturn \/ DevUpdateReturn
       /\ UNCHANGED mutexVars

Interrupt == TimerIrq /\ UNCHANGED mutexVars

Next == SystemCall \/ Return \/ Interrupt

Spec == Init /\ [][Next]_vars
----------------------------------------------------------------------------
(* Safety. *)

(* The type invariant of the whole kernel state. *)
TypeOK == SchedTypeOK /\ MutexTypeOK /\ DeviceTypeOK

(* Where the kernel keeps a task: the processor, a slot of the run queue,  *)
(* a device's sleep queue or a position in a mutex's sleep queue.          *)
Places(t) ==
    {<<"cpu">> : c \in {c \in {cur_tcb} : c = t}}
      \cup {<<"ready", p>> : p \in {p \in Prio : run_list[p] = t}}
      \cup {<<"device", q>> : q \in {q \in QueueWord : t \in sleep_q[q]}}
      \cup UNION {{<<"mutex", m, i>> : i \in {i \in 1 .. Len(pSleep_queue[m]) :
                                               pSleep_queue[m][i] = t}} :
                  m \in Mutex}

(* No task is lost and none is in two places, through every interleaving   *)
(* of calls and timer interrupts: runqueue_add silently drops a task whose *)
(* slot is taken, dev_update and mutex_unlock unlink and re-add tasks, and *)
(* dispatch_save adds the caller by itself.                                *)
OnePlace == \A t \in Alive : \E place \in Places(t) : Places(t) = {place}

(* While a task's own code runs, no ready task has a higher priority: a    *)
(* wake-up without a dispatch, or a dispatch by a stale priority, shows.   *)
HighestRuns ==
    irq_on /\ cur_tcb # NULL => \A p \in Occupied(run_list) : cur_prio[cur_tcb] <= p

(* "There is always an idle task to switch to" (ctx_switch.c:60,74): when  *)
(* a user task gives up the processor, the run queue is not empty.         *)
IdleReady ==
    /\ cur_tcb \in UserTasks => run_list[IDLE_PRIO] = IDLE_PRIO
    /\ Alive # {} => cur_tcb # NULL

(* The highest-locker protocol: a task is not switched out while it owns a *)
(* mutex, by an interrupt, an unlock or a wait; so nobody ever has to wait *)
(* for a mutex.                                                            *)
HolderRuns == \A t \in Tcb : owned[t] # {} => t = cur_tcb
NoContention == \A m \in Mutex : pSleep_queue[m] = <<>>

(* The kernel's records agree with what the tasks have locked and not yet  *)
(* unlocked: bLock and pHolding_Tcb of the mutex, holds_lock (task.h:59)   *)
(* and the raised priority of the task.                                    *)
RecordsAgree ==
    /\ \A m \in Mutex : bLock[m] <=> \E t \in Tcb : m \in owned[t]
    /\ \A t \in Tcb : \A m \in owned[t] : pHolding_Tcb[m] = t
    /\ \A t \in Alive :
         /\ holds_lock[t] = Cardinality(owned[t])
         /\ cur_prio[t] = IF owned[t] = {} THEN native_prio(t) ELSE 0

(* "holds_lock: 1 if the task is currently owning a lock" (task.h:59), on  *)
(* which dev_wait relies to refuse a task that would sleep on a mutex.     *)
HoldsLockIfOwning == \A t \in Alive : owned[t] # {} => holds_lock[t] # 0

(* What holds of the mutex queues even when clients unlock what they no    *)
(* longer own: a task waits in at most one queue and is pending exactly    *)
(* then (dispatch_save drops a pending task from the run queue) ...        *)
PendingIffQueued ==
    \A t \in Alive :
        pending[t] <=> \E m \in Mutex : t \in Range(pSleep_queue[m])

(* ... and a mutex with waiters is locked: an unlock that clears bLock     *)
(* with a task still queued would leave it there for good.                 *)
WaitersOnlyOnLocked ==
    \A m \in Mutex : pSleep_queue[m] # <<>> => bLock[m]

(* A task that stays ready gives up the processor only to a task of higher *)
(* priority: neither an interrupt that releases lower tasks nor an unlock  *)
(* nobody waits for takes it away (ctx_switch.c:37).                       *)
PreemptedOnlyByHigher ==
    [][(cur_tcb \in Tcb \cap Range(run_list')) =>
         (cur_prio'[cur_tcb'] < cur_prio'[cur_tcb])]_vars

(* To its tasks the kernel is a fixed-priority preemptive scheduler, with  *)
(* whatever order of calls, wake-ups and interrupts, by disciplined        *)
(* clients or not: who runs next follows from the tasks alone.             *)
Scheduler == INSTANCE PriorityScheduler WITH
    Task    <- Tcb,
    Idle    <- IDLE_PRIO,
    None    <- NULL,
    tasks   <- Alive,
    running <- cur_tcb,
    ready   <- {run_list[p] : p \in Occupied(run_list)},
    boosted <- cur_tcb # NULL /\ cur_prio[cur_tcb] = 0
SchedulesByPriority == Scheduler!Spec
----------------------------------------------------------------------------
(* Liveness. *)

(* The processor carries on after a context switch.  A timer interrupt     *)
(* stays latched in the controller while the kernel has interrupts off, so *)
(* it is served although it is enabled only on and off: strong fairness.   *)
FairSpec == Spec /\ WF_vars(Return) /\ SF_vars(Interrupt)

(* "Puts a task to sleep on the sleep queue until the next event is        *)
(* signalled for the device" (device.c:61): the event does come, through   *)
(* wrap-arounds of system_time and of the match values, whatever number    *)
(* the client passed that event_wait did not refuse.                       *)
EventSignalled ==
    \A q \in QueueWord : \A t \in Tcb : t \in sleep_q[q] ~> t \notin sleep_q[q]

(* The highest task gets the processor after its event, provided clients   *)
(* hold no mutex again and again: the boost of a holder ends with the last *)
(* unlock, and that unlock dispatches.  (Unlocking each mutex again and    *)
(* again is not enough: hand-over-hand locking keeps the boost for ever.)  *)
TopTaskServed ==
    []<>(\A t \in Tcb : owned[t] = {}) =>
        \A d \in Device : 1 \in sleep_q[d] ~> cur_tcb = 1
=============================================================================
