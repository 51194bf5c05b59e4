------------------------------- MODULE Mutex -------------------------------
(***************************************************************************)
(* kernel/lock/mutex.c: mutexes under the highest-locker protocol.  Taking *)
(* a mutex lifts the task to priority 0 at once; giving up the last one    *)
(* drops it to its native priority and dispatches.                         *)
(***************************************************************************)
EXTENDS Sched, Sequences

CONSTANTS
    OS_NUM_MUTEX,   \* config.h: number of mutexes
    MaxHolds,       \* bound on a task's holds_lock, for clients that unlock
                    \* what they do not own
    Disciplined     \* what the clients do, see MayLock and MayUnlock

ASSUME OsNumMutexAssumption == OS_NUM_MUTEX \in Nat \ {0}
ASSUME DisciplinedAssumption == Disciplined \in BOOLEAN
ASSUME MaxHoldsAssumption == MaxHolds \in Nat \ {0}

VARIABLES
    bAvailable,     \* not yet handed out by mutex_create
    bLock,
    pHolding_Tcb,   \* the last task that locked it; never cleared
    pSleep_queue,   \* the list linked through tcb.mutex_sleep_queue
    lock_arg,       \* the argument of a mutex_lock that is switched out
    owned           \* history: the mutexes each task has locked and has
                    \* not unlocked since, whatever the kernel recorded

mutexVars == <<bAvailable, bLock, pHolding_Tcb, pSleep_queue, lock_arg, owned>>

Mutex == 0 .. OS_NUM_MUTEX - 1
(* What clients pass: every mutex and one number that is out of range. *)
MutexArg == 0 .. OS_NUM_MUTEX

MutexTypeOK ==
    /\ bAvailable \in [Mutex -> BOOLEAN]
    /\ bLock \in [Mutex -> BOOLEAN]
    /\ pHolding_Tcb \in [Mutex -> Tcb \cup {NULL}]
    /\ pSleep_queue \in [Mutex -> Seq(Tcb)]
    /\ lock_arg \in [Tcb -> Mutex]
    /\ owned \in [Tcb -> SUBSET Mutex]

(* mutex_init, called by kmain. *)
MutexInit ==
    /\ bAvailable = [m \in Mutex |-> TRUE]
    /\ bLock = [m \in Mutex |-> FALSE]
    /\ pHolding_Tcb = [m \in Mutex |-> NULL]
    /\ pSleep_queue = [m \in Mutex |-> <<>>]
    /\ lock_arg = [t \in Tcb |-> 0]
    /\ owned = [t \in Tcb |-> {}]

(* A disciplined client locks what mutex_create returned and does not      *)
(* unlock a mutex again after its own unlock.  (It may try to unlock what  *)
(* others hold: the kernel refuses that with EPERM.)                       *)
MayLock(m) == Disciplined => ~bAvailable[m]
MayUnlock(m) ==
    Disciplined => (pHolding_Tcb[m] = cur_tcb => m \in owned[cur_tcb])
----------------------------------------------------------------------------
MutexCreateKeeping ==       \* mutant: the mutex stays available
    /\ InUserMode
    /\ \E m \in Mutex : bAvailable[m]
    /\ UNCHANGED <<mutexVars, schedVars>>

(* mutex_create: the first mutex not handed out; ENOMEM when there is none *)
(* changes nothing.                                                        *)
MutexCreate ==
    /\ InUserMode
    /\ \E m \in Mutex :
         /\ bAvailable[m]
         /\ \A k \in Mutex : k < m => ~bAvailable[k]
         /\ bAvailable' = [bAvailable EXCEPT ![m] = FALSE]
    /\ UNCHANGED <<bLock, pHolding_Tcb, pSleep_queue, lock_arg, owned,
                   schedVars>>

(* mutex_lock: EINVAL, and EDEADLOCK for "a task can not lock twice". *)
MutexLockFails(m) ==
    /\ Calling
    /\ \/ m \notin Mutex
       \/ m \in Mutex /\ bLock[m] /\ pHolding_Tcb[m] = cur_tcb
    /\ UNCHANGED <<mutexVars, schedVars>>

AcquireUnboosted(t, m) ==   \* mutant: no HIGHEST_PRIORITY
    /\ holds_lock' = [holds_lock EXCEPT ![t] = @ + 1]
    /\ pHolding_Tcb' = [pHolding_Tcb EXCEPT ![m] = t]
    /\ owned' = [owned EXCEPT ![t] = @ \cup {m}]
    /\ UNCHANGED cur_prio

AcquireFlag(t, m) ==        \* mutant: holds_lock is a flag, not a count
    /\ holds_lock' = [holds_lock EXCEPT ![t] = 1]
    /\ cur_prio' = [cur_prio EXCEPT ![t] = 0]
    /\ pHolding_Tcb' = [pHolding_Tcb EXCEPT ![m] = t]
    /\ owned' = [owned EXCEPT ![t] = @ \cup {m}]

(* What mutex_lock does once the mutex is the caller's: at once, or in the *)
(* frame of a task that was woken by the previous owner's unlock.          *)
Acquire(t, m) ==
    /\ holds_lock' = [holds_lock EXCEPT ![t] = @ + 1]
    /\ cur_prio' = [cur_prio EXCEPT ![t] = 0]
    /\ pHolding_Tcb' = [pHolding_Tcb EXCEPT ![m] = t]
    /\ owned' = [owned EXCEPT ![t] = @ \cup {m}]

(* mutex_lock of a free mutex.  That it is created is not tested. *)
MutexLockTake(m) ==
    /\ Calling
    /\ m \in Mutex
    /\ MayLock(m)
    /\ ~bLock[m]
    /\ holds_lock[cur_tcb] < MaxHolds
    /\ bLock' = [bLock EXCEPT ![m] = TRUE]
    /\ Acquire(cur_tcb, m)
    /\ UNCHANGED <<bAvailable, pSleep_queue, lock_arg, num_tasks, run_list,
                   cur_tcb, pending, frame, irq_on>>

EnqueueUnmarked(t, m) ==    \* mutant: pending is not set
    /\ pSleep_queue' = [pSleep_queue EXCEPT ![m] = Append(@, t)]
    /\ lock_arg' = [lock_arg EXCEPT ![t] = m]
    /\ UNCHANGED pending

(* To the end of the sleep queue. *)
Enqueue(t, m) ==
    /\ pSleep_queue' = [pSleep_queue EXCEPT ![m] = Append(@, t)]
    /\ lock_arg' = [lock_arg EXCEPT ![t] = m]
    /\ pending' = [pending EXCEPT ![t] = TRUE]

(* mutex_lock of a mutex that another task holds. *)
MutexLockSleep(m) ==
    /\ Calling
    /\ m \in Mutex
    /\ MayLock(m)
    /\ bLock[m]
    /\ pHolding_Tcb[m] # cur_tcb
    /\ holds_lock[cur_tcb] < MaxHolds
    /\ Enqueue(cur_tcb, m)
    /\ DispatchSleep("mutex_lock")
    /\ UNCHANGED <<bAvailable, bLock, pHolding_Tcb, owned, num_tasks, cur_prio,
                   holds_lock>>

(* The rest of mutex_lock after dispatch_sleep: bLock is not looked at. *)
MutexLockReturn ==
    /\ Resume("mutex_lock")
    /\ Acquire(cur_tcb, lock_arg[cur_tcb])
    /\ UNCHANGED <<bAvailable, bLock, pSleep_queue, lock_arg, num_tasks,
                   run_list, cur_tcb, pending>>

(* mutex_unlock: EINVAL, EPERM.  (The two tests that follow those in the   *)
(* code can never be true.)                                                *)
MutexUnlockFails(m) ==
    /\ Calling
    /\ \/ m \notin Mutex
       \/ m \in Mutex /\ (bAvailable[m] \/ pHolding_Tcb[m] # cur_tcb)
    /\ UNCHANGED <<mutexVars, schedVars>>

PrioAfterUnlockKept(t) == cur_prio[t]   \* mutant: the boost is kept

(* The priority of the unlocker: back to native with its last mutex. *)
PrioAfterUnlock(t) == IF holds_lock[t] > 1 THEN cur_prio[t] ELSE native_prio(t)

(* mutex_unlock without a waiter.  pHolding_Tcb is left alone. *)
Release(t, m) ==
    /\ pSleep_queue[m] = <<>>
    /\ bLock' = [bLock EXCEPT ![m] = FALSE]
    /\ cur_prio' = [cur_prio EXCEPT ![t] = PrioAfterUnlock(t)]
    /\ DispatchSave(run_list, PrioAfterUnlock(t), "mutex_unlock")
    /\ UNCHANGED <<pSleep_queue, pending>>

HandOffUnlocking(t, m) ==   \* mutant: bLock is cleared on hand-off too
    LET first == Head(pSleep_queue[m])
    IN  /\ pSleep_queue[m] # <<>>
        /\ bLock' = [bLock EXCEPT ![m] = FALSE]
        /\ pSleep_queue' = [pSleep_queue EXCEPT ![m] = Tail(@)]
        /\ pending' = [pending EXCEPT ![first] = FALSE]
        /\ cur_prio' = [cur_prio EXCEPT ![first] = native_prio(first),
                                       ![t] = PrioAfterUnlock(t)]
        /\ DispatchSave(RunqueueAdd(run_list, first, native_prio(first)),
                        PrioAfterUnlock(t), "mutex_unlock")

(* mutex_unlock with waiters: the first one is made ready at its native    *)
(* priority.  bLock stays set, and pHolding_Tcb too until that task runs.  *)
HandOff(t, m) ==
    LET first == Head(pSleep_queue[m])
    IN  /\ pSleep_queue[m] # <<>>
        /\ pSleep_queue' = [pSleep_queue EXCEPT ![m] = Tail(@)]
        /\ pending' = [pending EXCEPT ![first] = FALSE]
        /\ cur_prio' = [cur_prio EXCEPT ![first] = native_prio(first),
                                       ![t] = PrioAfterUnlock(t)]
        /\ DispatchSave(RunqueueAdd(run_list, first, native_prio(first)),
                        PrioAfterUnlock(t), "mutex_unlock")
        /\ UNCHANGED bLock

MutexUnlock(m) ==
    /\ Calling
    /\ m \in Mutex
    /\ ~bAvailable[m]
    /\ pHolding_Tcb[m] = cur_tcb
    /\ MayUnlock(m)
    /\ Release(cur_tcb, m) \/ HandOff(cur_tcb, m)
    /\ holds_lock' = [holds_lock EXCEPT ![cur_tcb] = IF @ > 1 THEN @ - 1 ELSE 0]
    /\ owned' = [owned EXCEPT ![cur_tcb] = @ \ {m}]
    /\ UNCHANGED <<bAvailable, pHolding_Tcb, lock_arg, num_tasks>>

(* The rest of mutex_unlock after dispatch_save: return 0. *)
MutexUnlockReturn ==
    /\ Resume("mutex_unlock")
    /\ UNCHANGED <<mutexVars, num_tasks, run_list, cur_tcb, cur_prio,
                   holds_lock, pending>>

(* allocate_tasks does not touch gtMutex[]; the new tasks own nothing.     *)
ForgetOwners ==
    /\ owned' = [t \in Tcb |-> {}]
    /\ UNCHANGED <<bAvailable, bLock, pHolding_Tcb, pSleep_queue, lock_arg>>
=============================================================================
