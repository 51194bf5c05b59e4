----------------------------- MODULE ReadyQueue -----------------------------
(***************************************************************************)
(* The run queue of kernel/sched/run_queue.c as a value: an array with one *)
(* slot per priority (`run_list'), each slot NULL or a TCB.  A TCB is its  *)
(* index in system_tcb[].  RunQueue.tla shows that the bitmaps of the code *)
(* (run_bits, group_run_bits) compute the same functions.                  *)
(***************************************************************************)
EXTENDS Integers, FiniteSets, FiniteSetsExt

CONSTANTS
    OS_MAX_TASKS,   \* config.h: number of priorities and of TCBs
    NULL            \* the null pointer

(* Three entries are the least that hold slot 0, one task and idle.  *)
ASSUME OsMaxTasksAssumption == OS_MAX_TASKS \in Nat /\ OS_MAX_TASKS >= 3
ASSUME NullAssumption == NULL \notin Nat

(* config.h: idle has the last, that is the lowest, priority. *)
IDLE_PRIO == OS_MAX_TASKS - 1

Prio == 0 .. IDLE_PRIO
(* system_tcb[0] is never given a task: allocate_tasks starts at i + 1. *)
Tcb == 1 .. IDLE_PRIO

RunList == [Prio -> Tcb \cup {NULL}]

(* runqueue_init *)
EmptyRunList == [p \in Prio |-> NULL]

Occupied(rl) == {p \in Prio : rl[p] # NULL}

(* runqueue_add: an occupied slot keeps its TCB and the new one is dropped. *)
RunqueueAdd(rl, tcb, prio) ==
    IF rl[prio] = NULL THEN [rl EXCEPT ![prio] = tcb] ELSE rl

(* runqueue_add(t, t->native_prio) for every t of a set.  A task's native  *)
(* priority is its index, so the slots differ and the order is immaterial. *)
RunqueueAddAll(rl, tcbs) ==
    [p \in Prio |-> IF rl[p] = NULL /\ p \in tcbs THEN p ELSE rl[p]]

RunqueueRemoveKeeping(rl, prio) == rl   \* mutant: the slot is not cleared

(* runqueue_remove: the TCB returned is rl[prio]. *)
RunqueueRemove(rl, prio) == [rl EXCEPT ![prio] = NULL]

HighestPrioLast(rl) == Max(Occupied(rl) \cup {0})   \* mutant: wrong end

(* highest_prio: both table lookups give 0 on an empty queue. *)
HighestPrio(rl) == IF Occupied(rl) = {} THEN 0 ELSE Min(Occupied(rl))
=============================================================================
