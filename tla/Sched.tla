------------------------------- MODULE Sched -------------------------------
(***************************************************************************)
(* kernel/sched: the TCBs, the current task and the context switch.        *)
(*                                                                         *)
(* The kernel runs on one processor with interrupts off, so what happens   *)
(* between disable_interrupts and the next enable_interrupts or context    *)
(* switch is one step.  ctx_switch_full saves r4-r11, sp and lr but not    *)
(* the CPSR: after a dispatch interrupts stay off until the task that is   *)
(* switched to runs the rest of the kernel function that switched it out.  *)
(* `frame' names that function, and its rest is an action of its own.      *)
(***************************************************************************)
EXTENDS ReadyQueue

VARIABLES
    num_tasks,     \* the argument of the last successful task_create
    run_list,      \* run_queue.c: the ready tasks by priority
    cur_tcb,       \* ctx_switch.c: the running task, NULL before the first
    cur_prio,      \* tcb.cur_prio
    holds_lock,    \* tcb.holds_lock, a count
    pending,       \* tcb.pending = 1: waiting for a mutex
    frame,         \* kernel function a switched-out task is inside of
    irq_on         \* the I bit of the CPSR is clear

schedVars == <<num_tasks, run_list, cur_tcb, cur_prio, holds_lock, pending,
               frame, irq_on>>

Frames == {"none", "launch", "dev_wait", "mutex_lock", "mutex_unlock",
           "dev_update"}

(* allocate_tasks gives system_tcb[i] the native priority i, for good. *)
native_prio(t) == t

UserTasks == 1 .. num_tasks
TasksOf(n) == (1 .. n) \cup {IDLE_PRIO}
(* The tasks that exist: none until allocate_tasks has set up idle. *)
Alive == IF cur_prio[IDLE_PRIO] = IDLE_PRIO THEN TasksOf(num_tasks) ELSE {}

(* A task's own code runs and may make a system call; idle makes none. *)
Calling == irq_on /\ cur_tcb \in UserTasks
(* The program's main, before the first task_create, makes calls as well. *)
InUserMode == Calling \/ (irq_on /\ cur_tcb = NULL)

SchedTypeOK ==
    /\ num_tasks \in 0 .. OS_MAX_TASKS - 2
    /\ run_list \in RunList
    /\ cur_tcb \in Tcb \cup {NULL}
    /\ cur_prio \in [Tcb -> Prio]
    /\ holds_lock \in [Tcb -> Nat]
    /\ pending \in [Tcb -> BOOLEAN]
    /\ frame \in [Tcb -> Frames]
    /\ irq_on \in BOOLEAN

(* system_tcb[] is zero-initialised; no task exists and main runs. *)
SchedInit ==
    /\ num_tasks = 0
    /\ run_list = EmptyRunList
    /\ cur_tcb = NULL
    /\ cur_prio = [t \in Tcb |-> 0]
    /\ holds_lock = [t \in Tcb |-> 0]
    /\ pending = [t \in Tcb |-> FALSE]
    /\ frame = [t \in Tcb |-> "none"]
    /\ irq_on = TRUE
----------------------------------------------------------------------------
(* highest_prio, runqueue_remove and the switch, from the run list rl. *)
DispatchTo(rl) ==
    /\ cur_tcb' = rl[HighestPrio(rl)]
    /\ run_list' = RunqueueRemove(rl, HighestPrio(rl))
    /\ irq_on' = FALSE

(* dispatch_nosave: allocate_tasks never returns to its caller. *)
DispatchNosave(rl) == DispatchTo(rl)

DispatchSleepReady(fn) ==   \* mutant: dispatch_save in place of dispatch_sleep
    /\ DispatchTo(RunqueueAdd(run_list, cur_tcb, native_prio(cur_tcb)))
    /\ frame' = [frame EXCEPT ![cur_tcb] = fn]

(* dispatch_sleep: the caller fn has put the current task on a wait queue. *)
DispatchSleep(fn) ==
    /\ DispatchTo(run_list)
    /\ frame' = [frame EXCEPT ![cur_tcb] = fn]

DispatchSaveDropping(rl, prio, fn) ==   \* mutant: dispatch_sleep in its place
    /\ DispatchTo(rl)
    /\ frame' = [frame EXCEPT ![cur_tcb] = fn]

DispatchSaveNative(rl, prio, fn) ==     \* mutant: native for current priority
    /\ DispatchTo(IF pending[cur_tcb] THEN rl
                  ELSE RunqueueAdd(rl, cur_tcb, native_prio(cur_tcb)))
    /\ frame' = [frame EXCEPT ![cur_tcb] = fn]

DispatchSaveLate(rl, prio, fn) ==   \* mutant: the caller is added after the pick
    LET next == HighestPrio(rl)
    IN  /\ cur_tcb' = rl[next]
        /\ run_list' = RunqueueAdd(RunqueueRemove(rl, next), cur_tcb, prio)
        /\ irq_on' = FALSE
        /\ frame' = [frame EXCEPT ![cur_tcb] = fn]

(* dispatch_save: the current task goes back to the run queue, at the      *)
(* priority prio it has by now, unless it is waiting for a mutex.          *)
DispatchSave(rl, prio, fn) ==
    /\ DispatchTo(IF pending[cur_tcb] THEN rl
                  ELSE RunqueueAdd(rl, cur_tcb, prio))
    /\ frame' = [frame EXCEPT ![cur_tcb] = fn]

(* The task switched to is back in fn, which ends with enable_interrupts   *)
(* (launch_task: with the CPSR of user mode).                              *)
Resume(fn) ==
    /\ ~irq_on
    /\ cur_tcb # NULL
    /\ frame[cur_tcb] = fn
    /\ frame' = [frame EXCEPT ![cur_tcb] = "none"]
    /\ irq_on' = TRUE

(* launch_task: the first instruction of the task, in user mode. *)
LaunchTask ==
    /\ Resume("launch")
    /\ UNCHANGED <<num_tasks, run_list, cur_tcb, cur_prio, holds_lock,
                   pending>>

(* allocate_tasks on the TCBs: those of the n tasks and of idle are reset, *)
(* the others keep what they held; then the highest of them is launched.   *)
AllocateTcbs(n) ==
    LET new == TasksOf(n)
    IN  /\ num_tasks' = n
        /\ cur_prio' = [t \in Tcb |-> IF t \in new THEN native_prio(t)
                                      ELSE cur_prio[t]]
        /\ holds_lock' = [t \in Tcb |-> IF t \in new THEN 0 ELSE holds_lock[t]]
        /\ pending' = [t \in Tcb |-> t \notin new /\ pending[t]]
        /\ frame' = [t \in Tcb |-> IF t \in new THEN "launch" ELSE frame[t]]
        /\ DispatchNosave(RunqueueAddAll(EmptyRunList, new))
=============================================================================
