# A TLA+ development of embedlab4

The repository is a small real-time kernel for an ARM board (Gumstix, PXA255):
fixed-priority preemptive tasks, mutexes under the highest-locker protocol,
periodic releases by "simulated devices" that a 10 ms timer interrupt drives,
and a system-call interface; with it come test programs and the C library they
use. This directory models it in TLA+, checks it with TLC on small instances and
proves with TLAPS, for every size, nearly all that it checks; what is left to TLC, mainly
liveness, is listed with the reasons in section 4.

The models are translated from the code under `kernel/` and `tasks/`; file names
below are relative to the repository.

## 1. Inventory

| Part | Code | State | Operations |
|---|---|---|---|
| Ready queue | `kernel/sched/run_queue.c` | `run_list[64]`, `run_bits[8]`, `group_run_bits` | `runqueue_init/add/remove`, `highest_prio` |
| Scheduler | `kernel/sched/ctx_switch.c`, `ctx_switch_asm.S`, `sched.c` | `cur_tcb`, `system_tcb[]`, the saved context of each task | `dispatch_save`, `dispatch_sleep`, `dispatch_nosave`, `launch_task`, `allocate_tasks` |
| Mutexes | `kernel/lock/mutex.c` | `gtMutex[32]`: `bAvailable`, `bLock`, `pHolding_Tcb`, `pSleep_queue`; in the TCB `holds_lock`, `cur_prio`, `pending` | `mutex_init/create/lock/unlock` |
| Devices | `kernel/device.c` | per device `sleep_q`, `next_match` | `dev_init`, `dev_wait`, `dev_update` |
| Timer interrupt | `kernel/irqHandler_c.c` | `system_time`, `time_drift` | `irqHandler` |
| Process calls | `kernel/syscall/proc.c` | - | `task_create`, `event_wait`, `invalid_syscall` |
| Admission | `kernel/sched/ub_test.c`, `memcheck.c`, `raise.c` | the caller's array, sorted in place | `valid_addr`, `assign_schedule` |
| Exception entry | `kernel/S_Handler.S`, `irqHandler.S`, `user_mode.S` | CPSR, SPSR_svc, kernel stacks | SWI and IRQ entry and return |
| Time calls | `kernel/syscall/time.c` | the end time of each sleeper | `time`, `sleep` |
| Console calls | `kernel/syscall/io.c` | the caller's buffer, the index | `read`, `write` |
| Boot | `kernel/main.c`, `start.S`, `IrqStack.S`, `uboot/` | exception vectors | once |
| Wrappers | `tasks/libc/swi`, `stdlib/errno.c` | one `errno` for all tasks | a function per system call |
| String functions | `tasks/libc/string` | memory | `memmove`, `strncpy`, `strstr`, ... |
| Formatted I/O | `tasks/libc/stdio`, `strtol.c`, `strtoul.c`, `atoi.c` | printf's buffer | `printf`, `snprintf`, `sscanf`, `strtol`, ... |
| Test programs | `tasks/{dagger,mutex_chaser,simple_mutex,sys_err,stress,cyclone,splat,typo}` | shared variables | their tasks |

How they interact. A user task enters by SWI; `C_SWI_Handler` calls one of the
system calls. These and `irqHandler` share the TCBs, the run queue and
`cur_tcb`, and protect themselves by disabling interrupts; there is one
processor. `mutex_lock` and `dev_wait` put the caller on a queue and call
`dispatch_sleep`; `mutex_unlock` and `dev_update` make tasks ready and call
`dispatch_save`; `task_create` empties the queues, resets the TCBs and calls
`dispatch_nosave`. A dispatch function does not return before some later
dispatch picks its task again, with interrupts still off: the rest of the
kernel function then runs in another world than the one it was called in.

A program's `main` creates the tasks and never runs again. Its tasks share its
variables and the library's `errno`; a wrapper writes `errno` after the system
call has returned, in user mode. `sleep` is a loop in the kernel with interrupts
on, so a sleeper keeps the processor from lower tasks. `printf` is `_doprnt` with
a callback that fills a buffer and calls `write`.

What is hard here, and hard to test:

* calls and timer interrupts in any order: a task has to be on the processor,
  in the run queue, in one device queue or in one mutex queue, and a queue that
  overwrites or a flag (`pending`, a run bit) that is out of step loses it;
* the second half of `mutex_lock`, `mutex_unlock`, `dev_wait` and `dev_update`,
  which runs after a switch and trusts what was decided before it;
* a priority that must stay raised exactly while mutexes are owned;
* wrap-around of the 32-bit clock against match values that wrap at other times;
* the one banked SPSR_svc, which interrupts overwrite and switches do not save;
* off-by-one accesses at the ends of `devices[]` and the task array;
* `task_create` called again while tasks are ready or asleep;
* updates of shared variables by several tasks, kept apart by nothing but the
  mutex and its priority; a mutex kept over a wait;
* a read index that goes below zero and comes back, buffers at their limits,
  pointers and counts that wrap, copies that overlap;
* a number that is printed in one of a hundred ways and must be read back.

PROJECT.json lists each hazard at its line with the properties that would catch it.

What makes each part correct: the ready queue is a map with a minimum; the
scheduler loses no task and runs the best one; a mutex has one owner, the
records agree with who locked what, a holder is not switched out; every event
comes, and in time for the clock's wrap-around; admission hands on the caller's
tasks in order of period and refuses only what cannot be scheduled; an exception
returns to what was interrupted, in the mode it was in. Each periodic task gets one
job per event, no update is lost, `sleep` sleeps long enough, the programs' own checks succeed.
The library does what the C standard says of it, or what is said in section 5.

## 2. Modules

```
ReadyQueue          run queue as a value             RunQueue   the bitmaps of the code
   |  \------------ ReadyQueueSpec  <-- refined by ----/    \-- RunQueueProofs
 Sched              TCBs, dispatch, allocate_tasks
   |   \
 Mutex  Device      mutex.c         device.c, irqHandler_c.c, event_wait
   |   /
 Kernel             the running kernel   -- refines --> PriorityScheduler
   |   \
   |  Programs      the test programs, errno, sleep
   |        \-----------\
 KernelProofs <--- ProgramsProofs

Exceptions          SWI/IRQ entry and return         TaskSet    admission
   |                                                    |
 ExceptionsProofs                                    TaskSetProofs

Format -- Scan -- Stdio   _doprnt; sscanf, strtol; printf, sprintf
                  Strings   string functions
                  Console   read, write, typo   -- refines --> LineSpec
                     |
                  UserLib   the three together
Loop                        used by Scan and Strings

Induction <--- TaskSetProofs
Induction <--- StringsProofs <--- UserLibProofs

MCKernel, MCPrograms, MCRunQueue, MCTaskSet, MCUserLib     constants for TLC
```

**ReadyQueue, ReadyQueueSpec, RunQueue.** `ReadyQueue` has the functions of
`run_queue.c` on a value: one slot per priority; adding to an occupied slot
drops the new task, as the code does. The kernel modules use these. `RunQueue`
is the code as it is: two levels of bitmaps and the literal 256-entry table.
It is checked and proved to implement `ReadyQueueSpec`, whose operations are those values.

**Sched.** A TCB is its index in `system_tcb[]`; its native priority is that
index. A `Dispatch*` action picks the next task and turns interrupts off.
`frame[t]` names the kernel function a switched-out task is inside of; the rest
of that function, up to `enable_interrupts`, is an action (`Resume`). Everything
between `disable_interrupts` and the next dispatch is one step, because the
processor is alone; what a call does before it disables interrupts reads only its
arguments. Register contents are left out.

**Mutex.** One action per outcome of each call: `MutexLockFails`, `MutexLockTake`,
`MutexLockSleep`, `MutexLockReturn` (after the switch), `MutexUnlockFails`,
`MutexUnlock` (`Release` or `HandOff`), `MutexUnlockReturn`. `owned` is a history
variable: what each task has locked and not unlocked since, whatever the kernel
recorded. The linked sleep queue is a sequence.

**Device.** `TimerIrq` is the whole of `irqHandler` for a timer interrupt: it
advances the clock by the counter (`oscr`), carries the remainder, advances every
device that is due by one period, empties its queue, and dispatches if anybody
woke up. `sleep_q[NUM_DEVICES]` is the word after `devices[]`: `event_wait`
refuses `dev > NUM_DEVICES` only, so clients reach it. Device queues are sets,
because `dev_update` empties a queue at once and each task has a slot of its own.

**Kernel.** All calls of the running task, all returns, the interrupt, and
`task_create`. User code is "any call at any point".

**PriorityScheduler.** What all of that comes to for the tasks: a set of running and
ready tasks and a boost, without queues, TCBs, mutexes or devices. `Kernel` is
checked and proved to implement it (`SchedulesByPriority`, by INSTANCE ... WITH).

**Programs.** Each test program is a table: for `main` and each task, in the order in
which `task_create` sorts them, the lines that call the kernel or touch a shared
variable. Local variables are unrolled into the lines (`once` and `even_t1` of
`simple_mutex.c` become two different halves of the table). One action runs a line
of one kind: the kernel's actions for a call, then `Wrapper`, which is the rest of
the function in `libc/swi` and the test of its result, as a step of its own; `Load`
and `Store`, the two halves of `x = x + 1`; `Check` of a check the program makes.
A shared variable is the sequence of the tasks that updated it, which tells lost
updates from any arithmetic. A table is a function from line numbers, so that the
programs that differ with `MUTEX_NUM` or `NUM_TASK` are there for every value of them.
`SleepCall`, `Loop` and `SleepReturn` are
`sleep_syscall`. `panic` is a place that is never left.

**Strings, Format, Scan, Stdio, Console.** `Strings` has each function as its loop, on a
memory of `SIZE` bytes whose addresses and counts wrap; actions call them one after
the other on what the last one left. `Format` has one operator per conversion of
`_doprnt` with its padding loops as differences of lengths, `Scan` the readers,
`Stdio` the callbacks and the calls. `Console` is `read_syscall` one key at a time,
with `typo` around it; the index is the code's `i`, and `screen` is what the terminal
shows. `LineSpec` is a line editor without index or buffer that `Console` is checked and
proved to implement (`EditsLine`). `Loop` has the loops that only look for a place to
stop at (`Until`); like all loops of the library it is a recursive function and not a
RECURSIVE operator, because the latter cannot be reasoned about.

**Exceptions.** The same kernel seen from below: CPSR, SPSR_svc and, per thread,
the exceptions on its kernel stack. The C code is reduced to whether it turns
interrupts off and whether it switches. Steps are as small as interrupts allow:
code with interrupts off is one step with the instruction before it.

**TaskSet.** `task_create` up to `allocate_tasks`, one action per check and one
per round of the sort's inner loop. The array has one element more than was
passed, because the sort reaches it; what is there is arbitrary.

### Assumptions about clients and memory

* Before the first `task_create` the program's `main` calls `mutex_create` and
  `task_create` only (as all test programs do but for refused calls); other calls
  would use a null `cur_tcb`.
* `task_create` by a running task (`Recreate`, `tasks/cyclone`) happens while no
  task is linked into a queue that `allocate_tasks` leaves alone; otherwise links
  of old and new tasks get mixed up and the queues are no longer lists.
* The kernel's memory is zero at start, the word after `devices[]` included. The buffer of
  `typo` is on the stack and holds anything (`Junk`).
* `Disciplined` clients lock what `mutex_create` returned, do not unlock a mutex
  again after their own unlock and call `task_create` with nothing locked. They
  may try to unlock what others hold. With `Disciplined = FALSE` they do as they like.
* `MaxHolds` bounds `holds_lock`, which undisciplined clients could raise for ever.
* The calls of string functions are the ones the C standard allows: strings that
  end, room for the result, and objects apart, but for `memmove`.
* In `sys_err` the call of `task_create` with a bad pointer is refused; which refusal
  depends on what is at that address, and so whether the check after it succeeds.
* A single bit of a `%b` has a name; without one `_doprnt` would read a field.
* `screen` in `Console` is what is shown behind the prompt, which a delete at the start
  of a line can rub out, too.
* In `Exceptions` a task that has come back in supervisor mode makes no further
  system call: it would run on the kernel's stack pointer.

## 3. Model checking

| Run | Checks | Result |
|---|---|---|
| `kernel` | `TypeOK OnePlace HighestRuns IdleReady HolderRuns NoContention RecordsAgree EventSignalled TopTaskServed`, disciplined clients, re-creation, two devices, drift, 2-bit clock, `FairSpec` | 76 thousand states |
| `kernel_free` | `OnePlace PendingIffQueued WaitersOnlyOnLocked PreemptedOnlyByHigher SchedulesByPriority`, clients that unlock twice and re-create with mutexes locked | 2.9 million states |
| `programs` | `NoUpdateLost OneJobPerEvent ChecksSucceed PanicKeepsProcessor SleepShortByPart` | 1.4 million states |
| `userlib` | `CopiesRight SearchesRight FieldWidth ReadBack PrintfFaithful SnprintfPrefix EchoesLine EditsLine` | 414 thousand states |
| `run_queue` | `TypeOK BitsAgree ImplementsReadyQueue` at the real 64 priorities | 295 thousand states |
| `exceptions` | `TypeOK StackBalanced InterruptsOnInTask KernelResumed ModeLostIfStruck` | 19 thousand states |
| `task_set` | `TypeOK NothingLost Sorted OutsiderStaysOut RefusedOverloaded` | 88 thousand states |
| `double_unlock`, `past_array`, `exceptions_window`, `task_set_sort`, `sleep_short` | one statement each of the code's own comments and tests | violated, see section 5 |

`OnePlace` says that each existing task is in exactly one place. `HighestRuns`:
while a task's own code runs, no ready task has a higher priority.
`PreemptedOnlyByHigher` (an action property): a task that stays ready gives the
processor only to a higher one. `HolderRuns` and `NoContention` are what the
highest-locker protocol promises: a task that owns a mutex is not switched out, so
nobody ever waits for one. `RecordsAgree` ties `bLock`, `pHolding_Tcb`,
`holds_lock` and `cur_prio` to the history. Clients that unlock twice break these
three, and only then do tasks wait in mutex queues at all: `kernel_free` is
there to check the sleeping half of `mutex_lock` and the hand-off. (What it asks of a
mutex that was handed over is only that nobody is left behind; that the record still
names the old owner until the new one runs is the second unlock of section 5.)
`ModeLostIfStruck` characterises the entry code exactly: a task comes back in
supervisor mode if *and only if* an interrupt came where SPSR_svc was live.

`SchedulesByPriority` says the same of all steps at once: from which task
runs, which are ready and whether the runner is boosted it follows who runs next.

`NoUpdateLost`: what a variable went through is what was stored, in order (`ct` of
`cyclone`, the scores of `stress`, `mutex_val[]`, whose updates do not commute).
`OneJobPerEvent` ties each sleeping task to its device: `next_match` is where
the events it has had, one job each, bring it; with late tasks, re-creation and wraps.
(That a device catches up with several events in a row is what the code does; the
property accepts it.) `ChecksSucceed`: the checks of `sys_err` never fail, although the
timer may switch tasks between a call and the look at `errno`, but for the one after
the bad pointer, section 5; the rate-monotonic check of
`stress` fails only if a task was late or a device had to catch up.
`PanicKeepsProcessor`: `panic` happens in `simple_mutex` only, where `fun3`, and `fun2`
if it comes first, waits with the mutex locked, is refused, and loops at the highest
priority for ever. `SleepKeepsPromise` is the comment on `sleep_syscall`, and violated
(`sleep_short`); `SleepShortByPart` says how far: by less than a period, or because the
end time wraps. Both measure with the kernel's own clock, in whole periods: that a
sleep begins somewhere in the middle of one makes it shorter still.

`CopiesRight`, `SearchesRight`: each string function against its definition on
sequences, over every memory and all arguments, but for `strncpy` without a NUL among
its characters (section 5). `FieldWidth`: how wide each conversion but `%b` is, as asked
for or as its contents; with the exceptions of section 5. `ReadBack`: what a conversion
prints is read back as the number by `strtol`, `strtoul`, `atol` and `sscanf`.
`PrintfFaithful`: the buffer neither loses, doubles nor reorders
characters. `SnprintfPrefix`: `snprintf` leaves a prefix of at most `size` characters,
cut off only where the text and its NUL do not fit. `EditsLine`: `read`
implements the line editor. `EchoesLine`: what `typo` echoes is what was seen, but for
lines on which a delete came where there was nothing to delete.

The bounds. Three user tasks and idle: one running, one that wakes, one that
waits. Two mutexes: nesting in both orders and unlocking one while owning the
other. Two devices with different periods: due together and apart; a third would
add no new kind of coincidence. The clock has 2 (1) bits, so both it and the match
values wrap many times in a run, at different times; every interrupt of `kernel` comes
half a period late, so the clock advances by one and by two in turns and the remainder
carries (`kernel_free`: exactly on time). The run queue is checked at the code's
size, with 16 slots that give `run_bits[0]` and `group_run_bits` all 256 values and
two tasks competing for one slot. In `Exceptions` three frames allow an interrupt
in a system call and a second one in the exit path of the first. In `TaskSet` up
to three tasks are sorted and four are refused; descriptors cover both sides
of each comparison.

`Programs` has the programs' own tasks, but 4 of the 60 of `stress` (two that
differ in sleep and period from a third, and the checker), 3 of 32 mutexes
(`MUTEX_NUM`; two are chased), 3 of 30 rounds of `cyclone` (`ITE`), devices with
periods 1 to 4 for 100 to 400 ticks, and sleeps scaled (`stress`: 0 to 10 ms of up
to 58) so that the longest ones last several ticks. The clock has 4 bits and wraps within a run; `MaxTicks` bounds the
interrupts of each run, by then all chasing and checking is done. `Recreate` is TRUE.
`Disciplined` is FALSE: the programs keep to the discipline by themselves. `UserLib` has
memories of 6 bytes with two characters and NUL: two strings of two with their NULs,
every overlap, no end at all; a `long` of 5 bits, so that numbers have up to five
digits, and widths below and above that; a `printf` buffer of 4, filled once
and twice; lines of 3 with seven keys: full, emptied, and full again.

Fairness. `FairSpec` has weak fairness of `Return` (the processor carries on after
a switch) and strong fairness of the timer interrupt: the interrupt controller
keeps a pending interrupt latched while interrupts are off, and it is taken when
they come on again. Nothing is assumed of user code, which may run for ever without
calling. `EventSignalled`: whoever waits for an event gets it. This is checked with the
same latency at every interrupt. Were the latency free to change (`Oscr = {2, 3}`), TLC
finds a clock that at each of its wraps jumps over the one value that is at or above
`next_match`, and the event never comes; with 32 bits it would have to do so once in 16
months, exactly there. `TopTaskServed`
has the premise that clients hold no mutex again and again: the boost of a holder
ends only with its last mutex, so a task that passes from lock to lock keeps
the processor, and that is what the code does.

`CHECK_DEADLOCK FALSE` is used for `TaskSet` and `UserLib` only: there the call ends,
and the keys.

## 4. Proofs

What is proved holds for any number of tasks, mutexes and devices, any periods, any
width of the clock and any timing of the interrupts (`KernelProofs`,
`ProgramsProofs`), any depth of nesting (`ExceptionsProofs`), any number of groups up to
the eight of the code and any tasks added (`RunQueueProofs`), task sets of any size
(`TaskSetProofs`), and memories, formats, arguments, widths of a `long`, buffers and
lines of any size (`StringsProofs`, `UserLibProofs`), from the ASSUMEs of the modules. A theorem with a
hypothesis of its own is marked below.

The inductive invariant of `KernelProofs`, `Inv`, is for every client. `TypeOK`
and `OnePlace` are not inductive: `runqueue_add` drops a task whose slot is taken,
so one must know that the slot is free. `Inv` says in which slot a ready task is
(its own; slot 0 is empty, because only a boosted task is added there and it is
dispatched at once), that the four kinds of places are disjoint and hold every task,
that exactly the tasks in mutex queues are pending, that idle never sleeps, that the
best ready task runs, and that a mutex with waiters is locked. The proof has a lemma
per kind of dispatch (`SaveLemma`, `SleepLemma`, `WakeLemma`, `DispatchNative`), one
per action, and `NextInv` puts them together. From it:

| Theorem | States |
|---|---|
| `TypeCorrect` | `[]TypeOK`, the ranges of clock and drift included |
| `NoTaskLost` | `[]OnePlace` |
| `HighestPriorityRuns` | `[]HighestRuns` |
| `IdleAlwaysReady` | `[]IdleReady`: `dispatch_sleep` never meets an empty queue |
| `PendingExact` | `[]PendingIffQueued` |
| `WaitersKeepLock` | `[]WaitersOnlyOnLocked` |
| `PreemptionJustified` | `PreemptedOnlyByHigher`, with the extra invariant `Unboosted` |

The second part of `KernelProofs` shows that the kernel is a `PriorityScheduler` whatever its clients
do. The mapping takes the tasks of the current set, the running one, those in the
run queue, and whether the running one is at priority 0. Under `Inv` the run queue
holds exactly the tasks `t` with `run_list[t] = t`; `TopRuns` makes the task that was
picked the least of them, once its priority is its number, and `Unboosted` says that
it is, unless `dispatch_save` went on with a boosted caller. Each abstract action has
a lemma, and each action of the kernel one of them, or `Stays`:

| Abstract action | Kernel | Lemma |
|---|---|---|
| `Start` | `TaskCreate` | `StartsAll` |
| `Boost` | `MutexLockTake`, `MutexLockReturn` | `Boosts` |
| `Sleep` | `EventWait`, `MutexLockSleep` | `Sleeps` |
| `Wake` | `MutexUnlock`, an interrupt that releases somebody | `Awakes` |
| no step | calls that fail, `MutexCreate`, other returns and interrupts | `Stays` |

| Theorem | States |
|---|---|
| `SchedulerImplemented` | `SchedulesByPriority`, from `AbsInit` and `AbsNext` |

The third part of `KernelProofs` assumes `Disciplined` and adds `LockInv`: `HolderRuns`,
`NoContention`, `RecordsAgree`, owners are tasks of the current set, nobody is
in `mutex_lock`'s frame. They need each other: nobody waits because the holder
runs, the holder keeps running because its priority is 0, and that is right
because the count agrees with the history.

| Theorem | States |
|---|---|
| `HolderKeepsProcessor` | `[]HolderRuns` |
| `NoTaskWaits` | `[]NoContention` |
| `RecordsExact` | `[]RecordsAgree` |
| `MutexesExclude` | no mutex is owned by two tasks |

`ExceptionsProofs` has an invariant in four parts. `Shape`: the outermost exception of a
thread came from its task with interrupts on, each inner one from an interruptible
place in the kernel, with `Supervisor(TRUE)` as its status word; a system call is
outermost. `Fate`: the status word of the task is on its kernel stack and its mode
agrees with `struck`, unless the thread is, or was interrupted, where SPSR_svc had it;
if it was interrupted there, the word is lost. `Here`: the CPSR, and SPSR_svc where
it is live, agree with the place of the running thread. And every other thread is where `ctx_switch_full` leaves
one, at a place where SPSR_svc does not matter: that is why not saving it over a
switch does no harm. `PushKeeps`, `PopKeeps` and `LabelKeeps` say what an
interrupt, a return and a step within an exception do to `Shape` and `Fate`.

| Theorem | States |
|---|---|
| `ModeLoss` | `[]ModeLostIfStruck` |
| `Resumption` | `[]KernelResumed` |
| `TasksInterruptible` | `[]InterruptsOnInTask` |
| `Balanced` | `[]StackBalanced` |
| `TypeCorrect` | `[]TypeOK` |

`RunQueueProofs`. The inductive invariant `Inv` is `TypeOK`, that each bit of
`run_bits` says whether its slot is occupied and each bit of `group_run_bits` whether
its byte is 0, and that there is no bit for a group that does not exist: without the last
part `highest_prio` could index past `run_bits`. `SetBitFacts` and `ClearBitFacts` say
what `|` and `& ~` do to each bit of a byte; `UnmapFindsLowest` goes through the literal
table: each of its 256 entries is the lowest bit of its index. With both levels
`HighestIsMinimum` follows. (`AddsAssumption`: slots are asked for that exist.)

| Theorem | States |
|---|---|
| `TypeCorrect` | `[]TypeOK` |
| `BitsAlwaysAgree` | `[]BitsAgree` |
| `QueueImplemented` | `ImplementsReadyQueue`: the value in `ReadyQueue` that all kernel theorems are about is what the bitmaps compute |

`TaskSetProofs`. The sort is one loop whose counter `j` runs over `i = 0 .. num_tasks - 1`
again and again, up to the element after the array. Its invariant `Sorting` says that
after `i` passes the last `i` places of the array with that element are settled: nothing
before them is longer and they are in order; and that in the current pass the place `j`
holds the longest so far. `num_tasks` passes settle all but one of the `num_tasks + 1`
places, hence all of them. `ExchangeKeepsPlaces` gives a bijection between the places
that hold a descriptor before and after a swap. That only checked tasks are admitted
has the premise of `OutsiderStaysOut` that no shorter `T` follows the array.

| Theorem | States |
|---|---|
| `TypeCorrect` | `[]TypeOK` |
| `SortLosesNothing` | `[]NothingLost` |
| `SortSorts` | `[]Sorted` |
| `OutsiderIsNotAdmitted` | `[]OutsiderStaysOut` |
| `RefusalJustified` | `RefusedOverloaded` |

`RefusalJustified` needs more than the invariant: the code adds quotients that are
rounded down, the property adds exact fractions, brought to the product `P` of all
periods. `PeriodsDivide`: each period `T` divides `P`. Hence (`ShareFacts`) a task's share
`C * (P / T)` is at least `P * (C div T)`, and the sums keep that (`SumsScale`): a set of two
tasks or more whose whole-number sum is above the bound, the number of tasks, asks for
more than `P`. Sums and products are folds over the
tasks; the lemmas go through their rounds with `Induction`.

`Induction`. What the library's loops compute for every input needs induction over
numbers. The library's induction theorems have an operator as a parameter, which the
provers cannot instantiate, so they are stated here for sets. `SetInduction`: a set that
has 0, and with each number the next one, has all naturals; else the numbers up to some
`k` that are missing, moved down by one, would be as many missing numbers without the
largest, which a finite set does not allow. `StrongInduction` and `LeastNatural` follow.
`RunExists`, `RecursionExists` and `DescentExists` say that the function a recursive
definition chooses exists, for recursion from the number before and from any
smaller one; without them nothing at all is known of its values.

`StringsProofs`. Each function is a loop whose rounds are numbered. `UntilIs` says how
often a loop goes round that looks for a place, `UpRounds`, `DownRounds` and `FillRounds`
what memory is after `k` rounds of a loop that copies or fills, as long as it has not
overwritten what it is going to read (`ReadsAhead`: this is what `memmove`'s choice of
direction is for). One lemma per function (`MemmoveIs`, `StrncpyIs`, `StrstrIs`, ...) puts
them together; `PadsWithZeros` is the second loop of `strncpy`. `Copies` and `Searches` are `CopiesRight` and `SearchesRight` for
every memory, and `StringsStep` says that the functions keep memory a memory.

`UserLibProofs` has three invariants.

* `InMemory` (`MemoryTyped`): memory holds characters. With `Copies` and `Searches` it is
  all that the string functions need.
* `StdioInv`: before the call nothing has been written; after it the text is what
  `_doprnt` makes of the format (`Convert`), and one caller has been handed all of it.
  What that means is in the lemmas.
  - Widths. `DigitsPrinted` says what the loop that divides by the base leaves, and
    `DigitsCounted` that it is as many digits as the number has; `PrintNumIs`,
    `PrintStringIs`, `PrintThreadIs` and `PrintBitsIs` have the length of each field
    and that it consists of characters (`Converted`).
  - Buffers. `PrintfCharIs` and `PrintfShowsAll`: what has been written and what is still
    in the buffer are together what was handed over, but for NULs; `PrintfExact`: the line
    in the buffer is as long as what came since the last newline, so the path on which
    `putchar` adds three NULs is not taken while lines fit. `VsnprintfIs`: the first `max`.
  - Reading back. A printed number is blanks, a sign, a prefix, zeros, digits, and
    blanks again, not all of them at a time: `NumberLies` finds these in the text (`Lies`) for
    every flag. `NumberRead` is the loop of `strtoul` on the digits, `LaidStart`, `LaidRadix`
    and `LaidRead` the code before it: the blanks and the sign it skips, the radix it
    makes of the prefix. `LaidScanned` does the same for `sscanf` with a word and a newline
    behind the number, and `SignedAgain` takes the value through the wrap of its sign:
    the least `long`, whose negation is itself, comes back.
* `LineInv`: the index stays below the size of the buffer while keys are read and, unless
  the line began with a delete (`early`, where the code skips a byte of the old buffer),
  `Faithful`: what the terminal shows, its erasures carried out, is `LineOf(buffer, i)`.
  For the refinement the abstract line is just that; each kind of key has a lemma that
  takes it to the edit of `LineSpec` that it is, the delete at the start included.

The assumptions: formats are specifications that `_doprnt` accepts and the arguments have
the type their conversion takes (`FormatsAssumption`, `ArgsAssumption`; anything else is
undefined in C), ordinary text has no NUL, because a NUL ends the format
(`TextsAssumption`), and `snprintf` gets a size, `sprintf` none (`SizesAssumption`).

| Theorem | States |
|---|---|
| `CopiesAreRight` | `[]CopiesRight`; of `strncpy` what `CopyingIsRight` asks |
| `SearchesAreRight` | `[]SearchesRight` |
| `FieldsAreWide` | `[]FieldWidth`, the exceptions for `%c`, `%p` and cut-off `%s` included; nothing of `%b` |
| `PrintfWritesText` | `[]PrintfFaithful` |
| `SnprintfKeepsPrefix` | `[]SnprintfPrefix`, the bound on the characters, not on the NUL |
| `NumbersReadBack` | `ReadBack` in every state but those after a `%b` |
| `EchoIsFaithful` | `[]EchoesLine`, lines that are not `early` |
| `LineImplemented` | `EditsLine` |

`ProgramsProofs` puts programs on the kernel. Its first part is about the tables alone:
for each line of each thread `LineFacts` has what the proofs use of it: which mutexes
the thread owns there (`HoldsAt`), how many have been created for it (`CreatedAt`), what
a lock, unlock, wait or store is applied to, and that it leads to a line where this
holds. The tables do not depend on what has happened, but for the third line of
`cyclone`, which depends on `ct`. The invariant `PInv` then says of each thread that it
`Works`, that is, is at a line that it can reach and owns what the table says, or
`Panics` with a mutex owned. `Inv` and `LockInv` of the kernel are carried along: a
thread can rely on its table because nobody else runs while it owns a mutex, and the
kernel's records stay right because the tables keep the discipline; so the three are
one induction, with a lemma per action (`LockCallKeeps`, ...), from which `CallKeeps`,
`MoveKeeps` and `StepKeeps` take what all calls, moves and steps have in common.

* No update is lost because two threads at a `store` to the same cell would both own its
  mutex (`StoresApart`), and what is loaded is still there at the store (`Works`).
* `Jobs` says where each device is: `events` periods after the start, one more if nobody
  waits (`Awaits`), whatever the clock did in between.
* A sleeper's end time is what the clock was at its call and what it asked for, modulo the
  word (`SleepsSince`), and its line stays the same meanwhile (`SleeperStays`).
* `Checked`: what the next check of `sys_err` looks at is, or is going to be, what it
  expects. `SysErrFacts` says that each check follows a call of which `Expected` tells the
  result from what the thread owns and has created.

| Theorem | States |
|---|---|
| `ProgramsAreClients` | the programs' behaviours are behaviours of `Kernel`: all its theorems apply |
| `ProgramsLockSafely` | mutual exclusion, `HolderRuns`, `NoContention`, `RecordsAgree`, without `Disciplined` |
| `UpdatesKept` | `[]NoUpdateLost` |
| `JobForEachEvent` | `[]OneJobPerEvent` |
| `PanicHolds` | `[]PanicKeepsProcessor` |
| `SysErrSucceeds` | `ChecksSucceed`, the check of `sys_err.c:84` excepted, for all programs but `stress`, if `MUTEX_NUM = OS_NUM_MUTEX` (`MAX_MUTEX` of `sys_err.c` is) |
| `SleepShortfall` | `SleepShortByPart`, whatever the latency of the interrupts |

Only model-checked: liveness (`EventSignalled`, `TopTaskServed`), which is beyond the
prover; the part of `ReadBack` about `%b`, which holds only if the format has an item for
each bit of the argument, as the run's formats have, and so is not a statement about
every format; and `ChecksSucceed` for `stress`: that faster
tasks have the higher scores depends on its concrete periods and on how many ticks
pass between two reads, and holds for no other reason.

## 5. Where code and comments disagree

* **Second unlock** (`mutex.c:121`). The test for the owner looks at
  `pHolding_Tcb`, which is never cleared. Lock 0, unlock 0, lock 1, unlock 0: the
  task owns 1 with `holds_lock` 0 and its native priority.
* **`event_wait(NUM_DEVICES)`** (`proc.c:57`) is accepted; the task sleeps for ever.
* **SPSR windows** (`S_Handler.S:18`). Interrupts are on before the SPSR is saved,
  and from its restoration to the return; `irqHandler.S:34` relies on the
  opposite. The task comes back in supervisor mode.
* **Sort past the array** (`ub_test.c:44`). A smaller `T` in the memory after the
  array takes a task's place, unchecked; a zero there ends in `raise()`.
* **Sleep** (`time.c:36`). `millis/10` drops what is not a whole period, and the sum may
  wrap; line 28 promises "atleast the given number of milliseconds". `sleep(5)` may be
  back before the clock has moved (`SleepKeepsPromise`).
* **Utilisation test** (`ub_test.c:56`). Whole-number division makes the sum and
  the bound other numbers; overloaded sets are admitted. (What it refuses is
  overloaded: `RefusedOverloaded`.)
* **Empty run queue** (`ctx_switch.c:41`). `highest_prio` gives 0 and not
  `IDLE_PRIO`; `IdleAlwaysReady` shows that the kernel never asks.

* **`EFAULT`** (`sys_err.c:84`). The test expects it after `task_create` of 0xdeadbeef.
  The kernel never looks at the array's own address; `proc.c` and `ub_test.c` read
  what is there, and may answer `ESCHED`. The model has the check, and `ChecksSucceed`
  and `SysErrSucceeds` except it by its line.
* **`task_create` with mutexes locked** (`sched.c:72`). The TCBs are reset, the mutexes
  are not: a mutex stays locked, and the new task in its owner's TCB passes for the owner.
* **Catching up** (`device.c:56`). `dev_init` starts `next_match` at one period whatever
  the clock reads: after a late `task_create`, and after a wrap, a device fires on every
  tick until it has caught up.
* **`strncpy`** (`strncpy.c:51`). Lines 38-42 promise that "exactly count characters have
  been written". Without a NUL among the first `count` characters `count` has wrapped when
  the first loop ends, and the second loop goes on to clear all of memory but one byte.
  `Strings` does the same; `CopyingIsRight` asks nothing in this case.

The first five have a run each that shows them. In the library, where the properties
of `userlib` state what the code does, or leave open, instead of what one would expect:

* `strrchr` never finds the NUL; `strtol` sees a `+` but does not skip it.
* `vsnprintf` writes `size` characters and a NUL after them, one byte more than the size
  (`sprintf.c:44`). `SnprintfPrefix` bounds the characters and leaves the NUL open.
* `%s` that is cut off by a precision and padded on the right is one short
  (`doprnt.c:470`); `%p` is two wider than its width; `%c` ignores it.
* `putchar` writes the four bytes of an `int` (`putchar.c:29`).
* A delete at the start of a line puts a byte of the old buffer into it (`io.c:48`).
* `memcmp.c` is compiled only without GNU C; it is modelled as it stands.

## 6. Not modelled, and the plan

Not modelled: boot, debug output, `hello`, `rand`, `raise` of the library, the character
classes but `isspace`; `%r`, `%R`, `%n`, `%N` (they divide by a radix that is always
0) and 64-bit arguments of `_doprnt`; the checks of file number and address in `read`
and `write`; what the programs print; the contents of registers and stacks, the fields
of the timer and interrupt controllers, `invalid_syscall` (stops the machine). Each is a
straight line without state, or stops everything.

Next: the linked sleep queues of mutexes and devices as linked lists, for `task_create`
with tasks in them.
