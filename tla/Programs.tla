------------------------------ MODULE Programs ------------------------------
(***************************************************************************)
(* The test programs under src/tasks as clients of the kernel, with the    *)
(* wrappers of libc/swi and the sleep system call.  A program is a table:  *)
(* for main (thread 0) and for each task, in the order task_create sorts   *)
(* them, the calls and the accesses to shared memory it makes, with local  *)
(* flags and counters unrolled.  Between any two of them timer interrupts  *)
(* come.  Output is left out.                                              *)
(***************************************************************************)
EXTENDS Kernel

CONSTANTS
    TestPrograms,   \* the programs that are run
    MUTEX_NUM,      \* mutex_chaser.c, MAX_MUTEX of sys_err.c
    NUM_TASK,       \* stress.c
    ITE,            \* cyclone.c: how often it creates itself anew
    MaxTicks        \* bound on the timer interrupts of each program's run

ASSUME TestProgramsAssumption ==
    TestPrograms \subseteq {"dagger", "mutex_chaser", "simple_mutex", "sys_err",
                            "stress", "cyclone", "splat"}
(* sys_err locks mutex 1; mutex_val[] has a cell for each mutex.           *)
ASSUME MutexNumAssumption ==
    MUTEX_NUM \in 2 .. OS_NUM_MUTEX /\ MUTEX_NUM <= OS_MAX_TASKS
(* Every task of stress waits for a device of its own, and so do the four  *)
(* of mutex_chaser.                                                        *)
ASSUME NumTaskAssumption == NUM_TASK \in 2 .. NUM_DEVICES /\ 4 <= NUM_DEVICES
ASSUME ProgramWaitsAssumption == Device \subseteq WaitArg
ASSUME IteAssumption == ITE \in Nat
ASSUME MaxTicksAssumption == MaxTicks \in [TestPrograms -> Nat]

VARIABLES
    program,    \* the one that runs
    pc,         \* where each thread is in its table; PANIC in panic()
    ret,        \* what its system call returned, until the wrapper is done
    errno,      \* libc's errno: one word for all threads
    got, reg,   \* the result of a thread's last call, the value it loaded
    val,        \* mutex_val[], score[], or ct at 0: the updates each went
                \* through, in order, by the thread that made them
    end_time,   \* of a thread inside sleep_syscall
    failed,     \* the checks that printed a failure: thread and line
    ticks, stored, events, late, offbeat, slept_at      \* history, see below

progVars == <<program, pc, ret, errno, got, reg, val, end_time, failed>>

(* The periods of the timer so far; the updates in the order they were     *)
(* stored; the event_waits for each device and its events that found nobody *)
(* waiting; there was one of the latter; a device fired at another tick    *)
(* than its next_match; the tick a thread called sleep at that is in it.   *)
historyVars == <<ticks, stored, events, late, offbeat, slept_at>>
pvars == <<vars, progVars, historyVars>>

Thread == 0 .. IDLE_PRIO - 1
Cell == 0 .. OS_MAX_TASKS
PANIC == 0
NONE == "none"
TIMER_RESOLUTION == 10

Do(op, arg) == [op |-> op, arg |-> arg, must |-> FALSE]
(* if (call < 0) panic(...); the same for `if (call)'. *)
Must(op, arg) == [op |-> op, arg |-> arg, must |-> TRUE]
(* After the last line of its body a thread goes on at line `again'. *)
Fun(body, again) == [body |-> body, again |-> again]
Spin == Do("spin", 0)
(* The line n times, then the rest. *)
Times(n, line, rest) ==
    [k \in 1 .. n + Len(rest) |-> IF k <= n THEN line ELSE rest[k - n]]
----------------------------------------------------------------------------
(* The programs. *)

(* dagger.c: a job for each event of the task's own device. *)
DaggerTask(dev) == Fun(<<Must("wait", dev)>>, 1)
DaggerMain == Fun(<<Do("task_create", 2)>>, 1)

ChaserTaskEarly(dev) ==     \* mutant: unlocks before it stores
    LET last == 5 * (MUTEX_NUM - 1) + 1
        Chase(m) == <<Must("lock", m), Do("load", m), Must("unlock", m),
                      Do("store", m), Must("wait", dev)>>
    IN  Fun([k \in 1 .. last |-> IF k = last THEN Must("wait", dev)
                                 ELSE Chase((k + 4) \div 5)[1 + ((k - 1) % 5)]],
            last)

(* mutex_chaser.c: the four tasks update every mutex_val[] but the first,  *)
(* each with its own operation and on its own device.                      *)
ChaserTask(dev) ==
    LET last == 5 * (MUTEX_NUM - 1) + 1
        Chase(m) == <<Must("lock", m), Do("load", m), Do("store", m),
                      Must("unlock", m), Must("wait", dev)>>
    IN  Fun([k \in 1 .. last |-> IF k = last THEN Must("wait", dev)
                                 ELSE Chase((k + 4) \div 5)[1 + ((k - 1) % 5)]],
            last)

ChaserMain == Fun(Times(MUTEX_NUM, Do("create", 0), <<Do("task_create", 4)>>), 1)

(* simple_mutex.c *)
SimpleFun1 == Fun(<<Do("create", 0), Must("wait", 0), Do("lock", 0),
                    Do("unlock", 0), Must("wait", 0), Spin>>, 1)
SimpleFun2 == Fun(<<Must("wait", 1), Do("lock", 0), Must("wait", 1)>>, 2)
SimpleFun3 == Fun(<<Do("lock", 0), Must("wait", 2), Do("unlock", 0),
                    Must("wait", 2)>>, 3)
SimpleMain == Fun(<<Do("task_create", 3)>>, 1)

(* sys_err.c: a call and the errno or the result it must give.             *)
SysErrFun1 == Fun(
    Times(MUTEX_NUM + 1, Do("create", 0), <<
      Do("errno", "ENOMEM"),
      Do("unlock", OS_NUM_MUTEX),      Do("errno", "EINVAL"),
      Do("unlock", OS_NUM_MUTEX - 1),  Do("errno", "EPERM"),
      Do("lock", OS_NUM_MUTEX),        Do("errno", "EINVAL"),
      Do("lock", 1),                   Do("result", "0"),
      Do("lock", 1),                   Do("errno", "EDEADLOCK"),
      Do("unlock", 1),                 Do("result", "0"),
      Do("wait", NUM_DEVICES + 1),     Do("errno", "EINVAL"), Spin>>), 1)
SysErrMain ==
    Fun(<<Do("task_create", OS_MAX_TASKS + 1), Do("errno", "EINVAL"),
          Do("bad_pointer", 30), Do("errno", "EFAULT"), Do("task_create", 1)>>, 1)

(* stress.c: tasks that count their jobs, and one that compares the counts *)
(* from its third job on.  Task i sleeps i milliseconds, up to 58 of them; *)
(* with fewer tasks, 5 * i.                                                *)
StressFun1(i) == Fun(<<Do("load", i), Do("store", i), Do("sleep", 5 * i),
                       Must("wait", i)>>, 1)
StressFun2(i) == Fun(
    [k \in 1 .. 2 * i + 1 |->
        IF k \notin 3 .. 2 * i THEN Must("wait", i)
        ELSE IF k % 2 = 1 THEN Do("load", (k - 3) \div 2)
                          ELSE Do("compare", (k - 2) \div 2)], 3)
StressMain == Fun(<<Do("task_create", NUM_TASK)>>, 1)

(* cyclone.c: ct++, and a longer sleep before each task_create of itself.  *)
CycloneFun1(count) ==
    Fun(<<Do("load", 0), Do("store", 0),
          IF count > ITE THEN Spin ELSE Do("sleep", 10 * count),
          Do("task_create", 1)>>, 1)
CycloneMain == Fun(<<Do("task_create", 1)>>, 1)

(* splat.c, without its output; it sleeps 200 at a time. *)
SplatMain == Fun(<<Do("sleep", 20)>>, 1)

Main(p) ==
    CASE p = "dagger"       -> DaggerMain
      [] p = "mutex_chaser" -> ChaserMain
      [] p = "simple_mutex" -> SimpleMain
      [] p = "sys_err"      -> SysErrMain
      [] p = "stress"       -> StressMain
      [] p = "cyclone"      -> CycloneMain
      [] p = "splat"        -> SplatMain

(* By priority, that is by the T of the task: mutex_chaser's fun1, fun2,   *)
(* fun3 and fun4 have 50, 100, 200 and 500.                                *)
TaskFun(p, count, t) ==
    CASE p = "dagger"       -> DaggerTask(t - 1)
      [] p = "mutex_chaser" -> ChaserTask(IF t = 1 THEN 3 ELSE t - 2)
      [] p = "simple_mutex" -> <<SimpleFun1, SimpleFun2, SimpleFun3>>[t]
      [] p = "sys_err"      -> SysErrFun1
      [] p = "stress"       -> IF t < NUM_TASK THEN StressFun1(t - 1)
                               ELSE StressFun2(t - 1)
      [] p = "cyclone"      -> CycloneFun1(count)

Code(p, count, t) == IF t = 0 THEN Main(p) ELSE TaskFun(p, count, t)
----------------------------------------------------------------------------
(* Running them. *)

Self == IF cur_tcb = NULL THEN 0 ELSE cur_tcb
ct == Len(val[0])
Current == Code(program, ct, Self)
Line == Current.body[pc[Self]]
NextLine == IF pc[Self] + 1 \in DOMAIN Current.body THEN pc[Self] + 1
            ELSE Current.again
Goto(line) == pc' = [pc EXCEPT ![Self] = line]

(* A user thread is at a line that does op. *)
At(op) ==
    /\ irq_on
    /\ cur_tcb # IDLE_PRIO
    /\ ret[Self] = NONE
    /\ pc[Self] # PANIC
    /\ Line.op = op

Returns(result) ==
    /\ ret' = [ret EXCEPT ![Self] = result]
    /\ UNCHANGED <<program, pc, errno, got, reg, val, end_time, failed>>

CreateCall ==
    /\ At("create")
    /\ \/ MutexCreate /\ UNCHANGED deviceVars /\ Returns("0")
       \/ /\ \A m \in Mutex : ~bAvailable[m]
          /\ Returns("ENOMEM")
          /\ UNCHANGED vars
    /\ UNCHANGED historyVars

LockCall ==
    /\ At("lock")
    /\ \/ /\ MutexLockFails(Line.arg)
          /\ Returns(IF Line.arg \in Mutex THEN "EDEADLOCK" ELSE "EINVAL")
       \/ /\ MutexLockTake(Line.arg) \/ MutexLockSleep(Line.arg)
          /\ Returns("0")
    /\ UNCHANGED <<deviceVars, historyVars>>

UnlockCall ==
    /\ At("unlock")
    /\ \/ /\ MutexUnlockFails(Line.arg)
          /\ Returns(IF Line.arg \in Mutex THEN "EPERM" ELSE "EINVAL")
       \/ MutexUnlock(Line.arg) /\ Returns("0")
    /\ UNCHANGED <<deviceVars, historyVars>>

WaitCall ==
    /\ At("wait")
    /\ \/ /\ EventWaitFails(Line.arg)
          /\ Returns(IF Line.arg > NUM_DEVICES THEN "EINVAL" ELSE "EHOLDSLOCK")
          /\ UNCHANGED events
       \/ /\ EventWait(Line.arg)
          /\ Returns("0")
          /\ events' = [events EXCEPT ![Line.arg] = @ + 1]
    /\ UNCHANGED <<mutexVars, ticks, stored, late, offbeat, slept_at>>

(* task_create of more tasks than there are TCBs; and of a pointer to      *)
(* nowhere, which the kernel follows: what it finds there is arbitrary.    *)
TaskCreateFails ==
    /\ \/ At("task_create") /\ Line.arg > OS_MAX_TASKS - 2 /\ Returns("EINVAL")
       \/ At("bad_pointer") /\ \E e \in {"EFAULT", "ESCHED"} : Returns(e)
    /\ UNCHANGED <<vars, historyVars>>

TaskCreateCall ==
    /\ At("task_create")
    /\ Line.arg \in TaskCounts
    /\ TaskCreate(Line.arg)
    /\ pc' = [t \in Thread |-> IF t \in 1 .. Line.arg THEN 1 ELSE pc[t]]
    /\ events' = [d \in Device |-> 0]
    /\ late' = FALSE
    /\ offbeat' = FALSE
    /\ UNCHANGED <<program, ret, errno, got, reg, val, end_time, failed,
                   ticks, stored, slept_at>>

(* The wrapper in libc/swi: errno, and what the program makes of the result. *)
Wrapper ==
    /\ irq_on
    /\ cur_tcb # IDLE_PRIO
    /\ ret[Self] # NONE
    /\ errno' = ret[Self]
    /\ got' = [got EXCEPT ![Self] = ret[Self]]
    /\ ret' = [ret EXCEPT ![Self] = NONE]
    /\ Goto(IF Line.must /\ ret[Self] # "0" THEN PANIC ELSE NextLine)
    /\ UNCHANGED <<vars, program, reg, val, end_time, failed, historyVars>>

Load ==
    /\ At("load")
    /\ reg' = [reg EXCEPT ![Self] = val[Line.arg]]
    /\ Goto(NextLine)
    /\ UNCHANGED <<vars, program, ret, errno, got, val, end_time, failed, historyVars>>

Store ==
    /\ At("store")
    /\ val' = [val EXCEPT ![Line.arg] = Append(reg[Self], Self)]
    /\ stored' = [stored EXCEPT ![Line.arg] = Append(@, Self)]
    /\ Goto(NextLine)
    /\ UNCHANGED <<vars, program, ret, errno, got, reg, end_time, failed,
                   ticks, events, late, offbeat, slept_at>>

(* The score loaded before is less than the next one; or is zero by now.   *)
Worse(j) == Len(reg[Self]) < Len(val[j]) \/ val[j - 1] = <<>>

Report(good) ==
    failed' = IF good THEN failed ELSE failed \cup {<<Self, pc[Self]>>}

Check ==
    /\ \/ At("errno") /\ Report(errno = Line.arg)
       \/ At("result") /\ Report(got[Self] = Line.arg)
       \/ At("compare") /\ Report(~Worse(Line.arg))
    /\ Goto(NextLine)
    /\ UNCHANGED <<vars, program, ret, errno, got, reg, val, end_time, historyVars>>
----------------------------------------------------------------------------
(* sleep_syscall *)

EndTimeLess(millis) == (system_time + millis \div 100) % WORD   \* mutant: unit
EndTime(millis) == (system_time + millis \div 10) % WORD

SleepCall ==
    /\ At("sleep")
    /\ end_time[Self] = NULL
    /\ end_time' = [end_time EXCEPT ![Self] = EndTime(Line.arg)]
    /\ slept_at' = [slept_at EXCEPT ![Self] = ticks]
    /\ UNCHANGED <<vars, program, pc, ret, errno, got, reg, val, failed,
                   ticks, stored, events, late, offbeat>>

SleepReturn ==
    /\ At("sleep")
    /\ end_time[Self] # NULL
    /\ system_time >= end_time[Self]
    /\ end_time' = [end_time EXCEPT ![Self] = NULL]
    /\ slept_at' = [slept_at EXCEPT ![Self] = 0]
    /\ Goto(NextLine)
    /\ UNCHANGED <<vars, program, ret, errno, got, reg, val, failed,
                   ticks, stored, events, late, offbeat>>

(* Busy loops: the one in sleep_syscall, while(1) of the programs, idle.   *)
Loop ==
    /\ irq_on
    /\ \/ At("sleep") /\ end_time[Self] # NULL /\ system_time < end_time[Self]
       \/ At("spin")
       \/ cur_tcb # IDLE_PRIO /\ pc[Self] = PANIC
       \/ cur_tcb = IDLE_PRIO
    /\ UNCHANGED pvars
----------------------------------------------------------------------------
KernelReturn == Return /\ UNCHANGED <<progVars, historyVars>>

Tick ==
    /\ ticks < MaxTicks[program]
    /\ Interrupt
    /\ LET fired == {d \in Device : cur_tcb # NULL /\ next_match'[d] # next_match[d]}
           lost  == {d \in fired : sleep_q[d] = {}}
       IN  /\ events' = [d \in Device |-> IF d \in lost THEN events[d] + 1
                                          ELSE events[d]]
           /\ late' = (late \/ lost # {})
           /\ offbeat' = (offbeat \/ \E d \in fired : next_match[d] # system_time')
    /\ ticks' = ticks + ((system_time' - system_time) % WORD)
    /\ UNCHANGED <<progVars, stored, slept_at>>

PInit ==
    /\ Init
    /\ program \in TestPrograms
    /\ pc = [t \in Thread |-> 1]
    /\ ret = [t \in Thread |-> NONE]
    /\ errno = "0"
    /\ got = ret
    /\ reg = [t \in Thread |-> <<>>]
    /\ val = [c \in Cell |-> <<>>]
    /\ end_time = [t \in Thread |-> NULL]
    /\ failed = {}
    /\ ticks = 0
    /\ stored = val
    /\ events = [d \in Device |-> 0]
    /\ late = FALSE
    /\ offbeat = FALSE
    /\ slept_at = [t \in Thread |-> 0]

PNext ==
    \/ CreateCall \/ LockCall \/ UnlockCall \/ WaitCall \/ TaskCreateFails
    \/ TaskCreateCall \/ Wrapper \/ Load \/ Store \/ Check
    \/ SleepCall \/ SleepReturn \/ Loop \/ KernelReturn \/ Tick

PSpec == PInit /\ [][PNext]_pvars
----------------------------------------------------------------------------
(* Two tasks never overwrite each other's update of a mutex_val[], a score *)
(* or ct: each value went through exactly the updates that were stored.    *)
NoUpdateLost == val = stored

(* A periodic task starts one job for each event of its device, one more   *)
(* that task_create starts, and none for an event it was late for; also    *)
(* when the clock and next_match wrap and when a late task_create or a     *)
(* wrap makes the device catch up.                                         *)
OneJobPerEvent ==
    \A d \in Device : sleep_q[d] # {} =>
        next_match[d] = (events[d] * dev_freq[d]) % WORD

(* The checks of sys_err succeed whatever the timer does in between, but  *)
(* for the one of a pointer to nowhere (sys_err.c:84): task_create looks   *)
(* at what is behind the pointer, not at the pointer, and may find another *)
(* reason to refuse.  Those of stress fail only if a task was late for an  *)
(* event or a device fired off its beat.                                   *)
BadPointerCheck == <<0, 4>>
ChecksSucceed ==
    failed # {} =>
        \/ program = "sys_err" /\ failed = {BadPointerCheck}
        \/ program = "stress" /\ (late \/ offbeat)

(* No program panics but in a task that waits with a mutex locked, and     *)
(* that task keeps the processor from all others for good.                 *)
PanicKeepsProcessor ==
    \A t \in Thread : pc[t] = PANIC =>
        t # 0 /\ cur_tcb = t /\ owned[t] # {}

(* "Waits in a tight loop for atleast the given number of milliseconds"    *)
(* (time.c:28), by the kernel's own clock, which counts 10 at a time.      *)
Slept == (ticks - slept_at[Self]) * TIMER_RESOLUTION
SleepKeepsPromise == [][SleepReturn => Slept >= Line.arg]_pvars

(* It breaks the promise in two ways only: by the part of a period that    *)
(* millis / 10 drops, or because the end time wraps around.                *)
SleepShortByPart ==
    [][SleepReturn /\ Slept < Line.arg =>
         \/ Slept > Line.arg - TIMER_RESOLUTION
         \/ (slept_at[Self] % WORD) + Line.arg \div 10 >= WORD]_pvars
=============================================================================
