--------------------------- MODULE ProgramsProofs ---------------------------
(***************************************************************************)
(* Theorems about the test programs under src/tasks on the whole kernel:   *)
(* for any number of mutexes, tasks of stress, rounds of cyclone, devices  *)
(* and periods, and with whatever timing of the interrupts.                *)
(***************************************************************************)
EXTENDS Programs, KernelProofs

Names == {"dagger", "mutex_chaser", "simple_mutex", "sys_err", "stress",
          "cyclone", "splat"}

(* What the tables say, line by line: k is a line of thread t of program p *)
(* when cyclone has counted to c.                                          *)
LineAt(p, c, t, k) == Code(p, c, t).body[k]
After(p, c, t, k) == IF k + 1 \in DOMAIN Code(p, c, t).body THEN k + 1
                     ELSE Code(p, c, t).again

(* The tasks that the program creates, and the device each one waits for.  *)
NumTasks(p) ==
    CASE p = "dagger"       -> 2
      [] p = "mutex_chaser" -> 4
      [] p = "simple_mutex" -> 3
      [] p = "stress"       -> NUM_TASK
      [] p = "splat"        -> 0
      [] OTHER              -> 1
Dev(p, t) == IF p = "mutex_chaser" THEN (IF t = 1 THEN 3 ELSE t - 2) ELSE t - 1

(* The lines that a thread gets to: simple_mutex panics before the others. *)
Reached(p, c, t) ==
    IF p = "simple_mutex" /\ t = 2 THEN 1 .. 3
    ELSE IF p = "simple_mutex" /\ t = 3 THEN 1 .. 2
    ELSE DOMAIN Code(p, c, t).body

(* The mutexes that a task owns when it is at line k, ...                  *)
HoldsAt(p, t, k) ==
    IF p = "mutex_chaser" /\ t # 0 /\ k <= 5 * (MUTEX_NUM - 1) /\ ((k - 1) % 5) \in 1 .. 3
      THEN {(k + 4) \div 5}
    ELSE IF p = "simple_mutex" /\ <<t, k>> \in {<<1, 4>>, <<2, 3>>, <<3, 2>>}
      THEN {0}
    ELSE IF p = "sys_err" /\ t = 1 /\ k \in MUTEX_NUM + 10 .. MUTEX_NUM + 13
      THEN {1}
    ELSE {}

(* ... how many have been created for it, and whether it has locked none.  *)
CreatedAt(p, t, k) ==
    CASE p = "mutex_chaser" -> IF t = 0 THEN k - 1 ELSE MUTEX_NUM
      [] p = "simple_mutex" /\ t = 1 -> IF k = 1 THEN 0 ELSE 1
      [] p = "sys_err" /\ t = 1 -> IF k <= MUTEX_NUM + 1 THEN k - 1 ELSE MUTEX_NUM + 1
      [] OTHER -> 0
Fresh(p, t, k) == p = "sys_err" /\ t = 1 /\ k <= MUTEX_NUM + 8

Calls == {"create", "lock", "unlock", "wait", "task_create", "bad_pointer"}

(* What the proofs use of a line, by what it does.  A line that is left    *)
(* leads to a line that is reached, and to a store only from its load.     *)
Stuck(p, c, t, k) ==
    LET line == LineAt(p, c, t, k)
    IN  line.op = "spin" \/ (line.op = "wait" /\ line.must /\ HoldsAt(p, t, k) # {})
Leads(p, c, t, k) ==
    LET line == LineAt(p, c, t, k)
        next == After(p, c, t, k)
    IN  /\ next \in Reached(p, c, t)
        /\ LineAt(p, c, t, next).op = "store" =>
             line = Do("load", LineAt(p, c, t, next).arg)
        /\ line.op \notin {"lock", "unlock"} => HoldsAt(p, t, next) = HoldsAt(p, t, k)
        /\ CreatedAt(p, t, next) <= CreatedAt(p, t, k)
             \/ (line.op = "create" /\ CreatedAt(p, t, next) = CreatedAt(p, t, k) + 1)
        /\ Fresh(p, t, next) => Fresh(p, t, k)
Locks(p, c, t, k) ==
    LET m     == LineAt(p, c, t, k).arg
        holds == HoldsAt(p, t, k)
        free  == m \in Mutex /\ m \notin holds
    IN  /\ t # 0 /\ m \in Nat
        /\ ~free => ~LineAt(p, c, t, k).must
        /\ Fresh(p, t, k) => m \notin Mutex
        /\ HoldsAt(p, t, After(p, c, t, k)) = IF free THEN holds \cup {m} ELSE holds
Unlocks(p, c, t, k) ==
    LET m     == LineAt(p, c, t, k).arg
        holds == HoldsAt(p, t, k)
    IN  /\ t # 0 /\ m \in Nat
        /\ m \in holds => m < CreatedAt(p, t, k)
        /\ m \notin holds => ~LineAt(p, c, t, k).must
        /\ m \in Mutex \ holds => Fresh(p, t, k)
        /\ HoldsAt(p, t, After(p, c, t, k)) = holds \ {m}
Waiting(p, c, t, k) ==
    LET line == LineAt(p, c, t, k)
    IN  /\ t # 0
        /\ \/ line.arg = Dev(p, t) /\ line.arg \in Device
           \/ line.arg = NUM_DEVICES + 1 /\ ~line.must
Starts(p, c, t, k) ==
    LET line == LineAt(p, c, t, k)
    IN  /\ HoldsAt(p, t, k) = {}
        /\ ~line.must
        /\ \/ line.arg \in Nat /\ line.arg > OS_MAX_TASKS - 2
           \/ /\ line.arg = NumTasks(p)
              /\ t # 0 => p = "cyclone"
              /\ \A u \in 1 .. NumTasks(p) : CreatedAt(p, u, 1) <= CreatedAt(p, t, k)
Stores(p, c, t, k) ==
    LET cell == LineAt(p, c, t, k).arg
    IN  /\ t # 0
        /\ cell \in Nat
        /\ IF p = "mutex_chaser" THEN cell < MUTEX_NUM /\ cell \in HoldsAt(p, t, k)
           ELSE cell = t - 1

LineFacts(p, c, t, k) ==
    LET line == LineAt(p, c, t, k)
    IN  /\ k \in Nat \ {0}
        /\ HoldsAt(p, t, k) \subseteq Mutex
        /\ CreatedAt(p, t, k) \in Nat
        /\ line.must => line.op \in {"lock", "unlock", "wait"}
        /\ ~Stuck(p, c, t, k) => Leads(p, c, t, k)
        /\ line.op = "lock" => Locks(p, c, t, k)
        /\ line.op = "unlock" => Unlocks(p, c, t, k)
        /\ line.op = "wait" => Waiting(p, c, t, k)
        /\ line.op = "task_create" => Starts(p, c, t, k)
        /\ line.op = "store" => Stores(p, c, t, k)
        /\ line.op = "sleep" => line.arg \in Nat
        /\ line.op \in {"errno", "result"} => p = "sys_err"
        /\ line.op = "compare" => p = "stress"
----------------------------------------------------------------------------
(* The inductive invariant, with Inv and LockInv of the kernel.            *)

Live == IF cur_tcb = NULL THEN {0} ELSE 0 .. NumTasks(program)
LineOf(t) == LineAt(program, ct, t, pc[t])
NextOf(t) == After(program, ct, t, pc[t])

ProgramTypeOK ==
    /\ program \in TestPrograms
    /\ pc \in [Thread -> Nat]
    /\ ret = [t \in Thread |-> ret[t]]
    /\ reg = [t \in Thread |-> reg[t]]
    /\ val \in [Cell -> Seq(Thread)]
    /\ end_time \in [Thread -> (0 .. WORD - 1) \cup {NULL}]
    /\ events \in [Device -> Nat]

(* Threads that do not run yet, or never, are as PInit has them. *)
Unborn ==
    /\ \A t \in Thread \ Live : pc[t] = 1 /\ ret[t] = NONE /\ end_time[t] = NULL
    /\ cur_tcb = NULL => \A m \in Mutex : pHolding_Tcb[m] = NULL
    /\ cur_tcb # NULL => num_tasks = NumTasks(program)

(* What a thread owns and what has been created, once its call is done. *)
Held(t) ==
    HoldsAt(program, t, IF ret[t] # NONE /\ LineOf(t).op \in {"lock", "unlock"}
                        THEN NextOf(t) ELSE pc[t])
Created(t) ==
    CreatedAt(program, t, IF ret[t] # NONE /\ LineOf(t).op = "create"
                          THEN NextOf(t) ELSE pc[t])

(* The result of the call that a thread is in: a call that must succeed    *)
(* fails only if it is a wait with a mutex locked.                         *)
Result(t) ==
    ret[t] # NONE =>
        /\ LineOf(t).op \in Calls
        /\ LineOf(t).must /\ ret[t] # "0" => t # 0 /\ owned[t] # {}
        /\ LineOf(t).must /\ LineOf(t).op = "wait" /\ t # 0 /\ owned[t] # {} => ret[t] # "0"

Works(t) ==
    /\ pc[t] \in Reached(program, ct, t)
    /\ t # 0 => owned[t] = Held(t)
    /\ \A m \in Mutex : m < Created(t) => ~bAvailable[m]
    /\ Fresh(program, t, pc[t]) => \A m \in Mutex : pHolding_Tcb[m] # t
    /\ Result(t)
    /\ end_time[t] # NULL => LineOf(t).op = "sleep" /\ ret[t] = NONE
    /\ LineOf(t).op = "store" => reg[t] = val[LineOf(t).arg]

Panics(t) ==
    pc[t] = PANIC /\ t # 0 /\ owned[t] # {} /\ ret[t] = NONE /\ end_time[t] = NULL

Threads == \A t \in Live : Works(t) \/ Panics(t)

(* A device is where its events bring it, one ahead if nobody waits.       *)
Awaits(d) == events[d] + IF sleep_q[d] = {} THEN 1 ELSE 0
Jobs ==
    cur_tcb # NULL => \A d \in Device :
        /\ next_match[d] = (Awaits(d) * dev_freq[d]) % WORD
        /\ \A t \in sleep_q[d] : d = Dev(program, t)

PInv == ProgramTypeOK /\ Unborn /\ Threads /\ Jobs /\ NoUpdateLost
----------------------------------------------------------------------------
(* The tables, program by program. *)

LEMMA TableTypes ==
    ASSUME NEW p \in Names, NEW t \in Nat, NEW k \in Nat \ {0}
    PROVE  HoldsAt(p, t, k) \subseteq Mutex /\ CreatedAt(p, t, k) \in Nat
<1>1. HoldsAt(p, t, k) \subseteq Mutex
  BY MutexNumAssumption, OsNumMutexAssumption DEF HoldsAt, Mutex
<1>2. CreatedAt(p, t, k) \in Nat
  BY MutexNumAssumption, OsNumMutexAssumption DEF CreatedAt
<1> QED
  BY <1>1, <1>2

(* What has to be shown of a line depends on what it does. *)
LEMMA LineKinds ==
    ASSUME NEW p \in Names, NEW c \in Nat, NEW t \in Nat, NEW k \in Nat \ {0},
           LineAt(p, c, t, k).must => LineAt(p, c, t, k).op \in {"lock", "unlock", "wait"},
           Stuck(p, c, t, k) \/ Leads(p, c, t, k),
           LineAt(p, c, t, k).op = "lock" => Locks(p, c, t, k),
           LineAt(p, c, t, k).op = "unlock" => Unlocks(p, c, t, k),
           LineAt(p, c, t, k).op = "wait" => Waiting(p, c, t, k),
           LineAt(p, c, t, k).op = "task_create" => Starts(p, c, t, k),
           LineAt(p, c, t, k).op = "store" => Stores(p, c, t, k),
           LineAt(p, c, t, k).op = "sleep" => LineAt(p, c, t, k).arg \in Nat,
           LineAt(p, c, t, k).op \in {"errno", "result"} => p = "sys_err",
           LineAt(p, c, t, k).op = "compare" => p = "stress"
    PROVE  LineFacts(p, c, t, k)
BY TableTypes DEF LineFacts

(* The main programs that create their tasks and do no more. *)
LEMMA MainLines ==
    ASSUME NEW p \in {"dagger", "simple_mutex", "stress", "cyclone"},
           NEW c \in Nat, NEW k \in Reached(p, c, 0)
    PROVE  LineFacts(p, c, 0, k)
<1>1. Code(p, c, 0) = Fun(<<Do("task_create", NumTasks(p))>>, 1)
  BY DEF Code, Main, DaggerMain, SimpleMain, StressMain, CycloneMain, NumTasks
<1>2. /\ k = 1 /\ After(p, c, 0, k) = 1 /\ 1 \in Reached(p, c, 0)
      /\ LineAt(p, c, 0, k) = Do("task_create", NumTasks(p))
  BY <1>1 DEF Reached, LineAt, After, Fun
<1>3. Leads(p, c, 0, k) /\ Starts(p, c, 0, k)
  BY <1>2 DEF Leads, Starts, Do, HoldsAt, CreatedAt, Fresh
<1>4. /\ LineAt(p, c, 0, k).op = "task_create" /\ LineAt(p, c, 0, k).must = FALSE
      /\ p \in Names /\ k \in Nat \ {0}
  BY <1>2 DEF Do, Names
<1> QED
  BY <1>3, <1>4, LineKinds

LEMMA DaggerLines ==
    ASSUME NEW c \in Nat, NEW t \in 1 .. 2, NEW k \in Reached("dagger", c, t)
    PROVE  LineFacts("dagger", c, t, k)
<1> DEFINE p == "dagger"
<1>1. Code(p, c, t) = Fun(<<Must("wait", t - 1)>>, 1)
  BY DEF Code, TaskFun, DaggerTask
<1>2. /\ k = 1 /\ After(p, c, t, k) = 1 /\ 1 \in Reached(p, c, t)
      /\ LineAt(p, c, t, k) = Must("wait", t - 1)
  BY <1>1 DEF Reached, LineAt, After, Fun
<1>3. Leads(p, c, t, k) /\ Waiting(p, c, t, k)
  BY <1>2, NumTaskAssumption, NumDevicesAssumption
  DEF Leads, Waiting, Must, HoldsAt, CreatedAt, Fresh, Dev, Device
<1>4. /\ LineAt(p, c, t, k).op = "wait" /\ LineAt(p, c, t, k).must = TRUE
      /\ p \in Names /\ t \in Nat /\ k \in Nat \ {0}
  BY <1>2 DEF Must, Names
<1> QED
  BY <1>3, <1>4, LineKinds

LEMMA SplatLines ==
    ASSUME NEW c \in Nat, NEW k \in Reached("splat", c, 0)
    PROVE  LineFacts("splat", c, 0, k)
<1> DEFINE p == "splat"
<1>1. Code(p, c, 0) = Fun(<<Do("sleep", 20)>>, 1)
  BY DEF Code, Main, SplatMain
<1>2. /\ k = 1 /\ After(p, c, 0, k) = 1 /\ 1 \in Reached(p, c, 0)
      /\ LineAt(p, c, 0, k) = Do("sleep", 20)
  BY <1>1 DEF Reached, LineAt, After, Fun
<1>3. Leads(p, c, 0, k)
  BY <1>2 DEF Leads, Do, HoldsAt, CreatedAt, Fresh
<1>4. /\ LineAt(p, c, 0, k).op = "sleep" /\ LineAt(p, c, 0, k).must = FALSE
      /\ LineAt(p, c, 0, k).arg \in Nat
      /\ p \in Names /\ k \in Nat \ {0}
  BY <1>2 DEF Do, Names
<1> QED
  BY <1>3, <1>4, LineKinds

LEMMA CycloneLines ==
    ASSUME NEW c \in Nat, NEW k \in Reached("cyclone", c, 1)
    PROVE  LineFacts("cyclone", c, 1, k)
<1> DEFINE p == "cyclone"
           third == IF c > ITE THEN Spin ELSE Do("sleep", 10 * c)
<1>1. Code(p, c, 1) = Fun(<<Do("load", 0), Do("store", 0), third, Do("task_create", 1)>>, 1)
  BY DEF Code, TaskFun, CycloneFun1
<1> HIDE DEF third
<1>2. /\ Reached(p, c, 1) = 1 .. 4
      /\ After(p, c, 1, 1) = 2 /\ After(p, c, 1, 2) = 3
      /\ After(p, c, 1, 3) = 4 /\ After(p, c, 1, 4) = 1
      /\ LineAt(p, c, 1, 1) = Do("load", 0) /\ LineAt(p, c, 1, 2) = Do("store", 0)
      /\ LineAt(p, c, 1, 3) = third /\ LineAt(p, c, 1, 4) = Do("task_create", 1)
  BY <1>1 DEF Reached, LineAt, After, Fun
<1>3. third.must = FALSE /\ (third.op = "spin" \/ (third.op = "sleep" /\ third.arg \in Nat))
  BY DEF third, Spin, Do
<1>4. \A j \in 1 .. 4 : HoldsAt(p, 1, j) = {} /\ CreatedAt(p, 1, j) = 0 /\ ~Fresh(p, 1, j)
  BY DEF HoldsAt, CreatedAt, Fresh
<1>5. /\ LineAt(p, c, 1, 1).op = "load" /\ LineAt(p, c, 1, 1).must = FALSE
      /\ LineAt(p, c, 1, 2).op = "store" /\ LineAt(p, c, 1, 2).must = FALSE
      /\ LineAt(p, c, 1, 2).arg = 0
      /\ LineAt(p, c, 1, 4).op = "task_create" /\ LineAt(p, c, 1, 4).must = FALSE
      /\ LineAt(p, c, 1, 4).arg = 1
  BY <1>2 DEF Do
<1>6. Leads(p, c, 1, k)
  <2>1. Leads(p, c, 1, 1)
    BY <1>2, <1>4, <1>5 DEF Leads
  <2>2. Leads(p, c, 1, 2)
    BY <1>2, <1>3, <1>4, <1>5 DEF Leads
  <2>3. Leads(p, c, 1, 3)
    BY <1>2, <1>3, <1>4, <1>5 DEF Leads
  <2>4. Leads(p, c, 1, 4)
    BY <1>2, <1>4, <1>5 DEF Leads
  <2> QED
    BY <1>2, <2>1, <2>2, <2>3, <2>4
<1>7. k = 4 => Starts(p, c, 1, k)
  BY <1>4, <1>5 DEF Starts, NumTasks
<1>8. k = 2 => Stores(p, c, 1, k)
  BY <1>5 DEF Stores
<1>9. p \in Names /\ k \in 1 .. 4
  BY <1>2 DEF Names
<1>10. LineAt(p, c, 1, k).op \in {"load", "store", "spin", "sleep", "task_create"}
  BY <1>2, <1>3, <1>5, <1>9
<1>11. /\ LineAt(p, c, 1, k).must = FALSE
       /\ LineAt(p, c, 1, k).op = "store" => k = 2
       /\ LineAt(p, c, 1, k).op = "task_create" => k = 4
       /\ LineAt(p, c, 1, k).op = "sleep" => LineAt(p, c, 1, k).arg \in Nat
  BY <1>2, <1>3, <1>5, <1>9
<1> QED
  BY <1>6, <1>7, <1>8, <1>9, <1>10, <1>11, LineKinds

LEMMA SimpleLines1 ==
    ASSUME NEW c \in Nat, NEW k \in Reached("simple_mutex", c, 1)
    PROVE  LineFacts("simple_mutex", c, 1, k)
<1> DEFINE p == "simple_mutex"
           L(j) == LineAt(p, c, 1, j)
<1>1. Code(p, c, 1) = SimpleFun1
  BY DEF Code, TaskFun
<1>2. /\ Reached(p, c, 1) = 1 .. 6
      /\ After(p, c, 1, 1) = 2 /\ After(p, c, 1, 2) = 3 /\ After(p, c, 1, 3) = 4
      /\ After(p, c, 1, 4) = 5 /\ After(p, c, 1, 5) = 6
      /\ L(1) = Do("create", 0) /\ L(2) = Must("wait", 0) /\ L(3) = Do("lock", 0)
      /\ L(4) = Do("unlock", 0) /\ L(5) = Must("wait", 0) /\ L(6) = Spin
  BY <1>1 DEF Reached, LineAt, After, Fun, SimpleFun1
<1>3. /\ L(1).op = "create" /\ L(1).must = FALSE
      /\ L(2).op = "wait" /\ L(2).arg = 0
      /\ L(3).op = "lock" /\ L(3).must = FALSE /\ L(3).arg = 0
      /\ L(4).op = "unlock" /\ L(4).must = FALSE /\ L(4).arg = 0
      /\ L(5).op = "wait" /\ L(5).arg = 0
      /\ L(6).op = "spin" /\ L(6).must = FALSE
  BY <1>2 DEF Do, Must, Spin
<1>4. /\ \A j \in 1 .. 6 : HoldsAt(p, 1, j) = IF j = 4 THEN {0} ELSE {}
      /\ \A j \in 1 .. 6 : CreatedAt(p, 1, j) = IF j = 1 THEN 0 ELSE 1
      /\ \A j \in 1 .. 6 : ~Fresh(p, 1, j)
  BY DEF HoldsAt, CreatedAt, Fresh
<1>5. 0 \in Device /\ 0 \in Mutex /\ Dev(p, 1) = 0
  BY NumDevicesAssumption, OsNumMutexAssumption DEF Device, Mutex, Dev
<1> HIDE DEF L
<1>6. Stuck(p, c, 1, 6)
  BY <1>3 DEF Stuck, L
<1>7. Leads(p, c, 1, 1) /\ Leads(p, c, 1, 2) /\ Leads(p, c, 1, 3)
  BY <1>2, <1>3, <1>4 DEF Leads, L
<1>8. Leads(p, c, 1, 4) /\ Leads(p, c, 1, 5)
  BY <1>2, <1>3, <1>4 DEF Leads, L
<1>9. Locks(p, c, 1, 3) /\ Unlocks(p, c, 1, 4)
  BY <1>2, <1>3, <1>4, <1>5 DEF Locks, Unlocks, L
<1>10. Waiting(p, c, 1, 2) /\ Waiting(p, c, 1, 5)
  BY <1>3, <1>5 DEF Waiting, L
<1>11. p \in Names /\ k \in 1 .. 6
  BY <1>2 DEF Names
<1>12. LineFacts(p, c, 1, 1)
  BY <1>3, <1>7, <1>11, LineKinds DEF L
<1>13. LineFacts(p, c, 1, 2) /\ LineFacts(p, c, 1, 4) /\ LineFacts(p, c, 1, 5)
  BY <1>3, <1>7, <1>8, <1>9, <1>10, <1>11, LineKinds DEF L
<1>14. LineFacts(p, c, 1, 3)
  BY <1>3, <1>7, <1>9, <1>11, LineKinds DEF L
<1>15. LineFacts(p, c, 1, 6)
  BY <1>3, <1>6, <1>11, LineKinds DEF L
<1> QED
  BY <1>11, <1>12, <1>13, <1>14, <1>15

LEMMA SimpleLines2 ==
    ASSUME NEW c \in Nat, NEW k \in Reached("simple_mutex", c, 2)
    PROVE  LineFacts("simple_mutex", c, 2, k)
<1> DEFINE p == "simple_mutex"
           L(j) == LineAt(p, c, 2, j)
<1>1. Code(p, c, 2) = SimpleFun2
  BY DEF Code, TaskFun
<1>2. /\ Reached(p, c, 2) = 1 .. 3
      /\ After(p, c, 2, 1) = 2 /\ After(p, c, 2, 2) = 3
      /\ L(1) = Must("wait", 1) /\ L(2) = Do("lock", 0) /\ L(3) = Must("wait", 1)
  BY <1>1 DEF Reached, LineAt, After, Fun, SimpleFun2
<1>3. /\ L(1).op = "wait" /\ L(1).arg = 1
      /\ L(2).op = "lock" /\ L(2).must = FALSE /\ L(2).arg = 0
      /\ L(3).op = "wait" /\ L(3).must = TRUE /\ L(3).arg = 1
  BY <1>2 DEF Do, Must
<1>4. /\ \A j \in 1 .. 3 : HoldsAt(p, 2, j) = IF j = 3 THEN {0} ELSE {}
      /\ \A j \in 1 .. 3 : CreatedAt(p, 2, j) = 0 /\ ~Fresh(p, 2, j)
  BY DEF HoldsAt, CreatedAt, Fresh
<1>5. 1 \in Device /\ 0 \in Mutex /\ Dev(p, 2) = 1
  BY NumTaskAssumption, NumDevicesAssumption, OsNumMutexAssumption
  DEF Device, Mutex, Dev
<1> HIDE DEF L
<1>6. Stuck(p, c, 2, 3)
  BY <1>3, <1>4 DEF Stuck, L
<1>7. Leads(p, c, 2, 1) /\ Leads(p, c, 2, 2)
  BY <1>2, <1>3, <1>4 DEF Leads, L
<1>8. Locks(p, c, 2, 2) /\ Waiting(p, c, 2, 1) /\ Waiting(p, c, 2, 3)
  BY <1>2, <1>3, <1>4, <1>5 DEF Locks, Waiting, L
<1>9. p \in Names /\ k \in 1 .. 3
  BY <1>2 DEF Names
<1> QED
  BY <1>3, <1>6, <1>7, <1>8, <1>9, LineKinds DEF L

LEMMA SimpleLines3 ==
    ASSUME NEW c \in Nat, NEW k \in Reached("simple_mutex", c, 3)
    PROVE  LineFacts("simple_mutex", c, 3, k)
<1> DEFINE p == "simple_mutex"
           L(j) == LineAt(p, c, 3, j)
<1>1. Code(p, c, 3) = SimpleFun3
  BY DEF Code, TaskFun
<1>2. /\ Reached(p, c, 3) = 1 .. 2
      /\ After(p, c, 3, 1) = 2
      /\ L(1) = Do("lock", 0) /\ L(2) = Must("wait", 2)
  BY <1>1 DEF Reached, LineAt, After, Fun, SimpleFun3
<1>3. /\ L(1).op = "lock" /\ L(1).must = FALSE /\ L(1).arg = 0
      /\ L(2).op = "wait" /\ L(2).must = TRUE /\ L(2).arg = 2
  BY <1>2 DEF Do, Must
<1>4. /\ \A j \in 1 .. 2 : HoldsAt(p, 3, j) = IF j = 2 THEN {0} ELSE {}
      /\ \A j \in 1 .. 2 : CreatedAt(p, 3, j) = 0 /\ ~Fresh(p, 3, j)
  BY DEF HoldsAt, CreatedAt, Fresh
<1>5. 2 \in Device /\ 0 \in Mutex /\ Dev(p, 3) = 2
  BY NumTaskAssumption, NumDevicesAssumption, OsNumMutexAssumption
  DEF Device, Mutex, Dev
<1> HIDE DEF L
<1>6. Stuck(p, c, 3, 2)
  BY <1>3, <1>4 DEF Stuck, L
<1>7. Leads(p, c, 3, 1) /\ Locks(p, c, 3, 1) /\ Waiting(p, c, 3, 2)
  BY <1>2, <1>3, <1>4, <1>5 DEF Leads, Locks, Waiting, L
<1>8. p \in Names /\ k \in 1 .. 2
  BY <1>2 DEF Names
<1> QED
  BY <1>3, <1>6, <1>7, <1>8, LineKinds DEF L

LEMMA StressLines ==
    ASSUME NEW c \in Nat, NEW t \in 1 .. NUM_TASK - 1, NEW k \in Reached("stress", c, t)
    PROVE  LineFacts("stress", c, t, k)
<1> DEFINE p == "stress"
           L(j) == LineAt(p, c, t, j)
<1>1. NUM_TASK \in Nat /\ NUM_TASK <= NUM_DEVICES /\ NUM_DEVICES \in Nat
  BY NumTaskAssumption, NumDevicesAssumption
<1>2. Code(p, c, t) = StressFun1(t - 1)
  BY <1>1 DEF Code, TaskFun
<1>3. /\ Reached(p, c, t) = 1 .. 4
      /\ After(p, c, t, 1) = 2 /\ After(p, c, t, 2) = 3
      /\ After(p, c, t, 3) = 4 /\ After(p, c, t, 4) = 1
  BY <1>2 DEF Reached, After, Fun, StressFun1
<1>4. /\ L(1) = Do("load", t - 1) /\ L(2) = Do("store", t - 1)
      /\ L(3) = Do("sleep", 5 * (t - 1)) /\ L(4) = Must("wait", t - 1)
  BY <1>2 DEF LineAt, Fun, StressFun1
<1>5. /\ L(1).op = "load" /\ L(1).must = FALSE
      /\ L(2).op = "store" /\ L(2).must = FALSE
      /\ L(3).op = "sleep" /\ L(3).must = FALSE
      /\ L(4).op = "wait"
  BY <1>4 DEF Do, Must
<1>6. L(2).arg = t - 1 /\ L(3).arg = 5 * (t - 1) /\ L(4).arg = t - 1
  BY <1>4 DEF Do, Must
<1>7. \A j \in 1 .. 4 : HoldsAt(p, t, j) = {} /\ CreatedAt(p, t, j) = 0 /\ ~Fresh(p, t, j)
  BY DEF HoldsAt, CreatedAt, Fresh
<1>8. t - 1 \in Device /\ Dev(p, t) = t - 1 /\ t # 0 /\ t - 1 \in Nat /\ 5 * (t - 1) \in Nat
  BY <1>1 DEF Device, Dev
<1> HIDE DEF L
<1>9. Leads(p, c, t, 1)
  <2>1. L(1) = Do("load", L(2).arg)
    BY <1>4, <1>6
  <2> QED
    BY <1>3, <1>5, <1>7, <2>1 DEF Leads, L
<1>10. Leads(p, c, t, 2) /\ Leads(p, c, t, 3) /\ Leads(p, c, t, 4)
  BY <1>3, <1>5, <1>7 DEF Leads, L
<1>11. Stores(p, c, t, 2) /\ Waiting(p, c, t, 4)
  BY <1>6, <1>8 DEF Stores, Waiting, L
<1>12. p \in Names /\ t \in Nat /\ k \in 1 .. 4
  BY <1>3 DEF Names
<1>13. LineFacts(p, c, t, 1) /\ LineFacts(p, c, t, 2)
  BY <1>5, <1>9, <1>10, <1>11, <1>12, LineKinds DEF L
<1>14. LineFacts(p, c, t, 3)
  <2>1. L(3).arg \in Nat
    BY <1>6, <1>8
  <2> QED
    BY <1>5, <1>10, <1>12, <2>1, LineKinds DEF L
<1>15. LineFacts(p, c, t, 4)
  BY <1>5, <1>10, <1>11, <1>12, LineKinds DEF L
<1> QED
  BY <1>12, <1>13, <1>14, <1>15

LEMMA StressCheckLines ==
    ASSUME NEW c \in Nat, NEW k \in Reached("stress", c, NUM_TASK)
    PROVE  LineFacts("stress", c, NUM_TASK, k)
<1> DEFINE p == "stress"
           t == NUM_TASK
           i == NUM_TASK - 1
           line == LineAt(p, c, t, k)
<1>1. NUM_TASK \in Nat /\ 2 <= NUM_TASK /\ NUM_TASK <= NUM_DEVICES /\ NUM_DEVICES \in Nat
  BY NumTaskAssumption, NumDevicesAssumption
<1>2. Code(p, c, t) = StressFun2(i)
  BY <1>1 DEF Code, TaskFun
<1> DEFINE table == [j \in 1 .. 2 * i + 1 |->
                      IF j \notin 3 .. 2 * i THEN Must("wait", i)
                      ELSE IF j % 2 = 1 THEN Do("load", (j - 3) \div 2)
                                        ELSE Do("compare", (j - 2) \div 2)]
<1>3. StressFun2(i) = Fun(table, 3)
  BY Zenon DEF StressFun2
<1>4. Code(p, c, t).body = table /\ Code(p, c, t).again = 3
  <2> HIDE DEF table
  <2> QED
    BY <1>2, <1>3 DEF Fun
<1>5. /\ DOMAIN Code(p, c, t).body = 1 .. 2 * i + 1
      /\ Code(p, c, t).again = 3
      /\ \A j \in 1 .. 2 * i + 1 :
           Code(p, c, t).body[j] = IF j \notin 3 .. 2 * i THEN Must("wait", i)
                                   ELSE IF j % 2 = 1 THEN Do("load", (j - 3) \div 2)
                                   ELSE Do("compare", (j - 2) \div 2)
  BY <1>4, Zenon
<1>6. Reached(p, c, t) = 1 .. 2 * i + 1
  BY <1>5 DEF Reached
<1> DEFINE next == After(p, c, t, k)
<1>7. k \in 1 .. 2 * i + 1 /\ next \in 1 .. 2 * i + 1
  BY <1>1, <1>5, <1>6 DEF After
<1>8. \A j \in 1 .. 2 * i + 1 : HoldsAt(p, t, j) = {} /\ CreatedAt(p, t, j) = 0 /\ ~Fresh(p, t, j)
  BY DEF HoldsAt, CreatedAt, Fresh
<1>9. \A j \in 1 .. 2 * i + 1 :
        \/ LineAt(p, c, t, j) = Must("wait", i)
        \/ LineAt(p, c, t, j) = Do("load", (j - 3) \div 2)
        \/ LineAt(p, c, t, j) = Do("compare", (j - 2) \div 2)
  BY <1>5 DEF LineAt
<1>10. \A j \in 1 .. 2 * i + 1 :
         \/ LineAt(p, c, t, j).op = "wait" /\ LineAt(p, c, t, j).arg = i
         \/ LineAt(p, c, t, j).op \in {"load", "compare"} /\ LineAt(p, c, t, j).must = FALSE
  BY <1>9 DEF Do, Must
<1>11. i \in Device /\ Dev(p, t) = i /\ t # 0
  BY <1>1 DEF Device, Dev
<1> HIDE DEF i, next
<1>12. Leads(p, c, t, k)
  <2>1. LineAt(p, c, t, next).op # "store"
    BY <1>7, <1>10
  <2>2. /\ HoldsAt(p, t, next) = HoldsAt(p, t, k)
        /\ CreatedAt(p, t, next) = CreatedAt(p, t, k)
        /\ CreatedAt(p, t, k) = 0
        /\ ~Fresh(p, t, next)
    BY <1>7, <1>8
  <2>3. next \in Reached(p, c, t)
    BY <1>6, <1>7
  <2> QED
    BY <2>1, <2>2, <2>3 DEF Leads, next
<1>13. line.op = "wait" => Waiting(p, c, t, k)
  BY <1>7, <1>10, <1>11 DEF Waiting
<1>14. p \in Names /\ t \in Nat /\ k \in Nat \ {0}
  BY <1>1, <1>7 DEF Names
<1> QED
  BY <1>7, <1>10, <1>12, <1>13, <1>14, LineKinds
(* A line that is repeated, and what follows it. *)
LEMMA TimesLines ==
    ASSUME NEW n \in Nat, NEW line, NEW rest, Len(rest) \in Nat, NEW again
    PROVE  LET fun == Fun(Times(n, line, rest), again)
           IN  /\ DOMAIN fun.body = 1 .. n + Len(rest)
               /\ \A k \in 1 .. n : fun.body[k] = line
               /\ \A i \in 1 .. Len(rest) : fun.body[n + i] = rest[i]
               /\ fun.again = again
<1> DEFINE body == [k \in 1 .. n + Len(rest) |-> IF k <= n THEN line ELSE rest[k - n]]
<1>1. Times(n, line, rest) = body
  BY DEF Times
<1>2. /\ DOMAIN body = 1 .. n + Len(rest)
      /\ \A k \in 1 .. n + Len(rest) : body[k] = IF k <= n THEN line ELSE rest[k - n]
  OBVIOUS
<1> HIDE DEF body
<1>3. \A i \in 1 .. Len(rest) : n + i \in 1 .. n + Len(rest) /\ ~(n + i <= n) /\ (n + i) - n = i
  OBVIOUS
<1>4. \A k \in 1 .. n : k \in 1 .. n + Len(rest) /\ k <= n
  OBVIOUS
<1>5. \A i \in 1 .. Len(rest) : body[n + i] = rest[i]
  BY <1>2, <1>3
<1>6. \A k \in 1 .. n : body[k] = line
  BY <1>2, <1>4
<1> QED
  BY <1>1, <1>2, <1>5, <1>6 DEF Fun

LEMMA ChaserMainLines ==
    ASSUME NEW c \in Nat, NEW k \in Reached("mutex_chaser", c, 0)
    PROVE  LineFacts("mutex_chaser", c, 0, k)
<1> DEFINE p == "mutex_chaser"
           n == MUTEX_NUM
           rest == <<Do("task_create", 4)>>
           L(j) == LineAt(p, c, 0, j)
<1>1. n \in Nat /\ 2 <= n
  BY MutexNumAssumption, OsNumMutexAssumption
<1>2. Code(p, c, 0) = Fun(Times(n, Do("create", 0), rest), 1)
  BY DEF Code, Main, ChaserMain
<1>3. Len(rest) = 1 /\ rest[1] = Do("task_create", 4)
  OBVIOUS
<1> HIDE DEF rest
<1>4. /\ DOMAIN Code(p, c, 0).body = 1 .. n + 1
      /\ \A j \in 1 .. n : L(j) = Do("create", 0)
      /\ L(n + 1) = Do("task_create", 4)
      /\ Code(p, c, 0).again = 1
  <2> DEFINE fun == Fun(Times(n, Do("create", 0), rest), 1)
  <2>1. /\ DOMAIN fun.body = 1 .. n + Len(rest)
        /\ \A j \in 1 .. n : fun.body[j] = Do("create", 0)
        /\ \A i \in 1 .. Len(rest) : fun.body[n + i] = rest[i]
        /\ fun.again = 1
    <3>1. Len(rest) \in Nat
      BY <1>3
    <3> QED
      BY <1>1, <3>1, TimesLines
  <2> HIDE DEF fun
  <2>2. fun.body[n + 1] = Do("task_create", 4)
    BY <1>3, <2>1
  <2>3. Code(p, c, 0) = fun
    BY <1>2 DEF fun
  <2> QED
    BY <1>3, <2>1, <2>2, <2>3 DEF LineAt
<1>5. Reached(p, c, 0) = 1 .. n + 1 /\ k \in 1 .. n + 1
  BY <1>4 DEF Reached
<1>6. After(p, c, 0, k) = IF k = n + 1 THEN 1 ELSE k + 1
  BY <1>1, <1>4, <1>5 DEF After
<1>7. \A j \in 1 .. n + 1 :
        HoldsAt(p, 0, j) = {} /\ CreatedAt(p, 0, j) = j - 1 /\ ~Fresh(p, 0, j)
  BY DEF HoldsAt, CreatedAt, Fresh
<1>8. \A j \in 1 .. n : L(j).op = "create" /\ L(j).must = FALSE
  BY <1>4 DEF Do
<1>9. L(n + 1).op = "task_create" /\ L(n + 1).must = FALSE /\ L(n + 1).arg = 4
  BY <1>4 DEF Do
<1> HIDE DEF L
<1>10. \A j \in 1 .. n + 1 : L(j).op \in {"create", "task_create"} /\ L(j).must = FALSE
  BY <1>1, <1>8, <1>9
<1>11. Leads(p, c, 0, k)
  <2> DEFINE next == After(p, c, 0, k)
  <2>1. next \in 1 .. n + 1
    BY <1>1, <1>5, <1>6
  <2>2. L(next).op # "store" /\ L(k).op \notin {"lock", "unlock"}
    BY <1>5, <1>10, <2>1
  <2>3. /\ HoldsAt(p, 0, next) = HoldsAt(p, 0, k) /\ ~Fresh(p, 0, next)
        /\ CreatedAt(p, 0, next) = next - 1 /\ CreatedAt(p, 0, k) = k - 1
    BY <1>5, <1>7, <2>1
  <2>4. next <= k \/ (L(k).op = "create" /\ next = k + 1)
    BY <1>1, <1>5, <1>6, <1>8
  <2>5. next - 1 <= k - 1 \/ (L(k).op = "create" /\ next - 1 = k - 1 + 1)
    BY <1>5, <2>1, <2>4
  <2> HIDE DEF next
  <2> QED
    BY <1>5, <2>1, <2>2, <2>3, <2>5 DEF Leads, L, next
<1>12. Starts(p, c, 0, n + 1)
  <2>1. \A u \in 1 .. 4 : CreatedAt(p, u, 1) = n
    BY DEF CreatedAt
  <2>2. CreatedAt(p, 0, n + 1) = n
    BY <1>1, <1>7
  <2>3. HoldsAt(p, 0, n + 1) = {} /\ NumTasks(p) = 4
    BY <1>1, <1>7 DEF NumTasks
  <2> QED
    BY <1>1, <1>9, <2>1, <2>2, <2>3 DEF Starts, L
<1>13. p \in Names /\ k \in Nat \ {0}
  BY <1>5 DEF Names
<1>14. L(k).op = "task_create" => Starts(p, c, 0, k)
  BY <1>1, <1>5, <1>8, <1>12
<1> QED
  BY <1>5, <1>10, <1>11, <1>13, <1>14, LineKinds DEF L

LEMMA ChaserLines ==
    ASSUME NEW c \in Nat, NEW t \in 1 .. 4, NEW k \in Reached("mutex_chaser", c, t)
    PROVE  LineFacts("mutex_chaser", c, t, k)
<1> DEFINE p == "mutex_chaser"
           dev == IF t = 1 THEN 3 ELSE t - 2
           last == 5 * (MUTEX_NUM - 1) + 1
           at(j) == (j + 4) \div 5
           pos(j) == (j - 1) % 5
           L(j) == LineAt(p, c, t, j)
           Chase(m) == <<Must("lock", m), Do("load", m), Do("store", m),
                         Must("unlock", m), Must("wait", dev)>>
           body == [j \in 1 .. last |-> IF j = last THEN Must("wait", dev)
                                        ELSE Chase(at(j))[1 + pos(j)]]
           next == After(p, c, t, k)
<1>1. /\ MUTEX_NUM \in Nat /\ 2 <= MUTEX_NUM /\ MUTEX_NUM <= OS_NUM_MUTEX
      /\ OS_NUM_MUTEX \in Nat
  BY MutexNumAssumption, OsNumMutexAssumption
<1>2. Code(p, c, t) = ChaserTask(dev)
  BY DEF Code, TaskFun
<1>3. ChaserTask(dev) = Fun(body, last)
  BY Zenon DEF ChaserTask
<1>4. \A j \in 1 .. last : at(j) \in Nat /\ pos(j) \in 0 .. 4 /\ j = 5 * (at(j) - 1) + 1 + pos(j)
  BY <1>1
<1>5. \A j \in 1 .. last : j # last => at(j) \in 1 .. MUTEX_NUM - 1
  BY <1>1
<1>6. DOMAIN body = 1 .. last /\ body[last] = Must("wait", dev)
  BY <1>1
<1>7. ASSUME NEW j \in 1 .. last, j # last
      PROVE  /\ pos(j) = 0 => body[j] = Must("lock", at(j))
             /\ pos(j) = 1 => body[j] = Do("load", at(j))
             /\ pos(j) = 2 => body[j] = Do("store", at(j))
             /\ pos(j) = 3 => body[j] = Must("unlock", at(j))
             /\ pos(j) = 4 => body[j] = Must("wait", dev)
  <2>1. body[j] = Chase(at(j))[1 + pos(j)]
    BY <1>7
  <2> DEFINE m == at(j)
             r == pos(j)
  <2>2. r \in 0 .. 4
    BY <1>4
  <2>3. body[j] = Chase(m)[1 + r]
    BY <2>1
  <2> HIDE DEF m, r, body
  <2> QED
    BY <2>2, <2>3 DEF m, r
<1> HIDE DEF body, dev
<1>8. /\ DOMAIN Code(p, c, t).body = 1 .. last
      /\ Code(p, c, t).again = last
      /\ \A j : L(j) = body[j]
  <2>1. Code(p, c, t).body = body /\ Code(p, c, t).again = last
    BY <1>2, <1>3 DEF Fun
  <2> QED
    BY <1>6, <2>1 DEF LineAt
<1>9. Reached(p, c, t) = 1 .. last /\ k \in 1 .. last
  BY <1>8 DEF Reached
<1>10. next = IF k = last THEN last ELSE k + 1
  BY <1>1, <1>8, <1>9 DEF After
<1>11. next \in 1 .. last
  BY <1>1, <1>9, <1>10
<1>12. k # last => \/ at(next) = at(k) /\ pos(next) = pos(k) + 1
                   \/ pos(next) = 0 /\ pos(k) = 4
  BY <1>1, <1>9, <1>10
<1>13. \A j \in 1 .. last :
         /\ HoldsAt(p, t, j) = IF j # last /\ pos(j) \in 1 .. 3 THEN {at(j)} ELSE {}
         /\ CreatedAt(p, t, j) = MUTEX_NUM
         /\ ~Fresh(p, t, j)
  BY <1>1 DEF HoldsAt, CreatedAt, Fresh
<1>14. dev \in Device /\ Dev(p, t) = dev /\ t # 0 /\ t \in Nat
  BY NumTaskAssumption, NumDevicesAssumption DEF Device, Dev, dev
<1> DEFINE m == at(k)
           r == pos(k)
<1>15. last # k => m \in Nat /\ m \in Mutex /\ m < MUTEX_NUM
  BY <1>1, <1>5, <1>9 DEF Mutex
<1>16. r \in 0 .. 4 /\ pos(next) \in 0 .. 4
  BY <1>4, <1>9, <1>11
<1>17. L(last) = Must("wait", dev) /\ last \in 1 .. last
  BY <1>1, <1>6, <1>8
<1>18. ASSUME NEW j \in 1 .. last, j # last
       PROVE  /\ pos(j) = 0 => L(j) = Must("lock", at(j))
              /\ pos(j) = 1 => L(j) = Do("load", at(j))
              /\ pos(j) = 2 => L(j) = Do("store", at(j))
              /\ pos(j) = 3 => L(j) = Must("unlock", at(j))
              /\ pos(j) = 4 => L(j) = Must("wait", dev)
  BY <1>7, <1>8, <1>18
<1> HIDE DEF L, last, dev
<1>19. ASSUME NEW j \in 1 .. last
       PROVE  /\ L(j).op = IF j = last \/ pos(j) = 4 THEN "wait"
                           ELSE IF pos(j) = 0 THEN "lock"
                           ELSE IF pos(j) = 1 THEN "load"
                           ELSE IF pos(j) = 2 THEN "store" ELSE "unlock"
              /\ L(j).arg = IF j = last \/ pos(j) = 4 THEN dev ELSE at(j)
              /\ L(j).must = FALSE \/ L(j).op \in {"lock", "unlock", "wait"}
  <2>1. pos(j) \in 0 .. 4
    BY <1>4
  <2> HIDE DEF pos, at
  <2>2. CASE j = last
    BY <1>17, <2>2 DEF Must
  <2>3. CASE j # last /\ pos(j) = 0
    BY <1>18, <2>3 DEF Must
  <2>4. CASE j # last /\ pos(j) = 1
    BY <1>18, <2>4 DEF Do
  <2>5. CASE j # last /\ pos(j) = 2
    BY <1>18, <2>5 DEF Do
  <2>6. CASE j # last /\ pos(j) = 3
    BY <1>18, <2>6 DEF Must
  <2>7. CASE j # last /\ pos(j) = 4
    BY <1>18, <2>7 DEF Must
  <2>8. \/ pos(j) = 0 \/ pos(j) = 1 \/ pos(j) = 2 \/ pos(j) = 3 \/ pos(j) = 4
    BY <2>1
  <2> QED
    BY <2>2, <2>3, <2>4, <2>5, <2>6, <2>7, <2>8, Zenon
<1> HIDE DEF at, pos, next
<1>20. k # last => m + 1 \in Nat /\ next = k + 1
  BY <1>10, <1>15
<1>21. HoldsAt(p, t, next) = IF k # last /\ r \in 0 .. 2 THEN {m} ELSE {}
  <2>1. CASE k = last
    BY <1>9, <1>10, <1>11, <1>13, <2>1
  <2>2. CASE k # last /\ r = 4
    BY <1>11, <1>12, <1>13, <1>16, <2>2
  <2>3. CASE k # last /\ r # 4 /\ next = last
    <3>1. pos(last) = 0
      BY <1>1 DEF pos, last
    <3> QED
      BY <1>12, <1>16, <2>3, <3>1
  <2>4. CASE k # last /\ r # 4 /\ next # last
    BY <1>11, <1>12, <1>13, <1>16, <2>4
  <2> QED
    BY <2>1, <2>2, <2>3, <2>4
<1>22. HoldsAt(p, t, k) = IF k # last /\ r \in 1 .. 3 THEN {m} ELSE {}
  BY <1>9, <1>13
<1>23. Leads(p, c, t, k)
  <2>1. next \in Reached(p, c, t)
    BY <1>9, <1>11
  <2>2. CreatedAt(p, t, next) = MUTEX_NUM /\ CreatedAt(p, t, k) = MUTEX_NUM /\ ~Fresh(p, t, next)
    BY <1>9, <1>11, <1>13
  <2>3. L(k).op \notin {"lock", "unlock"} => HoldsAt(p, t, next) = HoldsAt(p, t, k)
    <3>1. L(k).op \notin {"lock", "unlock"} => k = last \/ r \in {1, 2, 4}
      BY <1>9, <1>16, <1>19
    <3> QED
      BY <1>21, <1>22, <3>1
  <2>4. L(next).op = "store" => L(k) = Do("load", L(next).arg)
    <3>1. SUFFICES ASSUME L(next).op = "store" PROVE L(k) = Do("load", L(next).arg)
      OBVIOUS
    <3>2. next # last /\ pos(next) = 2 /\ L(next).arg = at(next)
      BY <1>11, <1>16, <1>19, <3>1
    <3>3. k # last /\ at(next) = m /\ r = 1
      BY <1>10, <1>12, <1>16, <3>2
    <3> QED
      BY <1>9, <1>18, <3>2, <3>3
  <2> QED
    BY <1>1, <2>1, <2>2, <2>3, <2>4 DEF Leads, L, next
<1>24. L(k).op = "lock" => Locks(p, c, t, k)
  <2> SUFFICES ASSUME L(k).op = "lock" PROVE Locks(p, c, t, k)
    OBVIOUS
  <2>1. k # last /\ r = 0 /\ L(k).arg = m
    BY <1>9, <1>19
  <2>2. HoldsAt(p, t, k) = {} /\ HoldsAt(p, t, next) = {m}
    BY <1>21, <1>22, <2>1
  <2>3. m \in Mutex /\ m \in Nat /\ ~Fresh(p, t, k)
    BY <1>9, <1>13, <1>15, <2>1
  <2> QED
    BY <1>14, <2>1, <2>2, <2>3 DEF Locks, L, next
<1>25. L(k).op = "unlock" => Unlocks(p, c, t, k)
  <2> SUFFICES ASSUME L(k).op = "unlock" PROVE Unlocks(p, c, t, k)
    OBVIOUS
  <2>1. k # last /\ r = 3 /\ L(k).arg = m
    <3>1. k # last /\ r \notin {0, 1, 2, 4}
      BY <1>9, <1>19
    <3>2. r = 3
      BY <1>16, <3>1
    <3> QED
      BY <1>9, <1>19, <3>1, <3>2
  <2>2. HoldsAt(p, t, k) = {m} /\ HoldsAt(p, t, next) = {}
    BY <1>21, <1>22, <2>1
  <2>3. m \in Nat /\ m < MUTEX_NUM /\ CreatedAt(p, t, k) = MUTEX_NUM
    BY <1>9, <1>13, <1>15, <2>1
  <2> QED
    BY <1>14, <2>1, <2>2, <2>3 DEF Unlocks, L, next
<1>26. L(k).op = "wait" => Waiting(p, c, t, k)
  <2> SUFFICES ASSUME L(k).op = "wait" PROVE Waiting(p, c, t, k)
    OBVIOUS
  <2>1. L(k).arg = dev
    BY <1>9, <1>19
  <2> QED
    BY <1>14, <2>1 DEF Waiting, L
<1>27. L(k).op = "store" => Stores(p, c, t, k)
  <2> SUFFICES ASSUME L(k).op = "store" PROVE Stores(p, c, t, k)
    OBVIOUS
  <2>1. k # last /\ r = 2 /\ L(k).arg = m
    BY <1>9, <1>16, <1>19
  <2>2. HoldsAt(p, t, k) = {m} /\ m \in Nat /\ m < MUTEX_NUM
    BY <1>15, <1>22, <2>1
  <2> QED
    BY <1>14, <2>1, <2>2 DEF Stores, L
<1>28. L(k).op \in {"lock", "unlock", "wait", "load", "store"}
  BY <1>9, <1>19
<1>29. p \in Names /\ k \in Nat \ {0}
  BY <1>9 DEF Names
<1> QED
  BY <1>9, <1>14, <1>19, <1>23, <1>24, <1>25, <1>26, <1>27, <1>28, <1>29, LineKinds DEF L
LEMMA SysErrMainLines ==
    ASSUME NEW c \in Nat, NEW k \in Reached("sys_err", c, 0)
    PROVE  LineFacts("sys_err", c, 0, k)
<1> DEFINE p == "sys_err"
           L(j) == LineAt(p, c, 0, j)
<1>1. Code(p, c, 0) = SysErrMain
  BY DEF Code, Main
<1>2. /\ Reached(p, c, 0) = 1 .. 5
      /\ After(p, c, 0, 1) = 2 /\ After(p, c, 0, 2) = 3
      /\ After(p, c, 0, 3) = 4 /\ After(p, c, 0, 4) = 5 /\ After(p, c, 0, 5) = 1
      /\ L(1) = Do("task_create", OS_MAX_TASKS + 1) /\ L(2) = Do("errno", "EINVAL")
      /\ L(3) = Do("bad_pointer", 30) /\ L(4) = Do("errno", "EFAULT")
      /\ L(5) = Do("task_create", 1)
  BY <1>1 DEF Reached, LineAt, After, Fun, SysErrMain
<1>3. /\ L(1).op = "task_create" /\ L(1).must = FALSE
      /\ L(2).op = "errno" /\ L(2).must = FALSE
      /\ L(3).op = "bad_pointer" /\ L(3).must = FALSE
      /\ L(4).op = "errno" /\ L(4).must = FALSE
      /\ L(5).op = "task_create" /\ L(5).must = FALSE
  BY <1>2 DEF Do
<1>4. L(1).arg = OS_MAX_TASKS + 1 /\ L(5).arg = 1
  BY <1>2 DEF Do
<1>5. \A j \in 1 .. 5 : HoldsAt(p, 0, j) = {} /\ CreatedAt(p, 0, j) = 0 /\ ~Fresh(p, 0, j)
  BY DEF HoldsAt, CreatedAt, Fresh
<1> HIDE DEF L
<1>6. Leads(p, c, 0, 1) /\ Leads(p, c, 0, 2)
  BY <1>2, <1>3, <1>5 DEF Leads, L
<1>7. Leads(p, c, 0, 3) /\ Leads(p, c, 0, 4) /\ Leads(p, c, 0, 5)
  BY <1>2, <1>3, <1>5 DEF Leads, L
<1>8. Starts(p, c, 0, 1)
  BY <1>3, <1>4, <1>5, OsMaxTasksAssumption DEF Starts, L
<1>9. Starts(p, c, 0, 5)
  <2>1. \A u \in 1 .. 1 : CreatedAt(p, u, 1) = 0
    BY MutexNumAssumption, OsNumMutexAssumption DEF CreatedAt
  <2> QED
    BY <1>3, <1>4, <1>5, <2>1 DEF Starts, L, NumTasks
<1>10. p \in Names /\ k \in 1 .. 5
  BY <1>2 DEF Names
<1>11. LineFacts(p, c, 0, 1)
  BY <1>3, <1>6, <1>8, <1>10, LineKinds DEF L
<1>12. LineFacts(p, c, 0, 5)
  <2>1. LineAt(p, c, 0, 5).op = "task_create" /\ ~LineAt(p, c, 0, 5).must
    BY <1>3 DEF L
  <2>2. Leads(p, c, 0, 5) /\ Starts(p, c, 0, 5) /\ p \in Names
    BY <1>7, <1>9, <1>10
  <2> HIDE DEF p
  <2> QED
    BY <2>1, <2>2, LineKinds
<1>13. LineFacts(p, c, 0, 2)
  BY <1>3, <1>6, <1>10, LineKinds DEF L
<1>14. LineFacts(p, c, 0, 3)
  BY <1>3, <1>7, <1>10, LineKinds DEF L
<1>15. LineFacts(p, c, 0, 4)
  <2>1. LineAt(p, c, 0, 4).op = "errno" /\ ~LineAt(p, c, 0, 4).must
    BY <1>3 DEF L
  <2>2. Leads(p, c, 0, 4) /\ p = "sys_err" /\ p \in Names
    BY <1>7, <1>10
  <2> HIDE DEF p
  <2> QED
    BY <2>1, <2>2, LineKinds
<1> QED
  BY <1>10, <1>11, <1>12, <1>13, <1>14, <1>15

(* fun1 of sys_err.c, line by line: n calls of mutex_create, then the rest. *)
LEMMA SysErrBody ==
    ASSUME NEW c \in Nat
    PROVE  LET n    == MUTEX_NUM + 1
               L(j) == LineAt("sys_err", c, 1, j)
           IN /\ DOMAIN Code("sys_err", c, 1).body = 1 .. n + 16
              /\ Code("sys_err", c, 1).again = 1
              /\ \A j \in 1 .. n : L(j) = Do("create", 0)
              /\ L(n + 1) = Do("errno", "ENOMEM")
              /\ L(n + 2) = Do("unlock", OS_NUM_MUTEX) /\ L(n + 3) = Do("errno", "EINVAL")
              /\ L(n + 4) = Do("unlock", OS_NUM_MUTEX - 1) /\ L(n + 5) = Do("errno", "EPERM")
              /\ L(n + 6) = Do("lock", OS_NUM_MUTEX) /\ L(n + 7) = Do("errno", "EINVAL")
              /\ L(n + 8) = Do("lock", 1) /\ L(n + 9) = Do("result", "0")
              /\ L(n + 10) = Do("lock", 1) /\ L(n + 11) = Do("errno", "EDEADLOCK")
              /\ L(n + 12) = Do("unlock", 1) /\ L(n + 13) = Do("result", "0")
              /\ L(n + 14) = Do("wait", NUM_DEVICES + 1) /\ L(n + 15) = Do("errno", "EINVAL")
              /\ L(n + 16) = Spin
<1> DEFINE p == "sys_err"
           n == MUTEX_NUM + 1
           rest == <<
             Do("errno", "ENOMEM"),
             Do("unlock", OS_NUM_MUTEX),      Do("errno", "EINVAL"),
             Do("unlock", OS_NUM_MUTEX - 1),  Do("errno", "EPERM"),
             Do("lock", OS_NUM_MUTEX),        Do("errno", "EINVAL"),
             Do("lock", 1),                   Do("result", "0"),
             Do("lock", 1),                   Do("errno", "EDEADLOCK"),
             Do("unlock", 1),                 Do("result", "0"),
             Do("wait", NUM_DEVICES + 1),     Do("errno", "EINVAL"), Spin>>
           L(j) == LineAt(p, c, 1, j)
           K(i) == n + i
           R(i) == LineAt(p, c, 1, K(i))
<1>1. n \in Nat /\ 3 <= n /\ n - 1 = MUTEX_NUM /\ MUTEX_NUM \in Nat
  BY MutexNumAssumption, OsNumMutexAssumption
<1>2. Code(p, c, 1) = Fun(Times(n, Do("create", 0), rest), 1)
  BY DEF Code, TaskFun, SysErrFun1
<1>3. Len(rest) = 16
  OBVIOUS
<1>4. /\ rest[1] = Do("errno", "ENOMEM") /\ rest[2] = Do("unlock", OS_NUM_MUTEX)
      /\ rest[3] = Do("errno", "EINVAL") /\ rest[4] = Do("unlock", OS_NUM_MUTEX - 1)
      /\ rest[5] = Do("errno", "EPERM") /\ rest[6] = Do("lock", OS_NUM_MUTEX)
      /\ rest[7] = Do("errno", "EINVAL") /\ rest[8] = Do("lock", 1)
      /\ rest[9] = Do("result", "0") /\ rest[10] = Do("lock", 1)
      /\ rest[11] = Do("errno", "EDEADLOCK") /\ rest[12] = Do("unlock", 1)
      /\ rest[13] = Do("result", "0") /\ rest[14] = Do("wait", NUM_DEVICES + 1)
      /\ rest[15] = Do("errno", "EINVAL") /\ rest[16] = Spin
  OBVIOUS
<1> HIDE DEF rest
<1>5. /\ DOMAIN Code(p, c, 1).body = 1 .. n + 16
      /\ \A j \in 1 .. n : L(j) = Do("create", 0)
      /\ \A i \in 1 .. 16 : R(i) = rest[i]
      /\ Code(p, c, 1).again = 1
  <2> DEFINE fun == Fun(Times(n, Do("create", 0), rest), 1)
  <2> HIDE DEF n
  <2>1. /\ DOMAIN fun.body = 1 .. n + Len(rest)
        /\ \A j \in 1 .. n : fun.body[j] = Do("create", 0)
        /\ \A i \in 1 .. Len(rest) : fun.body[n + i] = rest[i]
        /\ fun.again = 1
    <3>1. Len(rest) \in Nat
      BY <1>3
    <3> QED
      BY <1>1, <3>1, TimesLines
  <2> HIDE DEF fun
  <2>2. Code(p, c, 1) = fun
    BY <1>2 DEF fun
  <2> QED
    BY <1>3, <2>1, <2>2 DEF LineAt
<1> HIDE DEF n
<1>6. /\ L(n + 1) = R(1) /\ L(n + 2) = R(2) /\ L(n + 3) = R(3) /\ L(n + 4) = R(4)
      /\ L(n + 5) = R(5) /\ L(n + 6) = R(6) /\ L(n + 7) = R(7) /\ L(n + 8) = R(8)
      /\ L(n + 9) = R(9) /\ L(n + 10) = R(10) /\ L(n + 11) = R(11) /\ L(n + 12) = R(12)
      /\ L(n + 13) = R(13) /\ L(n + 14) = R(14) /\ L(n + 15) = R(15) /\ L(n + 16) = R(16)
  OBVIOUS
<1> HIDE DEF L, R
<1> QED
  BY <1>4, <1>5, <1>6 DEF n, L

LEMMA SysErrLines ==
    ASSUME NEW c \in Nat, NEW k \in Reached("sys_err", c, 1)
    PROVE  LineFacts("sys_err", c, 1, k)
<1> DEFINE p == "sys_err"
           n == MUTEX_NUM + 1
           L(j) == LineAt(p, c, 1, j)
           K(i) == n + i
           R(i) == LineAt(p, c, 1, K(i))
<1>1. n \in Nat /\ 3 <= n /\ n - 1 = MUTEX_NUM /\ MUTEX_NUM \in Nat
  BY MutexNumAssumption, OsNumMutexAssumption
<1>2. /\ DOMAIN Code(p, c, 1).body = 1 .. n + 16 /\ Code(p, c, 1).again = 1
      /\ \A j \in 1 .. n : L(j) = Do("create", 0)
  BY SysErrBody
<1>3. /\ R(1) = Do("errno", "ENOMEM") /\ R(2) = Do("unlock", OS_NUM_MUTEX)
      /\ R(3) = Do("errno", "EINVAL") /\ R(4) = Do("unlock", OS_NUM_MUTEX - 1)
      /\ R(5) = Do("errno", "EPERM") /\ R(6) = Do("lock", OS_NUM_MUTEX)
      /\ R(7) = Do("errno", "EINVAL") /\ R(8) = Do("lock", 1)
      /\ R(9) = Do("result", "0") /\ R(10) = Do("lock", 1)
      /\ R(11) = Do("errno", "EDEADLOCK") /\ R(12) = Do("unlock", 1)
      /\ R(13) = Do("result", "0") /\ R(14) = Do("wait", NUM_DEVICES + 1)
      /\ R(15) = Do("errno", "EINVAL") /\ R(16) = Spin
  BY SysErrBody
<1> HIDE DEF n
<1>4. Reached(p, c, 1) = 1 .. n + 16
  BY <1>2 DEF Reached
<1>5. \A j \in 1 .. n + 15 : After(p, c, 1, j) = j + 1
  <2>1. DOMAIN Code(p, c, 1).body = 1 .. n + 16
    BY <1>2
  <2> QED
    BY <1>1, <2>1 DEF After
<1>6. \A j \in 1 .. n : L(j).op = "create" /\ L(j).must = FALSE
  BY <1>2 DEF Do
<1>7. /\ R(1).op = "errno" /\ R(1).must = FALSE /\ R(2).op = "unlock" /\ R(2).must = FALSE
      /\ R(3).op = "errno" /\ R(3).must = FALSE /\ R(4).op = "unlock" /\ R(4).must = FALSE
      /\ R(5).op = "errno" /\ R(5).must = FALSE /\ R(6).op = "lock" /\ R(6).must = FALSE
      /\ R(7).op = "errno" /\ R(7).must = FALSE /\ R(8).op = "lock" /\ R(8).must = FALSE
  BY <1>3 DEF Do
<1>8. /\ R(9).op = "result" /\ R(9).must = FALSE /\ R(10).op = "lock" /\ R(10).must = FALSE
      /\ R(11).op = "errno" /\ R(11).must = FALSE /\ R(12).op = "unlock" /\ R(12).must = FALSE
      /\ R(13).op = "result" /\ R(13).must = FALSE /\ R(14).op = "wait" /\ R(14).must = FALSE
      /\ R(15).op = "errno" /\ R(15).must = FALSE /\ R(16).op = "spin" /\ R(16).must = FALSE
  BY <1>3 DEF Do, Spin
<1>9. /\ R(2).arg = OS_NUM_MUTEX /\ R(4).arg = OS_NUM_MUTEX - 1 /\ R(6).arg = OS_NUM_MUTEX
      /\ R(8).arg = 1 /\ R(10).arg = 1 /\ R(12).arg = 1 /\ R(14).arg = NUM_DEVICES + 1
  BY <1>3 DEF Do
<1> HIDE DEF L, R, K
<1>10. \A j \in 1 .. n : HoldsAt(p, 1, j) = {} /\ CreatedAt(p, 1, j) = j - 1 /\ Fresh(p, 1, j)
  BY <1>1 DEF HoldsAt, CreatedAt, Fresh, n
<1>11. \A i \in 1 .. 16 :
         /\ HoldsAt(p, 1, K(i)) = IF 9 <= i /\ i <= 12 THEN {1} ELSE {}
         /\ CreatedAt(p, 1, K(i)) = n
         /\ Fresh(p, 1, K(i)) <=> i <= 7
  BY <1>1 DEF HoldsAt, CreatedAt, Fresh, n, K
<1>12. p \in Names
  BY DEF Names
<1>13. ASSUME NEW j \in 1 .. n PROVE LineFacts(p, c, 1, j)
  <2>1. /\ j + 1 \in 1 .. n + 16 /\ After(p, c, 1, j) = j + 1
        /\ HoldsAt(p, 1, j) = {} /\ CreatedAt(p, 1, j) = j - 1 /\ Fresh(p, 1, j)
        /\ L(j).op = "create" /\ L(j).must = FALSE
    BY <1>1, <1>5, <1>6, <1>10
  <2>2. /\ HoldsAt(p, 1, j + 1) = {} /\ CreatedAt(p, 1, j + 1) = j
        /\ LineAt(p, c, 1, j + 1).op # "store"
    <3>1. CASE j < n
      <4>1. j + 1 \in 1 .. n /\ (j + 1) - 1 = j
        BY <1>1, <3>1
      <4> QED
        BY <1>6, <1>10, <4>1 DEF L
    <3>2. CASE j = n
      BY <1>1, <1>7, <1>10, <1>11, <3>2 DEF R, K
    <3> QED
      BY <1>1, <3>1, <3>2
  <2>3. j = (j - 1) + 1 /\ j \in Nat \ {0}
    OBVIOUS
  <2>4. Leads(p, c, 1, j)
    BY <1>4, <2>1, <2>2, <2>3 DEF Leads, L
  <2> QED
    BY <1>12, <2>1, <2>3, <2>4, LineKinds DEF L
<1>14. \A i \in 1 .. 15 : After(p, c, 1, K(i)) = K(i + 1)
  BY <1>1, <1>5 DEF K
<1>15. \A i \in 1 .. 15 :
         /\ HoldsAt(p, 1, K(i + 1)) = IF 8 <= i /\ i <= 11 THEN {1} ELSE {}
         /\ CreatedAt(p, 1, K(i + 1)) = n
         /\ Fresh(p, 1, K(i + 1)) <=> i <= 6
  BY <1>11
<1>16. ASSUME NEW i \in 1 .. 15 PROVE Leads(p, c, 1, K(i))
  <2>1. /\ K(i + 1) \in 1 .. n + 16 /\ After(p, c, 1, K(i)) = K(i + 1)
        /\ i \in 1 .. 16 /\ i + 1 \in 1 .. 16
    BY <1>1, <1>5 DEF K
  <2>2. R(i + 1).op # "store"
    BY <1>7, <1>8
  <2>3. R(i).op \notin {"lock", "unlock"} => i \notin {8, 12}
    BY <1>7, <1>8
  <2>4. i \notin {8, 12} => HoldsAt(p, 1, K(i + 1)) = HoldsAt(p, 1, K(i))
    BY <1>11, <1>15, <2>1
  <2>5. /\ CreatedAt(p, 1, K(i + 1)) = n /\ CreatedAt(p, 1, K(i)) = n
        /\ Fresh(p, 1, K(i + 1)) => Fresh(p, 1, K(i))
    BY <1>11, <1>15, <2>1
  <2> QED
    BY <1>1, <1>4, <2>1, <2>2, <2>3, <2>4, <2>5 DEF Leads, R
<1>17. \A i \in 1 .. 16 : K(i) \in Nat \ {0}
  BY <1>1 DEF K
<1>18. ASSUME NEW i \in {1, 3, 5, 7, 9, 11, 13, 15} PROVE LineFacts(p, c, 1, K(i))
  <2>1. R(i).op \in {"errno", "result"} /\ R(i).must = FALSE
    BY <1>7, <1>8
  <2>2. Leads(p, c, 1, K(i)) /\ K(i) \in Nat \ {0}
    BY <1>16, <1>17
  <2> QED
    BY <1>12, <2>1, <2>2, LineKinds DEF R
<1>19. ASSUME NEW i \in {2, 4, 12} PROVE LineFacts(p, c, 1, K(i))
  <2>1. R(i).op = "unlock" /\ R(i).must = FALSE
    BY <1>7, <1>8
  <2>2. R(i).arg \in Nat /\ (i = 12 => R(i).arg = 1) /\ (i # 12 => R(i).arg \notin {1} \/ i = 4)
    BY <1>9, OsNumMutexAssumption, MutexNumAssumption
  <2>3. /\ i \in 1 .. 16 /\ i + 1 \in 1 .. 16
        /\ After(p, c, 1, K(i)) = K(i + 1)
        /\ CreatedAt(p, 1, K(i)) = n
        /\ HoldsAt(p, 1, K(i)) = IF i = 12 THEN {1} ELSE {}
        /\ HoldsAt(p, 1, K(i + 1)) = {}
        /\ i # 12 => Fresh(p, 1, K(i))
    BY <1>14, <1>11, <1>15
  <2>4. 1 < n
    BY <1>1
  <2>5. Unlocks(p, c, 1, K(i))
    BY <2>1, <2>2, <2>3, <2>4 DEF Unlocks, R
  <2>6. Leads(p, c, 1, K(i)) /\ K(i) \in Nat \ {0}
    BY <1>16, <1>17
  <2> QED
    BY <1>12, <2>1, <2>5, <2>6, LineKinds DEF R
<1>20. ASSUME NEW i \in {6, 8, 10} PROVE LineFacts(p, c, 1, K(i))
  <2>1. R(i).op = "lock" /\ R(i).must = FALSE
    BY <1>7, <1>8
  <2>2. R(i).arg = IF i = 6 THEN OS_NUM_MUTEX ELSE 1
    BY <1>9
  <2>3. /\ i \in 1 .. 16 /\ i + 1 \in 1 .. 16
        /\ After(p, c, 1, K(i)) = K(i + 1)
        /\ HoldsAt(p, 1, K(i)) = IF i = 10 THEN {1} ELSE {}
        /\ HoldsAt(p, 1, K(i + 1)) = IF i = 6 THEN {} ELSE {1}
        /\ i # 6 => ~Fresh(p, 1, K(i))
    BY <1>14, <1>11, <1>15
  <2>4. 1 \in Mutex /\ OS_NUM_MUTEX \notin Mutex /\ OS_NUM_MUTEX \in Nat
    BY OsNumMutexAssumption, MutexNumAssumption DEF Mutex
  <2>5. Locks(p, c, 1, K(i))
    BY <2>1, <2>2, <2>3, <2>4 DEF Locks, R
  <2>6. Leads(p, c, 1, K(i)) /\ K(i) \in Nat \ {0}
    BY <1>16, <1>17
  <2> QED
    BY <1>12, <2>1, <2>5, <2>6, LineKinds DEF R
<1>21. LineFacts(p, c, 1, K(14))
  <2>1. Waiting(p, c, 1, K(14))
    BY <1>8, <1>9 DEF Waiting, R
  <2>2. Leads(p, c, 1, K(14)) /\ K(14) \in Nat \ {0} /\ R(14).op = "wait" /\ R(14).must = FALSE
    BY <1>8, <1>16, <1>17
  <2> QED
    BY <1>12, <2>1, <2>2, LineKinds DEF R
<1>22. LineFacts(p, c, 1, K(16))
  <2>1. Stuck(p, c, 1, K(16))
    BY <1>8 DEF Stuck, R
  <2>2. K(16) \in Nat \ {0} /\ R(16).op = "spin" /\ R(16).must = FALSE
    BY <1>8, <1>17
  <2> QED
    BY <1>12, <2>1, <2>2, LineKinds DEF R
<1>23. CASE k <= n
  BY <1>1, <1>4, <1>13, <1>23
<1>24. CASE ~(k <= n)
  <2> DEFINE i == k - n
  <2>1. k \in Int /\ n < k /\ k <= n + 16
    BY <1>1, <1>4, <1>24
  <2>2. n + i = k /\ i \in 1 .. 16
    BY <1>1, <2>1
  <2>3. K(i) = k
    BY <2>2 DEF K
  <2> HIDE DEF i
  <2>4. \/ i \in {1, 3, 5, 7, 9, 11, 13, 15} \/ i \in {2, 4, 12} \/ i \in {6, 8, 10}
        \/ i = 14 \/ i = 16
    BY <2>2
  <2> QED
    BY <1>18, <1>19, <1>20, <1>21, <1>22, <2>3, <2>4
<1> QED
  BY <1>23, <1>24
(* All tables together. *)
LEMMA Lines ==
    ASSUME NEW p \in Names, NEW c \in Nat, NEW t \in 0 .. NumTasks(p),
           NEW k \in Reached(p, c, t)
    PROVE  LineFacts(p, c, t, k)
<1>1. CASE p = "dagger"
  <2>1. t = 0 \/ t \in 1 .. 2
    BY <1>1 DEF NumTasks
  <2> QED
    BY <1>1, <2>1, MainLines, DaggerLines
<1>2. CASE p = "mutex_chaser"
  <2>1. t = 0 \/ t \in 1 .. 4
    BY <1>2 DEF NumTasks
  <2> QED
    BY <1>2, <2>1, ChaserMainLines, ChaserLines
<1>3. CASE p = "simple_mutex"
  <2>1. t = 0 \/ t = 1 \/ t = 2 \/ t = 3
    BY <1>3 DEF NumTasks
  <2> QED
    BY <1>3, <2>1, MainLines, SimpleLines1, SimpleLines2, SimpleLines3
<1>4. CASE p = "sys_err"
  <2>1. t = 0 \/ t = 1
    BY <1>4 DEF NumTasks
  <2> QED
    BY <1>4, <2>1, SysErrMainLines, SysErrLines
<1>5. CASE p = "stress"
  <2>1. t = 0 \/ t \in 1 .. NUM_TASK - 1 \/ t = NUM_TASK
    BY <1>5, NumTaskAssumption, NumDevicesAssumption DEF NumTasks
  <2> QED
    BY <1>5, <2>1, MainLines, StressLines, StressCheckLines
<1>6. CASE p = "cyclone"
  <2>1. t = 0 \/ t = 1
    BY <1>6 DEF NumTasks
  <2> QED
    BY <1>6, <2>1, MainLines, CycloneLines
<1>7. CASE p = "splat"
  <2>1. t = 0
    BY <1>7 DEF NumTasks
  <2> QED
    BY <1>7, <2>1, SplatLines
<1> QED
  BY <1>1, <1>2, <1>3, <1>4, <1>5, <1>6, <1>7 DEF Names

(* Every thread but splat's tasks, of which there are none, starts at its  *)
(* first line, with nothing locked.                                        *)
LEMMA FirstLine ==
    ASSUME NEW p \in Names, NEW c \in Nat, NEW t \in 0 .. NumTasks(p)
    PROVE  /\ 1 \in Reached(p, c, t)
           /\ LineAt(p, c, t, 1).op # "store"
           /\ HoldsAt(p, t, 1) = {}
<1>1. HoldsAt(p, t, 1) = {}
  BY MutexNumAssumption, OsNumMutexAssumption DEF HoldsAt
<1>2. ASSUME DOMAIN Code(p, c, t).body = 1 .. 5 * (MUTEX_NUM - 1) + 1
               \/ DOMAIN Code(p, c, t).body = 1 .. 2 * (NUM_TASK - 1) + 1
               \/ DOMAIN Code(p, c, t).body = 1 .. MUTEX_NUM + 1
               \/ DOMAIN Code(p, c, t).body = 1 .. MUTEX_NUM + 17
               \/ DOMAIN Code(p, c, t).body \in {1 .. 1, 1 .. 2, 1 .. 3, 1 .. 4, 1 .. 5, 1 .. 6}
      PROVE  1 \in Reached(p, c, t)
  BY <1>2, MutexNumAssumption, OsNumMutexAssumption, NumTaskAssumption,
     NumDevicesAssumption DEF Reached
<1>3. 1 \in Reached(p, c, t) /\ Code(p, c, t).body[1].op # "store"
  <2>1. CASE p = "mutex_chaser" /\ t # 0
    <3> DEFINE dev == IF t = 1 THEN 3 ELSE t - 2
               last == 5 * (MUTEX_NUM - 1) + 1
               Chase(m) == <<Must("lock", m), Do("load", m), Do("store", m),
                             Must("unlock", m), Must("wait", dev)>>
               body == [j \in 1 .. last |-> IF j = last THEN Must("wait", dev)
                                            ELSE Chase((j + 4) \div 5)[1 + ((j - 1) % 5)]]
    <3>1. Code(p, c, t) = ChaserTask(dev)
      BY <2>1 DEF Code, TaskFun
    <3>2. ChaserTask(dev) = Fun(body, last)
      BY Zenon DEF ChaserTask
    <3>3. DOMAIN body = 1 .. last /\ body[1] = Must("lock", 1)
      BY MutexNumAssumption, OsNumMutexAssumption
    <3> HIDE DEF body, dev
    <3>4. Code(p, c, t).body = body
      BY <3>1, <3>2 DEF Fun
    <3> QED
      BY <1>2, <3>3, <3>4 DEF Must
  <2>2. CASE p = "mutex_chaser" /\ t = 0
    <3> DEFINE rest == <<Do("task_create", 4)>>
    <3> DEFINE n == MUTEX_NUM
    <3>1. Code(p, c, t) = Fun(Times(n, Do("create", 0), rest), 1)
      BY <2>2 DEF Code, Main, ChaserMain
    <3>2. n \in Nat /\ 1 \in 1 .. n /\ n + 1 = MUTEX_NUM + 1
      BY MutexNumAssumption, OsNumMutexAssumption
    <3>3. Len(rest) = 1
      OBVIOUS
    <3> HIDE DEF rest, n
    <3>4. Len(rest) \in Nat
      BY <3>3
    <3>5. /\ DOMAIN Code(p, c, t).body = 1 .. n + Len(rest)
          /\ Code(p, c, t).body[1] = Do("create", 0)
      BY <3>1, <3>2, <3>4, TimesLines
    <3> QED
      BY <1>2, <3>2, <3>5, <3>3 DEF Do
  <2>3. CASE p = "sys_err" /\ t # 0
    <3> DEFINE rest == <<
                 Do("errno", "ENOMEM"),
                 Do("unlock", OS_NUM_MUTEX),      Do("errno", "EINVAL"),
                 Do("unlock", OS_NUM_MUTEX - 1),  Do("errno", "EPERM"),
                 Do("lock", OS_NUM_MUTEX),        Do("errno", "EINVAL"),
                 Do("lock", 1),                   Do("result", "0"),
                 Do("lock", 1),                   Do("errno", "EDEADLOCK"),
                 Do("unlock", 1),                 Do("result", "0"),
                 Do("wait", NUM_DEVICES + 1),     Do("errno", "EINVAL"), Spin>>
               n == MUTEX_NUM + 1
    <3>1. Code(p, c, t) = Fun(Times(n, Do("create", 0), rest), 1)
      BY <2>3 DEF Code, TaskFun, SysErrFun1
    <3>2. n \in Nat /\ 1 \in 1 .. n /\ n + 16 = MUTEX_NUM + 17
      BY MutexNumAssumption, OsNumMutexAssumption
    <3>3. Len(rest) = 16
      OBVIOUS
    <3> HIDE DEF rest, n
    <3>4. Len(rest) \in Nat
      BY <3>3
    <3>5. /\ DOMAIN Code(p, c, t).body = 1 .. n + Len(rest)
          /\ Code(p, c, t).body[1] = Do("create", 0)
      BY <3>1, <3>2, <3>4, TimesLines
    <3> QED
      BY <1>2, <3>2, <3>3, <3>5 DEF Do
  <2>4. CASE p = "stress" /\ t = NUM_TASK
    <3> DEFINE i == NUM_TASK - 1
               table == [j \in 1 .. 2 * i + 1 |->
                           IF j \notin 3 .. 2 * i THEN Must("wait", i)
                           ELSE IF j % 2 = 1 THEN Do("load", (j - 3) \div 2)
                                             ELSE Do("compare", (j - 2) \div 2)]
    <3>1. Code(p, c, t) = StressFun2(i)
      BY <2>4, NumTaskAssumption DEF Code, TaskFun
    <3>2. StressFun2(i) = Fun(table, 3)
      BY Zenon DEF StressFun2
    <3>3. DOMAIN table = 1 .. 2 * i + 1 /\ table[1] = Must("wait", i)
      BY NumTaskAssumption, NumDevicesAssumption
    <3> HIDE DEF table
    <3>4. Code(p, c, t).body = table
      BY <3>1, <3>2 DEF Fun
    <3> QED
      BY <1>2, <3>3, <3>4 DEF Must
  <2>5. CASE p # "mutex_chaser" /\ t = 0
    <3>1. \/ Code(p, c, t) = Fun(<<Do("task_create", NumTasks(p))>>, 1)
          \/ Code(p, c, t) = Fun(<<Do("sleep", 20)>>, 1)
          \/ Code(p, c, t) = Fun(<<Do("task_create", OS_MAX_TASKS + 1), Do("errno", "EINVAL"),
                                   Do("bad_pointer", 30), Do("errno", "EFAULT"),
                                   Do("task_create", 1)>>, 1)
      BY <2>5 DEF Names, Code, Main, DaggerMain, SimpleMain, SysErrMain, StressMain,
         CycloneMain, SplatMain, NumTasks
    <3>2. /\ DOMAIN Code(p, c, t).body \in {1 .. 1, 1 .. 5}
          /\ Code(p, c, t).body[1] \in {Do("task_create", NumTasks(p)), Do("sleep", 20),
                                        Do("task_create", OS_MAX_TASKS + 1)}
      BY <3>1 DEF Fun
    <3> QED
      BY <1>2, <3>2 DEF Do
  <2>6. CASE p = "simple_mutex" /\ t # 0
    <3>1. t = 1 \/ t = 2 \/ t = 3
      BY <2>6 DEF NumTasks
    <3>2. \/ Code(p, c, t) = SimpleFun1 \/ Code(p, c, t) = SimpleFun2
          \/ Code(p, c, t) = SimpleFun3
      BY <2>6, <3>1 DEF Code, TaskFun
    <3>3. /\ DOMAIN Code(p, c, t).body \in {1 .. 3, 1 .. 4, 1 .. 6}
          /\ Code(p, c, t).body[1] \in {Do("create", 0), Must("wait", 1), Do("lock", 0)}
      BY <3>2 DEF Fun, SimpleFun1, SimpleFun2, SimpleFun3
    <3> QED
      BY <1>2, <3>3 DEF Do, Must
  <2>7. CASE t # 0 /\ (p \in {"dagger", "cyclone"} \/ (p = "stress" /\ t # NUM_TASK))
    <3>1. t \in 1 .. NumTasks(p) /\ NumTasks(p) \in Nat
      BY <2>7, NumTaskAssumption, NumDevicesAssumption DEF NumTasks
    <3>2. \/ Code(p, c, t) = DaggerTask(t - 1)
          \/ Code(p, c, t) = CycloneFun1(c)
          \/ Code(p, c, t) = StressFun1(t - 1)
      BY <2>7, <3>1, NumTaskAssumption, NumDevicesAssumption DEF Code, TaskFun, NumTasks
    <3>3. /\ DOMAIN Code(p, c, t).body \in {1 .. 1, 1 .. 4}
          /\ Code(p, c, t).body[1] \in {Must("wait", t - 1), Do("load", 0), Do("load", t - 1)}
      BY <3>2 DEF Fun, DaggerTask, CycloneFun1, StressFun1
    <3> QED
      BY <1>2, <3>3 DEF Do, Must
  <2>8. p = "splat" => t = 0
    BY DEF NumTasks
  <2>9. CASE t = 0
    <3>1. p # "mutex_chaser" \/ p = "mutex_chaser"
      OBVIOUS
    <3> QED
      BY <2>2, <2>5, <2>9, <3>1, Zenon
  <2>10. CASE t # 0
    <3>1. \/ p = "mutex_chaser" \/ p = "sys_err" \/ p = "stress" \/ p = "simple_mutex"
          \/ p \in {"dagger", "cyclone"} \/ p = "splat"
      BY DEF Names
    <3>2. t = NUM_TASK \/ t # NUM_TASK
      OBVIOUS
    <3> QED
      BY <2>1, <2>3, <2>4, <2>6, <2>7, <2>8, <2>10, <3>1, <3>2, Zenon
  <2> QED
    BY <2>9, <2>10
<1> QED
  BY <1>1, <1>3 DEF LineAt

(* Only the third line of cyclone depends on the count. *)
LEMMA CountFree ==
    ASSUME NEW p \in Names, NEW c \in Nat, NEW d \in Nat, NEW t \in 0 .. NumTasks(p)
    PROVE  /\ Reached(p, c, t) = Reached(p, d, t)
           /\ \A k \in Reached(p, c, t) :
                /\ After(p, c, t, k) = After(p, d, t, k)
                /\ \/ LineAt(p, c, t, k) = LineAt(p, d, t, k)
                   \/ p = "cyclone" /\ t = 1 /\ k = 3
<1>1. CASE p # "cyclone" \/ t # 1
  <2>1. Code(p, c, t) = Code(p, d, t)
    BY <1>1 DEF Code, TaskFun, NumTasks
  <2> QED
    BY <2>1 DEF Reached, After, LineAt
<1>2. CASE p = "cyclone" /\ t = 1
  <2>1. ASSUME NEW e \in Nat
        PROVE  LET third == IF e > ITE THEN Spin ELSE Do("sleep", 10 * e)
               IN Code(p, e, t) =
                    Fun(<<Do("load", 0), Do("store", 0), third, Do("task_create", 1)>>, 1)
    BY <1>2 DEF Code, TaskFun, CycloneFun1
  <2>2. ASSUME NEW e \in Nat
        PROVE  /\ Reached(p, e, t) = 1 .. 4
               /\ After(p, e, t, 1) = 2 /\ After(p, e, t, 2) = 3
               /\ After(p, e, t, 3) = 4 /\ After(p, e, t, 4) = 1
               /\ LineAt(p, e, t, 1) = Do("load", 0) /\ LineAt(p, e, t, 2) = Do("store", 0)
               /\ LineAt(p, e, t, 4) = Do("task_create", 1)
    <3> DEFINE third == IF e > ITE THEN Spin ELSE Do("sleep", 10 * e)
    <3>1. Code(p, e, t) = Fun(<<Do("load", 0), Do("store", 0), third, Do("task_create", 1)>>, 1)
      BY <2>1
    <3> HIDE DEF third
    <3> QED
      BY <1>2, <3>1 DEF Reached, After, LineAt, Fun
  <2>3. Reached(p, c, t) = 1 .. 4 /\ Reached(p, d, t) = 1 .. 4
    BY <2>2
  <2> SUFFICES ASSUME NEW k \in 1 .. 4
               PROVE  /\ After(p, c, t, k) = After(p, d, t, k)
                      /\ LineAt(p, c, t, k) = LineAt(p, d, t, k) \/ k = 3
    BY <1>2, <2>3
  <2> QED
    BY <2>2
<1> QED
  BY <1>1, <1>2

LEMMA TaskTables ==
    ASSUME NEW p \in Names
    PROVE  /\ NumTasks(p) \in Nat
           /\ \A t, u \in 1 .. NumTasks(p) : Dev(p, t) = Dev(p, u) => t = u
<1>1. NumTasks(p) \in Nat
  BY NumTaskAssumption, NumDevicesAssumption DEF NumTasks
<1>2. ASSUME NEW t \in 1 .. NumTasks(p), NEW u \in 1 .. NumTasks(p), Dev(p, t) = Dev(p, u)
      PROVE  t = u
  <2>1. CASE p = "mutex_chaser"
    BY <1>1, <1>2, <2>1 DEF Dev, NumTasks
  <2>2. CASE p # "mutex_chaser"
    BY <1>1, <1>2, <2>2 DEF Dev
  <2> QED
    BY <2>1, <2>2
<1> QED
  BY <1>1, <1>2
----------------------------------------------------------------------------
(* The thread that runs, and the lines it is at. *)

(* The processor is without a task only before the first task_create.      *)
LEMMA NullTask ==
    ASSUME Inv
    PROVE  cur_tcb = NULL <=> cur_prio[IDLE_PRIO] # IDLE_PRIO
<1>1. cur_tcb \in TasksOf(num_tasks) => cur_tcb # NULL
  BY TaskFacts, PrioFacts DEF Inv
<1> QED
  BY <1>1 DEF Inv, Boot, Booted

LEMMA LiveFacts ==
    ASSUME Inv, PInv
    PROVE  /\ program \in Names
           /\ ct \in Nat
           /\ Live \subseteq 0 .. NumTasks(program)
           /\ Live \subseteq Thread
           /\ 0 \in Live
           /\ NumTasks(program) \in Nat
           /\ cur_tcb # NULL => UserTasks = Live \ {0}
<1>1. program \in Names
  BY TestProgramsAssumption DEF PInv, ProgramTypeOK, Names
<1>2. NumTasks(program) \in Nat
  BY <1>1, TaskTables
<1>3. ct \in Nat
  <2>1. 0 \in Cell
    BY OsMaxTasksAssumption DEF Cell
  <2> QED
    BY <2>1 DEF ct, PInv, ProgramTypeOK
<1>4. cur_tcb # NULL => num_tasks = NumTasks(program)
  BY DEF PInv, Unborn
<1>5. Live \subseteq 0 .. NumTasks(program) /\ 0 \in Live
  BY <1>2 DEF Live
<1>6. Live \subseteq Thread
  <2>1. num_tasks \in 0 .. OS_MAX_TASKS - 2
    BY DEF Inv, TypeOK, SchedTypeOK
  <2> QED
    BY <1>2, <1>4, <2>1, OsMaxTasksAssumption DEF Live, Thread, IDLE_PRIO
<1>7. cur_tcb # NULL => UserTasks = Live \ {0}
  BY <1>2, <1>4 DEF Live, UserTasks
<1> QED
  BY <1>1, <1>2, <1>3, <1>5, <1>6, <1>7

LEMMA SelfFacts ==
    ASSUME Inv, PInv, cur_tcb # IDLE_PRIO
    PROVE  /\ Self \in Live
           /\ Self \in Thread
           /\ cur_tcb = NULL => Self = 0
           /\ cur_tcb # NULL => Self = cur_tcb /\ Self \in UserTasks /\ Self \in Tcb /\ Self # 0
           /\ Line = LineOf(Self)
           /\ NextLine = NextOf(Self)
<1>1. cur_tcb = NULL => Self = 0
  BY DEF Self
<1>2. cur_tcb # NULL => Self = cur_tcb
  BY DEF Self
<1>3. cur_tcb # NULL => Self \in UserTasks /\ Self \in Tcb /\ Self # 0
  <2> SUFFICES ASSUME cur_tcb # NULL PROVE Self \in UserTasks /\ Self \in Tcb /\ Self # 0
    OBVIOUS
  <2>1. cur_tcb \in TasksOf(num_tasks) /\ cur_tcb \in Tcb
    BY Running
  <2>2. cur_tcb \in UserTasks
    BY <2>1, TaskFacts DEF Inv
  <2> QED
    BY <1>2, <2>1, <2>2, LiveFacts
<1>4. Self \in Live /\ Self \in Thread
  BY <1>1, <1>2, <1>3, LiveFacts
<1>5. Line = LineOf(Self) /\ NextLine = NextOf(Self)
  BY DEF Line, NextLine, Current, LineOf, NextOf, LineAt, After
<1> QED
  BY <1>1, <1>2, <1>3, <1>4, <1>5

(* What LineFacts says of the line that a thread is at. *)
LEMMA AtLine ==
    ASSUME Inv, PInv, NEW t \in Live, Works(t)
    PROVE  /\ LineFacts(program, ct, t, pc[t])
           /\ pc[t] \in Nat /\ pc[t] # PANIC
           /\ pc[t] \in Reached(program, ct, t)
           /\ t \in 0 .. NumTasks(program)
<1>1. pc[t] \in Reached(program, ct, t)
  BY DEF Works
<1>2. LineFacts(program, ct, t, pc[t])
  BY <1>1, LiveFacts, Lines
<1>3. pc[t] \in Nat \ {0}
  BY <1>2 DEF LineFacts
<1> QED
  BY <1>1, <1>2, <1>3, LiveFacts DEF PANIC

LEMMA SelfWorks ==
    ASSUME Inv, PInv, cur_tcb # IDLE_PRIO, pc[Self] # PANIC \/ ret[Self] # NONE
    PROVE  Works(Self)
BY SelfFacts DEF PInv, Threads, Panics

(* A thread that a step has nothing to do with. *)
Untouched(t) ==
    /\ program' = program
    /\ pc'[t] = pc[t] /\ ret'[t] = ret[t] /\ end_time'[t] = end_time[t] /\ reg'[t] = reg[t]
    /\ t # 0 => owned'[t] = owned[t]
    /\ \A m \in Mutex : /\ ~bAvailable[m] => ~bAvailable'[m]
                        /\ pHolding_Tcb'[m] = t => pHolding_Tcb[m] = t

LEMMA UntouchedWorks ==
    ASSUME NEW t, Works(t), Untouched(t), val' = val
    PROVE  Works(t)'
<1>1. /\ program' = program /\ pc'[t] = pc[t] /\ ret'[t] = ret[t]
      /\ end_time'[t] = end_time[t] /\ reg'[t] = reg[t] /\ ct' = ct
  BY DEF Untouched, ct
<1>2. LineOf(t)' = LineOf(t) /\ NextOf(t)' = NextOf(t)
  BY <1>1 DEF LineOf, NextOf
<1>3. Held(t)' = Held(t) /\ Created(t)' = Created(t)
  BY <1>1, <1>2 DEF Held, Created
<1>4. t # 0 => owned'[t] = Held(t)'
  BY <1>3 DEF Works, Untouched
<1>5. \A m \in Mutex : m < Created(t)' => ~bAvailable'[m]
  BY <1>3 DEF Works, Untouched
<1>6. Fresh(program, t, pc[t])' => \A m \in Mutex : pHolding_Tcb'[m] # t
  BY <1>1 DEF Works, Untouched
<1>7. Result(t)'
  BY <1>1, <1>2 DEF Works, Result, Untouched
<1> QED
  BY <1>1, <1>2, <1>4, <1>5, <1>6, <1>7 DEF Works
(* What is left to show of a step that stores nothing and creates no task. *)
LEMMA StepKeeps ==
    ASSUME Inv, Inv', LockInv', PInv, val' = val,
           num_tasks' = num_tasks, cur_prio'[IDLE_PRIO] = cur_prio[IDLE_PRIO],
           cur_tcb = NULL => pHolding_Tcb' = pHolding_Tcb,
           program' = program,
           \A t \in Thread \ Live :
               pc'[t] = pc[t] /\ ret'[t] = ret[t] /\ end_time'[t] = end_time[t],
           NEW T, \A t \in Live : t # T => Untouched(t),
           T \in Live => Works(T)' \/ Panics(T)'
    PROVE  Threads' /\ Unborn' /\ Live' = Live
<1>1. cur_tcb' = NULL <=> cur_tcb = NULL
  <2>1. cur_tcb' = NULL <=> cur_prio'[IDLE_PRIO] # IDLE_PRIO
    <3>1. num_tasks' \in Nat /\ IDLE_PRIO \in Nat
      BY OsMaxTasksAssumption DEF Inv, TypeOK, SchedTypeOK, IDLE_PRIO
    <3>2. cur_tcb' \in (1 .. num_tasks') \cup {IDLE_PRIO} => cur_tcb' # NULL
      BY <3>1, NullAssumption
    <3> QED
      BY <3>2 DEF Inv, Boot, Booted, TasksOf, IDLE_PRIO
  <2>2. cur_tcb = NULL <=> cur_prio[IDLE_PRIO] # IDLE_PRIO
    BY NullTask
  <2> QED
    BY <2>1, <2>2 DEF IDLE_PRIO
<1>2. Live' = Live
  BY <1>1 DEF Live
<1>3. Unborn'
  BY <1>1, <1>2 DEF PInv, Unborn, Mutex, Thread
<1>4. ASSUME NEW t \in Live, t # T
      PROVE  Works(t)' \/ Panics(t)'
  <2>1. Untouched(t)
    BY <1>4
  <2>2. CASE Works(t)
    BY <2>1, <2>2, UntouchedWorks
  <2>3. CASE Panics(t)
    BY <2>1, <2>3 DEF Panics, Untouched
  <2> QED
    BY <2>2, <2>3 DEF PInv, Threads
<1>5. Threads'
  BY <1>2, <1>4 DEF Threads
<1> QED
  BY <1>2, <1>3, <1>5

(* A step of the program alone: the kernel's invariants are kept. *)
LEMMA ProgramStep ==
    ASSUME Inv, LockInv, UNCHANGED vars
    PROVE  Inv' /\ LockInv'
<1>1. Inv'
  BY NextInv
<1>2. UNCHANGED <<num_tasks, cur_tcb, cur_prio, holds_lock, bLock, pHolding_Tcb,
                  pSleep_queue, owned, frame>>
  BY DEF vars, schedVars, mutexVars
<1>3. NobodyInLock'
  BY <1>2 DEF LockInv, NobodyInLock
<1> QED
  BY <1>1, <1>2, <1>3, LockKept

(* The running thread goes on to the next line. *)
LEMMA MoveKeeps ==
    ASSUME Inv, LockInv, PInv, UNCHANGED vars, cur_tcb # IDLE_PRIO,
           NEW T, T = Self,
           Works(T), ~Stuck(program, ct, T, pc[T]),
           program' = program, val' = val, events' = events, stored' = stored,
           Goto(NextLine),
           ret' = [ret EXCEPT ![T] = NONE],
           end_time' = [end_time EXCEPT ![T] = NULL],
           \A t \in Thread : t # T => reg'[t] = reg[t],
           reg' = [t \in Thread |-> reg'[t]],
           LineOf(T).op = "load" => reg'[T] = val[LineOf(T).arg],
           LineOf(T).op \in {"lock", "unlock", "create"} => ret[T] # NONE,
           LineOf(T).op # "store"
    PROVE  Inv' /\ LockInv' /\ PInv' /\ Live' = Live
<1>1. Inv' /\ LockInv'
  BY ProgramStep
<1>2. T \in Live /\ T \in Thread /\ NextLine = NextOf(T)
  BY SelfFacts
<1>3. LineFacts(program, ct, T, pc[T]) /\ T \in 0 .. NumTasks(program)
  BY <1>2, AtLine
<1>4. Leads(program, ct, T, pc[T])
  BY <1>3 DEF LineFacts
<1>5. /\ pc' = [pc EXCEPT ![T] = NextOf(T)]
      /\ ret' = [ret EXCEPT ![T] = NONE]
      /\ end_time' = [end_time EXCEPT ![T] = NULL]
  BY <1>2 DEF Goto
<1>6. pc'[T] = NextOf(T) /\ ret'[T] = NONE /\ end_time'[T] = NULL
  BY <1>2, <1>5 DEF PInv, ProgramTypeOK
<1>7. \A t \in Thread : t # T =>
         pc'[t] = pc[t] /\ ret'[t] = ret[t] /\ end_time'[t] = end_time[t]
  BY <1>5 DEF PInv, ProgramTypeOK
<1>8. /\ UNCHANGED <<num_tasks, cur_tcb, cur_prio, bAvailable, pHolding_Tcb, owned>>
      /\ UNCHANGED <<sleep_q, next_match>>
  BY DEF vars, schedVars, mutexVars, deviceVars
<1>9. ct' = ct
  BY DEF ct
<1>10. LineAt(program, ct, T, NextOf(T)).op = "store" =>
         LineOf(T) = Do("load", LineAt(program, ct, T, NextOf(T)).arg)
  BY <1>4 DEF Leads, LineOf, NextOf
<1>11. NextOf(T) \in Reached(program, ct, T)
  BY <1>4 DEF Leads, NextOf
<1>12. NextOf(T) \in Nat
  BY <1>2, <1>3, <1>11, LiveFacts, Lines DEF LineFacts
<1>13. Works(T)'
  <2>1. LineOf(T)' = LineAt(program, ct, T, NextOf(T))
    BY <1>6, <1>9 DEF LineOf
  <2>2. T # 0 => owned'[T] = Held(T)'
    <3>1. Held(T)' = HoldsAt(program, T, NextOf(T))
      BY <1>6 DEF Held
    <3>2. Held(T) = HoldsAt(program, T, NextOf(T))
      BY <1>4 DEF Held, Leads, LineOf, NextOf
    <3> QED
      BY <1>8, <3>1, <3>2 DEF Works
  <2>3. \A m \in Mutex : m < Created(T)' => ~bAvailable'[m]
    <3>1. Created(T)' = CreatedAt(program, T, NextOf(T))
      BY <1>6 DEF Created
    <3>2. CreatedAt(program, T, NextOf(T)) <= Created(T) /\ Created(T) \in Nat
              /\ CreatedAt(program, T, NextOf(T)) \in Nat
      <4>1. CreatedAt(program, T, NextOf(T)) \in Nat /\ CreatedAt(program, T, pc[T]) \in Nat
        BY <1>2, <1>3, <1>11, LiveFacts, Lines DEF LineFacts
      <4>2. CASE LineOf(T).op = "create"
        <5>1. Created(T) = CreatedAt(program, T, NextOf(T))
          BY <4>2 DEF Created
        <5> QED
          BY <4>1, <5>1
      <4>3. CASE LineOf(T).op # "create"
        <5>1. Created(T) = CreatedAt(program, T, pc[T])
          BY <4>3 DEF Created
        <5>2. CreatedAt(program, T, NextOf(T)) <= CreatedAt(program, T, pc[T])
          BY <1>4, <4>3 DEF Leads, LineOf, NextOf
        <5> QED
          BY <4>1, <5>1, <5>2
      <4> QED
        BY <4>2, <4>3
    <3>3. \A m \in Mutex : m < CreatedAt(program, T, NextOf(T)) => m < Created(T)
      BY <3>2, OsNumMutexAssumption DEF Mutex
    <3> QED
      BY <1>8, <3>1, <3>3 DEF Works
  <2>4. Fresh(program, T, pc[T])' => \A m \in Mutex : pHolding_Tcb'[m] # T
    <3>1. Fresh(program, T, NextOf(T)) => Fresh(program, T, pc[T])
      BY <1>4 DEF Leads, NextOf
    <3> QED
      BY <1>6, <1>8, <3>1 DEF Works
  <2>5. LineOf(T)'.op = "store" => reg'[T] = val'[LineOf(T)'.arg]
    <3> DEFINE a == LineAt(program, ct, T, NextOf(T)).arg
    <3> SUFFICES ASSUME LineAt(program, ct, T, NextOf(T)).op = "store"
                 PROVE  reg'[T] = val[a]
      BY <2>1
    <3>1. LineOf(T) = Do("load", a)
      BY <1>10
    <3>2. LineOf(T).op = "load" /\ LineOf(T).arg = a
      BY <3>1 DEF Do
    <3> QED
      BY <3>2
  <2>6. (pc[T] \in Reached(program, ct, T))'
    BY <1>6, <1>9, <1>11
  <2> QED
    BY <1>6, <2>2, <2>3, <2>4, <2>5, <2>6 DEF Works, Result
<1>14. \A t \in Live : t # T => Untouched(t)
  BY <1>7, <1>8, LiveFacts DEF Untouched
<1>15. Threads' /\ Unborn' /\ Live' = Live
  BY <1>1, <1>2, <1>7, <1>8, <1>13, <1>14, StepKeeps
<1>16. ProgramTypeOK'
  <2>1. pc' \in [Thread -> Nat]
    BY <1>5, <1>12 DEF PInv, ProgramTypeOK
  <2>2. ret' = [t \in Thread |-> ret'[t]]
    BY <1>5 DEF PInv, ProgramTypeOK
  <2>3. end_time' \in [Thread -> (0 .. WORD - 1) \cup {NULL}]
    BY <1>5 DEF PInv, ProgramTypeOK
  <2>4. program' \in TestPrograms /\ val' \in [Cell -> Seq(Thread)] /\ events' \in [Device -> Nat]
    BY DEF PInv, ProgramTypeOK
  <2> QED
    BY <2>1, <2>2, <2>3, <2>4 DEF ProgramTypeOK
<1>17. Jobs'
  BY <1>8 DEF PInv, Jobs, Awaits
<1> QED
  BY <1>1, <1>15, <1>16, <1>17 DEF PInv, NoUpdateLost
(* What is known where a thread makes a call or an access to memory. *)
LEMMA AtFacts ==
    ASSUME Inv, PInv, NEW op, At(op)
    PROVE  /\ cur_tcb # IDLE_PRIO
           /\ Self \in Live /\ Self \in Thread
           /\ Works(Self)
           /\ LineOf(Self).op = op /\ Line = LineOf(Self)
           /\ ret[Self] = NONE
           /\ op # "sleep" => end_time[Self] = NULL
<1>1. cur_tcb # IDLE_PRIO /\ ret[Self] = NONE /\ pc[Self] # PANIC /\ Line.op = op
  BY DEF At
<1>2. Works(Self) /\ Self \in Live /\ Self \in Thread /\ Line = LineOf(Self)
  BY <1>1, SelfFacts, SelfWorks
<1> QED
  BY <1>1, <1>2 DEF Works

LEMMA LoadKeeps ==
    ASSUME Inv, LockInv, PInv, Load
    PROVE  Inv' /\ LockInv' /\ PInv' /\ Live' = Live
<1>1. PICK T \in Thread : T = Self
  BY AtFacts DEF Load
<1>2. /\ cur_tcb # IDLE_PRIO /\ Works(T) /\ LineOf(T).op = "load" /\ Line = LineOf(T)
      /\ ret[T] = NONE /\ end_time[T] = NULL
  BY <1>1, AtFacts DEF Load
<1>3. ~Stuck(program, ct, T, pc[T])
  BY <1>2 DEF Stuck, LineOf
<1>4. ret' = [ret EXCEPT ![T] = NONE] /\ end_time' = [end_time EXCEPT ![T] = NULL]
  BY <1>1, <1>2 DEF Load, PInv, ProgramTypeOK
<1>5. reg' = [reg EXCEPT ![T] = val[LineOf(T).arg]]
  BY <1>1, <1>2 DEF Load
<1>6. /\ \A t \in Thread : t # T => reg'[t] = reg[t]
      /\ reg' = [t \in Thread |-> reg'[t]]
      /\ reg'[T] = val[LineOf(T).arg]
  BY <1>1, <1>5 DEF PInv, ProgramTypeOK
<1>7. /\ UNCHANGED vars /\ program' = program /\ val' = val /\ events' = events
      /\ stored' = stored /\ Goto(NextLine)
  BY DEF Load, historyVars
<1> QED
  BY <1>1, <1>2, <1>3, <1>4, <1>6, <1>7, MoveKeeps

LEMMA CheckKeeps ==
    ASSUME Inv, LockInv, PInv, Check
    PROVE  Inv' /\ LockInv' /\ PInv' /\ Live' = Live
<1>1. PICK op \in {"errno", "result", "compare"} : At(op)
  BY DEF Check
<1>2. PICK T \in Thread : T = Self
  BY <1>1, AtFacts
<1>3. /\ cur_tcb # IDLE_PRIO /\ Works(T) /\ LineOf(T).op = op
      /\ ret[T] = NONE /\ end_time[T] = NULL
  BY <1>1, <1>2, AtFacts
<1>4. ~Stuck(program, ct, T, pc[T])
  BY <1>3 DEF Stuck, LineOf
<1>5. ret' = [ret EXCEPT ![T] = NONE] /\ end_time' = [end_time EXCEPT ![T] = NULL]
  BY <1>2, <1>3 DEF Check, PInv, ProgramTypeOK
<1>6. reg' = reg /\ reg' = [t \in Thread |-> reg'[t]]
  BY DEF Check, PInv, ProgramTypeOK
<1>7. /\ UNCHANGED vars /\ program' = program /\ val' = val /\ events' = events
      /\ stored' = stored /\ Goto(NextLine)
  BY DEF Check, historyVars
<1> QED
  BY <1>2, <1>3, <1>4, <1>5, <1>6, <1>7, MoveKeeps

LEMMA SleepReturnKeeps ==
    ASSUME Inv, LockInv, PInv, SleepReturn
    PROVE  Inv' /\ LockInv' /\ PInv' /\ Live' = Live
<1>1. PICK T \in Thread : T = Self
  BY AtFacts DEF SleepReturn
<1>2. /\ cur_tcb # IDLE_PRIO /\ Works(T) /\ LineOf(T).op = "sleep" /\ ret[T] = NONE
  BY <1>1, AtFacts DEF SleepReturn
<1>3. ~Stuck(program, ct, T, pc[T])
  BY <1>2 DEF Stuck, LineOf
<1>4. ret' = [ret EXCEPT ![T] = NONE] /\ end_time' = [end_time EXCEPT ![T] = NULL]
  BY <1>1, <1>2 DEF SleepReturn, PInv, ProgramTypeOK
<1>5. reg' = reg /\ reg' = [t \in Thread |-> reg'[t]]
  BY DEF SleepReturn, PInv, ProgramTypeOK
<1>6. /\ UNCHANGED vars /\ program' = program /\ val' = val /\ events' = events
      /\ stored' = stored /\ Goto(NextLine)
  BY DEF SleepReturn
<1> QED
  BY <1>1, <1>2, <1>3, <1>4, <1>5, <1>6, MoveKeeps

LEMMA SleepCallKeeps ==
    ASSUME Inv, LockInv, PInv, SleepCall
    PROVE  Inv' /\ LockInv' /\ PInv' /\ Live' = Live
<1>1. PICK T \in Thread : T = Self
  BY AtFacts DEF SleepCall
<1>2. /\ T \in Live /\ Works(T) /\ LineOf(T).op = "sleep" /\ Line = LineOf(T) /\ ret[T] = NONE
  BY <1>1, AtFacts DEF SleepCall
<1>3. LineOf(T).arg \in Nat
  BY <1>2, AtLine DEF LineFacts, LineOf
<1>4. /\ end_time' = [end_time EXCEPT ![T] = EndTime(LineOf(T).arg)]
      /\ UNCHANGED vars
      /\ UNCHANGED <<program, pc, ret, reg, val, stored, events>>
  BY <1>1, <1>2 DEF SleepCall
<1>5. EndTime(LineOf(T).arg) \in 0 .. WORD - 1
  <2>1. (system_time + LineOf(T).arg \div 10) \in Int
    BY <1>3 DEF Inv, TypeOK, DeviceTypeOK
  <2>2. WORD \in Nat \ {0}
    BY TimerAssumption
  <2> QED
    BY <2>1, <2>2 DEF EndTime
<1>6. Inv' /\ LockInv'
  BY <1>4, ProgramStep
<1>7. /\ UNCHANGED <<num_tasks, cur_tcb, cur_prio, bAvailable, pHolding_Tcb, owned>>
      /\ UNCHANGED <<sleep_q, next_match>>
  BY <1>4 DEF vars, schedVars, mutexVars, deviceVars
<1>8. \A t \in Thread : t # T => end_time'[t] = end_time[t]
  BY <1>4 DEF PInv, ProgramTypeOK
<1>9. Works(T)'
  <2>1. LineOf(T)' = LineOf(T) /\ NextOf(T)' = NextOf(T) /\ ct' = ct
    BY <1>4 DEF LineOf, NextOf, ct
  <2>2. Held(T)' = Held(T) /\ Created(T)' = Created(T)
    BY <1>4, <2>1 DEF Held, Created
  <2> QED
    BY <1>2, <1>4, <1>7, <2>1, <2>2 DEF Works, Result
<1>10. \A t \in Live : t # T => Untouched(t)
  BY <1>4, <1>7, <1>8, LiveFacts DEF Untouched
<1>11. Threads' /\ Unborn' /\ Live' = Live
  BY <1>2, <1>4, <1>6, <1>7, <1>8, <1>9, <1>10, StepKeeps
<1>12. ProgramTypeOK'
  BY <1>1, <1>4, <1>5 DEF PInv, ProgramTypeOK
<1>13. Jobs'
  BY <1>4, <1>7 DEF PInv, Jobs, Awaits
<1> QED
  BY <1>4, <1>6, <1>11, <1>12, <1>13 DEF PInv, NoUpdateLost

LEMMA WrapperKeeps ==
    ASSUME Inv, LockInv, PInv, Wrapper
    PROVE  Inv' /\ LockInv' /\ PInv' /\ Live' = Live
<1>1. cur_tcb # IDLE_PRIO /\ ret[Self] # NONE
  BY DEF Wrapper
<1>2. PICK T \in Thread : T = Self
  BY <1>1, SelfFacts
<1>3. /\ T \in Live /\ Works(T) /\ Line = LineOf(T) /\ ret[T] # NONE
  BY <1>1, <1>2, SelfFacts, SelfWorks
<1>4. /\ ret' = [ret EXCEPT ![T] = NONE]
      /\ Goto(IF LineOf(T).must /\ ret[T] # "0" THEN PANIC ELSE NextLine)
      /\ UNCHANGED vars
      /\ UNCHANGED <<program, reg, val, end_time, stored, events>>
  BY <1>2, <1>3 DEF Wrapper, historyVars
<1>5. LineOf(T).op \in Calls /\ end_time[T] = NULL
  BY <1>3 DEF Works, Result
<1>6. end_time' = [end_time EXCEPT ![T] = NULL] /\ reg' = [t \in Thread |-> reg'[t]]
  BY <1>4, <1>5 DEF PInv, ProgramTypeOK
<1>7. CASE ~(LineOf(T).must /\ ret[T] # "0")
  <2>1. ~Stuck(program, ct, T, pc[T])
    <3>1. LineOf(T).op # "spin"
      BY <1>5 DEF Calls
    <3>2. ASSUME LineOf(T).op = "wait", LineOf(T).must, HoldsAt(program, T, pc[T]) # {}
          PROVE  FALSE
      <4>1. Held(T) = HoldsAt(program, T, pc[T])
        BY <3>2 DEF Held
      <4>2. T # 0
        BY <1>3, <3>2, AtLine DEF LineFacts, LineOf, Waiting
      <4> QED
        BY <1>3, <1>7, <3>2, <4>1, <4>2 DEF Works, Result
    <3> QED
      BY <3>1, <3>2 DEF Stuck, LineOf
  <2>2. Goto(NextLine)
    BY <1>4, <1>7
  <2>3. LineOf(T).op # "load" /\ LineOf(T).op # "store"
    BY <1>5 DEF Calls
  <2> QED
    BY <1>1, <1>2, <1>3, <1>4, <1>6, <2>1, <2>2, <2>3, MoveKeeps
<1>8. CASE LineOf(T).must /\ ret[T] # "0"
  <2>1. Inv' /\ LockInv'
    BY <1>4, ProgramStep
  <2>2. /\ UNCHANGED <<num_tasks, cur_tcb, cur_prio, bAvailable, pHolding_Tcb, owned>>
        /\ UNCHANGED <<sleep_q, next_match>>
    BY <1>4 DEF vars, schedVars, mutexVars, deviceVars
  <2>3. pc' = [pc EXCEPT ![T] = PANIC]
    BY <1>2, <1>4, <1>8 DEF Goto
  <2>4. T # 0 /\ owned[T] # {}
    BY <1>3, <1>8 DEF Works, Result
  <2>5. Panics(T)'
    BY <1>4, <1>5, <2>2, <2>3, <2>4 DEF Panics, PInv, ProgramTypeOK
  <2>6. \A t \in Thread : t # T => pc'[t] = pc[t] /\ ret'[t] = ret[t]
    BY <1>4, <2>3 DEF PInv, ProgramTypeOK
  <2>7. \A t \in Live : t # T => Untouched(t)
    BY <1>4, <2>2, <2>6, LiveFacts DEF Untouched
  <2>8. Threads' /\ Unborn' /\ Live' = Live
    BY <1>3, <1>4, <2>1, <2>2, <2>5, <2>6, <2>7, StepKeeps
  <2>9. ProgramTypeOK'
    <3>1. pc' \in [Thread -> Nat]
      BY <2>3 DEF PInv, ProgramTypeOK, PANIC
    <3>2. ret' = [t \in Thread |-> ret'[t]]
      BY <1>4 DEF PInv, ProgramTypeOK
    <3> QED
      BY <1>4, <3>1, <3>2 DEF PInv, ProgramTypeOK
  <2>10. Jobs'
    BY <1>4, <2>2 DEF PInv, Jobs, Awaits
  <2> QED
    BY <1>4, <2>1, <2>8, <2>9, <2>10 DEF PInv, NoUpdateLost
<1> QED
  BY <1>7, <1>8
(* The running task alone is at the store to a cell: mutex_chaser's tasks  *)
(* store with the cell's mutex locked, all others to a cell of their own.  *)
LEMMA StoresApart ==
    ASSUME Inv, LockInv, PInv, NEW T \in Live, T = Self, Works(T), LineOf(T).op = "store",
           cur_tcb # IDLE_PRIO,
           NEW t \in Live, Works(t), LineOf(t).op = "store", t # T
    PROVE  LineOf(t).arg # LineOf(T).arg /\ LineOf(t).arg \in Cell
<1>1. Stores(program, ct, T, pc[T]) /\ Stores(program, ct, t, pc[t])
  BY AtLine DEF LineFacts, LineOf
<1>2. /\ T # 0 /\ t # 0 /\ T \in Nat /\ t \in Nat
      /\ T = cur_tcb /\ t \in Tcb
  <2>1. T # 0 /\ t # 0
    BY <1>1 DEF Stores
  <2>2. T = cur_tcb /\ cur_tcb # NULL
    BY <2>1, SelfFacts
  <2> QED
    BY <2>1, <2>2, LiveFacts, TaskFacts, OsMaxTasksAssumption
    DEF Inv, Thread, IDLE_PRIO, Tcb
<1>3. LineOf(t).arg \in Cell
  <2>1. t \in 0 .. OS_MAX_TASKS - 2 /\ OS_MAX_TASKS \in Nat
    BY LiveFacts, OsMaxTasksAssumption DEF Thread, IDLE_PRIO
  <2> QED
    BY <1>1, <1>2, <2>1, MutexNumAssumption, OsNumMutexAssumption DEF Stores, LineOf, Cell
<1>4. CASE program = "mutex_chaser"
  <2>1. LineOf(t).arg \in HoldsAt(program, t, pc[t])
    BY <1>1, <1>4 DEF Stores, LineOf
  <2>2. owned[t] # {}
    <3>1. Held(t) = HoldsAt(program, t, pc[t])
      BY DEF Held
    <3> QED
      BY <1>2, <2>1, <3>1 DEF Works
  <2> QED
    BY <1>2, <1>3, <2>2 DEF LockInv, HolderRuns
<1>5. CASE program # "mutex_chaser"
  BY <1>1, <1>2, <1>5, <1>3 DEF Stores, LineOf
<1> QED
  BY <1>4, <1>5

LEMMA StoreKeeps ==
    ASSUME Inv, LockInv, PInv, Store
    PROVE  Inv' /\ LockInv' /\ PInv' /\ Live' = Live
<1>1. PICK T \in Thread : T = Self
  BY AtFacts DEF Store
<1>2. /\ cur_tcb # IDLE_PRIO /\ T \in Live /\ Works(T) /\ LineOf(T).op = "store"
      /\ Line = LineOf(T) /\ ret[T] = NONE /\ end_time[T] = NULL /\ NextLine = NextOf(T)
  BY <1>1, AtFacts, SelfFacts DEF Store
<1> DEFINE a == LineOf(T).arg
<1>3. /\ UNCHANGED vars
      /\ UNCHANGED <<program, ret, reg, end_time, events>>
      /\ val' = [val EXCEPT ![LineOf(T).arg] = Append(reg[T], T)]
      /\ stored' = [stored EXCEPT ![LineOf(T).arg] = Append(stored[LineOf(T).arg], T)]
      /\ pc' = [pc EXCEPT ![T] = NextOf(T)]
  BY <1>1, <1>2 DEF Store, Goto
<1>4. reg[T] = val[LineOf(T).arg]
  BY <1>2 DEF Works
<1>5. Inv' /\ LockInv'
  BY <1>3, ProgramStep
<1>6. NoUpdateLost'
  BY <1>3, <1>4 DEF PInv, NoUpdateLost
<1>7. val' \in [Cell -> Seq(Thread)]
  <2>1. CASE LineOf(T).arg \in Cell
    <3>1. Append(reg[T], T) \in Seq(Thread)
      BY <1>1, <1>4, <2>1 DEF PInv, ProgramTypeOK
    <3> QED
      BY <1>3, <3>1 DEF PInv, ProgramTypeOK
  <2>2. CASE LineOf(T).arg \notin Cell
    BY <1>3, <2>2 DEF PInv, ProgramTypeOK
  <2> QED
    BY <2>1, <2>2
<1>8. ct' \in Nat /\ ct \in Nat
  <2>1. 0 \in Cell
    BY OsMaxTasksAssumption DEF Cell
  <2> QED
    BY <1>7, <2>1, LiveFacts DEF ct
<1>9. LineFacts(program, ct, T, pc[T]) /\ pc[T] \in Reached(program, ct, T)
  BY <1>2, AtLine
<1>10. Leads(program, ct, T, pc[T]) /\ Stores(program, ct, T, pc[T])
  BY <1>2, <1>9 DEF LineFacts, LineOf, Stuck
<1>11. /\ UNCHANGED <<num_tasks, cur_tcb, cur_prio, bAvailable, pHolding_Tcb, owned>>
       /\ UNCHANGED <<sleep_q, next_match>>
  BY <1>3 DEF vars, schedVars, mutexVars, deviceVars
<1>12. Live' = Live
  BY <1>3, <1>11 DEF Live
<1>13. T # 0 /\ (program = "cyclone" => T = 1)
  <2>1. T # 0
    BY <1>10 DEF Stores
  <2> QED
    BY <1>2, <2>1, LiveFacts DEF NumTasks
<1>14. pc'[T] = NextOf(T)
  BY <1>1, <1>3 DEF PInv, ProgramTypeOK
<1>15. NextOf(T) \in Reached(program, ct, T)
  BY <1>10 DEF Leads, NextOf
<1>16. Reached(program, ct', T) = Reached(program, ct, T)
  BY <1>2, <1>8, LiveFacts, CountFree
<1>17. LineAt(program, ct', T, NextOf(T)).op # "store"
  <2>1. LineAt(program, ct, T, NextOf(T)).op # "store"
    <3>1. LineOf(T) # Do("load", LineAt(program, ct, T, NextOf(T)).arg)
      BY <1>2 DEF Do
    <3> QED
      BY <1>10, <3>1 DEF Leads, LineOf, NextOf
  <2>2. LineAt(program, ct, T, NextOf(T)) = LineAt(program, ct', T, NextOf(T))
          \/ (program = "cyclone" /\ T = 1 /\ NextOf(T) = 3)
    BY <1>2, <1>8, <1>15, LiveFacts, CountFree
  <2>3. program = "cyclone" /\ T = 1 => LineAt(program, ct', T, 3).op # "store"
    <3> SUFFICES ASSUME program = "cyclone", T = 1 PROVE LineAt(program, ct', T, 3).op # "store"
      OBVIOUS
    <3> DEFINE third == IF ct' > ITE THEN Spin ELSE Do("sleep", 10 * ct')
    <3>1. Code(program, ct', T) =
            Fun(<<Do("load", 0), Do("store", 0), third, Do("task_create", 1)>>, 1)
      BY DEF Code, TaskFun, CycloneFun1
    <3>2. third.op # "store"
      BY DEF Spin, Do
    <3> HIDE DEF third
    <3>3. LineAt(program, ct', T, 3) = third
      BY <3>1 DEF LineAt, Fun
    <3> QED
      BY <3>2, <3>3
  <2> QED
    BY <2>1, <2>2, <2>3
<1>18. Works(T)'
  <2>1. owned'[T] = Held(T)'
    <3>1. Held(T) = HoldsAt(program, T, pc[T])
      BY <1>2 DEF Held
    <3>2. HoldsAt(program, T, NextOf(T)) = HoldsAt(program, T, pc[T])
      BY <1>2, <1>10 DEF Leads, LineOf, NextOf
    <3>3. Held(T)' = HoldsAt(program, T, NextOf(T))
      BY <1>2, <1>3, <1>14 DEF Held
    <3> QED
      BY <1>2, <1>11, <1>13, <3>1, <3>2, <3>3 DEF Works
  <2>2. \A m \in Mutex : m < Created(T)' => ~bAvailable'[m]
    <3>1. Created(T)' = CreatedAt(program, T, NextOf(T))
      BY <1>2, <1>3, <1>14 DEF Created
    <3>2. Created(T) = CreatedAt(program, T, pc[T])
      BY <1>2 DEF Created
    <3>3. CreatedAt(program, T, NextOf(T)) <= CreatedAt(program, T, pc[T])
      BY <1>2, <1>10 DEF Leads, LineOf, NextOf
    <3>4. CreatedAt(program, T, NextOf(T)) \in Nat /\ CreatedAt(program, T, pc[T]) \in Nat
      BY <1>2, <1>9, <1>15, LiveFacts, Lines DEF LineFacts
    <3>5. \A m \in Mutex : m < CreatedAt(program, T, NextOf(T)) => m < CreatedAt(program, T, pc[T])
      BY <3>3, <3>4, OsNumMutexAssumption DEF Mutex
    <3> QED
      BY <1>2, <1>11, <3>1, <3>2, <3>5 DEF Works
  <2>3. Fresh(program, T, pc[T])' => \A m \in Mutex : pHolding_Tcb'[m] # T
    <3>1. Fresh(program, T, NextOf(T)) => Fresh(program, T, pc[T])
      BY <1>10 DEF Leads, NextOf
    <3> QED
      BY <1>2, <1>3, <1>11, <1>14, <3>1 DEF Works
  <2>4. LineOf(T)'.op # "store"
    BY <1>3, <1>14, <1>17 DEF LineOf
  <2>5. (pc[T] \in Reached(program, ct, T))'
    BY <1>3, <1>14, <1>15, <1>16
  <2> QED
    BY <1>2, <1>3, <2>1, <2>2, <2>3, <2>4, <2>5 DEF Works, Result
<1>19. ASSUME NEW t \in Live, t # T PROVE Works(t)' \/ Panics(t)'
  <2>1. /\ pc'[t] = pc[t] /\ ret'[t] = ret[t] /\ end_time'[t] = end_time[t]
        /\ reg'[t] = reg[t] /\ owned'[t] = owned[t] /\ program' = program
    BY <1>3, <1>11, <1>19, LiveFacts DEF PInv, ProgramTypeOK
  <2>2. CASE Panics(t)
    BY <2>1, <2>2 DEF Panics
  <2>3. CASE Works(t)
    <3>1. pc[t] \in Reached(program, ct, t)
      BY <2>3 DEF Works
    <3>2. program # "cyclone" \/ t # 1
      BY <1>13, <1>19
    <3>3. /\ Reached(program, ct', t) = Reached(program, ct, t)
          /\ After(program, ct', t, pc[t]) = After(program, ct, t, pc[t])
          /\ LineAt(program, ct', t, pc[t]) = LineAt(program, ct, t, pc[t])
      BY <1>8, <3>1, <3>2, LiveFacts, CountFree
    <3>4. LineOf(t)' = LineOf(t) /\ NextOf(t)' = NextOf(t)
      BY <2>1, <3>3 DEF LineOf, NextOf
    <3>5. Held(t)' = Held(t) /\ Created(t)' = Created(t)
      BY <2>1, <3>4 DEF Held, Created
    <3>6. LineOf(t)'.op = "store" => reg'[t] = val'[LineOf(t)'.arg]
      <4> SUFFICES ASSUME LineOf(t).op = "store" PROVE reg[t] = val'[LineOf(t).arg]
        BY <2>1, <3>4
      <4>1. LineOf(t).arg # LineOf(T).arg /\ LineOf(t).arg \in Cell
        BY <1>1, <1>2, <1>19, <2>3, StoresApart
      <4>2. val'[LineOf(t).arg] = val[LineOf(t).arg]
        BY <1>3, <4>1 DEF PInv, ProgramTypeOK
      <4> QED
        BY <2>3, <4>2 DEF Works
    <3>7. (pc[t] \in Reached(program, ct, t))'
      BY <2>1, <3>1, <3>3
    <3>8. t # 0 => owned'[t] = Held(t)'
      BY <2>1, <2>3, <3>5 DEF Works
    <3>9. \A m \in Mutex : m < Created(t)' => ~bAvailable'[m]
      BY <1>11, <2>3, <3>5 DEF Works
    <3>10. Fresh(program, t, pc[t])' => \A m \in Mutex : pHolding_Tcb'[m] # t
      BY <1>11, <2>1, <2>3 DEF Works
    <3>11. Result(t)' /\ (end_time'[t] # NULL => LineOf(t)'.op = "sleep" /\ ret'[t] = NONE)
      BY <2>1, <2>3, <3>4 DEF Works, Result
    <3> QED
      BY <3>6, <3>7, <3>8, <3>9, <3>10, <3>11 DEF Works
  <2> QED
    BY <2>2, <2>3 DEF PInv, Threads
<1>20. Threads'
  BY <1>12, <1>18, <1>19 DEF Threads
<1>21. Unborn'
  <2>1. \A t \in Thread \ Live : pc'[t] = pc[t]
    BY <1>2, <1>3 DEF PInv, ProgramTypeOK
  <2> QED
    BY <1>3, <1>11, <1>12, <2>1 DEF PInv, Unborn, Mutex, Thread
<1>22. ProgramTypeOK'
  <2>1. NextOf(T) \in Nat
    BY <1>2, <1>8, <1>15, LiveFacts, Lines DEF LineFacts
  <2> QED
    BY <1>3, <1>7, <2>1 DEF PInv, ProgramTypeOK
<1>23. Jobs'
  BY <1>3, <1>11 DEF PInv, Jobs, Awaits
<1> QED
  BY <1>5, <1>6, <1>12, <1>20, <1>21, <1>22, <1>23 DEF PInv
----------------------------------------------------------------------------
(* The system calls. *)

(* The running thread is at the end of a call, which returns r. *)
LEMMA CallKeeps ==
    ASSUME Inv, PInv, Inv', LockInv', NEW T \in Live, Works(T), LineOf(T).op \in Calls,
           ret[T] = NONE, NEW r, Returns(r), T = Self, stored' = stored,
           num_tasks' = num_tasks, cur_prio'[IDLE_PRIO] = cur_prio[IDLE_PRIO],
           cur_tcb = NULL => pHolding_Tcb' = pHolding_Tcb,
           \A m \in Mutex : ~bAvailable[m] => ~bAvailable'[m],
           \A t \in Live : t # T =>
             /\ t # 0 => owned'[t] = owned[t]
             /\ \A m \in Mutex : pHolding_Tcb'[m] = t => pHolding_Tcb[m] = t,
           T # 0 => owned'[T] = HoldsAt(program, T, IF LineOf(T).op \in {"lock", "unlock"}
                                                    THEN NextOf(T) ELSE pc[T]),
           \A m \in Mutex :
             m < CreatedAt(program, T, IF LineOf(T).op = "create" THEN NextOf(T) ELSE pc[T])
               => ~bAvailable'[m],
           Fresh(program, T, pc[T]) => \A m \in Mutex : pHolding_Tcb'[m] # T,
           LineOf(T).must /\ r # "0" => T # 0 /\ owned'[T] # {},
           LineOf(T).must /\ LineOf(T).op = "wait" /\ T # 0 /\ owned'[T] # {} => r # "0",
           r # NONE, Jobs', events' \in [Device -> Nat]
    PROVE  PInv' /\ Live' = Live
<1>1. /\ ret' = [ret EXCEPT ![T] = r]
      /\ UNCHANGED <<program, pc, reg, val, end_time>>
  BY DEF Returns
<1>2. T \in Thread
  BY LiveFacts
<1>3. ret'[T] = r /\ \A t \in Thread : t # T => ret'[t] = ret[t]
  BY <1>1, <1>2 DEF PInv, ProgramTypeOK
<1>4. LineOf(T)' = LineOf(T) /\ NextOf(T)' = NextOf(T) /\ ct' = ct
  BY <1>1 DEF LineOf, NextOf, ct
<1>5. Works(T)'
  <2>1. T # 0 => owned'[T] = Held(T)'
    BY <1>1, <1>3, <1>4 DEF Held
  <2>2. Created(T)' =
          CreatedAt(program, T, IF LineOf(T).op = "create" THEN NextOf(T) ELSE pc[T])
    BY <1>1, <1>3, <1>4 DEF Created
  <2>3. Result(T)'
    BY <1>3, <1>4 DEF Result
  <2>4. end_time'[T] = NULL /\ LineOf(T).op # "store"
    <3>1. LineOf(T).op # "sleep" /\ LineOf(T).op # "store"
      BY DEF Calls
    <3> QED
      BY <1>1, <3>1 DEF Works
  <2>5. (pc[T] \in Reached(program, ct, T))'
    BY <1>1, <1>4 DEF Works
  <2>6. Fresh(program, T, pc[T])' => \A m \in Mutex : pHolding_Tcb'[m] # T
    BY <1>1
  <2> QED
    BY <1>4, <2>1, <2>2, <2>3, <2>4, <2>5, <2>6 DEF Works
<1>6. \A t \in Live : t # T => Untouched(t)
  BY <1>1, <1>3, LiveFacts DEF Untouched
<1>7. \A t \in Thread \ Live :
        pc'[t] = pc[t] /\ ret'[t] = ret[t] /\ end_time'[t] = end_time[t]
  BY <1>1, <1>3
<1>8. Threads' /\ Unborn' /\ Live' = Live
  BY <1>1, <1>5, <1>6, <1>7, StepKeeps
<1>9. ProgramTypeOK'
  BY <1>1 DEF PInv, ProgramTypeOK
<1> QED
  BY <1>1, <1>8, <1>9 DEF PInv, NoUpdateLost

LEMMA CreateCallKeeps ==
    ASSUME Inv, LockInv, PInv, CreateCall
    PROVE  Inv' /\ LockInv' /\ PInv' /\ Live' = Live /\ [Next]_vars
<1>1. PICK T \in Live : T = Self
  BY AtFacts DEF CreateCall
<1>2. /\ Works(T) /\ LineOf(T).op = "create" /\ ret[T] = NONE
  BY <1>1, AtFacts DEF CreateCall
<1>3. PICK r \in {"0", "ENOMEM"} :
        /\ Returns(r)
        /\ \/ r = "0" /\ MutexCreate /\ UNCHANGED deviceVars
           \/ r = "ENOMEM" /\ UNCHANGED vars /\ \A m \in Mutex : ~bAvailable[m]
  BY DEF CreateCall
<1>4. [Next]_vars
  BY <1>3 DEF Next, SystemCall
<1>5. /\ UNCHANGED <<bLock, pHolding_Tcb, pSleep_queue, lock_arg, owned>>
      /\ UNCHANGED <<num_tasks, cur_tcb, cur_prio, holds_lock, frame>>
      /\ UNCHANGED <<sleep_q, next_match>>
  BY <1>3 DEF MutexCreate, vars, schedVars, mutexVars, deviceVars
<1>6. Inv' /\ LockInv'
  <2>1. Inv'
    BY <1>4, NextInv
  <2>2. NobodyInLock'
    BY <1>5 DEF LockInv, NobodyInLock
  <2> QED
    BY <1>5, <2>1, <2>2, LockKept
<1>7. LineFacts(program, ct, T, pc[T]) /\ T \in 0 .. NumTasks(program)
  BY <1>2, AtLine
<1>8. Leads(program, ct, T, pc[T]) /\ ~LineOf(T).must
  BY <1>2, <1>7 DEF LineFacts, LineOf, Stuck
<1>9. owned[T] = HoldsAt(program, T, pc[T]) \/ T = 0
  BY <1>2 DEF Works, Held
<1>10. /\ \A m \in Mutex : ~bAvailable[m] => ~bAvailable'[m]
       /\ \A m \in Mutex : m < CreatedAt(program, T, NextOf(T)) => ~bAvailable'[m]
  <2> DEFINE n == CreatedAt(program, T, pc[T])
             n1 == CreatedAt(program, T, NextOf(T))
  <2>1. n \in Nat /\ n1 \in Nat /\ (n1 <= n \/ n1 = n + 1)
    <3>1. NextOf(T) \in Reached(program, ct, T)
      BY <1>8 DEF Leads, NextOf
    <3>2. n \in Nat /\ n1 \in Nat
      BY <1>7, <3>1, LiveFacts, Lines DEF LineFacts
    <3> QED
      BY <1>8, <3>2 DEF Leads, NextOf
  <2>2. \A m \in Mutex : m < n => ~bAvailable[m]
    BY <1>2 DEF Works, Created, NONE
  <2>3. \A m \in Mutex : m \in Nat
    BY OsNumMutexAssumption DEF Mutex
  <2> HIDE DEF n, n1
  <2>4. CASE \A m \in Mutex : ~bAvailable[m] /\ ~bAvailable'[m]
    BY <2>4
  <2>5. CASE MutexCreate
    <3>1. PICK m \in Mutex : /\ bAvailable[m]
                             /\ \A k \in Mutex : k < m => ~bAvailable[k]
                             /\ bAvailable' = [bAvailable EXCEPT ![m] = FALSE]
      BY <2>5 DEF MutexCreate
    <3>2. bAvailable \in [Mutex -> BOOLEAN]
      BY DEF Inv, TypeOK, MutexTypeOK
    <3>3. \A k \in Mutex : bAvailable'[k] => bAvailable[k] /\ k # m
      BY <3>1, <3>2
    <3>4. ~(m < n)
      BY <2>2, <3>1
    <3>5. ASSUME NEW k \in Mutex, k < n1 PROVE ~bAvailable'[k]
      <4>1. k < n \/ k = n
        BY <2>1, <2>3, <3>5
      <4>2. k < n \/ k < m \/ k = m
        BY <2>1, <2>3, <3>4, <4>1
      <4> QED
        BY <2>2, <3>1, <3>3, <4>2
    <3> QED
      BY <3>3, <3>5 DEF n1
  <2>6. MutexCreate \/ \A m \in Mutex : ~bAvailable[m] /\ ~bAvailable'[m]
    BY <1>3 DEF vars, mutexVars
  <2> QED
    BY <2>4, <2>5, <2>6
<1>11. Jobs' /\ events' \in [Device -> Nat] /\ stored' = stored
  <2>1. UNCHANGED <<program, events, stored>>
    BY <1>3 DEF CreateCall, historyVars, Returns
  <2> QED
    BY <1>5, <2>1 DEF PInv, ProgramTypeOK, Jobs, Awaits
<1>12. Fresh(program, T, pc[T]) => \A m \in Mutex : pHolding_Tcb'[m] # T
  BY <1>2, <1>5 DEF Works
<1>13. r # NONE /\ LineOf(T).op \in Calls
  BY <1>2 DEF NONE, Calls
<1> QED
  BY <1>1, <1>2, <1>3, <1>4, <1>5, <1>6, <1>8, <1>9, <1>10, <1>11, <1>12, <1>13, CallKeeps
(* The devices and their sleepers are left alone. *)
LEMMA SameJobs ==
    ASSUME PInv, program' = program, UNCHANGED <<sleep_q, next_match, events>>,
           cur_tcb = NULL => cur_tcb' = NULL
    PROVE  Jobs'
BY DEF PInv, Jobs, Awaits

LEMMA LockCallKeeps ==
    ASSUME Inv, LockInv, PInv, LockCall
    PROVE  Inv' /\ LockInv' /\ PInv' /\ Live' = Live /\ [Next]_vars
<1>1. PICK T \in Live : T = Self
  BY AtFacts DEF LockCall
<1>2. /\ Works(T) /\ LineOf(T).op = "lock" /\ ret[T] = NONE /\ Line = LineOf(T)
      /\ cur_tcb # IDLE_PRIO
  BY <1>1, AtFacts DEF LockCall
<1>3. LineFacts(program, ct, T, pc[T])
  BY <1>2, AtLine
<1>4. PICK m : m = LineOf(T).arg
  OBVIOUS
<1>5. /\ T # 0 /\ m \in Nat
      /\ ~(m \in Mutex /\ m \notin HoldsAt(program, T, pc[T])) => ~LineOf(T).must
      /\ Fresh(program, T, pc[T]) => m \notin Mutex
      /\ HoldsAt(program, T, NextOf(T)) =
           IF m \in Mutex /\ m \notin HoldsAt(program, T, pc[T])
           THEN HoldsAt(program, T, pc[T]) \cup {m} ELSE HoldsAt(program, T, pc[T])
  BY <1>2, <1>3, <1>4 DEF LineFacts, Locks, LineOf, NextOf
<1>6. T = cur_tcb /\ cur_tcb # NULL /\ T \in Tcb /\ cur_tcb \in UserTasks
  BY <1>1, <1>2, <1>5, SelfFacts
<1>7. /\ owned[T] = HoldsAt(program, T, pc[T])
      /\ end_time[T] = NULL
      /\ \A k \in Mutex : k < CreatedAt(program, T, pc[T]) => ~bAvailable[k]
      /\ Fresh(program, T, pc[T]) => \A k \in Mutex : pHolding_Tcb[k] # T
  BY <1>2, <1>5 DEF Works, Held, Created, NONE
<1>8. LineOf(T).op \in Calls
  BY <1>2 DEF Calls
<1>9. UNCHANGED <<deviceVars, historyVars>> /\ UNCHANGED <<sleep_q, next_match, events, stored>>
  BY DEF LockCall, deviceVars, historyVars
<1>10. \A k \in Mutex : bLock[k] => k \in owned[T]
  BY <1>6 DEF LockInv, RecordsAgree, HolderRuns
<1>11. PICK r \in {"EDEADLOCK", "EINVAL", "0"} :
         /\ Returns(r)
         /\ \/ MutexLockFails(m) /\ r # "0"
            \/ (MutexLockTake(m) \/ MutexLockSleep(m)) /\ r = "0"
  BY <1>2, <1>4 DEF LockCall
<1>12. r # NONE /\ program' = program
  BY <1>11 DEF NONE, Returns
<1>13. Jobs' /\ events' \in [Device -> Nat]
  BY <1>6, <1>9, <1>12, SameJobs DEF PInv, ProgramTypeOK
<1>14. CASE MutexLockFails(m)
  <2>1. UNCHANGED vars
    BY <1>9, <1>14 DEF MutexLockFails, vars
  <2>2. /\ UNCHANGED <<num_tasks, cur_tcb, cur_prio, bAvailable, pHolding_Tcb, owned>>
    BY <2>1 DEF vars, schedVars, mutexVars
  <2>3. Inv' /\ LockInv'
    BY <2>1, ProgramStep
  <2>4. ~(m \in Mutex /\ m \notin HoldsAt(program, T, pc[T]))
    BY <1>7, <1>10, <1>14 DEF MutexLockFails
  <2>5. owned'[T] = HoldsAt(program, T, NextOf(T)) /\ ~LineOf(T).must
    BY <1>5, <1>7, <2>2, <2>4
  <2> QED
    BY <1>1, <1>2, <1>7, <1>8, <1>9, <1>11, <1>12, <1>13, <2>1, <2>2, <2>3, <2>5, CallKeeps
<1>15. CASE MutexLockTake(m)
  <2>1. m \in Mutex /\ m \in MutexArg /\ ~bLock[m]
    BY <1>15, OsNumMutexAssumption DEF MutexLockTake, Mutex, MutexArg
  <2>2. [Next]_vars
    BY <1>9, <1>15, <2>1 DEF Next, SystemCall
  <2>3. Inv' /\ LockInv'
    BY <1>15, <2>1, <2>2, NextInv, TakeKeeps
  <2>4. /\ UNCHANGED <<num_tasks, cur_tcb, bAvailable>>
        /\ cur_prio' = [cur_prio EXCEPT ![T] = 0]
        /\ pHolding_Tcb' = [pHolding_Tcb EXCEPT ![m] = T]
        /\ owned' = [owned EXCEPT ![T] = owned[T] \cup {m}]
    BY <1>6, <1>15 DEF MutexLockTake, Acquire
  <2>5. m \notin owned[T]
    BY <1>6, <2>1 DEF LockInv, RecordsAgree
  <2>6. owned'[T] = owned[T] \cup {m} /\ \A t \in Tcb : t # T => owned'[t] = owned[t]
    BY <1>6, <2>4 DEF Inv, TypeOK, MutexTypeOK
  <2>7. owned'[T] = HoldsAt(program, T, NextOf(T))
    BY <1>5, <1>7, <2>1, <2>5, <2>6
  <2>8. cur_prio'[IDLE_PRIO] = cur_prio[IDLE_PRIO]
    BY <1>2, <1>6, <2>4 DEF Inv, TypeOK, SchedTypeOK
  <2>9. \A k \in Mutex : pHolding_Tcb'[k] = IF k = m THEN T ELSE pHolding_Tcb[k]
    BY <2>1, <2>4 DEF Inv, TypeOK, MutexTypeOK
  <2>10. \A t \in Live : t # T => /\ t # 0 => owned'[t] = owned[t]
                                /\ \A k \in Mutex : pHolding_Tcb'[k] = t => pHolding_Tcb[k] = t
    <3>1. \A t \in Live : t # 0 => t \in Tcb
      BY <1>6, LiveFacts, TaskFacts DEF Inv
    <3> QED
      BY <2>6, <2>9, <3>1
  <2>11. r = "0"
    BY <1>11, <1>15, <2>1 DEF MutexLockFails, MutexLockTake
  <2>12. ~Fresh(program, T, pc[T])
    BY <1>5, <2>1
  <2> QED
    BY <1>1, <1>2, <1>6, <1>7, <1>8, <1>9, <1>11, <1>12, <1>13, <2>2, <2>3, <2>4, <2>7, <2>8,
       <2>10, <2>11, <2>12, CallKeeps
<1>16. ~MutexLockSleep(m)
  <2>1. m \in Mutex => m \in MutexArg
    BY OsNumMutexAssumption DEF Mutex, MutexArg
  <2> QED
    BY <2>1, NobodySleeps DEF MutexLockSleep
<1> QED
  BY <1>11, <1>14, <1>15, <1>16

LEMMA UnlockCallKeeps ==
    ASSUME Inv, LockInv, PInv, UnlockCall
    PROVE  Inv' /\ LockInv' /\ PInv' /\ Live' = Live /\ [Next]_vars
<1>1. PICK T \in Live : T = Self
  BY AtFacts DEF UnlockCall
<1>2. /\ Works(T) /\ LineOf(T).op = "unlock" /\ ret[T] = NONE /\ Line = LineOf(T)
      /\ cur_tcb # IDLE_PRIO
  BY <1>1, AtFacts DEF UnlockCall
<1>3. LineFacts(program, ct, T, pc[T])
  BY <1>2, AtLine
<1>4. PICK m : m = LineOf(T).arg
  OBVIOUS
<1>5. /\ T # 0 /\ m \in Nat
      /\ m \in HoldsAt(program, T, pc[T]) => m < CreatedAt(program, T, pc[T])
      /\ m \notin HoldsAt(program, T, pc[T]) => ~LineOf(T).must
      /\ m \in Mutex \ HoldsAt(program, T, pc[T]) => Fresh(program, T, pc[T])
      /\ HoldsAt(program, T, NextOf(T)) = HoldsAt(program, T, pc[T]) \ {m}
  BY <1>2, <1>3, <1>4 DEF LineFacts, Unlocks, LineOf, NextOf
<1>6. T = cur_tcb /\ cur_tcb # NULL /\ T \in Tcb /\ cur_tcb \in UserTasks
  BY <1>1, <1>2, <1>5, SelfFacts
<1>7. /\ owned[T] = HoldsAt(program, T, pc[T])
      /\ \A k \in Mutex : k < CreatedAt(program, T, pc[T]) => ~bAvailable[k]
      /\ Fresh(program, T, pc[T]) => \A k \in Mutex : pHolding_Tcb[k] # T
  BY <1>2, <1>5 DEF Works, Held, Created, NONE
<1>8. LineOf(T).op \in Calls
  BY <1>2 DEF Calls
<1>9. UNCHANGED <<deviceVars, historyVars>> /\ UNCHANGED <<sleep_q, next_match, events, stored>>
  BY DEF UnlockCall, deviceVars, historyVars
<1>10. PICK r \in {"EPERM", "EINVAL", "0"} :
         /\ Returns(r)
         /\ \/ MutexUnlockFails(m) /\ r # "0"
            \/ MutexUnlock(m) /\ r = "0"
  BY <1>2, <1>4 DEF UnlockCall
<1>11. r # NONE /\ program' = program
  BY <1>10 DEF NONE, Returns
<1>12. CASE MutexUnlockFails(m) /\ r # "0"
  <2>1. UNCHANGED vars
    BY <1>9, <1>12 DEF MutexUnlockFails, vars
  <2>2. UNCHANGED <<num_tasks, cur_tcb, cur_prio, bAvailable, pHolding_Tcb, owned>>
    BY <2>1 DEF vars, schedVars, mutexVars
  <2>3. Inv' /\ LockInv'
    BY <2>1, ProgramStep
  <2>4. m \notin HoldsAt(program, T, pc[T])
    <3> SUFFICES ASSUME m \in HoldsAt(program, T, pc[T]) PROVE FALSE
      OBVIOUS
    <3>1. m \in owned[T] /\ m \in Mutex
      BY <1>6, <1>7 DEF Inv, TypeOK, MutexTypeOK
    <3>2. ~bAvailable[m] /\ pHolding_Tcb[m] = T
      BY <1>5, <1>6, <1>7, <3>1 DEF LockInv, RecordsAgree
    <3> QED
      BY <1>6, <1>12, <3>1, <3>2 DEF MutexUnlockFails
  <2>5. owned'[T] = HoldsAt(program, T, NextOf(T)) /\ ~LineOf(T).must
    BY <1>5, <1>7, <2>2, <2>4
  <2>6. Jobs' /\ events' \in [Device -> Nat]
    BY <1>6, <1>9, <1>11, SameJobs DEF PInv, ProgramTypeOK
  <2> QED
    BY <1>1, <1>2, <1>7, <1>8, <1>9, <1>10, <1>11, <2>1, <2>2, <2>3, <2>5, <2>6, CallKeeps
<1>13. CASE MutexUnlock(m) /\ r = "0"
  <2>1. m \in Mutex /\ m \in MutexArg /\ pHolding_Tcb[m] = T
    BY <1>6, <1>13, OsNumMutexAssumption DEF MutexUnlock, Mutex, MutexArg
  <2>2. m \in owned[T]
    BY <1>5, <1>7, <2>1
  <2>3. [Next]_vars
    BY <1>9, <1>13, <2>1 DEF Next, SystemCall
  <2>4. Inv' /\ LockInv'
    BY <1>6, <1>9, <1>13, <2>1, <2>2, <2>3, NextInv, UnlockKeeps
  <2>5. /\ UNCHANGED <<num_tasks, bAvailable, pHolding_Tcb>>
        /\ owned' = [owned EXCEPT ![T] = owned[T] \ {m}]
    BY <1>6, <1>13 DEF MutexUnlock
  <2>6. cur_prio'[IDLE_PRIO] = cur_prio[IDLE_PRIO]
    <3>1. Release(cur_tcb, m)
      BY <1>13, <2>1 DEF MutexUnlock, HandOff, LockInv, NoContention
    <3>2. cur_prio' = [cur_prio EXCEPT ![T] = PrioAfterUnlock(cur_tcb)]
      BY <1>6, <3>1 DEF Release
    <3> QED
      BY <1>2, <1>6, <3>2 DEF Inv, TypeOK, SchedTypeOK
  <2>7. owned'[T] = owned[T] \ {m} /\ \A t \in Tcb : t # T => owned'[t] = owned[t]
    BY <1>6, <2>5 DEF Inv, TypeOK, MutexTypeOK
  <2>8. owned'[T] = HoldsAt(program, T, NextOf(T))
    BY <1>5, <1>7, <2>7
  <2>9. \A t \in Live : t # T /\ t # 0 => owned'[t] = owned[t]
    <3>1. \A t \in Live : t # 0 => t \in Tcb
      BY <1>6, LiveFacts, TaskFacts DEF Inv
    <3> QED
      BY <2>7, <3>1
  <2>10. Jobs' /\ events' \in [Device -> Nat]
    BY <1>6, <1>9, <1>11, SameJobs DEF PInv, ProgramTypeOK
  <2> QED
    BY <1>1, <1>2, <1>6, <1>7, <1>8, <1>9, <1>10, <1>11, <1>13, <2>3, <2>4, <2>5, <2>6,
       <2>8, <2>9, <2>10, CallKeeps
<1> QED
  BY <1>10, <1>12, <1>13

(* mutex_chaser, simple_mutex and the rest wait for devices of their own.  *)
LEMMA WaitCallKeeps ==
    ASSUME Inv, LockInv, PInv, WaitCall
    PROVE  Inv' /\ LockInv' /\ PInv' /\ Live' = Live /\ [Next]_vars
<1>1. PICK T \in Live : T = Self
  BY AtFacts DEF WaitCall
<1>2. /\ Works(T) /\ LineOf(T).op = "wait" /\ ret[T] = NONE /\ Line = LineOf(T)
      /\ cur_tcb # IDLE_PRIO
  BY <1>1, AtFacts DEF WaitCall
<1>3. LineFacts(program, ct, T, pc[T])
  BY <1>2, AtLine
<1>4. PICK d : d = LineOf(T).arg
  OBVIOUS
<1>5. /\ T # 0
      /\ \/ d = Dev(program, T) /\ d \in Device
         \/ d = NUM_DEVICES + 1 /\ ~LineOf(T).must
  BY <1>2, <1>3, <1>4 DEF LineFacts, Waiting, LineOf
<1>6. /\ T = cur_tcb /\ cur_tcb # NULL /\ T \in Tcb /\ cur_tcb \in UserTasks
      /\ T \in 1 .. NumTasks(program)
  BY <1>1, <1>2, <1>5, SelfFacts, LiveFacts
<1>7. /\ owned[T] = HoldsAt(program, T, pc[T])
      /\ \A k \in Mutex : k < CreatedAt(program, T, pc[T]) => ~bAvailable[k]
      /\ Fresh(program, T, pc[T]) => \A k \in Mutex : pHolding_Tcb[k] # T
  BY <1>2, <1>5 DEF Works, Held, Created, NONE
<1>8. LineOf(T).op \in Calls
  BY <1>2 DEF Calls
<1>9. /\ UNCHANGED <<bAvailable, bLock, pHolding_Tcb, pSleep_queue, owned>>
      /\ UNCHANGED <<mutexVars, stored>>
  BY DEF WaitCall, mutexVars
<1>10. (holds_lock[T] # 0) <=> (owned[T] # {})
  BY <1>6, CountFacts
<1>11. PICK r \in {"EHOLDSLOCK", "EINVAL", "0"} :
         /\ Returns(r)
         /\ \/ EventWaitFails(d) /\ r # "0" /\ events' = events
            \/ EventWait(d) /\ r = "0" /\ events' = [events EXCEPT ![d] = @ + 1]
  BY <1>2, <1>4 DEF WaitCall
<1>12. r # NONE /\ program' = program
  BY <1>11 DEF NONE, Returns
<1>13. CASE EventWaitFails(d) /\ r # "0" /\ events' = events
  <2>1. UNCHANGED vars
    BY <1>9, <1>13 DEF EventWaitFails, vars
  <2>2. UNCHANGED <<num_tasks, cur_tcb, cur_prio, sleep_q, next_match>>
    BY <2>1 DEF vars, schedVars, deviceVars
  <2>3. Inv' /\ LockInv'
    BY <2>1, ProgramStep
  <2>4. LineOf(T).must => owned[T] # {}
    <3>1. d \in Device => ~(d > NUM_DEVICES)
      BY NumDevicesAssumption DEF Device
    <3> QED
      BY <1>5, <1>6, <1>10, <1>13, <3>1 DEF EventWaitFails
  <2>5. Jobs' /\ events' \in [Device -> Nat]
    BY <1>6, <1>12, <1>13, <2>2, SameJobs DEF PInv, ProgramTypeOK
  <2> QED
    BY <1>1, <1>2, <1>5, <1>7, <1>8, <1>9, <1>11, <1>12, <1>13, <2>1, <2>2, <2>3, <2>4, <2>5,
       CallKeeps
<1>14. CASE EventWait(d) /\ r = "0" /\ events' = [events EXCEPT ![d] = @ + 1]
  <2>1. d \in Device /\ d \in WaitArg /\ d = Dev(program, T)
    <3>1. d <= NUM_DEVICES
      BY <1>14 DEF EventWait
    <3>2. d # NUM_DEVICES + 1
      BY <3>1, NumDevicesAssumption
    <3> QED
      BY <1>5, <3>2, ProgramWaitsAssumption
  <2>2. [Next]_vars
    BY <1>9, <1>14, <2>1 DEF Next, SystemCall
  <2>3. Inv' /\ LockInv'
    BY <1>9, <1>14, <2>1, <2>2, NextInv, WaitKeeps
  <2>4. /\ holds_lock[T] = 0
        /\ sleep_q' = [sleep_q EXCEPT ![d] = sleep_q[d] \cup {T}]
        /\ UNCHANGED <<num_tasks, cur_prio, next_match>>
    BY <1>6, <1>14 DEF EventWait
  <2>5. owned[T] = {} /\ owned'[T] = {}
    BY <1>9, <1>10, <2>4
  <2>6. sleep_q[d] = {}
    <3> SUFFICES ASSUME NEW u \in sleep_q[d] PROVE FALSE
      OBVIOUS
    <3>1. d \in QueueWord
      BY <2>1, NumDevicesAssumption DEF Device, QueueWord
    <3>2. u # cur_tcb /\ u \in UserTasks
      BY <3>1 DEF Inv, AsleepApart, Blocked
    <3>3. u \in 1 .. NumTasks(program) /\ Dev(program, u) = d
      BY <1>6, <2>1, <3>2 DEF PInv, Jobs, Unborn, UserTasks
    <3> QED
      BY <1>6, <2>1, <3>2, <3>3, TaskTables, LiveFacts
  <2>7. events' \in [Device -> Nat]
    BY <1>14, <2>1 DEF PInv, ProgramTypeOK
  <2>8. Jobs'
    <3> SUFFICES ASSUME NEW q \in Device
                 PROVE  /\ next_match'[q] = (Awaits(q)' * dev_freq[q]) % WORD
                        /\ \A t \in sleep_q'[q] : q = Dev(program, t)
      BY <1>12 DEF Jobs
    <3>1. q \in QueueWord /\ sleep_q \in [QueueWord -> SUBSET Tcb]
      BY NumDevicesAssumption DEF Device, QueueWord, Inv, TypeOK, DeviceTypeOK
    <3>2. Awaits(q)' = Awaits(q) /\ \A t \in sleep_q'[q] : (t = T /\ q = d) \/ t \in sleep_q[q]
      <4>1. CASE q = d
        <5>1. sleep_q'[q] = {T} /\ events'[q] = events[q] + 1 /\ events[q] \in Nat
          BY <1>14, <2>1, <2>4, <2>6, <3>1, <4>1 DEF PInv, ProgramTypeOK
        <5>2. Awaits(q) = events[q] + 1
          BY <2>6, <4>1 DEF Awaits
        <5>3. Awaits(q)' = events'[q] + 0
          BY <5>1 DEF Awaits
        <5> QED
          BY <4>1, <5>1, <5>2, <5>3
      <4>2. CASE q # d
        BY <1>14, <2>4, <3>1, <4>2 DEF Awaits, PInv, ProgramTypeOK
      <4> QED
        BY <4>1, <4>2
    <3> QED
      BY <1>6, <2>1, <2>4, <3>2 DEF PInv, Jobs
  <2> QED
    BY <1>1, <1>2, <1>6, <1>7, <1>8, <1>9, <1>11, <1>12, <1>14, <2>2, <2>3, <2>4, <2>5,
       <2>7, <2>8, CallKeeps
<1> QED
  BY <1>11, <1>13, <1>14

LEMMA TaskCreateFailsKeeps ==
    ASSUME Inv, LockInv, PInv, TaskCreateFails
    PROVE  Inv' /\ LockInv' /\ PInv' /\ Live' = Live
<1>1. PICK op \in {"task_create", "bad_pointer"} : At(op)
  BY DEF TaskCreateFails
<1>2. PICK T \in Live : T = Self
  BY <1>1, AtFacts
<1>3. /\ Works(T) /\ LineOf(T).op = op /\ ret[T] = NONE
  BY <1>1, <1>2, AtFacts
<1>4. PICK r \in {"EINVAL", "EFAULT", "ESCHED"} : Returns(r)
  BY DEF TaskCreateFails
<1>5. UNCHANGED vars /\ UNCHANGED <<events, stored>>
  BY DEF TaskCreateFails, historyVars
<1>6. Inv' /\ LockInv'
  BY <1>5, ProgramStep
<1>7. /\ UNCHANGED <<num_tasks, cur_tcb, cur_prio, bAvailable, pHolding_Tcb, owned>>
      /\ UNCHANGED <<sleep_q, next_match>>
  BY <1>5 DEF vars, schedVars, mutexVars, deviceVars
<1>8. ~LineOf(T).must
  BY <1>3, AtLine DEF LineFacts, LineOf
<1>9. /\ T # 0 => owned[T] = HoldsAt(program, T, pc[T])
      /\ \A k \in Mutex : k < CreatedAt(program, T, pc[T]) => ~bAvailable[k]
      /\ Fresh(program, T, pc[T]) => \A k \in Mutex : pHolding_Tcb[k] # T
  BY <1>3 DEF Works, Held, Created, NONE
<1>10. LineOf(T).op \in Calls /\ r # NONE /\ program' = program
  BY <1>3, <1>4 DEF Calls, NONE, Returns
<1>11. Jobs' /\ events' \in [Device -> Nat]
  BY <1>5, <1>7, <1>10, SameJobs DEF PInv, ProgramTypeOK
<1> QED
  BY <1>2, <1>3, <1>4, <1>5, <1>6, <1>7, <1>8, <1>9, <1>10, <1>11, CallKeeps
----------------------------------------------------------------------------
(* task_create starts the program's tasks at their first lines.            *)
LEMMA TaskCreateCallKeeps ==
    ASSUME Inv, LockInv, PInv, TaskCreateCall
    PROVE  /\ Inv' /\ LockInv' /\ PInv' /\ [Next]_vars
           /\ cur_tcb' # NULL
           /\ \A t \in Thread : end_time[t] # NULL => pc'[t] = pc[t]
<1> DEFINE n == NumTasks(program)
<1>1. PICK T \in Live : T = Self
  BY AtFacts DEF TaskCreateCall
<1>2. /\ Works(T) /\ LineOf(T).op = "task_create" /\ ret[T] = NONE /\ Line = LineOf(T)
      /\ cur_tcb # IDLE_PRIO /\ end_time[T] = NULL
  BY <1>1, AtFacts DEF TaskCreateCall
<1>3. LineFacts(program, ct, T, pc[T])
  BY <1>2, AtLine
<1>4. /\ LineOf(T).arg \in TaskCounts /\ TaskCreate(LineOf(T).arg)
      /\ pc' = [t \in Thread |-> IF t \in 1 .. LineOf(T).arg THEN 1 ELSE pc[t]]
      /\ events' = [d \in Device |-> 0]
      /\ UNCHANGED <<program, ret, reg, val, end_time, stored>>
  BY <1>2 DEF TaskCreateCall
<1>5. /\ LineOf(T).arg = n
      /\ HoldsAt(program, T, pc[T]) = {}
      /\ T # 0 => program = "cyclone"
      /\ \A u \in 1 .. n : CreatedAt(program, u, 1) <= CreatedAt(program, T, pc[T])
  <2>1. Starts(program, ct, T, pc[T])
    BY <1>2, <1>3 DEF LineFacts, LineOf
  <2>2. \A k \in TaskCounts : ~(k > OS_MAX_TASKS - 2)
    BY TaskCountsAssumption, OsMaxTasksAssumption
  <2> QED
    BY <1>4, <2>1, <2>2 DEF Starts, LineOf
<1>6. n \in TaskCounts /\ TaskCreate(n) /\ n \in Nat /\ program \in Names /\ ct \in Nat
  BY <1>4, <1>5, LiveFacts
<1>7. /\ \A t \in Tcb : owned[t] = {}
      /\ T = 0 <=> cur_tcb = NULL
      /\ cur_tcb # NULL => T = cur_tcb
  <2>1. CASE cur_tcb = NULL
    BY <1>1, <1>2, <2>1, SelfFacts, TaskFacts, PrioFacts
    DEF Inv, LockInv, HolderRuns
  <2>2. CASE cur_tcb # NULL
    <3>1. T = cur_tcb /\ T # 0
      BY <1>1, <1>2, <2>2, SelfFacts
    <3>2. owned[T] = {}
      BY <1>2, <1>5, <3>1 DEF Works, Held, NONE
    <3> QED
      BY <2>2, <3>1, <3>2 DEF LockInv, HolderRuns
  <2> QED
    BY <2>1, <2>2
<1>8. [Next]_vars
  BY <1>6 DEF Next, SystemCall
<1>9. Inv' /\ LockInv'
  BY <1>6, <1>7, <1>8, NextInv, CreateKeeps
<1>10. /\ num_tasks' = n
       /\ owned' = [t \in Tcb |-> {}]
       /\ UNCHANGED <<bAvailable, pHolding_Tcb>>
       /\ sleep_q' = [q \in QueueWord |-> IF q \in Device THEN {} ELSE sleep_q[q]]
       /\ next_match' = [d \in Device |-> dev_freq[d] % WORD]
       /\ cur_prio' = [t \in Tcb |-> IF t \in TasksOf(n) THEN native_prio(t) ELSE cur_prio[t]]
  BY <1>6 DEF TaskCreate, DevInit, AllocateTcbs, ForgetOwners
<1>11. cur_tcb' # NULL
  <2>1. IDLE_PRIO \in Tcb /\ IDLE_PRIO \in TasksOf(n)
    BY OsMaxTasksAssumption DEF Tcb, TasksOf, IDLE_PRIO
  <2>2. cur_prio'[IDLE_PRIO] = IDLE_PRIO
    BY <1>10, <2>1 DEF native_prio
  <2>3. NULL \notin Nat /\ num_tasks' \in Nat /\ IDLE_PRIO \in Nat
    BY <1>6, <1>10, NullAssumption, OsMaxTasksAssumption DEF IDLE_PRIO
  <2>4. cur_tcb' \in TasksOf(num_tasks')
    BY <1>9, <2>2 DEF Inv, Boot, Booted, IDLE_PRIO, TasksOf
  <2> QED
    BY <2>3, <2>4 DEF TasksOf
<1>12. Live' = 0 .. n /\ n <= OS_MAX_TASKS - 2 /\ 0 .. n \subseteq Thread
  <2>1. n <= OS_MAX_TASKS - 2
    BY <1>6, TaskCountsAssumption, OsMaxTasksAssumption
  <2> QED
    BY <1>4, <1>6, <1>11, <2>1, OsMaxTasksAssumption DEF Live, Thread, IDLE_PRIO
<1>13. ct' = ct
  BY <1>4 DEF ct
<1> HIDE DEF n
<1>14. \A u \in 1 .. n : ret[u] = NONE /\ end_time[u] = NULL
  <2> SUFFICES ASSUME NEW u \in 1 .. n PROVE ret[u] = NONE /\ end_time[u] = NULL
    OBVIOUS
  <2>1. CASE cur_tcb = NULL
    <3>1. u \in Thread \ Live
      BY <1>6, <1>12, <2>1 DEF Live
    <3> QED
      BY <3>1 DEF PInv, Unborn
  <2>2. CASE cur_tcb # NULL
    <3>1. n = 1 /\ T \in 1 .. n
      BY <1>2, <1>5, <1>7, <2>2, AtLine DEF n, NumTasks
    <3>2. u = T
      BY <3>1
    <3> QED
      BY <1>2, <3>2
  <2> QED
    BY <2>1, <2>2
<1>15. \A u \in 1 .. n : Fresh(program, u, 1) => \A m \in Mutex : pHolding_Tcb[m] # u
  <2> SUFFICES ASSUME NEW u \in 1 .. n, Fresh(program, u, 1), NEW m \in Mutex
               PROVE  pHolding_Tcb[m] # u
    OBVIOUS
  <2>1. CASE cur_tcb = NULL
    <3>1. pHolding_Tcb[m] = NULL
      BY <2>1 DEF PInv, Unborn
    <3> QED
      BY <1>6, <3>1, NullAssumption
  <2>2. CASE cur_tcb # NULL
    BY <1>5, <1>7, <2>2 DEF Fresh
  <2> QED
    BY <2>1, <2>2
<1>16. ASSUME NEW u \in 1 .. n PROVE Works(u)'
  <2>1. /\ u \in Thread /\ u \in 0 .. n /\ u # 0 /\ u \in Tcb
        /\ pc'[u] = 1 /\ ret'[u] = NONE /\ end_time'[u] = NULL
    BY <1>4, <1>5, <1>6, <1>12, <1>14, OsMaxTasksAssumption DEF Thread, Tcb, IDLE_PRIO
  <2>2. /\ 1 \in Reached(program, ct, u)
        /\ LineAt(program, ct, u, 1).op # "store"
        /\ HoldsAt(program, u, 1) = {}
    BY <1>6, <2>1, FirstLine DEF n
  <2>3. LineOf(u)' = LineAt(program, ct, u, 1)
    BY <1>4, <1>13, <2>1 DEF LineOf
  <2>4. Held(u)' = {} /\ owned'[u] = {}
    BY <1>4, <1>10, <2>1, <2>2 DEF Held
  <2>5. \A m \in Mutex : m < Created(u)' => ~bAvailable'[m]
    <3>1. Created(u)' = CreatedAt(program, u, 1)
      BY <1>4, <2>1 DEF Created
    <3>2. Created(T) = CreatedAt(program, T, pc[T])
      BY <1>2 DEF Created
    <3>3. CreatedAt(program, u, 1) \in Nat /\ CreatedAt(program, T, pc[T]) \in Nat
      BY <1>3, <1>6, <2>1, <2>2, Lines DEF LineFacts, n
    <3>4. \A m \in Mutex : m < CreatedAt(program, u, 1) => m < CreatedAt(program, T, pc[T])
      BY <1>5, <3>3, OsNumMutexAssumption DEF Mutex
    <3> QED
      BY <1>2, <1>10, <3>1, <3>2, <3>4 DEF Works
  <2>6. Fresh(program, u, pc[u])' => \A m \in Mutex : pHolding_Tcb'[m] # u
    BY <1>4, <1>10, <1>15, <2>1
  <2>7. (pc[u] \in Reached(program, ct, u))'
    BY <1>4, <1>13, <2>1, <2>2
  <2> QED
    BY <2>1, <2>2, <2>3, <2>4, <2>5, <2>6, <2>7 DEF Works, Result
<1>17. Works(0)'
  <2>1. 0 \in Thread /\ pc'[0] = pc[0]
    BY <1>4, <1>12, <1>6
  <2>2. Works(0)
    BY LiveFacts DEF PInv, Threads, Panics
  <2>3. Untouched(0)
    BY <1>4, <1>10, <2>1 DEF Untouched
  <2> QED
    BY <1>4, <2>2, <2>3, UntouchedWorks
<1>18. Threads'
  <2>1. \A t \in 0 .. n : t = 0 \/ t \in 1 .. n
    BY <1>6
  <2> QED
    BY <1>12, <1>16, <1>17, <2>1 DEF Threads
<1>19. Unborn'
  <2>1. \A t \in Thread \ (0 .. n) :
          t \notin Live /\ pc'[t] = pc[t] /\ ret'[t] = ret[t] /\ end_time'[t] = end_time[t]
    <3>1. Live \subseteq 0 .. n
      BY LiveFacts DEF n
    <3>2. \A t \in Thread : t \notin 0 .. n => t \notin 1 .. n
      BY <1>6
    <3> QED
      BY <1>4, <1>5, <3>1, <3>2
  <2>2. \A t \in Thread \ (0 .. n) : pc'[t] = 1 /\ ret'[t] = NONE /\ end_time'[t] = NULL
    BY <2>1 DEF PInv, Unborn
  <2>3. num_tasks' = NumTasks(program')
    BY <1>4, <1>10 DEF n
  <2> QED
    BY <1>11, <1>12, <2>2, <2>3 DEF Unborn, Thread
<1>20. ProgramTypeOK'
  <2>1. pc' \in [Thread -> Nat]
    BY <1>4 DEF PInv, ProgramTypeOK
  <2> QED
    BY <1>4, <2>1 DEF PInv, ProgramTypeOK
<1>21. Jobs'
  <2> SUFFICES ASSUME NEW d \in Device
               PROVE  /\ next_match'[d] = (Awaits(d)' * dev_freq[d]) % WORD
                      /\ sleep_q'[d] = {}
    BY DEF Jobs
  <2>1. d \in QueueWord /\ dev_freq[d] \in Nat
    BY NumDevicesAssumption, DevFreqAssumption DEF Device, QueueWord
  <2>2. sleep_q'[d] = {} /\ events'[d] = 0
    BY <1>4, <1>10, <2>1
  <2>3. Awaits(d)' = 1
    BY <2>2 DEF Awaits
  <2>4. 1 * dev_freq[d] = dev_freq[d]
    BY <2>1
  <2> QED
    BY <1>10, <2>2, <2>3, <2>4
<1>22. \A t \in Thread : end_time[t] # NULL => pc'[t] = pc[t]
  BY <1>4, <1>5, <1>14 DEF n
<1> QED
  BY <1>4, <1>8, <1>9, <1>11, <1>18, <1>19, <1>20, <1>21, <1>22 DEF PInv, NoUpdateLost
----------------------------------------------------------------------------
(* The kernel's own steps. *)

LEMMA LoopKeeps ==
    ASSUME Inv, LockInv, PInv, UNCHANGED pvars
    PROVE  Inv' /\ LockInv' /\ PInv' /\ Live' = Live
<1>1. UNCHANGED vars /\ UNCHANGED <<program, pc, ret, reg, val, end_time, stored, events>>
  BY DEF pvars, progVars, historyVars
<1>2. Inv' /\ LockInv'
  BY <1>1, ProgramStep
<1>3. UNCHANGED <<num_tasks, cur_tcb, cur_prio, bAvailable, pHolding_Tcb, owned>>
      /\ UNCHANGED <<sleep_q, next_match>>
  BY <1>1 DEF vars, schedVars, mutexVars, deviceVars
<1>4. \A t \in Live : Untouched(t)
  BY <1>1, <1>3 DEF Untouched
<1>5. Threads' /\ Unborn' /\ Live' = Live
  <2>1. PICK T : T \notin Live
    <3>1. IDLE_PRIO \notin Thread
      BY OsMaxTasksAssumption DEF Thread, IDLE_PRIO
    <3> QED
      BY <3>1, LiveFacts
  <2> QED
    BY <1>1, <1>2, <1>3, <1>4, <2>1, StepKeeps
<1>6. ProgramTypeOK' /\ Jobs'
  BY <1>1, <1>3 DEF PInv, ProgramTypeOK, Jobs, Awaits
<1> QED
  BY <1>1, <1>2, <1>5, <1>6 DEF PInv, NoUpdateLost

LEMMA KernelReturnKeeps ==
    ASSUME Inv, LockInv, PInv, KernelReturn
    PROVE  Inv' /\ LockInv' /\ PInv' /\ Live' = Live /\ [Next]_vars
<1>1. Return /\ UNCHANGED <<program, pc, ret, reg, val, end_time, stored, events>>
  BY DEF KernelReturn, progVars, historyVars
<1>2. [Next]_vars
  BY <1>1 DEF Next
<1>3. Inv' /\ LockInv'
  BY <1>1, <1>2, NextInv, ReturnKeeps
<1>4. ~MutexLockReturn
  BY Running DEF MutexLockReturn, Resume, LockInv, NobodyInLock
<1>5. UNCHANGED <<num_tasks, cur_tcb, cur_prio, bAvailable, pHolding_Tcb, owned>>
      /\ UNCHANGED <<sleep_q, next_match>>
  BY <1>1, <1>4 DEF Return, LaunchTask, MutexUnlockReturn, DevWaitReturn,
     DevUpdateReturn, Resume, mutexVars, deviceVars
<1>6. \A t \in Live : Untouched(t)
  BY <1>1, <1>5 DEF Untouched
<1>7. Threads' /\ Unborn' /\ Live' = Live
  <2>1. PICK T : T \notin Live
    <3>1. IDLE_PRIO \notin Thread
      BY OsMaxTasksAssumption DEF Thread, IDLE_PRIO
    <3> QED
      BY <3>1, LiveFacts
  <2> QED
    BY <1>1, <1>3, <1>5, <1>6, <2>1, StepKeeps
<1>8. ProgramTypeOK' /\ Jobs'
  BY <1>1, <1>5 DEF PInv, ProgramTypeOK, Jobs, Awaits
<1> QED
  BY <1>1, <1>2, <1>3, <1>7, <1>8 DEF PInv, NoUpdateLost

(* What is left of a division is what it should be ... *)
LEMMA ModUnique ==
    ASSUME NEW W \in Nat \ {0}, NEW y \in Nat, NEW k \in Int, NEW s \in 0 .. W - 1,
           y = W * k + s
    PROVE  y % W = s
<1> DEFINE q == y \div W
           r == y % W
<1>1. q \in Int /\ r \in 0 .. W - 1 /\ y = W * q + r
  OBVIOUS
<1> HIDE DEF q, r
<1>2. W * (k - q) = r - s
  BY <1>1
<1>3. k - q >= 1 => W * (k - q) >= W
  BY <1>1
<1>4. k - q <= -1 => W * (k - q) <= -W
  BY <1>1
<1>5. k = q
  BY <1>1, <1>2, <1>3, <1>4
<1>6. r = s
  BY <1>1, <1>5
<1> QED
  BY <1>6 DEF r

(* ... so that a sum may be reduced on the way. *)
LEMMA ModAdd ==
    ASSUME NEW W \in Nat \ {0}, NEW x \in Nat, NEW f \in Nat
    PROVE  ((x % W) + f) % W = (x + f) % W
<1> DEFINE q == x \div W
           r == x % W
           p == (r + f) \div W
           s == (r + f) % W
<1>1. q \in Int /\ r \in 0 .. W - 1 /\ x = W * q + r
  OBVIOUS
<1>2. p \in Int /\ s \in 0 .. W - 1 /\ r + f = W * p + s
  <2>1. r + f \in Nat
    BY <1>1
  <2> QED
    BY <2>1
<1> HIDE DEF q, r, p, s
<1>3. x + f = W * (q + p) + s
  <2>1. W * (q + p) = W * q + W * p
    BY <1>1, <1>2
  <2> QED
    BY <1>1, <1>2, <2>1
<1>4. (x + f) % W = s
  <2> DEFINE y == x + f
             k == q + p
  <2>1. y \in Nat /\ k \in Int /\ y = W * k + s
    BY <1>1, <1>2, <1>3
  <2> HIDE DEF y, k
  <2>2. y % W = s
    BY <1>2, <2>1, ModUnique
  <2> QED
    BY <2>2 DEF y
<1> QED
  BY <1>4 DEF s, r

(* A device that is due goes on to its next event: if nobody waits for     *)
(* this one, it is counted.                                                *)
LEMMA TickKeeps ==
    ASSUME Inv, LockInv, PInv, Tick
    PROVE  Inv' /\ LockInv' /\ PInv' /\ Live' = Live /\ [Next]_vars
<1>1. PICK oscr \in Oscr : DevUpdate(Now(oscr))
  BY DEF Tick, Interrupt, TimerIrq
<1>2. /\ Interrupt /\ UNCHANGED mutexVars
      /\ UNCHANGED <<program, pc, ret, reg, val, end_time, stored>>
      /\ events' = [d \in Device |->
                      IF cur_tcb # NULL /\ next_match'[d] # next_match[d] /\ sleep_q[d] = {}
                      THEN events[d] + 1 ELSE events[d]]
  BY DEF Tick, Interrupt, progVars
<1>3. [Next]_vars
  BY <1>2 DEF Next
<1>4. Inv' /\ LockInv'
  BY <1>2, <1>3, NextInv, TimerKeeps
<1>5. /\ UNCHANGED <<num_tasks, cur_prio, bAvailable, pHolding_Tcb, owned>>
      /\ next_match' = [d \in Device |->
                          IF d \in Due(Now(oscr)) THEN (next_match[d] + dev_freq[d]) % WORD
                          ELSE next_match[d]]
      /\ sleep_q' = [q \in QueueWord |-> IF q \in Due(Now(oscr)) THEN {} ELSE sleep_q[q]]
  BY <1>1, <1>2 DEF DevUpdate, schedVars, mutexVars
<1>6. \A t \in Live : Untouched(t)
  BY <1>2, <1>5 DEF Untouched
<1>7. Threads' /\ Unborn' /\ Live' = Live
  <2>1. PICK T : T \notin Live
    <3>1. IDLE_PRIO \notin Thread
      BY OsMaxTasksAssumption DEF Thread, IDLE_PRIO
    <3> QED
      BY <3>1, LiveFacts
  <2> QED
    BY <1>2, <1>4, <1>5, <1>6, <2>1, StepKeeps
<1>8. ProgramTypeOK'
  <2>1. events' \in [Device -> Nat]
    BY <1>2 DEF PInv, ProgramTypeOK
  <2> QED
    BY <1>2, <2>1 DEF PInv, ProgramTypeOK
<1>9. cur_tcb' # NULL => cur_tcb # NULL
  <2>1. cur_tcb = NULL => cur_prio'[IDLE_PRIO] # IDLE_PRIO
    BY <1>5, NullTask
  <2> QED
    BY <1>4, <2>1 DEF Inv, Boot, Booted, IDLE_PRIO
<1>10. Jobs'
  <2> SUFFICES ASSUME cur_tcb # NULL, NEW d \in Device
               PROVE  /\ next_match'[d] = (Awaits(d)' * dev_freq[d]) % WORD
                      /\ \A t \in sleep_q'[d] : t \in sleep_q[d]
    BY <1>2, <1>9 DEF PInv, Jobs
  <2> DEFINE a == Awaits(d)
             f == dev_freq[d]
  <2>1. /\ d \in QueueWord /\ f \in Nat /\ events[d] \in Nat /\ WORD \in Nat \ {0}
        /\ next_match[d] = (a * f) % WORD
    BY NumDevicesAssumption, DevFreqAssumption, TimerAssumption
    DEF Device, QueueWord, PInv, ProgramTypeOK, Jobs
  <2>2. a \in Nat /\ a = events[d] + (IF sleep_q[d] = {} THEN 1 ELSE 0)
    BY <2>1 DEF Awaits
  <2>3. CASE d \notin Due(Now(oscr))
    <3>1. next_match'[d] = next_match[d] /\ sleep_q'[d] = sleep_q[d]
      BY <1>5, <2>1, <2>3
    <3>2. events'[d] = events[d]
      BY <1>2, <3>1
    <3>3. Awaits(d)' = a
      BY <3>1, <3>2 DEF Awaits
    <3> QED
      BY <2>1, <3>1, <3>3
  <2>4. CASE d \in Due(Now(oscr))
    <3>1. next_match'[d] = (next_match[d] + f) % WORD /\ sleep_q'[d] = {}
      BY <1>5, <2>1, <2>4
    <3>2. next_match'[d] = ((a + 1) * f) % WORD
      <4> HIDE DEF a, f
      <4>1. a * f \in Nat /\ (a + 1) * f = a * f + f
        BY <2>1, <2>2
      <4> QED
        BY <2>1, <3>1, <4>1, ModAdd
    <3>3. Awaits(d)' = events'[d] + 1
      BY <3>1 DEF Awaits
    <3>4. CASE sleep_q[d] # {}
      <4>1. events'[d] = a
        BY <1>2, <2>1, <2>2, <3>4
      <4> QED
        BY <3>1, <3>2, <3>3, <4>1
    <3>5. CASE sleep_q[d] = {} /\ next_match'[d] # next_match[d]
      <4>1. events'[d] = a
        BY <1>2, <2>1, <2>2, <3>5
      <4> QED
        BY <3>1, <3>2, <3>3, <4>1
    <3>6. CASE sleep_q[d] = {} /\ next_match'[d] = next_match[d]
      <4>1. events'[d] = events[d] /\ a = events[d] + 1
        BY <1>2, <2>1, <2>2, <3>6
      <4>2. Awaits(d)' = a
        BY <3>3, <4>1
      <4> QED
        BY <2>1, <3>1, <3>6, <4>2
    <3> QED
      BY <3>4, <3>5, <3>6
  <2> QED
    BY <2>3, <2>4
<1> QED
  BY <1>2, <1>3, <1>4, <1>7, <1>8, <1>10 DEF PInv, NoUpdateLost
----------------------------------------------------------------------------
(* The invariant. *)

LEMMA PInitInv ==
    ASSUME PInit
    PROVE  Inv /\ LockInv /\ PInv
<1>1. Inv /\ LockInv
  BY InitInv, LockInit DEF PInit
<1>2. /\ program \in TestPrograms /\ program \in Names
      /\ cur_tcb = NULL /\ (\A m \in Mutex : pHolding_Tcb[m] = NULL)
      /\ \A t \in Thread : pc[t] = 1 /\ ret[t] = NONE /\ end_time[t] = NULL
      /\ 0 \in Thread /\ 0 \in Cell
  BY TestProgramsAssumption, OsMaxTasksAssumption
  DEF PInit, Init, SchedInit, MutexInit, Names, Thread, Cell, IDLE_PRIO
<1>3. Live = {0}
  BY <1>2 DEF Live
<1>4. ct \in Nat /\ NumTasks(program) \in Nat
  BY <1>2, TaskTables DEF PInit, ct
<1>5. /\ 1 \in Reached(program, ct, 0)
      /\ LineAt(program, ct, 0, 1).op # "store"
  BY <1>2, <1>4, FirstLine
<1>6. Works(0)
  <2>1. Created(0) = 0
    BY <1>2 DEF Created, CreatedAt
  <2>2. \A m \in Mutex : ~(m < 0)
    BY OsNumMutexAssumption DEF Mutex
  <2>3. ~Fresh(program, 0, pc[0])
    BY DEF Fresh
  <2> QED
    BY <1>2, <1>5, <2>1, <2>2, <2>3 DEF Works, Result, LineOf
<1>7. ProgramTypeOK
  BY DEF PInit, ProgramTypeOK
<1>8. Unborn /\ Threads /\ Jobs /\ NoUpdateLost
  BY <1>2, <1>3, <1>6 DEF PInit, Unborn, Threads, Jobs, NoUpdateLost
<1> QED
  BY <1>1, <1>7, <1>8 DEF PInv

(* Every step of a program is one of the kernel with some client, or none. *)
LEMMA PNextInv ==
    ASSUME Inv, LockInv, PInv, [PNext]_pvars
    PROVE  /\ Inv' /\ LockInv' /\ PInv' /\ [Next]_vars
           /\ TaskCreateCall \/ Live' = Live
<1>1. CASE CreateCall
  BY <1>1, CreateCallKeeps
<1>2. CASE LockCall
  BY <1>2, LockCallKeeps
<1>3. CASE UnlockCall
  BY <1>3, UnlockCallKeeps
<1>4. CASE WaitCall
  BY <1>4, WaitCallKeeps
<1>5. CASE TaskCreateFails
  <2>1. UNCHANGED vars
    BY <1>5 DEF TaskCreateFails
  <2> QED
    BY <1>5, <2>1, TaskCreateFailsKeeps
<1>6. CASE TaskCreateCall
  BY <1>6, TaskCreateCallKeeps
<1>7. CASE Wrapper
  <2>1. UNCHANGED vars
    BY <1>7 DEF Wrapper
  <2> QED
    BY <1>7, <2>1, WrapperKeeps
<1>8. CASE Load
  <2>1. UNCHANGED vars
    BY <1>8 DEF Load
  <2> QED
    BY <1>8, <2>1, LoadKeeps
<1>9. CASE Store
  <2>1. UNCHANGED vars
    BY <1>9 DEF Store
  <2> QED
    BY <1>9, <2>1, StoreKeeps
<1>10. CASE Check
  <2>1. UNCHANGED vars
    BY <1>10 DEF Check
  <2> QED
    BY <1>10, <2>1, CheckKeeps
<1>11. CASE SleepCall
  <2>1. UNCHANGED vars
    BY <1>11 DEF SleepCall
  <2> QED
    BY <1>11, <2>1, SleepCallKeeps
<1>12. CASE SleepReturn
  <2>1. UNCHANGED vars
    BY <1>12 DEF SleepReturn
  <2> QED
    BY <1>12, <2>1, SleepReturnKeeps
<1>13. CASE Loop \/ UNCHANGED pvars
  <2>1. UNCHANGED pvars /\ UNCHANGED vars
    BY <1>13 DEF Loop, pvars
  <2> QED
    BY <2>1, LoopKeeps
<1>14. CASE KernelReturn
  BY <1>14, KernelReturnKeeps
<1>15. CASE Tick
  BY <1>15, TickKeeps
<1> QED
  BY <1>1, <1>2, <1>3, <1>4, <1>5, <1>6, <1>7, <1>8, <1>9, <1>10, <1>11, <1>12, <1>13,
     <1>14, <1>15 DEF PNext

LEMMA ProgramInvariance == PSpec => [](Inv /\ LockInv /\ PInv)
<1>1. PInit => Inv /\ LockInv /\ PInv
  BY PInitInv
<1>2. (Inv /\ LockInv /\ PInv) /\ [PNext]_pvars => (Inv /\ LockInv /\ PInv)'
  BY PNextInv
<1> QED
  BY <1>1, <1>2, PTL DEF PSpec
----------------------------------------------------------------------------
(* The test programs are clients of the kernel as Kernel.tla describes     *)
(* them: each of their steps is a system call, an interrupt or a return of *)
(* the kernel, or leaves the kernel alone.  So what is proved of the       *)
(* kernel for every client holds of it under each of them.                 *)
THEOREM ProgramsAreClients == PSpec => Spec
<1>1. PInit => Init
  BY DEF PInit
<1>2. (Inv /\ LockInv /\ PInv) /\ [PNext]_pvars => [Next]_vars
  BY PNextInv
<1> QED
  BY <1>1, <1>2, ProgramInvariance, PTL DEF PSpec, Spec

(* The tasks of the test programs keep the locking discipline by           *)
(* themselves: without assuming it, no mutex of theirs is ever in two      *)
(* hands, its owner is never switched out and none of them ever sleeps in  *)
(* mutex_lock.                                                             *)
THEOREM ProgramsLockSafely ==
    PSpec => [](MutualExclusion /\ HolderRuns /\ NoContention /\ RecordsAgree)
<1>1. LockInv => MutualExclusion /\ HolderRuns /\ NoContention /\ RecordsAgree
  BY DEF LockInv, HolderRuns, MutualExclusion
<1> QED
  BY <1>1, ProgramInvariance, PTL

(* mutex_chaser.c, stress.c and cyclone.c: no task overwrites the update   *)
(* of another, since what one loaded from a cell is still in it when the   *)
(* task stores the next value: it holds the cell's mutex, or is the only   *)
(* one to store there.                                                     *)
THEOREM UpdatesKept == PSpec => []NoUpdateLost
<1>1. PInv => NoUpdateLost
  BY DEF PInv
<1> QED
  BY <1>1, ProgramInvariance, PTL

(* dev_update releases a periodic task of a test program once for each     *)
(* event of its device, whatever the periods, the width of the clock and   *)
(* the number of ticks that an interrupt brings.                           *)
THEOREM JobForEachEvent == PSpec => []OneJobPerEvent
<1>1. Inv /\ PInv => OneJobPerEvent
  <2> SUFFICES ASSUME Inv, PInv, NEW d \in Device, sleep_q[d] # {}
               PROVE  next_match[d] = (events[d] * dev_freq[d]) % WORD
    BY DEF OneJobPerEvent
  <2>1. d \in QueueWord
    BY NumDevicesAssumption DEF Device, QueueWord
  <2>2. cur_tcb # NULL
    BY <2>1, PrioFacts, TaskFacts DEF Inv, Boot
  <2>3. events[d] \in Nat
    BY DEF PInv, ProgramTypeOK
  <2>4. Awaits(d) = events[d]
    BY <2>3 DEF Awaits
  <2> QED
    BY <2>2, <2>4 DEF PInv, Jobs
<1> QED
  BY <1>1, ProgramInvariance, PTL

(* panic() of a test program spins for ever in a task whose event_wait was *)
(* refused because it owns a mutex; and the highest-locker protocol gives  *)
(* that task the processor for good.                                       *)
THEOREM PanicHolds == PSpec => []PanicKeepsProcessor
<1>1. Inv /\ LockInv /\ PInv => PanicKeepsProcessor
  <2> SUFFICES ASSUME Inv, LockInv, PInv, NEW t \in Thread, pc[t] = PANIC
               PROVE  t # 0 /\ cur_tcb = t /\ owned[t] # {}
    BY DEF PanicKeepsProcessor
  <2>1. t \in Live
    BY DEF PInv, Unborn, PANIC
  <2>2. ~Works(t)
    BY <2>1, AtLine
  <2>3. t # 0 /\ owned[t] # {}
    BY <2>1, <2>2 DEF PInv, Threads, Panics
  <2>4. t \in Tcb
    BY <2>3, OsMaxTasksAssumption DEF Thread, Tcb, IDLE_PRIO
  <2> QED
    BY <2>3, <2>4 DEF LockInv, HolderRuns
<1> QED
  BY <1>1, ProgramInvariance, PTL
----------------------------------------------------------------------------
(* sleep *)

(* The clock counts the periods, and a sleeping thread wakes at what was   *)
(* the time then and the periods it asked for.                             *)
Clock == ticks \in Nat /\ system_time = ticks % WORD
SleepsSince ==
    /\ slept_at \in [Thread -> Nat]
    /\ \A t \in Thread : slept_at[t] <= ticks
    /\ \A t \in Thread : end_time[t] # NULL =>
         end_time[t] = ((slept_at[t] % WORD) + LineOf(t).arg \div 10) % WORD

(* While a thread sleeps it stays at its line, and the line says the same: *)
(* nobody else changes ct.                                                 *)
LEMMA SleeperStays ==
    ASSUME Inv, LockInv, PInv, [PNext]_pvars, NEW t \in Thread, end_time[t] # NULL,
           ~(SleepReturn /\ t = Self)
    PROVE  LineOf(t)' = LineOf(t)
<1>1. t \in Live /\ Works(t) /\ LineOf(t).op = "sleep" /\ ret[t] = NONE
  BY DEF PInv, Unborn, Threads, Panics, Works
<1>2. \A op : At(op) /\ op # "sleep" => t # Self
  BY <1>1, AtFacts
<1>3. /\ pc'[t] = pc[t] /\ program' = program
      /\ val' = val \/ (Store /\ t # Self)
  <2>1. CASE UNCHANGED <<program, pc, val>>
    BY <2>1
  <2>2. CASE TaskCreateCall
    BY <2>2, TaskCreateCallKeeps DEF TaskCreateCall
  <2>3. ASSUME UNCHANGED <<program, val>> \/ (UNCHANGED program /\ Store), t # Self,
               Goto(NextLine) \/ \E line : Goto(line)
        PROVE  pc'[t] = pc[t] /\ program' = program /\ (val' = val \/ (Store /\ t # Self))
    BY <2>3 DEF Goto, PInv, ProgramTypeOK
  <2>4. CASE Wrapper
    <3>1. t # Self
      BY <1>1, <2>4 DEF Wrapper
    <3> QED
      BY <2>3, <2>4, <3>1 DEF Wrapper
  <2>5. CASE Load
    <3>1. t # Self
      BY <1>2, <2>5 DEF Load
    <3> QED
      BY <2>3, <2>5, <3>1 DEF Load
  <2>6. CASE Store
    <3>1. t # Self
      BY <1>2, <2>6 DEF Store
    <3> QED
      BY <2>3, <2>6, <3>1 DEF Store
  <2>7. CASE Check
    <3>1. t # Self
      BY <1>2, <2>7 DEF Check
    <3> QED
      BY <2>3, <2>7, <3>1 DEF Check
  <2>8. CASE SleepReturn
    BY <2>3, <2>8 DEF SleepReturn
  <2>9. [PNext]_pvars => \/ UNCHANGED <<program, pc, val>>
                         \/ TaskCreateCall \/ Wrapper \/ Load \/ Store \/ Check
                         \/ SleepReturn
    BY DEF PNext, CreateCall, LockCall, UnlockCall, WaitCall, TaskCreateFails, Returns,
       SleepCall, Loop, KernelReturn, Tick, pvars, progVars
  <2> QED
    BY <2>1, <2>2, <2>4, <2>5, <2>6, <2>7, <2>8, <2>9
<1>4. CASE val' = val
  BY <1>3, <1>4 DEF LineOf, ct
<1>5. CASE Store /\ t # Self
  <2>1. ct \in Nat /\ ct' \in Nat
    <3>1. 0 \in Cell
      BY OsMaxTasksAssumption DEF Cell
    <3>2. PInv'
      BY <1>5, StoreKeeps
    <3> QED
      BY <3>1, <3>2, LiveFacts DEF ct, PInv, ProgramTypeOK
  <2>2. program # "cyclone" \/ t # 1
    <3>1. PICK T \in Live : T = Self
      BY <1>5, AtFacts DEF Store
    <3>2. Works(T) /\ LineOf(T).op = "store"
      BY <1>5, <3>1, AtFacts DEF Store
    <3>3. T # 0 /\ T \in 0 .. NumTasks(program)
      BY <3>2, AtLine DEF LineFacts, Stores, LineOf
    <3> QED
      BY <1>5, <3>1, <3>3 DEF NumTasks
  <2>3. LineAt(program, ct', t, pc[t]) = LineAt(program, ct, t, pc[t])
    BY <1>1, <2>1, <2>2, LiveFacts, CountFree DEF Works
  <2> QED
    BY <1>3, <2>3 DEF LineOf
<1> QED
  BY <1>3, <1>4, <1>5

(* Adding what a remainder is short of another gives that one.             *)
LEMMA ModCatch ==
    ASSUME NEW W \in Nat \ {0}, NEW x \in Nat, NEW n \in 0 .. W - 1
    PROVE  /\ (n - (x % W)) % W \in Nat
           /\ (x + ((n - (x % W)) % W)) % W = n
<1> DEFINE q == x \div W
           r == x % W
           f == (n - r) % W
<1>1. q \in Int /\ r \in 0 .. W - 1 /\ x = W * q + r
  OBVIOUS
<1> HIDE DEF q, r
<1>2. f \in 0 .. W - 1 /\ (f = n - r \/ f = n - r + W)
  BY <1>1
<1> HIDE DEF f
<1>3. PICK k \in Int : x + f = W * k + n
  <2>1. CASE f = n - r
    BY <1>1, <2>1
  <2>2. CASE f = n - r + W
    <3> DEFINE k == q + 1
    <3>1. W * k = W * q + W
      BY <1>1
    <3>2. k \in Int
      BY <1>1
    <3> HIDE DEF k
    <3> QED
      BY <1>1, <1>2, <2>2, <3>1, <3>2
  <2> QED
    BY <1>2, <2>1, <2>2
<1>4. x + f \in Nat
  BY <1>2
<1>5. (x + f) % W = n
  <2> DEFINE y == x + f
  <2>1. y \in Nat /\ y = W * k + n
    BY <1>3, <1>4
  <2> HIDE DEF y
  <2>2. y % W = n
    BY <2>1, ModUnique
  <2> QED
    BY <2>2 DEF y
<1> QED
  BY <1>2, <1>5 DEF f, r

(* The clock goes on at each interrupt by the periods it brings, and else  *)
(* stands still.                                                           *)
LEMMA ClockKept ==
    ASSUME Inv, Clock, [PNext]_pvars
    PROVE  Clock' /\ ticks <= ticks'
<1>1. CASE Tick
  <2>1. PICK oscr \in Oscr : system_time' = Now(oscr)
    BY <1>1 DEF Tick, Interrupt, TimerIrq
  <2>2. ticks' = ticks + ((system_time' - (ticks % WORD)) % WORD)
    BY <1>1 DEF Tick, Clock
  <2>3. system_time' \in 0 .. WORD - 1
    <3>1. oscr \div OSTMR_COUNT \in Int /\ Carry(oscr) \in Int /\ system_time \in Int
      BY TimerAssumption DEF Carry, Clock
    <3> QED
      BY <2>1, <3>1, TimerAssumption DEF Now
  <2>4. /\ (system_time' - (ticks % WORD)) % WORD \in Nat
        /\ (ticks + ((system_time' - (ticks % WORD)) % WORD)) % WORD = system_time'
    BY <2>3, TimerAssumption, ModCatch DEF Clock
  <2> QED
    BY <2>2, <2>4 DEF Clock
<1>2. ~Tick => UNCHANGED <<system_time, ticks>>
  BY DEF PNext, CreateCall, LockCall, UnlockCall, WaitCall, EventWait, EventWaitFails,
     TaskCreateFails, TaskCreateCall, TaskCreate, DevInit, Wrapper, Load, Store, Check,
     SleepCall, SleepReturn, Loop, KernelReturn, Return, LaunchTask, MutexLockReturn,
     MutexUnlockReturn, DevWaitReturn, DevUpdateReturn, vars, deviceVars, historyVars, pvars
<1> QED
  BY <1>1, <1>2 DEF Clock

LEMMA SleepersKept ==
    ASSUME Inv, LockInv, PInv, Clock, SleepsSince, [PNext]_pvars
    PROVE  SleepsSince'
<1>1. ticks \in Nat /\ ticks' \in Nat /\ ticks <= ticks'
  BY ClockKept DEF Clock
<1>2. CASE SleepCall
  <2>1. PICK T \in Live : T = Self
    BY <1>2, AtFacts DEF SleepCall
  <2>2. /\ T \in Thread /\ Line = LineOf(T) /\ end_time[T] = NULL
        /\ end_time' = [end_time EXCEPT ![T] = EndTime(LineOf(T).arg)]
        /\ slept_at' = [slept_at EXCEPT ![T] = ticks]
        /\ UNCHANGED <<program, pc, val, ticks>>
    BY <1>2, <2>1, AtFacts DEF SleepCall
  <2>3. slept_at' \in [Thread -> Nat] /\ \A t \in Thread : slept_at'[t] <= ticks'
    BY <1>1, <2>2 DEF SleepsSince
  <2>4. ASSUME NEW t \in Thread, end_time'[t] # NULL
        PROVE  end_time'[t] = ((slept_at'[t] % WORD) + LineOf(t)'.arg \div 10) % WORD
    <3>1. LineOf(t)' = LineOf(t)
      BY <2>2 DEF LineOf, ct
    <3>2. CASE t = T
      <4>1. end_time'[t] = (system_time + LineOf(t).arg \div 10) % WORD
        BY <2>2, <3>2 DEF EndTime, PInv, ProgramTypeOK
      <4>2. slept_at'[t] = ticks
        BY <2>2, <3>2 DEF SleepsSince
      <4> QED
        BY <3>1, <4>1, <4>2 DEF Clock
    <3>3. CASE t # T
      <4>1. end_time'[t] = end_time[t] /\ slept_at'[t] = slept_at[t]
        BY <2>2, <3>3 DEF SleepsSince, PInv, ProgramTypeOK
      <4> QED
        BY <2>4, <3>1, <4>1 DEF SleepsSince
    <3> QED
      BY <3>2, <3>3
  <2> QED
    BY <2>3, <2>4 DEF SleepsSince
<1>3. CASE SleepReturn
  <2>1. PICK T \in Live : T = Self
    BY <1>3, AtFacts DEF SleepReturn
  <2>2. /\ T \in Thread
        /\ end_time' = [end_time EXCEPT ![T] = NULL]
        /\ slept_at' = [slept_at EXCEPT ![T] = 0]
        /\ UNCHANGED ticks
    BY <1>3, <2>1, AtFacts DEF SleepReturn
  <2>3. slept_at' \in [Thread -> Nat] /\ \A t \in Thread : slept_at'[t] <= ticks'
    BY <1>1, <2>2 DEF SleepsSince
  <2>4. ASSUME NEW t \in Thread, end_time'[t] # NULL
        PROVE  end_time'[t] = ((slept_at'[t] % WORD) + LineOf(t)'.arg \div 10) % WORD
    <3>1. t # T
      BY <2>2, <2>4 DEF PInv, ProgramTypeOK
    <3>2. end_time'[t] = end_time[t] /\ slept_at'[t] = slept_at[t]
      BY <2>2, <3>1 DEF SleepsSince, PInv, ProgramTypeOK
    <3>3. LineOf(t)' = LineOf(t)
      BY <2>1, <2>4, <3>1, <3>2, SleeperStays
    <3> QED
      BY <2>4, <3>2, <3>3 DEF SleepsSince
  <2> QED
    BY <2>3, <2>4 DEF SleepsSince
<1>4. CASE ~SleepCall /\ ~SleepReturn
  <2>1. UNCHANGED <<end_time, slept_at>>
    BY <1>4 DEF PNext, CreateCall, LockCall, UnlockCall, WaitCall, TaskCreateFails, Returns,
       TaskCreateCall, Wrapper, Load, Store, Check, Loop, KernelReturn, Tick, progVars,
       historyVars, pvars
  <2>2. \A t \in Thread : end_time[t] # NULL => LineOf(t)' = LineOf(t)
    BY <1>4, SleeperStays
  <2> QED
    BY <1>1, <2>1, <2>2 DEF SleepsSince
<1> QED
  BY <1>2, <1>3, <1>4

(* Time modulo the word goes no further than time.                         *)
LEMMA ModLeap ==
    ASSUME NEW W \in Nat \ {0}, NEW x \in Nat, NEW s \in 0 .. x
    PROVE  (x % W) - (s % W) <= x - s
<1> DEFINE q == x \div W
           r == x % W
           p == s \div W
           z == s % W
<1>1. q \in Int /\ r \in 0 .. W - 1 /\ x = W * q + r
  OBVIOUS
<1>2. p \in Int /\ z \in 0 .. W - 1 /\ s = W * p + z
  OBVIOUS
<1> HIDE DEF q, r, p, z
<1>3. x - s = W * (q - p) + (r - z)
  BY <1>1, <1>2
<1>4. q - p <= -1 => W * (q - p) <= -W
  BY <1>1, <1>2
<1>5. q - p >= 0
  BY <1>1, <1>2, <1>3, <1>4
<1>6. W * (q - p) >= 0
  BY <1>1, <1>2, <1>5
<1>7. r - z <= x - s
  BY <1>1, <1>2, <1>3, <1>6
<1> QED
  BY <1>7 DEF r, z

(* sleep_syscall breaks its promise to wait at least as long as it was     *)
(* asked only by less than one period of the timer, which its division     *)
(* drops, or because its end time wraps around: for any argument, any      *)
(* width of the clock and interrupts that are served at any time.          *)
THEOREM SleepShortfall == PSpec => SleepShortByPart
<1>1. PInit => Clock /\ SleepsSince
  BY TimerAssumption DEF PInit, Init, DeviceInit, Clock, SleepsSince
<1>2. (Inv /\ LockInv /\ PInv) /\ (Clock /\ SleepsSince) /\ [PNext]_pvars
        => (Clock /\ SleepsSince)'
  BY ClockKept, SleepersKept
<1>3. (Inv /\ LockInv /\ PInv) /\ (Clock /\ SleepsSince) /\ [PNext]_pvars
        => [SleepReturn /\ Slept < Line.arg =>
              \/ Slept > Line.arg - TIMER_RESOLUTION
              \/ (slept_at[Self] % WORD) + Line.arg \div 10 >= WORD]_pvars
  <2> DEFINE asked == Line.arg \div 10
             since == slept_at[Self]
  <2> SUFFICES ASSUME Inv, LockInv, PInv, Clock, SleepsSince, SleepReturn,
                      ~((since % WORD) + asked >= WORD)
               PROVE  Slept > Line.arg - TIMER_RESOLUTION
    OBVIOUS
  <2>1. /\ Self \in Thread /\ Self \in Live /\ Works(Self) /\ Line = LineOf(Self)
        /\ LineOf(Self).op = "sleep"
        /\ end_time[Self] # NULL /\ system_time >= end_time[Self]
    BY AtFacts DEF SleepReturn
  <2>2. asked \in Nat
    <3>1. LineOf(Self).arg \in Nat
      BY <2>1, AtLine DEF LineFacts, LineOf
    <3> QED
      BY <2>1, <3>1
  <2>3. /\ since \in 0 .. ticks /\ ticks \in Nat
        /\ end_time[Self] = ((since % WORD) + asked) % WORD
        /\ system_time = ticks % WORD
    BY <2>1 DEF SleepsSince, Clock
  <2> HIDE DEF asked, since
  <2>4. since % WORD \in 0 .. WORD - 1 /\ WORD \in Nat \ {0}
    BY <2>3, TimerAssumption
  <2>5. (since % WORD) + asked \in 0 .. WORD - 1
    BY <2>2, <2>4
  <2>6. end_time[Self] = (since % WORD) + asked
    BY <2>3, <2>4, <2>5
  <2>7. (ticks % WORD) - (since % WORD) <= ticks - since
    BY <2>3, <2>4, ModLeap
  <2>8. ticks % WORD \in Nat
    BY <2>3, <2>4
  <2>9. ticks - since >= asked
    BY <2>1, <2>2, <2>3, <2>4, <2>6, <2>7, <2>8
  <2>10. Line.arg \in Nat /\ Line.arg < 10 * asked + 10
    <3>1. Line.arg \in Nat
      BY <2>1, AtLine DEF LineFacts, LineOf
    <3> QED
      BY <3>1 DEF asked
  <2> QED
    BY <2>2, <2>3, <2>9, <2>10 DEF Slept, since, TIMER_RESOLUTION
<1> QED
  BY <1>1, <1>2, <1>3, ProgramInvariance, PTL DEF PSpec, SleepShortByPart
----------------------------------------------------------------------------
(* The checks of sys_err. *)

(* What a call must return that the next line checks: e, as the table has  *)
(* it, is what the call gives in the state that the thread is in.          *)
Checks == {"errno", "result"}
Expected(t, k, line, e) ==
    LET m    == line.arg
        held == m \in HoldsAt("sys_err", t, k)
    IN  \/ line.op = "create" /\ CreatedAt("sys_err", t, k) = MUTEX_NUM /\ e = "ENOMEM"
        \/ line.op = "lock" /\ e = IF m \notin Mutex THEN "EINVAL"
                                   ELSE IF held THEN "EDEADLOCK" ELSE "0"
        \/ line.op = "unlock" /\ e = IF m \notin Mutex THEN "EINVAL"
                                     ELSE IF held THEN "0" ELSE "EPERM"
        \/ line.op = "wait" /\ m > NUM_DEVICES /\ e = "EINVAL"
        \/ line.op = "task_create" /\ m > OS_MAX_TASKS - 2 /\ e = "EINVAL"

(* A check follows such a call, but for the one after the bad pointer.     *)
SysErrFacts(c, t, k) ==
    LET line == LineAt("sys_err", c, t, k)
        j    == After("sys_err", c, t, k)
        next == LineAt("sys_err", c, t, j)
    IN  /\ ~line.must
        /\ line.op \in Calls \cup Checks \cup {"spin"}
        /\ line.op = "task_create" => t = 0
        /\ line.op \in Checks => next.op \notin Checks
        /\ line.op \in Calls /\ next.op \in Checks /\ <<t, j>> # BadPointerCheck
             => Expected(t, k, line, next.arg)

LEMMA SysErrChecks ==
    ASSUME NEW c \in Nat, NEW t \in 0 .. 1, NEW k \in Reached("sys_err", c, t)
    PROVE  SysErrFacts(c, t, k)
<1> DEFINE p == "sys_err"
           L(j) == LineAt(p, c, t, j)
<1>1. CASE t = 0
  <2>1. Code(p, c, t) = SysErrMain
    BY <1>1 DEF Code, Main
  <2>2. /\ Reached(p, c, t) = 1 .. 5
        /\ After(p, c, t, 1) = 2 /\ After(p, c, t, 2) = 3
        /\ After(p, c, t, 3) = 4 /\ After(p, c, t, 4) = 5 /\ After(p, c, t, 5) = 1
        /\ L(1) = Do("task_create", OS_MAX_TASKS + 1) /\ L(2) = Do("errno", "EINVAL")
        /\ L(3) = Do("bad_pointer", 30) /\ L(4) = Do("errno", "EFAULT")
        /\ L(5) = Do("task_create", 1)
    BY <1>1, <2>1 DEF Reached, LineAt, After, Fun, SysErrMain
  <2>3. OS_MAX_TASKS + 1 > OS_MAX_TASKS - 2
    BY OsMaxTasksAssumption
  <2> HIDE DEF L
  <2>4. SysErrFacts(c, t, 1) /\ SysErrFacts(c, t, 2)
    BY <1>1, <2>2, <2>3 DEF SysErrFacts, L, Do, Calls, Checks, Expected
  <2>5. SysErrFacts(c, t, 3) /\ SysErrFacts(c, t, 4) /\ SysErrFacts(c, t, 5)
    BY <1>1, <2>2 DEF SysErrFacts, L, Do, Calls, Checks, BadPointerCheck
  <2>6. k = 1 \/ k = 2 \/ k = 3 \/ k = 4 \/ k = 5
    BY <2>2
  <2> QED
    BY <2>4, <2>5, <2>6
<1>2. CASE t = 1
  <2> DEFINE n == MUTEX_NUM + 1
  <2>1. /\ DOMAIN Code(p, c, t).body = 1 .. n + 16
        /\ \A j \in 1 .. n : L(j) = Do("create", 0)
    BY <1>2, SysErrBody
  <2>2. /\ L(n + 1) = Do("errno", "ENOMEM")
        /\ L(n + 2) = Do("unlock", OS_NUM_MUTEX) /\ L(n + 3) = Do("errno", "EINVAL")
        /\ L(n + 4) = Do("unlock", OS_NUM_MUTEX - 1) /\ L(n + 5) = Do("errno", "EPERM")
        /\ L(n + 6) = Do("lock", OS_NUM_MUTEX) /\ L(n + 7) = Do("errno", "EINVAL")
        /\ L(n + 8) = Do("lock", 1) /\ L(n + 9) = Do("result", "0")
        /\ L(n + 10) = Do("lock", 1) /\ L(n + 11) = Do("errno", "EDEADLOCK")
        /\ L(n + 12) = Do("unlock", 1) /\ L(n + 13) = Do("result", "0")
        /\ L(n + 14) = Do("wait", NUM_DEVICES + 1) /\ L(n + 15) = Do("errno", "EINVAL")
        /\ L(n + 16) = Spin
    BY <1>2, SysErrBody
  <2>3. n \in Nat /\ 3 <= n /\ n - 1 = MUTEX_NUM
    BY MutexNumAssumption, OsNumMutexAssumption
  <2>4. \A i \in 1 .. 16 : HoldsAt(p, t, n + i) = IF 9 <= i /\ i <= 12 THEN {1} ELSE {}
    BY <1>2, <2>3 DEF HoldsAt
  <2>5. CreatedAt(p, t, n) = MUTEX_NUM
    BY <1>2, <2>3 DEF CreatedAt
  <2> HIDE DEF L, n
  <2>6. \A j \in 1 .. n + 15 : After(p, c, t, j) = j + 1
    BY <2>1, <2>3 DEF After
  <2>7. ASSUME NEW j \in 1 .. n PROVE SysErrFacts(c, t, j)
    <3>1. L(j).op = "create" /\ L(j).must = FALSE
      BY <2>1 DEF Do
    <3>2. j < n => L(j + 1) = Do("create", 0)
      BY <2>1, <2>3
    <3>3. After(p, c, t, j) = j + 1
      BY <2>3, <2>6
    <3>4. CASE j < n
      BY <3>1, <3>2, <3>3, <3>4 DEF SysErrFacts, Calls, Checks, Do, L
    <3>5. CASE j = n
      BY <2>2, <2>5, <3>1, <3>3, <3>5 DEF SysErrFacts, Calls, Checks, Do, L, Expected
    <3> QED
      BY <2>3, <3>4, <3>5
  <2>8. /\ 1 \in Mutex /\ OS_NUM_MUTEX \notin Mutex /\ OS_NUM_MUTEX - 1 \in Mutex
        /\ NUM_DEVICES + 1 > NUM_DEVICES
    BY OsNumMutexAssumption, MutexNumAssumption, NumDevicesAssumption DEF Mutex
  <2>9. ASSUME NEW i \in {1, 3, 5, 7, 9, 11, 13, 15} PROVE SysErrFacts(c, t, n + i)
    <3>1. L(n + i).op \in Checks /\ L(n + i).must = FALSE
      BY <2>2 DEF Checks, Do
    <3>2. L(n + (i + 1)).op \notin Checks
      BY <2>2 DEF Checks, Do, Spin
    <3>3. After(p, c, t, n + i) = n + (i + 1)
      BY <2>3, <2>6
    <3> QED
      BY <3>1, <3>2, <3>3 DEF SysErrFacts, L, Checks, Calls
  <2>10. ASSUME NEW i \in {2, 4, 6, 8, 10, 12, 14} PROVE SysErrFacts(c, t, n + i)
    <3>1. L(n + i).op \in Calls /\ L(n + i).must = FALSE /\ L(n + i).op # "task_create"
      BY <2>2 DEF Calls, Do
    <3>2. Expected(t, n + i, L(n + i), L(n + (i + 1)).arg)
      <4>1. HoldsAt(p, t, n + i) = IF i = 10 \/ i = 12 THEN {1} ELSE {}
        BY <2>4
      <4>2. CASE i = 2 \/ i = 4
        BY <2>2, <2>8, <4>1, <4>2 DEF Expected, Do
      <4>3. CASE i = 6 \/ i = 8
        BY <2>2, <2>8, <4>1, <4>3 DEF Expected, Do
      <4>4. CASE i = 10 \/ i = 12
        BY <2>2, <2>8, <4>1, <4>4 DEF Expected, Do
      <4>5. CASE i = 14
        BY <2>2, <2>8, <4>5 DEF Expected, Do
      <4> QED
        BY <4>2, <4>3, <4>4, <4>5
    <3>3. After(p, c, t, n + i) = n + (i + 1)
      BY <2>3, <2>6
    <3> QED
      BY <3>1, <3>2, <3>3 DEF SysErrFacts, L, Calls, Checks
  <2>11. SysErrFacts(c, t, n + 16)
    BY <2>2 DEF SysErrFacts, L, Calls, Checks, Spin, Do
  <2>12. CASE k <= n
    BY <2>1, <2>3, <2>7, <2>12 DEF Reached
  <2>13. CASE ~(k <= n)
    <3> DEFINE i == k - n
    <3>1. k = n + i /\ i \in 1 .. 16
      BY <2>1, <2>3, <2>13 DEF Reached
    <3> HIDE DEF i
    <3>2. \/ i \in {1, 3, 5, 7, 9, 11, 13, 15} \/ i \in {2, 4, 6, 8, 10, 12, 14} \/ i = 16
      BY <3>1
    <3> QED
      BY <2>9, <2>10, <2>11, <3>1, <3>2
  <2> QED
    BY <2>12, <2>13
<1> QED
  BY <1>1, <1>2

(* The task of sys_err, or its main before that; what its next check looks *)
(* at is there (errno is nobody else's, and got[] is what the wrapper      *)
(* left), but for the check after the bad pointer.                         *)
Busy == IF cur_tcb = NULL THEN 0 ELSE 1
AfterNext == LineAt(program, ct, Busy, NextOf(Busy))
Checked ==
    /\ program # "stress" => failed \subseteq {BadPointerCheck}
    /\ program \notin {"sys_err", "stress"} => failed = {}
    /\ got = [t \in Thread |-> got[t]]
    /\ program = "sys_err" =>
         /\ pc[Busy] # PANIC
         /\ <<Busy, pc[Busy]>> # BadPointerCheck =>
              /\ LineOf(Busy).op = "errno" => errno = LineOf(Busy).arg
              /\ LineOf(Busy).op = "result" => got[Busy] = LineOf(Busy).arg
         /\ ret[Busy] # NONE => \/ AfterNext.op \notin Checks
                                \/ <<Busy, NextOf(Busy)>> = BadPointerCheck
                                \/ ret[Busy] = AfterNext.arg

LEMMA BusyFacts ==
    ASSUME Inv, PInv, Checked, program = "sys_err"
    PROVE  /\ Busy \in Live /\ Busy \in Thread /\ Busy \in 0 .. 1 /\ Works(Busy)
           /\ ct \in Nat
           /\ SysErrFacts(ct, Busy, pc[Busy])
           /\ ~LineOf(Busy).must
           /\ cur_tcb # IDLE_PRIO => Self = Busy /\ Line = LineOf(Busy) /\ NextLine = NextOf(Busy)
<1>1. Live = 0 .. Busy /\ Busy \in 0 .. 1
  BY DEF Live, NumTasks, Busy
<1>2. Busy \in Live /\ Busy \in Thread
  BY <1>1, LiveFacts
<1>3. Works(Busy)
  BY <1>2 DEF PInv, Threads, Panics, Checked
<1>4. SysErrFacts(ct, Busy, pc[Busy]) /\ ct \in Nat
  BY <1>1, <1>3, LiveFacts, SysErrChecks DEF Works
<1>5. ~LineOf(Busy).must
  BY <1>4 DEF SysErrFacts, LineOf
<1>6. ASSUME cur_tcb # IDLE_PRIO PROVE Self = Busy
  <2>1. CASE cur_tcb = NULL
    BY <1>6, <2>1, SelfFacts DEF Busy
  <2>2. CASE cur_tcb # NULL
    <3>1. Self \in Live /\ Self # 0 /\ Busy = 1
      BY <1>6, <2>2, SelfFacts DEF Busy
    <3> QED
      BY <1>1, <3>1
  <2> QED
    BY <2>1, <2>2
<1> QED
  BY <1>1, <1>2, <1>3, <1>4, <1>5, <1>6, SelfFacts

(* It makes no access to shared variables and does not sleep.              *)
LEMMA BusyAt ==
    ASSUME Inv, PInv, Checked, program = "sys_err", NEW op, At(op)
    PROVE  /\ op \in Calls \cup Checks \cup {"spin"}
           /\ Self = Busy /\ LineOf(Busy).op = op /\ Line = LineOf(Busy)
           /\ cur_tcb # IDLE_PRIO /\ ret[Busy] = NONE
<1>1. cur_tcb # IDLE_PRIO /\ Self = Busy /\ LineOf(Busy).op = op /\ ret[Busy] = NONE
  BY AtFacts, BusyFacts
<1> QED
  BY <1>1, BusyFacts DEF SysErrFacts, LineOf

(* The thread is the same after a step of anything but task_create.        *)
LEMMA BusyStays ==
    ASSUME Live' = Live, program = "sys_err", program' = program
    PROVE  Busy' = Busy
<1>1. NumTasks(program) = 1 /\ NumTasks(program)' = 1
  BY DEF NumTasks
<1>2. 1 \in Live <=> cur_tcb # NULL
  BY <1>1 DEF Live
<1>3. 1 \in Live' <=> cur_tcb' # NULL
  BY <1>1 DEF Live
<1> QED
  BY <1>2, <1>3 DEF Busy

(* A call returns what the next line expects of it. *)
LEMMA CallChecked ==
    ASSUME Inv, PInv, Checked, Live' = Live, program = "sys_err",
           Self = Busy, LineOf(Busy).op \in Calls, NEW r, Returns(r),
           \A e : Expected(Busy, pc[Busy], LineOf(Busy), e) => r = e
    PROVE  Checked'
<1>1. /\ ret' = [ret EXCEPT ![Busy] = r]
      /\ UNCHANGED <<program, pc, errno, got, val, failed>>
  BY DEF Returns
<1>2. Busy' = Busy
  BY <1>1, BusyStays
<1>3. LineOf(Busy)' = LineOf(Busy) /\ AfterNext' = AfterNext /\ NextOf(Busy)' = NextOf(Busy)
  BY <1>1, <1>2 DEF LineOf, AfterNext, NextOf, ct
<1>4. ret'[Busy] = r
  BY <1>1, BusyFacts DEF PInv, ProgramTypeOK
<1>5. \/ AfterNext.op \notin Checks
      \/ <<Busy, NextOf(Busy)>> = BadPointerCheck
      \/ r = AfterNext.arg
  BY BusyFacts DEF SysErrFacts, AfterNext, LineOf, NextOf
<1> QED
  BY <1>1, <1>2, <1>3, <1>4, <1>5 DEF Checked, BadPointerCheck

LEMMA CreateCallChecked ==
    ASSUME MUTEX_NUM = OS_NUM_MUTEX,
           Inv, LockInv, PInv, Checked, program = "sys_err", CreateCall
    PROVE  Checked'
<1>1. Self = Busy /\ LineOf(Busy).op = "create" /\ ret[Busy] = NONE
  BY BusyAt DEF CreateCall
<1>2. Live' = Live
  BY CreateCallKeeps
<1>3. PICK r : /\ Returns(r)
               /\ r = "ENOMEM" \/ MutexCreate
  BY DEF CreateCall
<1>4. ASSUME CreatedAt(program, Busy, pc[Busy]) = MUTEX_NUM, MutexCreate
      PROVE  FALSE
  <2>1. Created(Busy) = MUTEX_NUM /\ Works(Busy)
    BY <1>1, <1>4, BusyFacts DEF Created, NONE
  <2>2. \A m \in Mutex : m < MUTEX_NUM
    BY OsNumMutexAssumption DEF Mutex
  <2> QED
    BY <1>4, <2>1, <2>2 DEF Works, MutexCreate
<1>5. \A e : Expected(Busy, pc[Busy], LineOf(Busy), e) => r = e
  BY <1>1, <1>3, <1>4 DEF Expected
<1> QED
  BY <1>1, <1>2, <1>3, <1>5, CallChecked DEF Calls

LEMMA LockCallChecked ==
    ASSUME Inv, LockInv, PInv, Checked, program = "sys_err", LockCall
    PROVE  Checked'
<1>1. /\ Self = Busy /\ LineOf(Busy).op = "lock" /\ ret[Busy] = NONE /\ Line = LineOf(Busy)
      /\ cur_tcb # IDLE_PRIO
  BY BusyAt DEF LockCall
<1>2. Live' = Live
  BY LockCallKeeps
<1>3. PICK m : m = LineOf(Busy).arg
  OBVIOUS
<1>4. Busy # 0 /\ Works(Busy) /\ Busy \in Live
  BY <1>1, AtLine, BusyFacts DEF LineFacts, Locks, LineOf
<1>5. Busy = cur_tcb /\ cur_tcb # NULL /\ cur_tcb \in Tcb
  BY <1>1, <1>4, SelfFacts
<1>6. owned[cur_tcb] = HoldsAt(program, Busy, pc[Busy])
  BY <1>1, <1>4, <1>5 DEF Works, Held, NONE
<1>7. \A k \in Mutex : bLock[k] <=> k \in owned[cur_tcb]
  BY <1>5 DEF LockInv, RecordsAgree, HolderRuns
<1>8. \A k \in Mutex : bLock[k] => pHolding_Tcb[k] = cur_tcb
  BY <1>5, <1>7 DEF LockInv, RecordsAgree
<1>9. PICK r : /\ Returns(r)
               /\ \/ MutexLockFails(m) /\ r = IF m \in Mutex THEN "EDEADLOCK" ELSE "EINVAL"
                  \/ (MutexLockTake(m) \/ MutexLockSleep(m)) /\ r = "0"
  BY <1>1, <1>3 DEF LockCall
<1>10. r = IF m \notin Mutex THEN "EINVAL" ELSE IF m \in owned[cur_tcb] THEN "EDEADLOCK" ELSE "0"
  BY <1>7, <1>8, <1>9 DEF MutexLockFails, MutexLockTake, MutexLockSleep
<1>11. \A e : Expected(Busy, pc[Busy], LineOf(Busy), e) => r = e
  BY <1>1, <1>3, <1>6, <1>10 DEF Expected
<1> QED
  BY <1>1, <1>2, <1>9, <1>11, CallChecked DEF Calls

LEMMA UnlockCallChecked ==
    ASSUME Inv, LockInv, PInv, Checked, program = "sys_err", UnlockCall
    PROVE  Checked'
<1>1. /\ Self = Busy /\ LineOf(Busy).op = "unlock" /\ ret[Busy] = NONE /\ Line = LineOf(Busy)
      /\ cur_tcb # IDLE_PRIO
  BY BusyAt DEF UnlockCall
<1>2. Live' = Live
  BY UnlockCallKeeps
<1>3. PICK m : m = LineOf(Busy).arg
  OBVIOUS
<1>4. /\ Busy # 0 /\ Works(Busy) /\ Busy \in Live
      /\ m \in HoldsAt(program, Busy, pc[Busy]) => m < CreatedAt(program, Busy, pc[Busy])
      /\ m \in Mutex \ HoldsAt(program, Busy, pc[Busy]) => Fresh(program, Busy, pc[Busy])
  BY <1>1, <1>3, AtLine, BusyFacts DEF LineFacts, Unlocks, LineOf
<1>5. Busy = cur_tcb /\ cur_tcb # NULL /\ cur_tcb \in Tcb
  BY <1>1, <1>4, SelfFacts
<1>6. /\ owned[cur_tcb] = HoldsAt(program, Busy, pc[Busy])
      /\ \A k \in Mutex : k < CreatedAt(program, Busy, pc[Busy]) => ~bAvailable[k]
      /\ Fresh(program, Busy, pc[Busy]) => \A k \in Mutex : pHolding_Tcb[k] # cur_tcb
  BY <1>1, <1>4, <1>5 DEF Works, Held, Created, NONE
<1>7. \A k \in Mutex : k \in owned[cur_tcb] => pHolding_Tcb[k] = cur_tcb
  BY <1>5 DEF LockInv, RecordsAgree
<1>8. PICK r : /\ Returns(r)
               /\ \/ MutexUnlockFails(m) /\ r = IF m \in Mutex THEN "EPERM" ELSE "EINVAL"
                  \/ MutexUnlock(m) /\ r = "0"
  BY <1>1, <1>3 DEF UnlockCall
<1>9. r = IF m \notin Mutex THEN "EINVAL" ELSE IF m \in owned[cur_tcb] THEN "0" ELSE "EPERM"
  <2>1. CASE m \in Mutex /\ m \in owned[cur_tcb]
    <3>1. ~bAvailable[m] /\ pHolding_Tcb[m] = cur_tcb
      BY <1>4, <1>6, <1>7, <2>1
    <3> QED
      BY <1>8, <2>1, <3>1 DEF MutexUnlockFails
  <2>2. CASE m \in Mutex /\ m \notin owned[cur_tcb]
    <3>1. pHolding_Tcb[m] # cur_tcb
      BY <1>4, <1>6, <2>2
    <3> QED
      BY <1>8, <2>2, <3>1 DEF MutexUnlock
  <2>3. CASE m \notin Mutex
    BY <1>8, <2>3 DEF MutexUnlock
  <2> QED
    BY <2>1, <2>2, <2>3
<1>10. \A e : Expected(Busy, pc[Busy], LineOf(Busy), e) => r = e
  BY <1>1, <1>3, <1>6, <1>9 DEF Expected
<1> QED
  BY <1>1, <1>2, <1>8, <1>10, CallChecked DEF Calls

LEMMA WaitCallChecked ==
    ASSUME Inv, LockInv, PInv, Checked, program = "sys_err", WaitCall
    PROVE  Checked'
<1>1. /\ Self = Busy /\ LineOf(Busy).op = "wait" /\ ret[Busy] = NONE /\ Line = LineOf(Busy)
  BY BusyAt DEF WaitCall
<1>2. Live' = Live
  BY WaitCallKeeps
<1>3. PICK m : m = LineOf(Busy).arg
  OBVIOUS
<1>4. m \in Nat
  <2>1. Waiting(program, ct, Busy, pc[Busy])
    BY <1>1, AtLine, BusyFacts DEF LineFacts, LineOf
  <2> QED
    BY <1>3, <2>1, NumDevicesAssumption DEF Waiting, LineOf, Device
<1>5. PICK r : /\ Returns(r)
               /\ r = "EINVAL" \/ ~(m > NUM_DEVICES)
  BY <1>1, <1>3, <1>4, NumDevicesAssumption DEF WaitCall, EventWait
<1>6. \A e : Expected(Busy, pc[Busy], LineOf(Busy), e) => r = e
  BY <1>1, <1>3, <1>5 DEF Expected
<1> QED
  BY <1>1, <1>2, <1>5, <1>6, CallChecked DEF Calls

LEMMA TaskCreateFailsChecked ==
    ASSUME Inv, LockInv, PInv, Checked, program = "sys_err", TaskCreateFails
    PROVE  Checked'
<1>1. PICK op \in {"task_create", "bad_pointer"} : At(op)
  BY DEF TaskCreateFails
<1>2. Self = Busy /\ LineOf(Busy).op = op
  BY <1>1, BusyAt
<1>3. Live' = Live
  BY TaskCreateFailsKeeps
<1>4. PICK r : /\ Returns(r)
               /\ r = "EINVAL" \/ At("bad_pointer")
  BY DEF TaskCreateFails
<1>5. \A e : Expected(Busy, pc[Busy], LineOf(Busy), e) => r = e
  BY <1>2, <1>4, BusyAt DEF Expected
<1> QED
  BY <1>2, <1>3, <1>4, <1>5, CallChecked DEF Calls

(* main's second task_create starts the task at its first line.            *)
LEMMA TaskCreateCallChecked ==
    ASSUME Inv, LockInv, PInv, Checked, program = "sys_err", TaskCreateCall
    PROVE  Checked'
<1>1. Self = Busy /\ LineOf(Busy).op = "task_create" /\ Line = LineOf(Busy)
      /\ cur_tcb # IDLE_PRIO
  BY BusyAt DEF TaskCreateCall
<1>2. Busy = 0 /\ cur_tcb = NULL
  <2>1. Busy = 0
    BY <1>1, BusyFacts DEF SysErrFacts, LineOf
  <2> QED
    BY <2>1 DEF Busy
<1>3. /\ 1 \in Thread /\ 1 \notin Live
  <2>1. 1 \in Thread
    BY OsMaxTasksAssumption DEF Thread, IDLE_PRIO
  <2> QED
    BY <1>2, <2>1 DEF Live
<1>4. pc[1] = 1 /\ ret[1] = NONE
  BY <1>3 DEF PInv, Unborn
<1>5. /\ cur_tcb' # NULL
      /\ UNCHANGED <<program, ret, errno, got, failed, val>>
      /\ pc' = [t \in Thread |-> IF t \in 1 .. Line.arg THEN 1 ELSE pc[t]]
      /\ Line.arg \in TaskCounts /\ TaskCreate(Line.arg)
  BY TaskCreateCallKeeps DEF TaskCreateCall
<1>6. Line.arg = 1
  <2>1. Starts(program, ct, Busy, pc[Busy])
    BY <1>1, AtLine, BusyFacts DEF LineFacts, LineOf
  <2>2. \A n \in TaskCounts : ~(n > OS_MAX_TASKS - 2)
    BY TaskCountsAssumption, OsMaxTasksAssumption
  <2>3. NumTasks(program) = 1
    BY DEF NumTasks
  <2> QED
    BY <1>1, <1>5, <2>1, <2>2, <2>3 DEF Starts, LineOf
<1>7. Busy' = 1
  BY <1>5 DEF Busy
<1>8. pc'[1] = 1 /\ ret'[1] = NONE /\ PANIC # 1
  BY <1>3, <1>4, <1>5, <1>6 DEF PANIC
<1>9. LineAt("sys_err", ct, 1, 1) = Do("create", 0)
  <2>1. 1 \in 1 .. MUTEX_NUM + 1
    BY MutexNumAssumption, OsNumMutexAssumption
  <2>2. \A j \in 1 .. MUTEX_NUM + 1 : LineAt("sys_err", ct, 1, j) = Do("create", 0)
    BY BusyFacts, SysErrBody
  <2> QED
    BY <2>1, <2>2
<1>10. LineOf(1)'.op = "create" /\ "create" \notin {"errno", "result"}
  BY <1>5, <1>8, <1>9 DEF LineOf, Do, ct
<1> QED
  BY <1>5, <1>7, <1>8, <1>10 DEF Checked, BadPointerCheck
(* The wrapper stores the result where the next line looks for it.         *)
LEMMA WrapperChecked ==
    ASSUME Inv, LockInv, PInv, Checked, program = "sys_err", Wrapper
    PROVE  Checked'
<1>1. Self = Busy /\ Line = LineOf(Busy) /\ NextLine = NextOf(Busy) /\ ~LineOf(Busy).must
  BY BusyFacts DEF Wrapper
<1>2. Live' = Live /\ ret[Busy] # NONE
  BY <1>1, WrapperKeeps DEF Wrapper
<1>3. /\ pc' = [pc EXCEPT ![Busy] = NextOf(Busy)]
      /\ ret' = [ret EXCEPT ![Busy] = NONE]
      /\ errno' = ret[Busy]
      /\ got' = [got EXCEPT ![Busy] = ret[Busy]]
      /\ UNCHANGED <<program, val, failed>>
  BY <1>1 DEF Wrapper, Goto
<1>4. Busy' = Busy
  BY <1>2, <1>3, BusyStays
<1>5. /\ pc'[Busy] = NextOf(Busy) /\ ret'[Busy] = NONE /\ got'[Busy] = ret[Busy]
      /\ got' = [t \in Thread |-> got'[t]]
  BY <1>3, BusyFacts DEF PInv, ProgramTypeOK, Checked
<1>6. LineOf(Busy)' = AfterNext
  BY <1>3, <1>4, <1>5 DEF LineOf, AfterNext, ct
<1>7. \/ AfterNext.op \notin Checks
      \/ <<Busy, NextOf(Busy)>> = BadPointerCheck
      \/ ret[Busy] = AfterNext.arg
  BY <1>2 DEF Checked
<1>8. pc'[Busy] # PANIC
  <2>1. LineOf(Busy).op \in Calls
    BY <1>2, BusyFacts DEF Works, Result
  <2>2. ~Stuck(program, ct, Busy, pc[Busy])
    BY <1>1, <2>1 DEF Stuck, LineOf, Calls
  <2>3. NextOf(Busy) \in Reached(program, ct, Busy)
    BY <2>2, AtLine, BusyFacts DEF LineFacts, Leads, NextOf
  <2>4. NextOf(Busy) \in Nat \ {0}
    BY <2>3, BusyFacts, LiveFacts, Lines DEF LineFacts
  <2> QED
    BY <1>5, <2>4 DEF PANIC
<1> QED
  BY <1>3, <1>4, <1>5, <1>6, <1>7, <1>8 DEF Checked, Checks, BadPointerCheck

(* A check succeeds, but for that one, and no check follows it.            *)
LEMMA CheckChecked ==
    ASSUME Inv, LockInv, PInv, Checked, program = "sys_err", Check
    PROVE  Checked'
<1>1. PICK op \in {"errno", "result", "compare"} :
        /\ At(op)
        /\ \/ op = "errno" /\ Report(errno = Line.arg)
           \/ op = "result" /\ Report(got[Self] = Line.arg)
           \/ op = "compare"
  BY DEF Check
<1>2. /\ op \in Checks /\ Self = Busy /\ LineOf(Busy).op = op /\ Line = LineOf(Busy)
      /\ cur_tcb # IDLE_PRIO /\ ret[Busy] = NONE /\ NextLine = NextOf(Busy)
  BY <1>1, BusyAt, BusyFacts DEF Calls, Checks
<1>3. failed' \subseteq {BadPointerCheck}
  BY <1>1, <1>2 DEF Checked, Checks, Report
<1>4. Live' = Live
  BY CheckKeeps
<1>5. /\ pc' = [pc EXCEPT ![Busy] = NextOf(Busy)]
      /\ UNCHANGED <<program, val, ret, errno, got>>
  BY <1>2 DEF Check, Goto
<1>6. Busy' = Busy
  BY <1>4, <1>5, BusyStays
<1>7. pc'[Busy] = NextOf(Busy)
  BY <1>5, BusyFacts DEF PInv, ProgramTypeOK
<1>8. LineOf(Busy)' = AfterNext
  BY <1>5, <1>6, <1>7 DEF LineOf, AfterNext, ct
<1>9. AfterNext.op \notin Checks
  BY <1>2, BusyFacts DEF SysErrFacts, LineOf, AfterNext, NextOf
<1>10. pc'[Busy] # PANIC
  <2>1. ~Stuck(program, ct, Busy, pc[Busy])
    BY <1>2 DEF Stuck, LineOf, Checks
  <2>2. NextOf(Busy) \in Reached(program, ct, Busy)
    BY <2>1, AtLine, BusyFacts DEF LineFacts, Leads, NextOf
  <2>3. NextOf(Busy) \in Nat \ {0}
    BY <2>2, BusyFacts, LiveFacts, Lines DEF LineFacts
  <2> QED
    BY <1>7, <2>3 DEF PANIC
<1> QED
  BY <1>2, <1>3, <1>5, <1>6, <1>8, <1>9, <1>10 DEF Checked, Checks

LEMMA CheckedKept ==
    ASSUME MUTEX_NUM = OS_NUM_MUTEX, Inv, LockInv, PInv, Checked, [PNext]_pvars
    PROVE  Checked'
<1>1. CASE program = "sys_err"
  <2>1. CASE CreateCall
    BY <1>1, <2>1, CreateCallChecked
  <2>2. CASE LockCall
    BY <1>1, <2>2, LockCallChecked
  <2>3. CASE UnlockCall
    BY <1>1, <2>3, UnlockCallChecked
  <2>4. CASE WaitCall
    BY <1>1, <2>4, WaitCallChecked
  <2>5. CASE TaskCreateFails
    BY <1>1, <2>5, TaskCreateFailsChecked
  <2>6. CASE TaskCreateCall
    BY <1>1, <2>6, TaskCreateCallChecked
  <2>7. CASE Wrapper
    BY <1>1, <2>7, WrapperChecked
  <2>8. CASE Check
    BY <1>1, <2>8, CheckChecked
  <2>9. ~Load /\ ~Store /\ ~SleepCall /\ ~SleepReturn
    BY <1>1, BusyAt DEF Load, Store, SleepCall, SleepReturn, Calls, Checks
  <2>10. CASE Loop \/ KernelReturn \/ Tick \/ UNCHANGED pvars
    <3>1. UNCHANGED <<program, pc, ret, errno, got, val, failed>>
      BY <2>10 DEF Loop, KernelReturn, Tick, pvars, progVars
    <3>2. Live' = Live
      BY <2>10, LoopKeeps, KernelReturnKeeps, TickKeeps DEF Loop
    <3>3. Busy' = Busy
      BY <1>1, <3>1, <3>2, BusyStays
    <3>4. LineOf(Busy)' = LineOf(Busy) /\ AfterNext' = AfterNext /\ NextOf(Busy)' = NextOf(Busy)
      BY <3>1, <3>3 DEF LineOf, AfterNext, NextOf, ct
    <3> QED
      BY <3>1, <3>3, <3>4 DEF Checked
  <2> QED
    BY <2>1, <2>2, <2>3, <2>4, <2>5, <2>6, <2>7, <2>8, <2>9, <2>10 DEF PNext
<1>2. CASE program # "sys_err"
  <2>1. program' = program /\ got' = [t \in Thread |-> got'[t]]
    BY DEF Checked, PNext, CreateCall, LockCall, UnlockCall, WaitCall, TaskCreateFails,
       Returns, TaskCreateCall, Wrapper, Load, Store, Check, SleepCall, SleepReturn, Loop,
       KernelReturn, Tick, progVars, pvars
  <2>2. CASE Check
    <3>1. PICK op \in {"errno", "result", "compare"} : At(op)
      BY <2>2 DEF Check
    <3>2. LineFacts(program, ct, Self, pc[Self]) /\ LineOf(Self).op = op
      BY <3>1, AtFacts, AtLine
    <3>3. program = "stress"
      BY <1>2, <3>1, <3>2 DEF LineFacts, LineOf
    <3> QED
      BY <2>1, <3>3 DEF Checked
  <2>3. CASE ~Check
    <3>1. failed' = failed
      BY <2>3 DEF PNext, CreateCall, LockCall, UnlockCall, WaitCall, TaskCreateFails,
         Returns, TaskCreateCall, Wrapper, Load, Store, SleepCall, SleepReturn, Loop,
         KernelReturn, Tick, progVars, pvars
    <3> QED
      BY <1>2, <2>1, <3>1 DEF Checked
  <2> QED
    BY <2>2, <2>3
<1> QED
  BY <1>1, <1>2

(* sys_err.c finds the result or the errno it expects after each of its    *)
(* calls but the one with the bad pointer (sys_err.c:84), whatever the     *)
(* timer does between a call, its wrapper and the look at errno, when it   *)
(* creates as many mutexes as the kernel has (as MAX_MUTEX and             *)
(* OS_NUM_MUTEX are).  (When the checks of stress succeed depends on its   *)
(* periods and on how far the timer delays a task.)                        *)
THEOREM SysErrSucceeds ==
    ASSUME MUTEX_NUM = OS_NUM_MUTEX
    PROVE  PSpec => [](program # "stress" => ChecksSucceed)
<1>1. PInit => Checked
  <2> SUFFICES ASSUME PInit PROVE Checked
    OBVIOUS
  <2>1. /\ failed = {} /\ cur_tcb = NULL /\ got = [t \in Thread |-> NONE]
        /\ pc = [t \in Thread |-> 1] /\ ret = [t \in Thread |-> NONE]
        /\ 0 \in Thread /\ Busy = 0
    BY OsMaxTasksAssumption DEF PInit, Init, SchedInit, Thread, IDLE_PRIO, Busy
  <2>2. ASSUME program = "sys_err" PROVE LineOf(Busy).op = "task_create"
    <3>1. Code(program, ct, 0) = SysErrMain
      BY <2>2 DEF Code, Main
    <3>2. LineOf(Busy) = SysErrMain.body[1]
      BY <2>1, <3>1 DEF LineOf, LineAt
    <3> QED
      BY <3>2 DEF SysErrMain, Fun, Do
  <2> QED
    BY <2>1, <2>2 DEF Checked, PANIC, BadPointerCheck
<1>2. (Inv /\ LockInv /\ PInv) /\ Checked /\ [PNext]_pvars => Checked'
  BY CheckedKept
<1>3. Checked => (program # "stress" => ChecksSucceed)
  BY DEF Checked, ChecksSucceed
<1> QED
  BY <1>1, <1>2, <1>3, ProgramInvariance, PTL DEF PSpec
=============================================================================
