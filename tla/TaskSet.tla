------------------------------ MODULE TaskSet ------------------------------
(***************************************************************************)
(* task_create up to allocate_tasks (kernel/syscall/proc.c), with          *)
(* valid_addr (kernel/memcheck.c) and assign_schedule                      *)
(* (kernel/sched/ub_test.c): whether a task set is admitted, and in which  *)
(* order.  The tasks are the caller's array together with the memory right *)
(* after it, which the sort reads and writes.                              *)
(***************************************************************************)
EXTENDS Integers, FiniteSets

CONSTANTS
    OS_MAX_TASKS,       \* config.h
    USR_START_ADDR,     \* config.h
    USR_END_ADDR,       \* config.h
    WORD,               \* 2^w for the width w of an address
    NumTasks,           \* the numbers of tasks that clients pass
    Descriptor          \* what may be in the array: the fields of task_t
                        \* that the checks read

ASSUME NumTasksAssumption == NumTasks \subseteq Nat
ASSUME DescriptorAssumption ==
    Descriptor \subseteq [stack_pos : Nat, C : Nat, T : Nat, B : Nat]

VARIABLES
    tasks,          \* tasks[0] .. tasks[num_tasks - 1] and what follows them
    num_tasks,
    pc,             \* what comes next in the code, or how it ended
    i, j,           \* loop counters of the sort
    submitted       \* history: tasks as the caller passed it

vars == <<tasks, num_tasks, pc, i, j, submitted>>

Ended == {"EINVAL", "EFAULT", "ESCHED", "raise", "admitted"}
Label == {"num_tasks", "valid_addr", "times", "assign_schedule", "sort",
          "bound"} \cup Ended

(* The elements of the caller's array, and these with the one after them. *)
Own == 0 .. num_tasks - 1
Reach == 0 .. num_tasks

Init ==
    /\ num_tasks \in NumTasks
    /\ tasks \in [Reach -> Descriptor]
    /\ submitted = tasks
    /\ pc = "num_tasks"
    /\ i = 0 /\ j = 0
----------------------------------------------------------------------------
Goto(label) == pc' = label /\ UNCHANGED <<tasks, num_tasks, i, j, submitted>>

CheckNumTasks ==
    /\ pc = "num_tasks"
    /\ Goto(IF num_tasks > OS_MAX_TASKS - 2 THEN "EINVAL" ELSE "valid_addr")

(* memcheck.c; mem_end may wrap around. *)
valid_addr(start, count, base, bound) ==
    LET mem_end == (start + count) % WORD
    IN  start \in base .. bound - 1 /\ mem_end \in start .. bound

CheckStacks ==
    /\ pc = "valid_addr"
    /\ Goto(IF \A k \in Own : valid_addr(tasks[k].stack_pos, 0,
                                         USR_START_ADDR, USR_END_ADDR)
            THEN "times" ELSE "EFAULT")

CheckTimes ==
    /\ pc = "times"
    /\ Goto(IF \E k \in Own : tasks[k].T < tasks[k].C \/ tasks[k].T = 0
            THEN "ESCHED" ELSE "assign_schedule")

AssignSchedule ==
    /\ pc = "assign_schedule"
    /\ Goto(IF num_tasks \in {0, 1} THEN "admitted" ELSE "sort")

MustSwapEqual(k) == tasks[k].T >= tasks[k + 1].T    \* mutant: >= for >
MustSwapBackward(k) == tasks[k].T < tasks[k + 1].T  \* mutant: < for >
MustSwap(k) == tasks[k].T > tasks[k + 1].T

SwapPeriods(k) ==           \* mutant: only the periods are exchanged
    [tasks EXCEPT ![k].T = tasks[k + 1].T, ![k + 1].T = tasks[k].T]
SwapLosing(k) == [tasks EXCEPT ![k] = tasks[k + 1]] \* mutant: no tmp_task
Swap(k) == [tasks EXCEPT ![k] = tasks[k + 1], ![k + 1] = tasks[k]]

(* One round of the inner loop: j goes to num_tasks - 1, so j + 1 is once  *)
(* in each pass the element after the array.                               *)
SortStep ==
    /\ pc = "sort"
    /\ tasks' = IF MustSwap(j) THEN Swap(j) ELSE tasks
    /\ j' = (j + 1) % num_tasks
    /\ i' = IF j' = 0 THEN i + 1 ELSE i
    /\ pc' = IF i' = num_tasks THEN "bound" ELSE "sort"
    /\ UNCHANGED <<num_tasks, submitted>>

(* What a loop over the array adds up, after each of its rounds.           *)
Sums(f) ==
    LET sum[k \in 0 .. num_tasks] ==
          IF k = 0 THEN 0 ELSE sum[k - 1] + f[k - 1]
    IN  sum
Total(f) == Sums(f)[num_tasks]

(* Whole numbers: C/T of the tasks and B/T of the last.                    *)
Quotient(k) == tasks[k].C \div tasks[k].T
u_n ==
    Total([k \in Own |-> Quotient(k)])
      + tasks[num_tasks - 1].B \div tasks[num_tasks - 1].T

u_max_rounded == 0              \* mutant: the real bound, as a whole number

(* num_tasks * ((2 << (1 / num_tasks)) - 1): for two or more tasks the     *)
(* quotient is 0 and the factor 1.                                         *)
u_max == num_tasks

(* The utilisation bound; libgcc calls raise() (kernel/raise.c) on a       *)
(* division by zero, which does not return.                                *)
CheckBound ==
    /\ pc = "bound"
    /\ Goto(IF \E k \in Own : tasks[k].T = 0 THEN "raise"
            ELSE IF u_n <= u_max THEN "admitted" ELSE "ESCHED")

Next == CheckNumTasks \/ CheckStacks \/ CheckTimes \/ AssignSchedule
          \/ SortStep \/ CheckBound

Spec == Init /\ [][Next]_vars
----------------------------------------------------------------------------
(* The type invariant: descriptors are moved as a whole. *)
TypeOK ==
    /\ tasks \in [Reach -> Descriptor]
    /\ submitted \in [Reach -> Descriptor]
    /\ pc \in Label
    /\ i \in Reach
    /\ j \in Reach

SamePlaces(K, f, g) ==
    \A d \in Descriptor :
        Cardinality({k \in K : f[k] = d}) = Cardinality({k \in K : g[k] = d})

(* The sort loses no descriptor and doubles none. *)
NothingLost == SamePlaces(Reach, tasks, submitted)

(* "The task list at the end of this method will be sorted" (ub_test.c:23) *)
(* and priorities go by the period: num_tasks passes are enough for the    *)
(* num_tasks + 1 elements that are really sorted.                          *)
Sorted ==
    pc \in {"bound", "admitted"} =>
        \A k, l \in Own : k <= l => tasks[k].T <= tasks[l].T

(* The element after the array stays out if its T is not less than any of  *)
(* the caller's; then the tasks that get priorities are the caller's, and  *)
(* they have passed every check of task_create.                            *)
OutsiderStaysOut ==
    (/\ pc \in {"bound", "admitted"}
     /\ \A k \in Own : submitted[k].T <= submitted[num_tasks].T) =>
        /\ SamePlaces(Own, tasks, submitted)
        /\ \A k \in Own :
             /\ tasks[k].stack_pos \in USR_START_ADDR .. USR_END_ADDR - 1
             /\ tasks[k].T # 0 /\ tasks[k].C <= tasks[k].T

(* The load: the sum of all C/T, times the product of all T. *)
Products ==
    LET product[k \in 0 .. num_tasks] ==
          IF k = 0 THEN 1 ELSE product[k - 1] * tasks[k - 1].T
    IN  product
PeriodProduct == Products[num_tasks]
Share(k) == PeriodProduct \div tasks[k].T
Load == Total([k \in Own |-> tasks[k].C * Share(k)])
Blocking == tasks[num_tasks - 1].B * Share(num_tasks - 1)

(* The rounding is on the side of the caller: a set that the bound refuses *)
(* asks for more than the whole processor.                                 *)
RefusedOverloaded ==
    [][(pc = "bound" /\ pc' = "ESCHED") => Load + Blocking > PeriodProduct]_vars

(* The tasks that are given to allocate_tasks are "in order" (ub_test.c:31)*)
(* and the ones that were passed: the array is reordered, not changed.     *)
AdmittedAreSubmitted ==
    pc = "admitted" => SamePlaces(Own, tasks, submitted)
=============================================================================
