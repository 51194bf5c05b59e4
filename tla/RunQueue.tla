------------------------------ MODULE RunQueue ------------------------------
(***************************************************************************)
(* kernel/sched/run_queue.c as it is: one bit per priority in run_bits,    *)
(* one bit per non-empty group of eight in group_run_bits, and a table     *)
(* that finds the lowest bit of a byte.                                    *)
(***************************************************************************)
EXTENDS Integers, Sequences, Functions

CONSTANTS
    OS_MAX_TASKS,   \* config.h
    NULL,           \* the null pointer
    Adds            \* the <<tcb, prio>> pairs that are added

ASSUME OsMaxTasksAssumption == OS_MAX_TASKS \in 8 .. 64 /\ OS_MAX_TASKS % 8 = 0
ASSUME AddsAssumption ==
    \A a \in Adds : a[1] # NULL /\ a[2] \in 0 .. OS_MAX_TASKS - 1

VARIABLES
    run_list,       \* array of TCBs by priority
    run_bits,       \* array of bytes by group
    group_run_bits, \* a byte
    result          \* the TCB the last dispatch removed

vars == <<run_list, run_bits, group_run_bits, result>>

IDLE_PRIO == OS_MAX_TASKS - 1
Prio == 0 .. OS_MAX_TASKS - 1
Group == 0 .. OS_MAX_TASKS \div 8 - 1
Byte == 0 .. 255

SetBitAdding(b, x) == b + 2^x       \* mutant: + for |
ClearBitMasking(b, x) ==            \* mutant: & (1 << x), without the ~
    IF (b \div 2^x) % 2 = 1 THEN 2^x ELSE 0

(* `b | (1 << x)' and `b & ~(1 << x)' on a byte. *)
SetBit(b, x) == IF (b \div 2^x) % 2 = 1 THEN b ELSE b + 2^x
ClearBit(b, x) == IF (b \div 2^x) % 2 = 1 THEN b - 2^x ELSE b

prio_unmap_table == <<
    0, 0, 1, 0, 2, 0, 1, 0, 3, 0, 1, 0, 2, 0, 1, 0,
    4, 0, 1, 0, 2, 0, 1, 0, 3, 0, 1, 0, 2, 0, 1, 0,
    5, 0, 1, 0, 2, 0, 1, 0, 3, 0, 1, 0, 2, 0, 1, 0,
    4, 0, 1, 0, 2, 0, 1, 0, 3, 0, 1, 0, 2, 0, 1, 0,
    6, 0, 1, 0, 2, 0, 1, 0, 3, 0, 1, 0, 2, 0, 1, 0,
    4, 0, 1, 0, 2, 0, 1, 0, 3, 0, 1, 0, 2, 0, 1, 0,
    5, 0, 1, 0, 2, 0, 1, 0, 3, 0, 1, 0, 2, 0, 1, 0,
    4, 0, 1, 0, 2, 0, 1, 0, 3, 0, 1, 0, 2, 0, 1, 0,
    7, 0, 1, 0, 2, 0, 1, 0, 3, 0, 1, 0, 2, 0, 1, 0,
    4, 0, 1, 0, 2, 0, 1, 0, 3, 0, 1, 0, 2, 0, 1, 0,
    5, 0, 1, 0, 2, 0, 1, 0, 3, 0, 1, 0, 2, 0, 1, 0,
    4, 0, 1, 0, 2, 0, 1, 0, 3, 0, 1, 0, 2, 0, 1, 0,
    6, 0, 1, 0, 2, 0, 1, 0, 3, 0, 1, 0, 2, 0, 1, 0,
    4, 0, 1, 0, 2, 0, 1, 0, 3, 0, 1, 0, 2, 0, 1, 0,
    5, 0, 1, 0, 2, 0, 1, 0, 3, 0, 1, 0, 2, 0, 1, 0,
    4, 0, 1, 0, 2, 0, 1, 0, 3, 0, 1, 0, 2, 0, 1, 0 >>

(* C arrays start at 0. *)
Unmap(b) == prio_unmap_table[b + 1]

highest_prio_swapped ==             \* mutant: the group in the low bits
    LET y == Unmap(group_run_bits)
        x == Unmap(run_bits[y])
    IN  8 * x + y

highest_prio ==
    LET y == Unmap(group_run_bits)
        x == Unmap(run_bits[y])
    IN  8 * y + x

(* The state runqueue_init leaves. *)
Empty == [list |-> [p \in Prio |-> NULL], bits |-> [g \in Group |-> 0]]

Init ==
    /\ run_list = Empty.list
    /\ run_bits = Empty.bits
    /\ group_run_bits = 0
    /\ result = NULL

runqueue_init ==
    /\ run_list' = Empty.list
    /\ run_bits' = Empty.bits
    /\ group_run_bits' = 0
    /\ UNCHANGED result

runqueue_add(tcb, prio) ==
    LET y == prio \div 8
        x == prio % 8
    IN  /\ group_run_bits' = SetBit(group_run_bits, y)
        /\ run_bits' = [run_bits EXCEPT ![y] = SetBit(@, x)]
        /\ run_list' = [run_list EXCEPT ![prio] = IF @ = NULL THEN tcb ELSE @]
        /\ UNCHANGED result

runqueue_remove(prio) ==
    LET y    == prio \div 8
        x    == prio % 8
        left == ClearBit(run_bits[y], x)
    IN  /\ result' = run_list[prio]
        /\ run_list' = [run_list EXCEPT ![prio] = NULL]
        /\ run_bits' = [run_bits EXCEPT ![y] = left]
        /\ group_run_bits' = IF left = 0 THEN ClearBit(group_run_bits, y)
                             ELSE group_run_bits

(* The dispatch functions remove what highest_prio names. *)
Next ==
    \/ \E a \in Adds : runqueue_add(a[1], a[2])
    \/ runqueue_remove(highest_prio)
    \/ runqueue_init

Spec == Init /\ [][Next]_vars
----------------------------------------------------------------------------
(* The type invariant: the bitmaps stay bytes. *)
TypeOK ==
    /\ run_list \in [Prio -> {a[1] : a \in Adds} \cup {NULL}]
    /\ run_bits \in [Group -> Byte]
    /\ group_run_bits \in Byte

(* The bits summarise the array, through every order of adds and removals: *)
(* a stale group bit makes highest_prio name an empty slot, and dispatch   *)
(* run a NULL task.                                                        *)
BitsAgree ==
    /\ \A p \in Prio :
         (run_bits[p \div 8] \div 2^(p % 8)) % 2 = 1 <=> run_list[p] # NULL
    /\ \A g \in Group : (group_run_bits \div 2^g) % 2 = 1 <=> run_bits[g] # 0

(* The trie and the table compute the minimum: run_queue.c implements the  *)
(* abstract ready queue.                                                   *)
ReadyQueue == INSTANCE ReadyQueueSpec WITH run_list <- run_list, result <- result
ImplementsReadyQueue == ReadyQueue!Spec
=============================================================================
