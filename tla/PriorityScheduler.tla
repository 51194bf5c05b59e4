------------------------- MODULE PriorityScheduler -------------------------
(***************************************************************************)
(* What the kernel promises its tasks: a fixed-priority, preemptive        *)
(* scheduler for one processor, in which a task that holds a mutex goes    *)
(* before all others.  Queues, TCBs, mutexes, devices and the clock are    *)
(* out of sight: a task is running, ready or asleep.                       *)
(***************************************************************************)
EXTENDS Integers

CONSTANTS
    Task,       \* the tasks there can be; the smaller goes first
    Idle,       \* the last of them, which never sleeps
    None        \* no task runs yet

VARIABLES
    tasks,      \* those of the current task set
    running,
    ready,
    boosted     \* the running task goes before all others

vars == <<tasks, running, ready, boosted>>

(* The one of a set that goes first. *)
First(set) == CHOOSE t \in set : \A u \in set : t <= u

Init == tasks = {} /\ running = None /\ ready = {} /\ boosted = FALSE

(* A new task set. *)
Start(new) ==
    /\ Idle \in new
    /\ tasks' = new
    /\ running' = First(new)
    /\ ready' = new \ {First(new)}
    /\ boosted' = FALSE

Boost ==
    /\ running # None
    /\ boosted' = TRUE
    /\ UNCHANGED <<tasks, running, ready>>

(* The running task goes to sleep, and the first ready one runs.           *)
Sleep ==
    /\ running \in tasks \ {Idle}
    /\ running' = First(ready)
    /\ ready' = ready \ {First(ready)}
    /\ boosted' = FALSE
    /\ UNCHANGED tasks

(* Some sleepers, or none, become ready, and the running task may lose its *)
(* boost: one that goes before it takes its place.                         *)
Wake(sleepers, boost) ==
    LET next == First(ready \cup sleepers \cup {running})
    IN  /\ running # None
        /\ sleepers \subseteq tasks \ (ready \cup {running})
        /\ boost => boosted
        /\ boosted' = boost
        /\ running' = IF boost THEN running ELSE next
        /\ ready' = (ready \cup sleepers \cup {running}) \ {running'}
        /\ UNCHANGED tasks

Next ==
    \/ \E new \in SUBSET Task : Start(new)
    \/ Boost
    \/ Sleep
    \/ \E sleepers \in SUBSET Task, boost \in BOOLEAN : Wake(sleepers, boost)

Spec == Init /\ [][Next]_vars
=============================================================================
