--------------------------- MODULE ReadyQueueSpec ---------------------------
(***************************************************************************)
(* What kernel/sched/run_queue.c promises: a map from priorities to ready  *)
(* tasks with its minimum.  The kernel's model uses these operations.      *)
(***************************************************************************)
EXTENDS ReadyQueue

CONSTANT Adds       \* the <<tcb, prio>> pairs that are added

VARIABLES
    run_list,
    result          \* what the last operation returned

vars == <<run_list, result>>

Init == run_list = EmptyRunList /\ result = NULL

(* Adding to an occupied slot returns as if it had been done. *)
Add(tcb, prio) ==
    /\ run_list' = RunqueueAdd(run_list, tcb, prio)
    /\ UNCHANGED result

(* highest_prio and runqueue_remove, always called together by dispatch_*. *)
Dispatch ==
    /\ run_list' = RunqueueRemove(run_list, HighestPrio(run_list))
    /\ result' = run_list[HighestPrio(run_list)]

Reset == run_list' = EmptyRunList /\ UNCHANGED result

Next == (\E a \in Adds : Add(a[1], a[2])) \/ Dispatch \/ Reset

Spec == Init /\ [][Next]_vars
=============================================================================
