----------------------------- MODULE MCTaskSet -----------------------------
(* Values of the constants for model checking the admission of task sets.  *)
EXTENDS TaskSet

(* User memory is 1 .. 2 of 0 .. 3.  Equal and different periods, 0 among  *)
(* them; a computation time above the period, equal to it, below it and 0; *)
(* blocking that decides the bound and blocking that does not; and stacks  *)
(* at both ends of the memory and beyond them.                             *)
D(pos, c, t, b) == [stack_pos |-> pos, C |-> c, T |-> t, B |-> b]
MCDescriptor ==
    {D(0, 1, 2, 0), D(3, 1, 1, 0), D(1, 0, 0, 0), D(1, 2, 1, 0),
     D(1, 1, 1, 1), D(2, 0, 2, 0), D(1, 2, 2, 5), D(2, 2, 3, 3)}
=============================================================================
