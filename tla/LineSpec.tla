------------------------------ MODULE LineSpec ------------------------------
(***************************************************************************)
(* What a client of read gets: a line of at most Count characters that is  *)
(* edited at its end, and that the user sees.  A delete where there is     *)
(* nothing to delete does not leave the line empty: unseen, it puts in the *)
(* byte that was in the client's buffer.                                   *)
(***************************************************************************)
EXTENDS Naturals, SequencesExt

CONSTANTS
    Count,      \* the size the client asks for
    Letter,     \* the characters that are typed
    Stale       \* what the buffer may hold

VARIABLES
    line,       \* the line so far
    screen,     \* what the user sees of it
    done        \* the client has it

vars == <<line, screen, done>>

Init == line = <<>> /\ screen = <<>> /\ done = TRUE

Begin == line' = <<>> /\ screen' = <<>>

Type == \E c \in Letter : line' = Append(line, c) /\ screen' = Append(screen, c)

Erase ==
    /\ line # <<>>
    /\ line' = Front(line)
    /\ screen' = IF screen = <<>> THEN <<>> ELSE Front(screen)

EraseNothing ==
    /\ line = <<>>
    /\ \E c \in Stale : line' = <<c>>
    /\ UNCHANGED screen

(* A line is complete when it is full; or by a key of its own. *)
Next ==
    \/ done /\ Begin /\ ~done'
    \/ ~done /\ (Type \/ Erase \/ EraseNothing) /\ done' = (Len(line') = Count)
    \/ ~done /\ done' /\ UNCHANGED <<line, screen>>

Spec == Init /\ [][Next]_vars
=============================================================================
