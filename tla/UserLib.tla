------------------------------ MODULE UserLib ------------------------------
(***************************************************************************)
(* A client of the user library: it calls string functions again and again *)
(* on a memory with anything in it, or it is typo and echoes lines, or it  *)
(* makes a call of printf or snprintf.  These share no state, and so each  *)
(* is taken with one of the states that the others may be in.              *)
(***************************************************************************)
EXTENDS Strings, Stdio, Console

vars == <<mem, stdioVars, consoleVars>>

Cleared == mem = [a \in Addr |-> 0]
NoLine == at = "read" /\ keys = 0 /\ \A k \in 0 .. BLOCK : buffer[k] = 0

Init == StringsInit /\ StdioInit /\ ConsoleInit

Next ==
    \/ /\ call = NoCall /\ NoLine
       /\ StringsNext
       /\ UNCHANGED <<stdioVars, consoleVars>>
    \/ /\ Cleared /\ call = NoCall
       /\ ConsoleNext
       /\ UNCHANGED <<mem, stdioVars>>
    \/ /\ Cleared /\ NoLine
       /\ StdioNext
       /\ UNCHANGED <<mem, consoleVars>>

Spec == Init /\ [][Next]_vars
----------------------------------------------------------------------------
(* On every memory the copying functions leave the bytes they should where *)
(* they should, and the searching ones find and compare what is there; a   *)
(* memory that typo or printf leave alone is not looked at again.          *)
CopiesRight == call = NoCall /\ NoLine => CopyingIsRight
SearchesRight == call = NoCall /\ NoLine => SearchingIsRight
=============================================================================
