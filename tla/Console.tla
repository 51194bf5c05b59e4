------------------------------ MODULE Console ------------------------------
(***************************************************************************)
(* The read and write system calls (kernel/syscall/io.c) on the serial     *)
(* line, one key at a time, and typo, which echoes lines.  The tests of    *)
(* the file number and of the buffer's address are left out: typo and the  *)
(* library pass what they accept.  So is the time typo prints.             *)
(***************************************************************************)
EXTENDS Integers, SequencesExt

CONSTANTS
    BLOCK,      \* typo.c: the size of a line
    Letter,     \* ordinary characters that are typed
    Junk,       \* what the stack may hold where typo has its buffer
    MaxKeys     \* bound on the keys typed

ASSUME BlockAssumption == BLOCK \in Nat \ {0}
ASSUME MaxKeysAssumption == MaxKeys \in Nat

ASSUME JunkAssumption == 0 \in Junk /\ Junk \subseteq 0 .. 255

VARIABLES
    at,         \* where typo is: before "read", "reading", before "write"
    buffer,     \* its buffer
    i,          \* read_syscall's index, and what it has returned
    screen,     \* what the terminal shows of this line, behind the prompt
    echoed,     \* what typo has written of it
    keys, early \* history: keys typed; a delete came first on this line

consoleVars == <<at, buffer, i, screen, echoed, keys, early>>

DEL_CHAR == 127
EOT_CHAR == 4
NEWLINE == 10
Deletes == {DEL_CHAR, 8}
Newlines == {13, NEWLINE}

ASSUME LetterAssumption ==
    Letter \cap ({EOT_CHAR} \cup Deletes \cup Newlines) = {}

ConsoleInit ==
    /\ at = "read"
    /\ buffer \in [0 .. BLOCK -> Junk]
    /\ i = 0
    /\ screen = <<>>
    /\ echoed = <<>>
    /\ keys = 0
    /\ early = FALSE

ReadCall ==
    /\ at = "read"
    /\ at' = "reading"
    /\ i' = 0
    /\ screen' = <<>>
    /\ echoed' = <<>>
    /\ early' = FALSE
    /\ UNCHANGED <<buffer, keys>>

(* The loop goes on while i < count. *)
Advance(index) ==
    /\ i' = index
    /\ at' = IF index < BLOCK THEN "reading" ELSE "write"

(* What an output, and puts("\b \b"), do to the line behind the prompt: if  *)
(* there is nothing more of it to rub out the prompt loses a character.    *)
putc(c) == screen' = Append(screen, c)
puts_rubout == screen' = IF screen = <<>> THEN <<>> ELSE Front(screen)

(* i-- with the byte it was at cleared, i-- again, and the loop's i++. *)
DeleteKept ==       \* mutant: a single i--
    /\ IF i > 0 THEN /\ puts_rubout
                     /\ buffer' = [buffer EXCEPT ![i] = 0]
                     /\ Advance(i)
       ELSE Advance(1) /\ UNCHANGED <<screen, buffer>>
    /\ early' = (early \/ i = 0)
Delete ==
    /\ IF i > 0 THEN /\ puts_rubout
                     /\ buffer' = [buffer EXCEPT ![i] = 0]
                     /\ Advance(i - 1)
       ELSE Advance(1) /\ UNCHANGED <<screen, buffer>>
    /\ early' = (early \/ i = 0)

Ordinary(c) ==
    /\ buffer' = [buffer EXCEPT ![i] = c]
    /\ putc(c)
    /\ Advance(i + 1)
    /\ UNCHANGED early

Newline ==
    /\ buffer' = [buffer EXCEPT ![i] = NEWLINE]
    /\ putc(NEWLINE)
    /\ at' = "write"
    /\ UNCHANGED <<i, early>>

EndOfText == at' = "write" /\ UNCHANGED <<i, buffer, screen, early>>

Keypress ==
    /\ at = "reading"
    /\ keys < MaxKeys
    /\ keys' = keys + 1
    /\ \/ \E c \in Deletes : Delete
       \/ \E c \in Letter : Ordinary(c)
       \/ \E c \in Newlines : Newline
       \/ EndOfText
    /\ UNCHANGED echoed

(* typo writes one character more than read has counted: the newline. *)
WriteFront ==       \* mutant: length for length + 1
    /\ at = "write"
    /\ echoed' = [k \in 1 .. i |-> buffer[k - 1]]
    /\ at' = "read"
    /\ UNCHANGED <<buffer, i, screen, keys, early>>
WriteCall ==
    /\ at = "write"
    /\ echoed' = [k \in 1 .. i + 1 |-> buffer[k - 1]]
    /\ at' = "read"
    /\ UNCHANGED <<buffer, i, screen, keys, early>>

ConsoleNext == ReadCall \/ Keypress \/ WriteCall

ConsoleSpec == ConsoleInit /\ [][ConsoleNext]_consoleVars
----------------------------------------------------------------------------
(* The line that the terminal shows, without the newline that ended it. *)
Complete == screen # <<>> /\ Last(screen) = NEWLINE
Seen == IF Complete THEN Front(screen) ELSE screen

(* read_syscall edits a line: LineSpec is what it promises, the delete at  *)
(* the start of the line (io.c:48) included.                               *)
Line == INSTANCE LineSpec WITH
    line   <- [k \in 1 .. i |-> buffer[k - 1]],
    screen <- Seen,
    done   <- at # "reading",
    Count  <- BLOCK,
    Stale  <- Letter \cup Junk \cup {NEWLINE}
EditsLine == Line!Spec

(* What typo echoes is what the user saw while typing and the newline that *)
(* ended it; a line that was full or ended by EOT has there what was in    *)
(* the buffer.  Nothing is asked of a line on which a delete came where    *)
(* there was nothing to delete (early): what read_syscall makes of that,   *)
(* io.c:48, is seen in the echo, and in LineSpec.                          *)
EchoesLine ==
    echoed # <<>> /\ ~early =>
        /\ Front(echoed) = Seen
        /\ Complete => Last(echoed) = NEWLINE
=============================================================================
