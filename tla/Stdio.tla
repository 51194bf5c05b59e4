------------------------------- MODULE Stdio -------------------------------
(***************************************************************************)
(* printf, puts, putchar and sprintf, snprintf (libc/stdio): what their    *)
(* callbacks make of the characters _doprnt hands them.                    *)
(***************************************************************************)
EXTENDS Scan

CONSTANTS
    PRINTF_BUFMAX,  \* printf.c
    Formats,        \* the conversion specifications, see Parse
    Args(_),        \* the arguments for a conversion
    Texts,          \* ordinary characters written before the conversion
    Sizes           \* the sizes snprintf is called with

ASSUME FormatsAssumption == Formats \subseteq Specifications
ASSUME ArgsAssumption ==
    \A f \in Formats : Args(f.conv) \subseteq ArgsFor(f.conv)
ASSUME TextsAssumption == Texts \subseteq Seq(Code \ {NUL})
ASSUME PrintfBufmaxAssumption == PRINTF_BUFMAX \in Nat \ {0}

VARIABLES
    call,       \* the last call's format and argument
    text,       \* the characters _doprnt has handed over for it
    console,    \* what printf has written
    s, len      \* the string vsnprintf has left, and what it returned

stdioVars == <<call, text, console, s, len>>

NoCall == [f |-> [conv |-> ""], arg |-> 0, before |-> <<>>, max |-> 0]
----------------------------------------------------------------------------
(* printf.c: the state is the buffer up to index and what was written. *)

flush(st) == [buf |-> <<>>, out |-> st.out \o st.buf]

(* An int, least significant byte first. *)
putchar(st, c) == [st EXCEPT !.out = @ \o <<c, NUL, NUL, NUL>>]
puts(st) == [buf |-> <<>>, out |-> st.out \o st.buf \o <<10>>]

printf_charLast(st, c) ==   \* mutant: the character that does not fit is lost
    CASE c = 10 -> puts(st)
      [] c # 10 /\ (c = NUL \/ Len(st.buf) >= PRINTF_BUFMAX - 1) -> flush(st)
      [] OTHER -> [st EXCEPT !.buf = Append(@, c)]
printf_char(st, c) ==
    CASE c = 10 -> puts(st)
      [] c # 10 /\ (c = NUL \/ Len(st.buf) >= PRINTF_BUFMAX - 1) ->
           putchar(flush(st), c)
      [] OTHER -> [st EXCEPT !.buf = Append(@, c)]

vprintf(chars) ==
    LET state[k \in 0 .. Len(chars)] ==
          IF k = 0 THEN [buf |-> <<>>, out |-> <<>>]
          ELSE printf_char(state[k - 1], chars[k])
    IN  flush(state[Len(chars)]).out

(* sprintf.c; the size of sprintf is UNLIMITED. *)
UNLIMITED == -1
ASSUME SizesAssumption == Sizes \subseteq Nat \cup {UNLIMITED}

savecharBeyond(st, max, c) ==   \* mutant: > for ==
    IF max # UNLIMITED /\ Len(st) > max THEN st ELSE Append(st, c)
savechar(st, max, c) ==
    IF max # UNLIMITED /\ Len(st) = max THEN st ELSE Append(st, c)

vsnprintf(max, chars) ==
    LET buf[k \in 0 .. Len(chars)] ==
          IF k = 0 THEN <<>> ELSE savechar(buf[k - 1], max, chars[k])
    IN  buf[Len(chars)]
----------------------------------------------------------------------------
Called(f, arg, before, max) ==
    /\ call' = [f |-> f, arg |-> arg, before |-> before, max |-> max]
    /\ text' = before \o Convert(Parse(f), arg)

Printf(f, arg, before) ==
    /\ Called(f, arg, before, UNLIMITED)
    /\ console' = vprintf(text')
    /\ UNCHANGED <<s, len>>

Snprintf(f, arg, before, max) ==
    /\ Called(f, arg, before, max)
    /\ s' = vsnprintf(max, text') \o <<NUL>>
    /\ len' = Len(s') - 1
    /\ UNCHANGED console

StdioInit ==
    /\ call = NoCall
    /\ text = <<>>
    /\ console = <<>>
    /\ s = <<>>
    /\ len = 0

StdioNext ==
    /\ call = NoCall
    /\ \E f \in Formats : \E arg \in Args(f.conv), before \in Texts :
         \/ Printf(f, arg, before)
         \/ \E max \in Sizes : Snprintf(f, arg, before, max)
----------------------------------------------------------------------------
(* printf writes every character, in order, on whichever path through its  *)
(* buffer; and nothing else, unless there is a NUL to write or a line does *)
(* not fit the buffer: putchar writes an int (putchar.c:29).               *)
NotNul(chars) ==
    LET kept[k \in 0 .. Len(chars)] ==
          CASE k = 0 -> <<>>
            [] k # 0 /\ chars[k] # NUL -> Append(kept[k - 1], chars[k])
            [] OTHER -> kept[k - 1]
    IN  kept[Len(chars)]
FitsBuffer(chars) ==
    \A k \in 1 .. Len(chars) : k + PRINTF_BUFMAX - 1 <= Len(chars) =>
        \E j \in k .. k + PRINTF_BUFMAX - 1 : chars[j] = 10
PrintfFaithful ==
    console # <<>> =>
        /\ NotNul(console) = NotNul(text)
        /\ NotNul(text) = text /\ FitsBuffer(text) => console = text

(* snprintf leaves a prefix of the text and a NUL after it, and says how    *)
(* long that prefix is: never more characters than the size, and all of    *)
(* them if they are fewer; sprintf keeps all.  Whether the NUL has to fit  *)
(* in the size as well is left open: sprintf.c puts it behind it.          *)
SnprintfPrefix ==
    s # <<>> =>
        /\ s = SubSeq(text, 1, len) \o <<NUL>>
        /\ call.max = UNLIMITED => len = Len(text)
        /\ call.max # UNLIMITED =>
             /\ len <= call.max
             /\ Len(text) < call.max => len = Len(text)
             /\ len < Len(text) => len >= call.max - 1

(* What is to be seen of the conversion in the text. *)
Field == SubSeq(text, Len(call.before) + 1, Len(text))
Spec_ == Parse(call.f)
Of(convs) == call.f.conv \in convs
Numbers == SignedConvs \cup UnsignedConvs
Base == CASE Of({"d", "D", "u", "U"}) -> 10
          [] Of({"o", "O"}) -> 8
          [] OTHER -> 16
Larger(a, b) == IF a > b THEN a ELSE b
DigitCount(u, base) ==
    CHOOSE k \in 1 .. u + 1 :
        u < Power(base, k) /\ (k = 1 \/ Power(base, k - 1) <= u)

NumberLength ==
    DigitCount(IF call.arg < 0 THEN -call.arg ELSE call.arg, Base)
      + (IF Of(SignedConvs) /\ (call.arg < 0 \/ Spec_.plus_sign # 0) THEN 1 ELSE 0)
      + (IF Spec_.altfmt /\ call.arg # 0
         THEN CASE Base = 8 -> 1 [] Base = 16 -> 2 [] OTHER -> 0 ELSE 0)

(* A field is as wide as asked for, or as its contents where they are      *)
(* wider: the same in each of the ways _doprnt counts and pads.  But %p is *)
(* two wider, %c ignores the width, and a string that is cut off and       *)
(* padded on the right is one short (doprnt.c:470).                        *)
FieldWidth ==
    call # NoCall =>
    LET d == Spec_  wide == d.length  a == call.arg IN
    /\ Of(Numbers) => Len(Field) = Larger(wide, NumberLength)
    /\ Of({"p"}) => Len(Field) = 2 + Larger(8, NumberLength)
    /\ Of({"c"}) => Len(Field) = 1
    /\ Of({"s"}) =>
         LET cut == d.prec # -1 /\ d.prec < Len(a)
             n   == IF cut THEN d.prec ELSE Len(a)
         IN  Len(Field) = Larger(n, IF cut /\ d.ladjust THEN wide - 1 ELSE wide)
    /\ Of({"t"}) =>
         Len(Field) = Larger(wide,
           (IF d.altfmt THEN 2 ELSE 0) +
           (IF d.longopt > 0 THEN 17
            ELSE DigitCount(a.task, 16) + 1 + DigitCount(a.lthread, 16)))

(* The part of u that an item of %b shows. *)
Weight(it) ==
    IF it.last = 0
    THEN IF it.name[1] \in ToSet(Field) THEN Power(2, it.bit - 1) ELSE 0
    ELSE LET p == CHOOSE k \in DOMAIN Field : Field[k] = it.name[1]
         IN  strtoul(SubSeq(Field, p + 1, Len(Field)) \o <<NUL>>, call.arg.base)
               * Power(2, it.last - 1)

Blanks == [conv |-> "", discard |-> FALSE, c |-> BLANK]
Conv(c, discard) == [conv |-> c, discard |-> discard, c |-> 0]
AWord == <<LOWER_A, LOWER_X>>

(* Every number printed can be read again, with every flag and width, the  *)
(* least long and the wrap of its negation included: by strtol, strtoul,   *)
(* atol and sscanf, where these read the sign, the blanks and the prefix   *)
(* that were printed; the items of a %b together give the number.          *)
ReadBack ==
    call # NoCall =>
    LET d == Spec_
        v == call.arg
        z == Field \o <<NUL>>
        plus == d.plus_sign = PLUS /\ v >= 0
        Word_ == IF Base = 16 THEN "x" ELSE "d"
        line == Field \o <<BLANK>> \o AWord \o <<10, NUL>>
        Scan(discard) ==
            sscanf(line, <<Blanks, Conv(Word_, discard), Blanks, Conv("s", FALSE)>>)
    IN
    /\ Of(SignedConvs) /\ ~plus => strtol(z, Base) = v
    /\ Of(SignedConvs) /\ ~plus /\ ~(d.altfmt /\ Base = 16) =>
         /\ Scan(FALSE).vals = 2 /\ Scan(FALSE).stored = <<v, AWord>>
         /\ Scan(TRUE).vals = 1 /\ Scan(TRUE).stored = <<AWord>>
    /\ Of(UnsignedConvs) => strtoul(z, Base) = v
    /\ Of(UnsignedConvs) /\ d.altfmt /\ Base # 10 => strtoul(z, 0) = v
    /\ Of({"p"}) /\ ~(d.altfmt /\ v # 0) => strtoul(z, 0) = v
    /\ Of({"u", "U"}) /\ Field[1] # BLANK => atol(z) = Signed(v)
    /\ Of({"b", "B"}) /\ v.u # 0 =>
         v.u = FoldLeft(LAMBDA sum, it : sum + Weight(it), 0, v.items)
=============================================================================
