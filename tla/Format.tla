------------------------------- MODULE Format -------------------------------
(***************************************************************************)
(* _doprnt (libc/stdio/doprnt.c): the characters each conversion hands to  *)
(* putc, as character codes.  A conversion specification is the record of  *)
(* what is written in the format.  _doprnt_truncates is never set, and the *)
(* two callers pass radix 0, which %r, %R, %n and %N cannot divide by: they *)
(* are left out, and so are the 64-bit arguments of ll.                    *)
(***************************************************************************)
EXTENDS Integers, SequencesExt

CONSTANT LONG_BITS      \* the width of a long

ASSUME LongBitsAssumption == LONG_BITS \in Nat \ {0}

(* b ^ k *)
Power(b, k) ==
    LET power[j \in Nat] == IF j = 0 THEN 1 ELSE b * power[j - 1] IN power[k]

Word == Power(2, LONG_BITS)
Long == - (Word \div 2) .. Word \div 2 - 1
ULong == 0 .. Word - 1

(* ASCII codes. *)
NUL == 0        BLANK == 32     HASH == 35      PLUS == 43
MINUS == 45     ZERO == 48      LOWER_A == 97   LOWER_X == 120

Code == 0 .. 255        \* a char

(* The specifications, and the arguments a conversion may get: the task    *)
(* and the lthread of a %t have 11 and 7 bits; a %b has a base, and items  *)
(* that are single bits (last = 0) or the bits from the second to the first *)
(* of two, each with a name: without one a single bit would be read as a   *)
(* field.                                                                  *)
SignedConvs == {"d", "D", "z", "Z"}
UnsignedConvs == {"u", "U", "o", "O", "x", "X"}
Specifications == [
    conv  : SignedConvs \cup UnsignedConvs \cup {"p", "c", "s", "b", "B", "t"},
    flags : SUBSET {"#", "-", "+", " "},
    zero  : BOOLEAN,
    width : Int,
    prec  : Nat \cup {-1},
    long  : {0, 1}]
Items == {it \in [bit : 1 .. LONG_BITS, last : 0 .. LONG_BITS, name : Seq(33 .. 255)] :
            it.last <= it.bit /\ (it.last = 0 => it.name # <<>>)}
ArgsFor(conv) ==
    CASE conv \in SignedConvs -> Long
      [] conv \in UnsignedConvs \cup {"p"} -> ULong
      [] conv = "c" -> Code
      [] conv = "s" -> Seq(Code \ {NUL})
      [] conv \in {"b", "B"} -> [u : ULong, base : 2 .. 16, items : Seq(Items)]
      [] conv = "t" -> [task : 0 .. 2047, lthread : 0 .. 127, high : Nat, low : Nat]

Times(n, c) == [i \in 1 .. n |-> c]
digs(k) == IF k < 10 THEN ZERO + k ELSE LOWER_A + k - 10

printnum(u, base) ==
    LET num[n \in Nat] ==
          (IF n < base THEN <<>> ELSE num[n \div base]) \o <<digs(n % base)>>
    IN  num[u]

printnum_16(u) == [i \in 1 .. 8 |-> digs((u \div Power(16, 8 - i)) % 16)]

(* What the flags, the width and the precision come to; the last two may   *)
(* be arguments (`*'), and a negative width argument turns the adjustment. *)
Parse(f) == [
    conv      |-> f.conv,
    altfmt    |-> "#" \in f.flags,
    ladjust   |-> ("-" \in f.flags) # (f.width < 0),
    plus_sign |-> CASE "+" \in f.flags -> PLUS
                    [] "+" \notin f.flags /\ " " \in f.flags -> BLANK
                    [] OTHER -> 0,
    padc      |-> IF f.zero THEN ZERO ELSE BLANK,
    length    |-> IF f.width < 0 THEN -f.width ELSE f.width,
    prec      |-> f.prec,
    longopt   |-> f.long]

print_numZeroFirst(d, u, sign_char, base) ==    \* mutant: zeros before the sign
    LET sign == IF sign_char = 0 THEN <<>> ELSE <<sign_char>>
        num  == sign \o printnum(u, base)
    IN  Times(d.length - Len(num), d.padc) \o num

print_numSignless(d, u, sign_char, base) ==     \* mutant: sign not counted
    LET num  == printnum(u, base)
    IN  Times(d.length - Len(num), BLANK) \o
        (IF sign_char = 0 THEN <<>> ELSE <<sign_char>>) \o num

(* print_num: *)
print_num(d, u, sign_char, base) ==
    LET num    == printnum(u, base)
        sign   == IF sign_char = 0 THEN <<>> ELSE <<sign_char>>
        prefix == CASE u # 0 /\ d.altfmt /\ base = 8  -> <<ZERO>>
                    [] u # 0 /\ d.altfmt /\ base = 16 -> <<ZERO, LOWER_X>>
                    [] OTHER -> <<>>
        room   == d.length - Len(num) - Len(sign) - Len(prefix)
        Pad(c, here) == IF here THEN Times(room, c) ELSE <<>>
    IN  Pad(BLANK, d.padc = BLANK /\ ~d.ladjust)
          \o sign \o prefix \o Pad(ZERO, d.padc = ZERO) \o num
          \o Pad(BLANK, d.padc = BLANK /\ d.ladjust)

print_signed(d, n, base) ==
    IF n >= 0 THEN print_num(d, n, d.plus_sign, base)
    ELSE print_num(d, -n, MINUS, base)

print_unsigned(d, u, base) == print_num(d, u, 0, base)

(* %s; a null pointer is an empty string.  The count of a string that is   *)
(* cut off has gone one too far when the blanks on the right are counted.  *)
PrintString(d, s) ==
    LET cut   == d.prec # -1 /\ Len(s) > d.prec
        shown == IF cut THEN SubSeq(s, 1, d.prec) ELSE s
    IN  Times(IF d.ladjust THEN 0 ELSE d.length - Len(shown), BLANK)
          \o shown
          \o Times(IF ~d.ladjust THEN 0
                   ELSE d.length - Len(shown) - (IF cut THEN 1 ELSE 0), BLANK)

(* %b: a number, then the names of its bits that are set and the fields.   *)
Bit(u, i) == (u \div Power(2, i - 1)) % 2
FieldOf(u, it) ==
    (u \div Power(2, it.last - 1)) % Power(2, it.bit - it.last + 1)
PrintBits(arg) ==
    LET Shown(it) == it.last # 0 \/ Bit(arg.u, it.bit) = 1
        AnyOf(k) == \E j \in 1 .. k : Shown(arg.items[j])
        Item(it) == it.name \o
                    IF it.last = 0 THEN <<>>
                    ELSE printnum(FieldOf(arg.u, it), arg.base)
        out[k \in 0 .. Len(arg.items)] ==
          CASE k = 0 -> printnum(arg.u, arg.base)
            [] k # 0 /\ Shown(arg.items[k]) ->
                 out[k - 1] \o <<IF AnyOf(k - 1) THEN 44 ELSE 60>>
                            \o Item(arg.items[k])
            [] OTHER -> out[k - 1]
    IN  IF arg.u # 0 /\ AnyOf(Len(arg.items)) THEN out[Len(arg.items)] \o <<62>>
        ELSE out[0]

(* %t, a thread id: task.thread, or its two words. *)
Bracket(d, c) == IF d.altfmt THEN <<c>> ELSE <<>>
PrintThread(d, tid) ==
    LET task    == printnum(tid.task, 16)
        lthread == printnum(tid.lthread, 16)
        n       == 1 + Len(task) + 2 * Len(Bracket(d, 0))
        lead    == IF d.ladjust THEN 0 ELSE d.length - n - 2
        inner   == IF d.ladjust THEN 0
                   ELSE d.length - Len(lthread) - n - (IF lead > 0 THEN lead ELSE 0)
    IN  Times(IF d.padc = BLANK THEN lead ELSE 0, BLANK)
          \o Bracket(d, 91)
          \o Times(IF d.padc = ZERO THEN lead ELSE 0, ZERO)
          \o task \o <<46>> \o Times(inner, d.padc) \o lthread
          \o Bracket(d, 93)
          \o Times(IF d.ladjust THEN d.length - n - Len(lthread) ELSE 0, BLANK)
PrintThreadLong(d, tid) ==
    LET room == d.length - 17 - 2 * Len(Bracket(d, 0))
    IN  Times(IF d.ladjust THEN 0 ELSE room, BLANK)
          \o Bracket(d, 91)
          \o printnum_16(tid.high) \o <<58>> \o printnum_16(tid.low)
          \o Bracket(d, 93)
          \o Times(IF d.ladjust THEN room ELSE 0, BLANK)

(* One conversion of _doprnt. *)
Convert(d, arg) ==
    CASE d.conv \in {"d", "D"} -> print_signed(d, arg, 10)
      [] d.conv \in {"z", "Z"} -> print_signed(d, arg, 16)
      [] d.conv \in {"u", "U"} -> print_unsigned(d, arg, 10)
      [] d.conv \in {"o", "O"} -> print_unsigned(d, arg, 8)
      [] d.conv \in {"x", "X"} -> print_unsigned(d, arg, 16)
      [] d.conv = "p" -> <<ZERO, LOWER_X>> \o
             print_unsigned([d EXCEPT !.padc = ZERO, !.length = 8], arg, 16)
      [] d.conv = "c" -> <<arg>>
      [] d.conv = "s" -> PrintString(d, arg)
      [] d.conv \in {"b", "B"} -> PrintBits(arg)
      [] d.conv = "t" -> IF d.longopt = 0 THEN PrintThread(d, arg)
                         ELSE PrintThreadLong(d, arg)
=============================================================================
