-------------------------------- MODULE Scan --------------------------------
(***************************************************************************)
(* Reading numbers and words back: _doscan as sscanf calls it              *)
(* (libc/stdio), strtol, strtoul and atol (libc/stdlib).  A string is a    *)
(* sequence of character codes that ends with NUL.                         *)
(***************************************************************************)
EXTENDS Format, Loop

isspace(c) == c \in {BLANK, 9, 10, 11, 12, 13}

(* The value of a digit, and what no base exceeds for any other character. *)
DigitOf(c) == CASE c \in 48 .. 57  -> c - 48
                [] c \in 97 .. 122 -> c - 97 + 10
                [] c \in 65 .. 90  -> c - 65 + 10
                [] OTHER -> 36

SkipSpace(s, p) == p + Until({k \in Nat : ~isspace(s[p + k])})

(* Signed overflow wraps. *)
Digits(s, p, base) ==
    LET n == Until({k \in Nat : DigitOf(s[p + k]) >= base})
        value[k \in Nat] ==
          IF k = 0 THEN 0
          ELSE (value[k - 1] * base + DigitOf(s[p + k - 1])) % Word
    IN  [v |-> value[n], p |-> p + n]

Signed(v) == IF v < Word \div 2 THEN v ELSE v - Word
Negated(v, neg) == Signed(IF neg THEN (-v) % Word ELSE v)

(* base and start of the digits at p. *)
Radix(s, p, base) ==
    CASE base \in {0, 16} /\ s[p] = ZERO /\ s[p + 1] \in {LOWER_X, 88} ->
           [base |-> 16, p |-> p + 2]
      [] base = 0 /\ s[p] = ZERO /\ s[p + 1] \notin {LOWER_X, 88} ->
           [base |-> 8, p |-> p]
      [] base = 0 /\ s[p] # ZERO -> [base |-> 10, p |-> p]
      [] OTHER -> [base |-> base, p |-> p]

(* A `+' is seen and not skipped. *)
strtol(s, base) ==
    LET p   == SkipSpace(s, 1)
        neg == s[p] = MINUS
        r   == Radix(s, IF neg THEN p + 1 ELSE p, base)
    IN  Negated(Digits(s, r.p, r.base).v, neg)

strtoul(s, base) ==
    LET r == Radix(s, SkipSpace(s, 1), base) IN Digits(s, r.p, r.base).v

atol(s) == Signed(Digits(s, 1, 10).v)

(* %d and %x: no white space is skipped, and a number without digits is 0. *)
ScanNumber(s, p, base) ==
    LET neg == s[p] = MINUS
        num == Digits(s, IF neg THEN p + 1 ELSE p, base)
    IN  [v |-> Negated(num.v, neg), p |-> num.p]

(* %s ends at white space only. *)
WordEnd(s, p) == p + Until({k \in Nat : isspace(s[p + k])})

(* One conversion of a format, in the state st of the scan.  A format is a *)
(* sequence of [conv, discard] and of characters [conv = "", c]; an        *)
(* unknown conversion reads nothing and counts.                            *)
Scanned(f, s, st) ==
    LET Keep(v, p) == [vals   |-> st.vals + (IF f.discard THEN 0 ELSE 1),
                       stored |-> st.stored \o (IF f.discard THEN <<>> ELSE v),
                       p      |-> p]
        num == ScanNumber(s, st.p, IF f.conv = "x" THEN 16 ELSE 10)
        end == WordEnd(s, st.p)
    IN  CASE f.conv = "" /\ isspace(f.c)  -> [st EXCEPT !.p = SkipSpace(s, @)]
          [] f.conv = "" /\ ~isspace(f.c) -> [st EXCEPT !.p = @ + 1]
          [] f.conv \in {"d", "x"}        -> Keep(<<num.v>>, num.p)
          [] f.conv = "s"     -> Keep(<<SubSeq(s, st.p, end - 1)>>, end)
          [] OTHER            -> Keep(<<>>, st.p)

(* The scan ends with its format, or at a character that is another.       *)
sscanf(s, fmt) ==
    LET state[k \in 0 .. Len(fmt)] ==
          IF k = 0 THEN [vals |-> 0, stored |-> <<>>, p |-> 1]
          ELSE Scanned(fmt[k], s, state[k - 1])
        Other(k) == /\ fmt[k + 1].conv = "" /\ ~isspace(fmt[k + 1].c)
                    /\ s[state[k].p] # fmt[k + 1].c
    IN  state[Until({k \in Nat : k = Len(fmt) \/ Other(k)})]
=============================================================================
