------------------------------ MODULE Strings ------------------------------
(***************************************************************************)
(* The string functions of tasks/libc/string, each as the loop it is, on   *)
(* one memory that every call may change.  Pointers and size_t are words   *)
(* that wrap; a character is an unsigned byte, as on ARM.  A call gets what *)
(* the C standard asks for: strings that end, room for the result, and     *)
(* objects that do not overlap (but for memmove).                          *)
(***************************************************************************)
EXTENDS Loop, FiniteSets, SequencesExt

CONSTANTS
    SIZE,       \* of the address space
    Char        \* the characters in memory, 0 (NUL) among them

ASSUME SizeAssumption == SIZE \in Nat \ {0}
ASSUME CharAssumption == Char \subseteq Nat /\ 0 \in Char

VARIABLE mem

Addr == 0 .. SIZE - 1
NULLP == -1
Ptr(a) == a % SIZE
Set(m, a, c) == [m EXCEPT ![Ptr(a)] = c]
At(m, a) == m[Ptr(a)]
----------------------------------------------------------------------------
(* Functions that read. *)

Ends(m, s) == {k \in Nat : At(m, s + k) = 0}
Differs(m, s1, s2) == {k \in Nat : At(m, s1 + k) # At(m, s2 + k)}

strlen(m, s) == Until(Ends(m, s))

strchr(m, s, c) ==
    LET k == Until({j \in Nat : At(m, s + j) \in {c, 0}})
    IN  IF At(m, s + k) = c THEN Ptr(s + k) ELSE NULLP

LastSeen(m, s, c) ==        \* save, after k characters
    LET save[k \in Nat] ==
          CASE k = 0 -> NULLP
            [] k # 0 /\ At(m, s + k - 1) = c -> Ptr(s + k - 1)
            [] OTHER -> save[k - 1]
    IN  save
strrchr(m, s, c) == LastSeen(m, s, c)[strlen(m, s)]

strcmp(m, s1, s2) ==
    LET k == Until(Differs(m, s1, s2) \cup Ends(m, s1) \cup Ends(m, s2))
    IN  At(m, s1 + k) - At(m, s2 + k)

strncmp(m, s1, s2, n) ==
    LET k == Until({n} \cup Differs(m, s1, s2) \cup Ends(m, s1))
    IN  IF k = n THEN 0 ELSE At(m, s1 + k) - At(m, s2 + k)

memcmp(m, s1, s2, size) ==
    LET k == Until({size} \cup Differs(m, s1, s2))
    IN  IF k = size THEN 0 ELSE At(m, s1 + k) - At(m, s2 + k)

(* The inner loops: is c in the string, its NUL left out or included?      *)
Among(m, c, s) ==
    At(m, s + Until({k \in Nat : At(m, s + k) \in {c, 0}})) # 0
AmongOrNul(m, c, s) == c = 0 \/ Among(m, c, s)

strspn(m, s1, s2) == Until({k \in Nat : ~Among(m, At(m, s1 + k), s2)})

strcspn(m, s1, s2) == Until({k \in Nat : AmongOrNul(m, At(m, s1 + k), s2)})

strpbrk(m, s1, s2) ==
    LET k == Until({j \in Nat : AmongOrNul(m, At(m, s1 + j), s2)})
    IN  IF At(m, s1 + k) = 0 THEN NULLP ELSE Ptr(s1 + k)

(* The search ends without success when less is left than is looked for.   *)
TooShortOrEqual(left, nlen) == left <= nlen     \* mutant: > for >=
TooShort(left, nlen) == left < nlen
strstr(m, h, n) ==
    LET hlen == strlen(m, h)
        nlen == strlen(m, n)
        k    == Until({j \in Nat : TooShort(hlen - j, nlen)
                                     \/ memcmp(m, h + j, n, nlen) = 0})
    IN  IF TooShort(hlen - k, nlen) THEN NULLP ELSE Ptr(h + k)
----------------------------------------------------------------------------
(* Functions that write: the memory they leave.  memcpy is memmove. *)

(* After k rounds of a loop that copies upwards, downwards, or sets.       *)
Up(m, d, s, k) ==
    LET moved[j \in Nat] ==
          IF j = 0 THEN m
          ELSE LET b == moved[j - 1] IN Set(b, d + j - 1, At(b, s + j - 1))
    IN  moved[k]

Down(m, d, s, count, k) ==
    LET moved[j \in Nat] ==
          IF j = 0 THEN m
          ELSE LET b == moved[j - 1] IN Set(b, d + count - j, At(b, s + count - j))
    IN  moved[k]

memset(m, to, c, len) ==
    LET filled[j \in Nat] ==
          IF j = 0 THEN m ELSE Set(filled[j - 1], to + j - 1, c)
    IN  filled[len]

memmoveUp(m, dest, src, count) == Up(m, dest, src, count)   \* mutant
memmove(m, dest, src, count) ==
    IF dest < src THEN Up(m, dest, src, count)
    ELSE Down(m, dest, src, count, count)

(* The rounds after which the next character to copy is NUL: what was      *)
(* copied before may have changed it.                                      *)
CopiesNul(m, to, from) == {k \in Nat : At(Up(m, to, from, k), from + k) = 0}

strcpy(m, to, from) == Up(m, to, from, Until(CopiesNul(m, to, from)) + 1)

strcat(m, s, add) == strcpy(m, s + strlen(m, s), add)

CatUpTo(m, d, s, n) ==
    LET k      == Until({n - 1} \cup CopiesNul(m, d, s))
        copied == Up(m, d, s, k + 1)
    IN  IF k \in CopiesNul(m, d, s) THEN copied ELSE Set(copied, d + k + 1, 0)
strncat(m, dst, src, n) ==
    IF n = 0 THEN m ELSE CatUpTo(m, dst + strlen(m, dst), src, n)

(* The test of the first loop takes one off count also when it ends the    *)
(* loop, and count wraps: without a NUL among the first count characters   *)
(* the second loop clears SIZE - 1 bytes.                                  *)
strncpy(m, to, from, count) ==
    LET k == Until({count} \cup CopiesNul(m, to, from))
    IN  IF k = count THEN memset(Up(m, to, from, k), to + k, 0, SIZE - 1)
        ELSE memset(Up(m, to, from, k + 1), to + k + 1, 0, count - k - 1)
----------------------------------------------------------------------------
(* A program that calls them. *)

Cells(a, n) == a .. a + n - 1
IsString(m, s) == \E a \in s .. SIZE - 1 : m[a] = 0
Apart(d, n, s, k) == Cells(d, n) \subseteq Addr /\ Cells(d, n) \cap Cells(s, k) = {}
Length(m, s) == CHOOSE n \in 0 .. SIZE : m[s + n] = 0 /\ \A i \in 0 .. n - 1 : m[s + i] # 0

(* What the C standard asks of a call's arguments. *)
MayMemmove(m, d, s, n) == Cells(d, n) \cup Cells(s, n) \subseteq Addr
MayMemset(m, d, n) == Cells(d, n) \subseteq Addr
MayStrncpy(m, d, s, n) ==
    IsString(m, s) /\ Apart(d, n, s, Length(m, s) + 1)
MayStrcpy(m, d, s) ==
    IsString(m, s) /\ Apart(d, Length(m, s) + 1, s, Length(m, s) + 1)
MayStrncat(m, d, s, n) ==
    /\ IsString(m, d) /\ IsString(m, s)
    /\ Apart(d, Length(m, d) + n + 1, s, Length(m, s) + 1)
MayStrcat(m, d, s) == IsString(m, s) /\ MayStrncat(m, d, s, Length(m, s))

StringsInit == mem \in [Addr -> Char]

StringsNext == \E d, s \in Addr :
    \/ MayStrcpy(mem, d, s) /\ mem' = strcpy(mem, d, s)
    \/ MayStrcat(mem, d, s) /\ mem' = strcat(mem, d, s)
    \/ \E n \in 0 .. SIZE :
         \/ MayMemmove(mem, d, s, n) /\ mem' = memmove(mem, d, s, n)
         \/ MayStrncat(mem, d, s, n) /\ mem' = strncat(mem, d, s, n)
         \/ MayStrncpy(mem, d, s, n) /\ mem' = strncpy(mem, d, s, n)
    \/ \E n \in 0 .. SIZE, c \in Char :
         MayMemset(mem, d, n) /\ mem' = memset(mem, d, c, n)
----------------------------------------------------------------------------
(* What the string at s and the bytes at s are. *)
Bytes(m, s, n) == [i \in 1 .. n |-> m[s + i - 1]]
Str(m, s) == Bytes(m, s, Length(m, s))
Patch(m, d, bytes) ==
    [a \in Addr |-> IF a \in Cells(d, Len(bytes)) THEN bytes[a - d + 1] ELSE m[a]]
Prefix(seq, n) == SubSeq(seq, 1, IF n < Len(seq) THEN n ELSE Len(seq))
Zeros(n) == [i \in 1 .. n |-> 0]

(* The copying functions leave the bytes they should at the destination    *)
(* and no other byte changed: memmove for every overlap (it picks the      *)
(* direction by comparing the pointers, memmove.c:18), strncpy if there is *)
(* a NUL among the first count characters.  If there is none strncpy does  *)
(* not keep its promise of exactly count characters (strncpy.c:38), and    *)
(* nothing is asked of it here.                                            *)
CopyingIsRight ==
    \A d, s \in Addr :
      /\ MayStrcpy(mem, d, s) =>
           strcpy(mem, d, s) = Patch(mem, d, Str(mem, s) \o <<0>>)
      /\ MayStrcat(mem, d, s) =>
           strcat(mem, d, s) =
             Patch(mem, d + Length(mem, d), Str(mem, s) \o <<0>>)
      /\ \A n \in 0 .. SIZE :
           /\ MayMemmove(mem, d, s, n) =>
                memmove(mem, d, s, n) = Patch(mem, d, Bytes(mem, s, n))
           /\ MayMemset(mem, d, n) => \A c \in Char :
                memset(mem, d, c, n) = Patch(mem, d, [i \in 1 .. n |-> c])
           /\ MayStrncat(mem, d, s, n) =>
                strncat(mem, d, s, n) =
                  IF n = 0 THEN mem
                  ELSE Patch(mem, d + Length(mem, d),
                             Prefix(Str(mem, s), n) \o <<0>>)
           /\ MayStrncpy(mem, d, s, n) /\ Length(mem, s) < n =>
                strncpy(mem, d, s, n)
                  = Patch(mem, d, Str(mem, s) \o Zeros(n - Length(mem, s)))

(* Lexicographic order, of unsigned characters. *)
Sign(x) == IF x > 0 THEN 1 ELSE IF x < 0 THEN -1 ELSE 0
Before(a, b) ==
    \E n \in 0 .. Len(a) : Prefix(a, n) = Prefix(b, n) /\ Len(b) > n
        /\ (Len(a) = n \/ (Len(a) > n /\ a[n + 1] < b[n + 1]))
Order(a, b) == IF a = b THEN 0 ELSE IF Before(a, b) THEN -1 ELSE 1
Lowest(set) == IF set = {} THEN NULLP ELSE CHOOSE x \in set : \A y \in set : x <= y
Highest(set) == IF set = {} THEN NULLP ELSE CHOOSE x \in set : \A y \in set : y <= x

(* The searching and comparing functions give what their definitions on    *)
(* sequences give, for every two strings in memory, one being the tail of  *)
(* the other included; but strrchr never finds the NUL (strrchr.c:28).     *)
SearchingIsRight ==
    \A s \in Addr : IsString(mem, s) =>
      LET len  == Length(mem, s)
          Hits(S) == {a \in Cells(s, len) : mem[a] \in S}
          Found(c) == Hits({c}) \cup (IF c = 0 THEN {s + len} ELSE {})
      IN
      /\ strlen(mem, s) = len
      /\ \A c \in Char : /\ strchr(mem, s, c) = Lowest(Found(c))
                         /\ strrchr(mem, s, c) = Highest(Hits({c} \ {0}))
      /\ \A t \in Addr : IsString(mem, t) =>
           LET a == Str(mem, s)  b == Str(mem, t)  set == ToSet(b)
               Start(S) == IF Hits(S) = {} THEN len ELSE Lowest(Hits(S)) - s
           IN
           /\ Sign(strcmp(mem, s, t)) = Order(a, b)
           /\ \A n \in 0 .. SIZE :
                /\ Sign(strncmp(mem, s, t, n)) = Order(Prefix(a, n), Prefix(b, n))
                /\ Cells(s, n) \cup Cells(t, n) \subseteq Addr =>
                     Sign(memcmp(mem, s, t, n))
                       = Order(Bytes(mem, s, n), Bytes(mem, t, n))
           /\ strcspn(mem, s, t) = Start(set)
           /\ strspn(mem, s, t) = Start(Char \ set)
           /\ strpbrk(mem, s, t) = Lowest(Hits(set))
           /\ strstr(mem, s, t) =
                Lowest({p \in Cells(s, len + 1) :
                         Prefix(Str(mem, p), Len(b)) = b})
=============================================================================
