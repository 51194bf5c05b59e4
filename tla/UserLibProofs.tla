--------------------------- MODULE UserLibProofs ---------------------------
(***************************************************************************)
(* Theorems about the user library and typo, for memories, formats, lines  *)
(* and buffers of any size.                                                *)
(***************************************************************************)
EXTENDS UserLib, StringsProofs

InMemory == mem \in Memory

(* The string functions keep characters in memory. *)
LEMMA MemoryKept == InMemory /\ [Next]_vars => InMemory'
BY StringsStep DEF Next, vars, InMemory

(* The memory of a program that calls the string functions holds characters *)
(* whatever it calls.                                                      *)
LEMMA MemoryTyped == Spec => []InMemory
<1>1. Init => InMemory
  BY DEF Init, StringsInit, Memory, InMemory
<1> QED
  BY <1>1, MemoryKept, PTL DEF Spec

(* After any calls the copying functions of tasks/libc/string leave the    *)
(* bytes they should where they should, and change no other.               *)
THEOREM CopiesAreRight == Spec => []CopiesRight
<1>1. InMemory => CopiesRight
  BY Copies DEF CopiesRight, InMemory
<1> QED
  BY <1>1, MemoryTyped, PTL

(* After any calls the searching and comparing functions find what is in   *)
(* memory, and order it, as their definitions on sequences do.             *)
THEOREM SearchesAreRight == Spec => []SearchesRight
<1>1. InMemory => SearchesRight
  BY Searches DEF SearchesRight, InMemory
<1> QED
  BY <1>1, MemoryTyped, PTL
----------------------------------------------------------------------------
(* The powers of a number. *)
LEMMA PowerIs ==
    ASSUME NEW b \in Nat
    PROVE  /\ Power(b, 0) = 1
           /\ \A k \in Nat : /\ Power(b, k) \in Nat
                             /\ Power(b, k + 1) = b * Power(b, k)
<1> DEFINE step == [p \in Nat \X Nat |-> b * p[2]]
           f == CHOOSE h : h = [j \in Nat |-> IF j = 0 THEN 1 ELSE b * h[j - 1]]
<1>1. \A n \in Nat : b * n \in Nat
  OBVIOUS
<1>2. step \in [Nat \X Nat -> Nat]
  BY <1>1
<1>3. \A k \in Nat, n \in Nat : step[<<k, n>>] = b * n
  <2> TAKE k \in Nat, n \in Nat
  <2>1. <<k, n>> \in Nat \X Nat
    OBVIOUS
  <2> QED
    BY <2>1
<1> HIDE DEF step
<1>4. PICK g \in [Nat -> Nat] : Recurs(1, step, g)
  BY <1>2, RecursionExists
<1>5. g[0] = 1 /\ \A k \in Nat : g[k + 1] = b * g[k]
  BY <1>3, <1>4 DEF Recurs
<1>6. g = [j \in Nat |-> IF j = 0 THEN 1 ELSE b * g[j - 1]]
  <2>1. ASSUME NEW j \in Nat, j # 0 PROVE g[j] = b * g[j - 1]
    <3>1. j - 1 \in Nat /\ (j - 1) + 1 = j
      BY <2>1
    <3>2. g[(j - 1) + 1] = b * g[j - 1]
      BY <1>5, <3>1
    <3> QED
      BY <3>1, <3>2
  <2> QED
    BY <1>5, <2>1
<1>7. f = [j \in Nat |-> IF j = 0 THEN 1 ELSE b * f[j - 1]]
  BY <1>6
<1>8. \A k : Power(b, k) = f[k]
  BY DEF Power
<1> HIDE DEF f
<1>9. f[0] = 1 /\ \A k \in Nat : f[k + 1] = b * f[k]
  <2>1. ASSUME NEW k \in Nat PROVE f[k + 1] = b * f[k]
    <3>1. k + 1 \in Nat /\ k + 1 # 0 /\ (k + 1) - 1 = k
      OBVIOUS
    <3>2. f[k + 1] = b * f[(k + 1) - 1]
      BY <1>7, <3>1
    <3> QED
      BY <3>1, <3>2
  <2> QED
    BY <1>7, <2>1
<1> DEFINE P == {k \in Nat : f[k] \in Nat}
<1>10. 0 \in P
  BY <1>9
<1>11. \A k \in P : k + 1 \in P
  BY <1>1, <1>9
<1>12. P \in SUBSET Nat
  OBVIOUS
<1> HIDE DEF P
<1>13. P = Nat
  BY <1>10, <1>11, <1>12, SetInduction
<1>14. \A k \in Nat : f[k] \in Nat
  BY <1>13 DEF P
<1> QED
  BY <1>8, <1>9, <1>14

(* They grow. *)
LEMMA PowerGrows ==
    ASSUME NEW b \in Nat, b >= 2, NEW k \in Nat, NEW j \in Nat, k <= j
    PROVE  Power(b, k) >= 1 /\ Power(b, k) <= Power(b, j)
<1> DEFINE P == {n \in Nat : Power(b, n) >= 1}
           Q == {n \in Nat : Power(b, k) <= Power(b, k + n)}
<1>1. \A n \in Nat : Power(b, n) \in Nat
  BY PowerIs
<1>2. \A n \in Nat : Power(b, n) <= Power(b, n + 1)
                     /\ (Power(b, n) >= 1 => Power(b, n + 1) >= 1)
  <2> TAKE n \in Nat
  <2>1. \A m \in Nat : m <= b * m
    OBVIOUS
  <2>2. Power(b, n + 1) = b * Power(b, n)
    BY PowerIs
  <2> QED
    BY <1>1, <2>1, <2>2
<1>3. P = Nat
  <2>1. 0 \in P
    BY PowerIs
  <2>2. \A n \in P : n + 1 \in P
    BY <1>2
  <2>3. P \in SUBSET Nat
    OBVIOUS
  <2> HIDE DEF P
  <2> QED
    BY <2>1, <2>2, <2>3, SetInduction
<1>4. Q = Nat
  <2>1. 0 \in Q
    BY <1>1
  <2>2. \A n \in Q : n + 1 \in Q
    <3> SUFFICES ASSUME NEW n \in Q PROVE Power(b, k) <= Power(b, k + (n + 1))
      OBVIOUS
    <3>1. Power(b, k) <= Power(b, k + n) /\ k + n \in Nat /\ k + (n + 1) = (k + n) + 1
      OBVIOUS
    <3>2. Power(b, k + n) <= Power(b, (k + n) + 1)
      BY <1>2, <3>1
    <3>3. (k + n) + 1 \in Nat
      BY <3>1
    <3>4. Power(b, k) \in Nat /\ Power(b, k + n) \in Nat /\ Power(b, (k + n) + 1) \in Nat
      BY <1>1, <3>1, <3>3
    <3> HIDE DEF Q
    <3>5. Power(b, k) <= Power(b, (k + n) + 1)
      BY <3>1, <3>2, <3>4
    <3> QED
      BY <3>1, <3>5
  <2>3. Q \in SUBSET Nat
    OBVIOUS
  <2> HIDE DEF Q
  <2> QED
    BY <2>1, <2>2, <2>3, SetInduction
<1>5. Power(b, k) >= 1
  BY <1>3
<1>6. j - k \in Nat /\ k + (j - k) = j
  OBVIOUS
<1>7. j - k \in Q
  <2> HIDE DEF Q
  <2> QED
    BY <1>4, <1>6
<1> QED
  BY <1>5, <1>6, <1>7

LEMMA PowersOfTwo == \A k \in Nat : Power(2, k) \in Nat /\ Power(2, k) >= 1
<1>1. 2 \in Nat /\ 2 >= 2 /\ \A k \in Nat : k <= k
  OBVIOUS
<1> QED
  BY <1>1, PowerIs, PowerGrows

(* A digit, and what is left of a number without it. *)
LEMMA Quotients ==
    ASSUME NEW n \in Nat, NEW b \in Nat, b >= 2
    PROVE  /\ n \div b \in Nat /\ n % b \in 0 .. b - 1
           /\ n = b * (n \div b) + (n % b)
           /\ n # 0 => n \div b < n
<1>1. n \div b \in Nat /\ n % b \in 0 .. b - 1 /\ n = b * (n \div b) + (n % b)
  <2>1. n \div b \in Nat
    OBVIOUS
  <2>2. n % b \in 0 .. b - 1
    OBVIOUS
  <2>3. n = b * (n \div b) + (n % b)
    OBVIOUS
  <2> QED
    BY <2>1, <2>2, <2>3
<1>2. ASSUME NEW q \in Nat, NEW r \in Nat, n = b * q + r, n # 0 PROVE q < n
  <2>1. q + q <= b * q
    OBVIOUS
  <2> QED
    BY <1>2, <2>1
<1>3. n % b \in Nat
  BY <1>1
<1> QED
  BY <1>1, <1>2, <1>3

(* The digits of a number. *)
LEMMA DigitsPrinted ==
    ASSUME NEW b \in 2 .. 16
    PROVE  \A u \in Nat :
             /\ digs(u % b) \in Code \ {NUL}
             /\ printnum(u, b) \in Seq(Code \ {NUL})
             /\ printnum(u, b) = (IF u < b THEN <<>> ELSE printnum(u \div b, b))
                                   \o <<digs(u % b)>>
<1> DEFINE S == Seq(Code \ {NUL})
           D == 0 .. b - 1
           result == [n \in Nat |-> <<digs(n % b)>>]
           step == [p \in Nat \X S |-> p[2] \o <<digs(p[1] % b)>>]
           prev == [n \in Nat |-> n \div b]
           f == CHOOSE h : h = [n \in Nat |->
                  (IF n < b THEN <<>> ELSE h[n \div b]) \o <<digs(n % b)>>]
<1>1. \A u \in Nat : digs(u % b) \in Code \ {NUL}
  <2> TAKE u \in Nat
  <2>1. u % b \in 0 .. b - 1
    BY Quotients
  <2>2. u % b \in 0 .. 15
    BY <2>1
  <2> QED
    BY <2>2 DEF digs, Code, NUL, ZERO, LOWER_A
<1>2. \A u \in Nat : <<digs(u % b)>> \in S
  BY <1>1
<1>3. \A q \in S, u \in Nat : q \o <<digs(u % b)>> \in S
  <2> TAKE q \in S, u \in Nat
  <2>1. <<digs(u % b)>> \in S
    BY <1>2
  <2> QED
    BY <2>1, ConcatProperties
<1>4. /\ D \in SUBSET Nat /\ result \in [Nat -> S] /\ step \in [Nat \X S -> S]
      /\ prev \in [Nat -> Nat]
  <2> HIDE DEF S
  <2>1. D \in SUBSET Nat
    OBVIOUS
  <2>2. result \in [Nat -> S]
    BY <1>2
  <2>3. step \in [Nat \X S -> S]
    BY <1>3
  <2>4. prev \in [Nat -> Nat]
    BY Quotients
  <2> QED
    BY <2>1, <2>2, <2>3, <2>4
<1>5. \A n \in Nat \ D : prev[n] < n
  <2> TAKE n \in Nat \ D
  <2>1. n # 0 /\ prev[n] = n \div b
    OBVIOUS
  <2> QED
    BY <2>1, Quotients
<1>6. \A n \in Nat, q \in S :
        /\ result[n] = <<digs(n % b)>>
        /\ step[<<n, q>>] = q \o <<digs(n % b)>>
        /\ prev[n] = n \div b
  <2> TAKE n \in Nat, q \in S
  <2> HIDE DEF S
  <2>1. <<n, q>> \in Nat \X S
    OBVIOUS
  <2> QED
    BY <2>1
<1> HIDE DEF step, result, prev
<1>7. PICK g \in [Nat -> S] : Descends(D, result, step, prev, g)
  <2> HIDE DEF S, D
  <2> QED
    BY <1>4, <1>5, DescentExists
<1>8. ASSUME NEW n \in Nat
      PROVE  g[n] = (IF n < b THEN <<>> ELSE g[n \div b]) \o <<digs(n % b)>>
  <2>1. n \div b \in Nat /\ g[n \div b] \in S
    BY Quotients
  <2>2. g[n] = IF n \in D THEN result[n] ELSE step[<<n, g[prev[n]]>>]
    BY <1>7 DEF Descends
  <2>3. g[n] = IF n < b THEN <<digs(n % b)>> ELSE g[n \div b] \o <<digs(n % b)>>
    <3>1. n \in D <=> n < b
      OBVIOUS
    <3>2. \E q : q \in S
      BY <1>2
    <3>3. result[n] = <<digs(n % b)>> /\ prev[n] = n \div b
      BY <1>6, <3>2
    <3>4. step[<<n, g[n \div b]>>] = g[n \div b] \o <<digs(n % b)>>
      <4> HIDE DEF S
      <4> QED
        BY <1>6, <2>1
    <3> HIDE DEF D, S
    <3> QED
      BY <2>2, <3>1, <3>3, <3>4
  <2>4. <<>> \o <<digs(n % b)>> = <<digs(n % b)>>
    BY <1>2, ConcatEmptySeq
  <2> QED
    BY <2>3, <2>4
<1>9. g = [n \in Nat |-> (IF n < b THEN <<>> ELSE g[n \div b]) \o <<digs(n % b)>>]
  BY <1>8
<1>10. f = [n \in Nat |-> (IF n < b THEN <<>> ELSE f[n \div b]) \o <<digs(n % b)>>]
  BY <1>9
<1>11. \A u : printnum(u, b) = f[u]
  BY DEF printnum
<1> HIDE DEF f
<1>12. \A n \in Nat : f[n] = (IF n < b THEN <<>> ELSE f[n \div b]) \o <<digs(n % b)>>
  BY <1>10
<1> DEFINE P == {n \in Nat : f[n] \in S}
<1>13. ASSUME NEW n \in Nat, 0 .. n - 1 \subseteq P PROVE n \in P
  <2>1. CASE n < b
    <3>1. f[n] = <<>> \o <<digs(n % b)>>
      BY <1>12, <2>1
    <3>2. <<>> \in S
      OBVIOUS
    <3> HIDE DEF S
    <3> QED
      BY <1>3, <3>1, <3>2
  <2>2. CASE ~(n < b)
    <3>1. n \div b \in 0 .. n - 1
      <4>1. n # 0
        BY <2>2
      <4>2. n \div b \in Nat /\ n \div b < n
        BY <4>1, Quotients
      <4> QED
        BY <4>2
    <3>2. f[n \div b] \in S
      BY <1>13, <3>1
    <3>3. f[n] = f[n \div b] \o <<digs(n % b)>>
      BY <1>12, <2>2
    <3> HIDE DEF S
    <3> QED
      BY <1>3, <3>2, <3>3
  <2> QED
    BY <2>1, <2>2
<1>14. P = Nat
  <2>1. P \in SUBSET Nat
    OBVIOUS
  <2> HIDE DEF P
  <2> QED
    BY <1>13, <2>1, StrongInduction
<1> QED
  BY <1>1, <1>11, <1>12, <1>14 DEF P

(* How many they are. *)
LEMMA DigitsCounted ==
    ASSUME NEW b \in 2 .. 16
    PROVE  \A u \in Nat : Len(printnum(u, b)) = DigitCount(u, b)
                          /\ DigitCount(u, b) \in Nat \ {0}
<1> DEFINE Fits(u, k) == u < Power(b, k) /\ (k = 1 \/ Power(b, k - 1) <= u)
           L(u) == Len(printnum(u, b))
           P == {u \in Nat : L(u) \in 1 .. u + 1 /\ Fits(u, L(u))}
<1>0. b \in Nat /\ b >= 2
  OBVIOUS
<1>1. \A k \in Nat : Power(b, k) \in Nat /\ Power(b, k + 1) = b * Power(b, k)
  BY <1>0, PowerIs
<1>2. \A u \in Nat : L(u) = (IF u < b THEN 0 ELSE L(u \div b)) + 1
                     /\ L(u) \in Nat
  <2> TAKE u \in Nat
  <2> DEFINE S == Code \ {NUL}
             low == <<digs(u % b)>>
             high == IF u < b THEN <<>> ELSE printnum(u \div b, b)
  <2>1. /\ low \in Seq(S) /\ Len(low) = 1
        /\ printnum(u, b) = high \o low
        /\ printnum(u, b) \in Seq(S)
    <3>1. digs(u % b) \in S
      BY DigitsPrinted
    <3>2. low \in Seq(S) /\ Len(low) = 1
      BY <3>1
    <3> QED
      BY <3>2, DigitsPrinted
  <2>2. u \div b \in Nat
    BY <1>0, Quotients
  <2>3. printnum(u \div b, b) \in Seq(S)
    BY <2>2, DigitsPrinted
  <2>4. high \in Seq(S) /\ Len(high) = IF u < b THEN 0 ELSE L(u \div b)
    <3>1. <<>> \in Seq(S) /\ Len(<<>>) = 0
      OBVIOUS
    <3> HIDE DEF S
    <3> QED
      BY <2>3, <3>1
  <2> HIDE DEF S, low, high
  <2>5. Len(high \o low) = Len(high) + Len(low)
    BY <2>1, <2>4, ConcatProperties
  <2>6. L(u) \in Nat
    BY <2>1, LenProperties
  <2> QED
    BY <2>1, <2>4, <2>5, <2>6
<1>3. ASSUME NEW u \in Nat, 0 .. u - 1 \subseteq P PROVE u \in P
  <2>1. CASE u < b
    <3>1. L(u) = 1
      BY <1>2, <2>1
    <3>2. Power(b, 1) = b
      <4>1. Power(b, 0) = 1 /\ Power(b, 0 + 1) = b * Power(b, 0)
        BY <1>0, PowerIs
      <4>2. 0 + 1 = 1 /\ b * 1 = b
        OBVIOUS
      <4> QED
        BY <4>1, <4>2
    <3>3. 1 \in 1 .. u + 1 /\ Fits(u, 1)
      BY <2>1, <3>2
    <3> QED
      BY <3>1, <3>3
  <2>2. CASE ~(u < b)
    <3> DEFINE q == u \div b
               r == u % b
               k == L(q)
    <3>1. q \in Nat /\ r \in 0 .. b - 1 /\ u = b * q + r /\ q < u
      <4>1. u # 0
        BY <2>2
      <4> QED
        BY <1>0, <4>1, Quotients
    <3>2. q \in P
      BY <1>3, <3>1
    <3>3. L(u) = k + 1 /\ k \in 1 .. q + 1 /\ Fits(q, k)
      BY <1>2, <2>2, <3>2
    <3> HIDE DEF q, r, k, L
    <3>4. /\ Power(b, k) \in Nat /\ Power(b, k + 1) = b * Power(b, k)
          /\ k = 1 \/ (Power(b, k - 1) \in Nat /\ Power(b, k) = b * Power(b, k - 1))
      <4>1. k \in Nat /\ k - 1 \in Nat /\ (k - 1) + 1 = k
        BY <3>3
      <4>2. Power(b, (k - 1) + 1) = b * Power(b, k - 1)
        BY <1>1, <4>1
      <4> QED
        BY <1>1, <4>1, <4>2
    <3>5. \A x, y \in Nat : x <= y => b * x <= b * y
      OBVIOUS
    <3>6. u < Power(b, k + 1)
      <4>1. q + 1 <= Power(b, k)
        BY <3>1, <3>3, <3>4
      <4>2. b * (q + 1) <= b * Power(b, k)
        BY <3>1, <3>4, <3>5, <4>1
      <4>3. b * (q + 1) = b * q + b
        BY <3>1
      <4>4. b * q \in Nat
        BY <3>1
      <4>5. b * q + r < b * q + b
        BY <3>1, <4>4
      <4> QED
        BY <3>1, <3>4, <4>2, <4>3, <4>4, <4>5
    <3>7. Power(b, k) <= u
      <4>1. CASE k = 1
        <5>1. Power(b, 0) = 1 /\ Power(b, 0 + 1) = b * Power(b, 0)
          BY <1>0, PowerIs
        <5>2. 0 + 1 = 1 /\ b * 1 = b
          OBVIOUS
        <5>3. Power(b, 1) = b
          BY <5>1, <5>2
        <5> QED
          BY <2>2, <4>1, <5>3
      <4>2. CASE k # 1
        <5>1. Power(b, k - 1) <= q /\ Power(b, k - 1) \in Nat
              /\ Power(b, k) = b * Power(b, k - 1)
          BY <3>3, <3>4, <4>2
        <5>2. Power(b, k) <= b * q
          BY <3>1, <3>5, <5>1
        <5>3. b * q \in Nat
          BY <3>1
        <5> QED
          BY <3>1, <3>4, <5>2, <5>3
      <4> QED
        BY <4>1, <4>2
    <3>8. (k + 1) - 1 = k /\ k + 1 \in 1 .. u + 1
      BY <3>1, <3>3
    <3> QED
      BY <3>3, <3>6, <3>7, <3>8
  <2> QED
    BY <2>1, <2>2
<1>4. P = Nat
  <2>1. P \in SUBSET Nat
    OBVIOUS
  <2> HIDE DEF P
  <2> QED
    BY <1>3, <2>1, StrongInduction
<1>5. ASSUME NEW u \in Nat, NEW k \in 1 .. u + 1, Fits(u, k),
             NEW j \in 1 .. u + 1, Fits(u, j)
      PROVE  ~(k < j)
  <2> SUFFICES ASSUME k < j PROVE FALSE
    OBVIOUS
  <2>1. k \in Nat /\ j - 1 \in Nat /\ k <= j - 1 /\ j # 1
    OBVIOUS
  <2>2. Power(b, k) <= Power(b, j - 1)
    BY <1>0, <2>1, PowerGrows
  <2>3. Power(b, k) \in Nat /\ Power(b, j - 1) \in Nat
    BY <1>1, <2>1
  <2> QED
    BY <1>5, <2>1, <2>2, <2>3
<1>6. ASSUME NEW u \in Nat PROVE L(u) = DigitCount(u, b) /\ L(u) \in Nat \ {0}
  <2>1. L(u) \in 1 .. u + 1 /\ Fits(u, L(u))
    BY <1>4
  <2> HIDE DEF L, P
  <2>2. DigitCount(u, b) = CHOOSE k \in 1 .. u + 1 : Fits(u, k)
    BY DEF DigitCount
  <2> HIDE DEF Fits
  <2>3. DigitCount(u, b) \in 1 .. u + 1 /\ Fits(u, DigitCount(u, b))
    BY <2>1, <2>2
  <2>4. ~(L(u) < DigitCount(u, b)) /\ ~(DigitCount(u, b) < L(u))
    BY <1>5, <2>1, <2>3
  <2> QED
    BY <2>1, <2>3, <2>4
<1> QED
  BY <1>6

(* What the parts of a field are joined from. *)
LEMMA Joined ==
    \A a, b \in Seq(Code) : a \o b \in Seq(Code) /\ Len(a \o b) = Len(a) + Len(b)
                            /\ Len(a) \in Nat /\ Len(b) \in Nat
BY ConcatProperties, LenProperties

LEMMA TimesFacts ==
    ASSUME NEW n \in Int, NEW c \in Code
    PROVE  /\ Times(n, c) \in Seq(Code)
           /\ Len(Times(n, c)) = IF n > 0 THEN n ELSE 0
           /\ \A k \in 1 .. n : Times(n, c)[k] = c
<1>1. CASE n > 0
  <2>1. n \in Nat /\ Times(n, c) \in [1 .. n -> Code]
    BY <1>1 DEF Times
  <2> QED
    BY <1>1, <2>1, LenProperties DEF Times
<1>2. CASE ~(n > 0)
  <2>1. 1 .. n = 1 .. 0
    BY <1>2
  <2>2. Times(n, c) \in [1 .. 0 -> Code]
    BY <2>1 DEF Times
  <2>3. Times(n, c) \in Seq(Code) /\ Len(Times(n, c)) = 0
    BY <2>2, LenProperties
  <2> QED
    BY <1>2, <2>1, <2>3
<1> QED
  BY <1>1, <1>2

LEMMA CodesAre ==
    /\ {NUL, BLANK, PLUS, MINUS, ZERO, LOWER_X} \subseteq Code
    /\ {91, 93, 46, 58, 44, 60, 62, 10} \subseteq Code
    /\ \A c \in Code : <<c>> \in Seq(Code) /\ Len(<<c>>) = 1
    /\ \A a, b \in Code : <<a, b>> \in Seq(Code) /\ Len(<<a, b>>) = 2
    /\ <<>> \in Seq(Code) /\ Len(<<>>) = 0
<1>1. /\ {NUL, BLANK, PLUS, MINUS, ZERO, LOWER_X} \subseteq Code
      /\ {91, 93, 46, 58, 44, 60, 62, 10} \subseteq Code
  BY DEF Code, NUL, BLANK, PLUS, MINUS, ZERO, LOWER_X
<1>2. \A c \in Code : <<c>> \in Seq(Code) /\ Len(<<c>>) = 1
  OBVIOUS
<1>3. \A a, b \in Code : <<a, b>> \in Seq(Code) /\ Len(<<a, b>>) = 2
  OBVIOUS
<1>4. <<>> \in Seq(Code) /\ Len(<<>>) = 0
  OBVIOUS
<1> QED
  BY <1>1, <1>2, <1>3, <1>4

(* What Parse gives. *)
Parsed == [
    conv      : SignedConvs \cup UnsignedConvs \cup {"p", "c", "s", "b", "B", "t"},
    altfmt    : BOOLEAN,
    ladjust   : BOOLEAN,
    plus_sign : {0, BLANK, PLUS},
    padc      : {BLANK, ZERO},
    length    : Nat,
    prec      : Nat \cup {-1},
    longopt   : {0, 1}]

LEMMA ParseIs ==
    ASSUME NEW f \in Specifications
    PROVE  Parse(f) \in Parsed /\ Parse(f).conv = f.conv
<1>1. /\ f.conv \in SignedConvs \cup UnsignedConvs \cup {"p", "c", "s", "b", "B", "t"}
      /\ f.width \in Int /\ f.prec \in Nat \cup {-1} /\ f.long \in {0, 1}
  BY DEF Specifications
<1>2. (IF f.width < 0 THEN -f.width ELSE f.width) \in Nat
  BY <1>1
<1>3. (CASE "+" \in f.flags -> PLUS
         [] "+" \notin f.flags /\ " " \in f.flags -> BLANK
         [] OTHER -> 0) \in {0, BLANK, PLUS}
  BY DEF PLUS, BLANK
<1>4. /\ ("#" \in f.flags) \in BOOLEAN
      /\ (("-" \in f.flags) # (f.width < 0)) \in BOOLEAN
      /\ (IF f.zero THEN ZERO ELSE BLANK) \in {BLANK, ZERO}
  OBVIOUS
<1> QED
  BY <1>1, <1>2, <1>3, <1>4 DEF Parse, Parsed

(* A number, with its sign, its prefix and what it is padded with. *)
PrefixLength(d, u, base) ==
    IF d.altfmt /\ u # 0 THEN CASE base = 8 -> 1 [] base = 16 -> 2 [] OTHER -> 0
    ELSE 0

LEMMA PrintNumIs ==
    ASSUME NEW d \in Parsed, NEW u \in Nat, NEW c \in {0, BLANK, PLUS, MINUS},
           NEW base \in {8, 10, 16}
    PROVE  /\ print_num(d, u, c, base) \in Seq(Code)
           /\ Len(print_num(d, u, c, base)) =
                Larger(d.length, DigitCount(u, base) + (IF c # 0 THEN 1 ELSE 0)
                                   + PrefixLength(d, u, base))
<1> DEFINE num    == printnum(u, base)
           sign   == IF c = 0 THEN <<>> ELSE <<c>>
           prefix == CASE u # 0 /\ d.altfmt /\ base = 8  -> <<ZERO>>
                       [] u # 0 /\ d.altfmt /\ base = 16 -> <<ZERO, LOWER_X>>
                       [] OTHER -> <<>>
           room   == d.length - Len(num) - Len(sign) - Len(prefix)
           Pad(x, here) == IF here THEN Times(room, x) ELSE <<>>
           left   == Pad(BLANK, d.padc = BLANK /\ ~d.ladjust)
           zeros  == Pad(ZERO, d.padc = ZERO)
           right  == Pad(BLANK, d.padc = BLANK /\ d.ladjust)
           m == Len(num)
           n == Len(sign)
           p == Len(prefix)
<1>1. print_num(d, u, c, base) = left \o sign \o prefix \o zeros \o num \o right
  BY DEF print_num
<1>2. num \in Seq(Code) /\ m = DigitCount(u, base) /\ m \in Nat
  <2>1. base \in 2 .. 16
    OBVIOUS
  <2>2. num \in Seq(Code \ {NUL}) /\ m = DigitCount(u, base)
    BY <2>1, DigitsPrinted, DigitsCounted
  <2> QED
    BY <2>2, SeqMonotonic, LenProperties
<1>3. sign \in Seq(Code) /\ n = (IF c # 0 THEN 1 ELSE 0)
  BY CodesAre
<1>4. prefix \in Seq(Code) /\ p = PrefixLength(d, u, base)
  BY CodesAre DEF PrefixLength
<1>5. /\ d.length \in Nat /\ d.altfmt \in BOOLEAN /\ d.ladjust \in BOOLEAN
      /\ d.padc \in {BLANK, ZERO}
  BY DEF Parsed
<1>6. room \in Int /\ room = d.length - (m + n + p)
      /\ n \in Nat /\ p \in Nat
  BY <1>2, <1>3, <1>4, <1>5 DEF PrefixLength
<1>7. \A x \in {BLANK, ZERO}, here \in BOOLEAN :
        /\ Pad(x, here) \in Seq(Code)
        /\ Len(Pad(x, here)) = IF here /\ room > 0 THEN room ELSE 0
  <2> TAKE x \in {BLANK, ZERO}, here \in BOOLEAN
  <2>1. x \in Code
    BY CodesAre
  <2> HIDE DEF room
  <2>2. room \in Int
    BY <1>6
  <2>3. Times(room, x) \in Seq(Code) /\ Len(Times(room, x)) = IF room > 0 THEN room ELSE 0
    BY <2>1, <2>2, TimesFacts
  <2>4. <<>> \in Seq(Code) /\ Len(<<>>) = 0
    BY CodesAre
  <2>5. CASE here
    BY <2>3, <2>5
  <2>6. CASE ~here
    BY <2>4, <2>6
  <2> QED
    BY <2>5, <2>6
<1> HIDE DEF Pad, num, sign, prefix, room
<1>8. /\ left \in Seq(Code) /\ zeros \in Seq(Code) /\ right \in Seq(Code)
      /\ Len(left) + Len(zeros) + Len(right) = IF room > 0 THEN room ELSE 0
      /\ Len(left) \in Nat /\ Len(zeros) \in Nat /\ Len(right) \in Nat
  <2>1. BLANK # ZERO
    BY DEF BLANK, ZERO
  <2>2. /\ left \in Seq(Code) /\ zeros \in Seq(Code) /\ right \in Seq(Code)
    BY <1>5, <1>7
  <2>3. /\ Len(left) = IF (d.padc = BLANK /\ ~d.ladjust) /\ room > 0 THEN room ELSE 0
        /\ Len(zeros) = IF d.padc = ZERO /\ room > 0 THEN room ELSE 0
        /\ Len(right) = IF (d.padc = BLANK /\ d.ladjust) /\ room > 0 THEN room ELSE 0
    BY <1>5, <1>7
  <2> HIDE DEF left, zeros, right
  <2> QED
    BY <1>5, <1>6, <2>1, <2>2, <2>3
<1> HIDE DEF left, zeros, right
<1> DEFINE x1 == left \o sign
           x2 == x1 \o prefix
           x3 == x2 \o zeros
           x4 == x3 \o num
           all == x4 \o right
<1>9. all \in Seq(Code) /\ Len(all) = Len(left) + n + p + Len(zeros) + m + Len(right)
  <2>1. x1 \in Seq(Code) /\ Len(x1) = Len(left) + n
    BY <1>3, <1>8, Joined
  <2> HIDE DEF x1
  <2>2. x2 \in Seq(Code) /\ Len(x2) = Len(left) + n + p
    BY <1>4, <2>1, Joined
  <2> HIDE DEF x2
  <2>3. x3 \in Seq(Code) /\ Len(x3) = Len(left) + n + p + Len(zeros)
    BY <1>8, <2>2, Joined
  <2> HIDE DEF x3
  <2>4. x4 \in Seq(Code) /\ Len(x4) = Len(left) + n + p + Len(zeros) + m
    BY <1>2, <2>3, Joined
  <2> HIDE DEF x4
  <2> QED
    BY <1>8, <2>4, Joined
<1> HIDE DEF all, m, n, p
<1>10. Len(all) = Larger(d.length, m + n + p)
  <2>1. /\ Len(left) \in Int /\ Len(zeros) \in Int /\ Len(right) \in Int
        /\ m \in Int /\ n \in Int /\ p \in Int /\ d.length \in Int
    BY <1>2, <1>5, <1>6, <1>8
  <2>2. Len(all) = (m + n + p) + (Len(left) + Len(zeros) + Len(right))
    BY <1>9, <2>1
  <2>3. Len(all) = (m + n + p) + IF room > 0 THEN room ELSE 0
    BY <1>8, <2>2
  <2> QED
    BY <1>6, <2>1, <2>3 DEF Larger
<1> QED
  BY <1>1, <1>2, <1>3, <1>4, <1>9, <1>10 DEF all

(* A string, cut off or not. *)
Shown(d, q) == IF d.prec # -1 /\ Len(q) > d.prec THEN d.prec ELSE Len(q)

LEMMA PrintStringIs ==
    ASSUME NEW d \in Parsed, NEW q \in Seq(Code)
    PROVE  /\ PrintString(d, q) \in Seq(Code)
           /\ Len(PrintString(d, q)) =
                LET cut == d.prec # -1 /\ d.prec < Len(q)
                IN  Larger(Shown(d, q),
                           IF cut /\ d.ladjust THEN d.length - 1 ELSE d.length)
<1> DEFINE cut   == d.prec # -1 /\ Len(q) > d.prec
           shown == IF cut THEN SubSeq(q, 1, d.prec) ELSE q
           a     == IF d.ladjust THEN 0 ELSE d.length - Len(shown)
           b     == IF ~d.ladjust THEN 0
                    ELSE d.length - Len(shown) - (IF cut THEN 1 ELSE 0)
           left  == Times(a, BLANK)
           right == Times(b, BLANK)
<1>1. PrintString(d, q) = left \o shown \o right
  BY DEF PrintString
<1>2. /\ d.length \in Nat /\ d.prec \in Nat \cup {-1} /\ d.ladjust \in BOOLEAN
      /\ Len(q) \in Nat
  BY LenProperties DEF Parsed
<1>3. shown \in Seq(Code) /\ Len(shown) = Shown(d, q) /\ Len(shown) \in Nat
  <2>1. CASE cut
    <3>1. d.prec \in Nat /\ d.prec <= Len(q) /\ 1 \in Int /\ d.prec \in Int
      BY <1>2, <2>1
    <3>2. \A k \in 1 .. d.prec : q[k] \in Code
      BY <1>2, <3>1, ElementOfSeq
    <3>3. /\ SubSeq(q, 1, d.prec) \in Seq(Code)
          /\ Len(SubSeq(q, 1, d.prec)) = IF 1 <= d.prec THEN d.prec - 1 + 1 ELSE 0
      BY <3>1, <3>2, SubSeqProperties
    <3>4. Len(SubSeq(q, 1, d.prec)) = d.prec
      BY <3>1, <3>3
    <3> QED
      BY <2>1, <3>1, <3>3, <3>4 DEF Shown
  <2>2. CASE ~cut
    BY <1>2, <2>2 DEF Shown
  <2> QED
    BY <2>1, <2>2
<1> HIDE DEF shown
<1>4. a \in Int /\ b \in Int /\ BLANK \in Code
  BY <1>2, <1>3, CodesAre
<1> HIDE DEF a, b
<1>5. /\ left \in Seq(Code) /\ Len(left) = IF a > 0 THEN a ELSE 0
      /\ right \in Seq(Code) /\ Len(right) = IF b > 0 THEN b ELSE 0
  BY <1>4, TimesFacts
<1> HIDE DEF left, right
<1>6. /\ left \o shown \in Seq(Code)
      /\ Len(left \o shown) = Len(left) + Len(shown)
  BY <1>3, <1>5, Joined
<1>7. /\ (left \o shown) \o right \in Seq(Code)
      /\ Len((left \o shown) \o right) = Len(left) + Len(shown) + Len(right)
  BY <1>5, <1>6, Joined
<1>8. Len(left) + Len(shown) + Len(right)
        = Larger(Len(shown), IF cut /\ d.ladjust THEN d.length - 1 ELSE d.length)
  <2>1. CASE d.ladjust
    <3>1. a = 0 /\ b = d.length - Len(shown) - (IF cut THEN 1 ELSE 0)
      BY <2>1 DEF a, b
    <3> HIDE DEF cut
    <3>2. CASE cut
      <4>1. b = (d.length - 1) - Len(shown) /\ Len(left) = 0
        BY <1>2, <1>3, <1>5, <3>1, <3>2
      <4>2. (IF cut /\ d.ladjust THEN d.length - 1 ELSE d.length) = d.length - 1
        BY <2>1, <3>2
      <4>3. Len(right) = IF b > 0 THEN b ELSE 0
        BY <1>5
      <4>4. d.length \in Int /\ Len(shown) \in Nat /\ b \in Int
        BY <1>2, <1>3, <1>4
      <4>5. Len(left) + Len(shown) + Len(right) = Larger(Len(shown), d.length - 1)
        BY <4>1, <4>3, <4>4 DEF Larger
      <4> QED
        BY <4>2, <4>5
    <3>3. CASE ~cut
      <4>1. b = d.length - Len(shown) /\ Len(left) = 0
        BY <1>2, <1>3, <1>5, <3>1, <3>3
      <4>2. (IF cut /\ d.ladjust THEN d.length - 1 ELSE d.length) = d.length
        BY <3>3
      <4>3. Len(right) = IF b > 0 THEN b ELSE 0
        BY <1>5
      <4>4. d.length \in Int /\ Len(shown) \in Nat /\ b \in Int
        BY <1>2, <1>3, <1>4
      <4>5. Len(left) + Len(shown) + Len(right) = Larger(Len(shown), d.length)
        BY <4>1, <4>3, <4>4 DEF Larger
      <4> QED
        BY <4>2, <4>5
    <3> QED
      BY <3>2, <3>3
  <2>2. CASE ~d.ladjust
    <3>1. a = d.length - Len(shown) /\ b = 0
      BY <2>2 DEF a, b
    <3> HIDE DEF cut
    <3> QED
      BY <1>2, <1>3, <1>4, <1>5, <2>2, <3>1 DEF Larger
  <2> QED
    BY <1>2, <2>1, <2>2
<1>9. cut = (d.prec # -1 /\ d.prec < Len(q))
  BY <1>2
<1> QED
  BY <1>1, <1>3, <1>7, <1>8, <1>9

LEMMA HexIs ==
    ASSUME NEW u \in Nat
    PROVE  /\ printnum(u, 16) \in Seq(Code)
           /\ Len(printnum(u, 16)) = DigitCount(u, 16)
           /\ DigitCount(u, 16) \in Nat
           /\ u < 256 => DigitCount(u, 16) <= 2
<1>1. 16 \in 2 .. 16
  OBVIOUS
<1>2. ASSUME NEW v \in Nat
      PROVE  /\ printnum(v, 16) \in Seq(Code)
             /\ Len(printnum(v, 16)) = DigitCount(v, 16)
             /\ DigitCount(v, 16) \in Nat
             /\ Len(printnum(v, 16)) =
                  (IF v < 16 THEN 0 ELSE Len(printnum(v \div 16, 16))) + 1
  <2> DEFINE high == IF v < 16 THEN <<>> ELSE printnum(v \div 16, 16)
             low  == <<digs(v % 16)>>
  <2>1. v \div 16 \in Nat
    OBVIOUS
  <2>2. /\ printnum(v, 16) \in Seq(Code \ {NUL})
        /\ printnum(v \div 16, 16) \in Seq(Code \ {NUL})
        /\ digs(v % 16) \in Code
        /\ printnum(v, 16) = high \o low
    BY <1>1, <2>1, DigitsPrinted
  <2>3. printnum(v, 16) \in Seq(Code) /\ printnum(v \div 16, 16) \in Seq(Code)
    BY <2>2, SeqMonotonic
  <2>4. low \in Seq(Code) /\ Len(low) = 1
    BY <2>2, CodesAre
  <2>5. high \in Seq(Code) /\ Len(high) = IF v < 16 THEN 0 ELSE Len(printnum(v \div 16, 16))
    BY <2>3, CodesAre
  <2> HIDE DEF high, low
  <2>6. Len(high \o low) = Len(high) + Len(low)
    BY <2>4, <2>5, Joined
  <2>7. Len(printnum(v, 16)) = DigitCount(v, 16) /\ DigitCount(v, 16) \in Nat
    BY <1>1, DigitsCounted
  <2> QED
    BY <2>2, <2>3, <2>4, <2>5, <2>6, <2>7
<1>3. ASSUME u < 256 PROVE DigitCount(u, 16) <= 2
  <2>1. u \div 16 \in Nat /\ u \div 16 < 16
    BY <1>3
  <2>2. Len(printnum(u \div 16, 16)) = 1
    BY <1>2, <2>1
  <2>3. \/ DigitCount(u, 16) = 1
        \/ DigitCount(u, 16) = 2
    <3>1. DigitCount(u, 16) =
            (IF u < 16 THEN 0 ELSE Len(printnum(u \div 16, 16))) + 1
      BY <1>2
    <3>2. CASE u < 16
      BY <3>1, <3>2
    <3>3. CASE ~(u < 16)
      <4>1. DigitCount(u, 16) = 1 + 1
        BY <2>2, <3>1, <3>3
      <4> QED
        BY <4>1
    <3> QED
      BY <3>2, <3>3
  <2> QED
    BY <2>3
<1> QED
  BY <1>2, <1>3

(* The brackets of a thread id. *)
Brackets(d) == IF d.altfmt THEN 1 ELSE 0
LEMMA BracketIs ==
    ASSUME NEW d, NEW c \in Code
    PROVE  Bracket(d, c) \in Seq(Code) /\ Len(Bracket(d, c)) = Brackets(d)
BY CodesAre DEF Bracket, Brackets

LEMMA PrintThreadIs ==
    ASSUME NEW d \in Parsed, NEW tid, tid.task \in Nat, tid.lthread \in 0 .. 127
    PROVE  /\ PrintThread(d, tid) \in Seq(Code)
           /\ Len(PrintThread(d, tid)) =
                Larger(d.length, (IF d.altfmt THEN 2 ELSE 0)
                  + (DigitCount(tid.task, 16) + 1 + DigitCount(tid.lthread, 16)))
<1> DEFINE task    == printnum(tid.task, 16)
           lthread == printnum(tid.lthread, 16)
           n       == 1 + Len(task) + 2 * Len(Bracket(d, 0))
           lead    == IF d.ladjust THEN 0 ELSE d.length - n - 2
           inner   == IF d.ladjust THEN 0
                      ELSE d.length - Len(lthread) - n - (IF lead > 0 THEN lead ELSE 0)
           behind  == IF d.ladjust THEN d.length - n - Len(lthread) ELSE 0
           blanks  == Times(IF d.padc = BLANK THEN lead ELSE 0, BLANK)
           zeros   == Times(IF d.padc = ZERO THEN lead ELSE 0, ZERO)
           between == Times(inner, d.padc)
           right   == Times(behind, BLANK)
           open    == Bracket(d, 91)
           close   == Bracket(d, 93)
           w == Len(task)
           v == Len(lthread)
           B == Brackets(d)
           Pos(x) == IF x > 0 THEN x ELSE 0
<1>1. PrintThread(d, tid) =
        blanks \o open \o zeros \o task \o <<46>> \o between \o lthread \o close \o right
  BY DEF PrintThread
<1>2. /\ d.length \in Nat /\ d.ladjust \in BOOLEAN /\ d.altfmt \in BOOLEAN
      /\ d.padc \in {BLANK, ZERO}
  BY DEF Parsed
<1>3. /\ task \in Seq(Code) /\ w = DigitCount(tid.task, 16) /\ w \in Nat
      /\ lthread \in Seq(Code) /\ v = DigitCount(tid.lthread, 16) /\ v \in Nat
      /\ v <= 2
  <2>1. tid.lthread \in Nat /\ tid.lthread < 256
    OBVIOUS
  <2> QED
    BY <2>1, HexIs
<1>4. /\ open \in Seq(Code) /\ Len(open) = B
      /\ close \in Seq(Code) /\ Len(close) = B
      /\ Len(Bracket(d, 0)) = B /\ B \in {0, 1}
      /\ <<46>> \in Seq(Code) /\ Len(<<46>>) = 1
  <2>1. 91 \in Code /\ 93 \in Code /\ 0 \in Code /\ 46 \in Code
    BY DEF Code
  <2> QED
    BY <2>1, BracketIs, CodesAre DEF Brackets
<1> HIDE DEF open, close, task, lthread, B
<1>5. n = 1 + w + 2 * B /\ n \in Nat
  BY <1>3, <1>4
<1> HIDE DEF n
<1>6. lead \in Int /\ inner \in Int /\ behind \in Int
  BY <1>2, <1>3, <1>5
<1>7. \A x \in Int, c \in {BLANK, ZERO} :
        Times(x, c) \in Seq(Code) /\ Len(Times(x, c)) = Pos(x)
  <2> TAKE x \in Int, c \in {BLANK, ZERO}
  <2>1. c \in Code
    BY CodesAre
  <2> QED
    BY <2>1, TimesFacts
<1>8. /\ blanks \in Seq(Code) /\ zeros \in Seq(Code)
      /\ between \in Seq(Code) /\ right \in Seq(Code)
      /\ Len(between) = Pos(inner) /\ Len(right) = Pos(behind)
      /\ Len(blanks) + Len(zeros) = Pos(lead)
      /\ Len(blanks) \in Nat /\ Len(zeros) \in Nat
  <2> HIDE DEF lead, inner, behind
  <2>1. BLANK # ZERO
    BY DEF BLANK, ZERO
  <2>2. /\ (IF d.padc = BLANK THEN lead ELSE 0) \in Int
        /\ (IF d.padc = ZERO THEN lead ELSE 0) \in Int
    BY <1>6
  <2>3. /\ blanks \in Seq(Code)
        /\ Len(blanks) = Pos(IF d.padc = BLANK THEN lead ELSE 0)
    BY <1>7, <2>2
  <2>4. /\ zeros \in Seq(Code)
        /\ Len(zeros) = Pos(IF d.padc = ZERO THEN lead ELSE 0)
    BY <1>7, <2>2
  <2>5. /\ between \in Seq(Code) /\ Len(between) = Pos(inner)
        /\ right \in Seq(Code) /\ Len(right) = Pos(behind)
    BY <1>2, <1>6, <1>7
  <2> HIDE DEF blanks, zeros, between, right
  <2>6. CASE d.padc = BLANK
    BY <1>6, <2>1, <2>3, <2>4, <2>5, <2>6
  <2>7. CASE d.padc = ZERO
    BY <1>6, <2>1, <2>3, <2>4, <2>5, <2>7
  <2> QED
    BY <1>2, <2>6, <2>7
<1> HIDE DEF blanks, zeros, between, right
<1> DEFINE x1 == blanks \o open
           x2 == x1 \o zeros
           x3 == x2 \o task
           x4 == x3 \o <<46>>
           x5 == x4 \o between
           x6 == x5 \o lthread
           x7 == x6 \o close
           all == x7 \o right
<1>9. /\ all \in Seq(Code)
      /\ Len(all) = Pos(lead) + w + 1 + Pos(inner) + v + 2 * B + Pos(behind)
  <2> HIDE DEF lead, inner, behind, w, v
  <2>1. x1 \in Seq(Code) /\ Len(x1) = Len(blanks) + B
    BY <1>4, <1>8, Joined
  <2> HIDE DEF x1
  <2>2. x2 \in Seq(Code) /\ Len(x2) = Len(x1) + Len(zeros)
    BY <1>8, <2>1, Joined
  <2> HIDE DEF x2
  <2>3. x3 \in Seq(Code) /\ Len(x3) = Len(x2) + w
    BY <1>3, <2>2, Joined DEF w
  <2> HIDE DEF x3
  <2>4. x4 \in Seq(Code) /\ Len(x4) = Len(x3) + 1
    BY <1>4, <2>3, Joined
  <2> HIDE DEF x4
  <2>5. x5 \in Seq(Code) /\ Len(x5) = Len(x4) + Pos(inner)
    BY <1>8, <2>4, Joined
  <2> HIDE DEF x5
  <2>6. x6 \in Seq(Code) /\ Len(x6) = Len(x5) + v
    BY <1>3, <2>5, Joined DEF v
  <2> HIDE DEF x6
  <2>7. x7 \in Seq(Code) /\ Len(x7) = Len(x6) + B
    BY <1>4, <2>6, Joined
  <2> HIDE DEF x7
  <2>8. all \in Seq(Code) /\ Len(all) = Len(x7) + Pos(behind)
    BY <1>8, <2>7, Joined
  <2>9. Pos(inner) \in Int /\ Pos(behind) \in Int /\ Pos(lead) \in Int
    BY <1>6
  <2> HIDE DEF all, Pos
  <2>10. /\ B \in Int /\ w \in Int /\ v \in Int
         /\ Len(blanks) \in Int /\ Len(zeros) \in Int
    BY <1>3, <1>4, <1>8 DEF w, v
  <2>11. Len(x2) = Pos(lead) + B
    BY <1>8, <2>1, <2>2, <2>9, <2>10
  <2>12. Len(x4) = Pos(lead) + B + w + 1
    BY <2>3, <2>4, <2>9, <2>10, <2>11
  <2>13. Len(x6) = Pos(lead) + B + w + 1 + Pos(inner) + v
    BY <2>5, <2>6, <2>9, <2>10, <2>12
  <2>14. Len(x7) = Pos(lead) + w + 1 + Pos(inner) + v + 2 * B
    BY SMTT(30), <2>7, <2>9, <2>10, <2>13
  <2> QED
    BY <2>8, <2>9, <2>10, <2>14
<1> HIDE DEF all, w, v
<1>10. Len(all) = Larger(d.length, 2 * B + (w + 1 + v))
  <2>1. PICK L \in Int : L = d.length
    BY <1>2
  <2>2. PICK W \in Int : W = w + 1
    BY <1>3 DEF w
  <2>3. PICK V \in Int : V = v
    BY <1>3 DEF v
  <2>4. PICK C \in Int : C = 2 * B
    BY <1>4
  <2>5. PICK T \in Int : T = Len(all)
    BY <1>9, LenProperties
  <2>6. L >= 0 /\ W >= 1 /\ V >= 0 /\ V <= 2 /\ C >= 0
    BY <1>2, <1>3, <1>4, <2>1, <2>2, <2>3, <2>4 DEF w, v
  <2>7. PICK X \in Int : X = lead
    BY <1>6
  <2>8. PICK Y \in Int : Y = inner
    BY <1>6
  <2>9. PICK Z \in Int : Z = behind
    BY <1>6
  <2>10. T = Pos(X) + W + Pos(Y) + V + C + Pos(Z)
    <3>1. Pos(X) \in Int /\ Pos(Y) \in Int /\ Pos(Z) \in Int /\ w \in Int
      BY <1>3 DEF w
    <3>2. T = Pos(X) + w + 1 + Pos(Y) + V + C + Pos(Z)
      BY <1>9, <2>3, <2>4, <2>5, <2>7, <2>8, <2>9
    <3> HIDE DEF Pos
    <3> QED
      BY <2>2, <3>1, <3>2
  <2>11. 1 + w + 2 * B = W + C
    BY <1>3, <1>4, <2>2, <2>4 DEF w
  <2>12. n = W + C /\ Len(lthread) = V /\ d.length = L
    BY <1>5, <2>1, <2>3, <2>11 DEF v
  <2>13. CASE d.ladjust
    <3>1. X = 0 /\ Y = 0 /\ Z = L - (W + C) - V
      BY <2>7, <2>8, <2>9, <2>12, <2>13
    <3>2. T = IF L > C + (W + V) THEN L ELSE C + (W + V)
      BY <2>6, <2>10, <3>1
    <3> QED
      BY <1>2, <1>3, <2>1, <2>2, <2>3, <2>4, <2>5, <3>2 DEF Larger, v, w
  <2>14. CASE ~d.ladjust
    <3>1. /\ X = L - (W + C) - 2
          /\ Y = L - V - (W + C) - (IF X > 0 THEN X ELSE 0)
          /\ Z = 0
      BY <2>7, <2>8, <2>9, <2>12, <2>14
    <3>2. T = IF L > C + (W + V) THEN L ELSE C + (W + V)
      BY <2>6, <2>10, <3>1
    <3> QED
      BY <1>2, <1>3, <2>1, <2>2, <2>3, <2>4, <2>5, <3>2 DEF Larger, v, w
  <2> QED
    BY <1>2, <2>13, <2>14
<1>11. 2 * B = IF d.altfmt THEN 2 ELSE 0
  BY DEF B, Brackets
<1> QED
  BY <1>1, <1>3, <1>9, <1>10, <1>11 DEF all, w, v

LEMMA Digits16Is ==
    ASSUME NEW u \in Nat
    PROVE  printnum_16(u) \in Seq(Code) /\ Len(printnum_16(u)) = 8
<1>1. ASSUME NEW k \in 1 .. 8 PROVE digs((u \div Power(16, 8 - k)) % 16) \in Code
  <2>1. 8 - k \in Nat /\ 16 \in Nat /\ 16 >= 2 /\ 8 - k <= 8 - k
    OBVIOUS
  <2>2. Power(16, 8 - k) \in Nat /\ Power(16, 8 - k) >= 1
    BY <2>1, PowerIs, PowerGrows
  <2>3. u \div Power(16, 8 - k) \in Nat
    BY <2>2
  <2>4. 16 \in 2 .. 16
    OBVIOUS
  <2> QED
    BY <2>3, <2>4, DigitsPrinted
<1>2. printnum_16(u) \in [1 .. 8 -> Code]
  BY <1>1 DEF printnum_16
<1> QED
  BY <1>2, LenProperties DEF printnum_16

LEMMA PrintThreadLongIs ==
    ASSUME NEW d \in Parsed, NEW tid, tid.high \in Nat, tid.low \in Nat
    PROVE  /\ PrintThreadLong(d, tid) \in Seq(Code)
           /\ Len(PrintThreadLong(d, tid)) =
                Larger(d.length, (IF d.altfmt THEN 2 ELSE 0) + 17)
<1> DEFINE room  == d.length - 17 - 2 * Len(Bracket(d, 0))
           left  == Times(IF d.ladjust THEN 0 ELSE room, BLANK)
           right == Times(IF d.ladjust THEN room ELSE 0, BLANK)
           open  == Bracket(d, 91)
           close == Bracket(d, 93)
           high  == printnum_16(tid.high)
           low   == printnum_16(tid.low)
           B     == Brackets(d)
<1>1. PrintThreadLong(d, tid) =
        left \o open \o high \o <<58>> \o low \o close \o right
  BY DEF PrintThreadLong
<1>2. d.length \in Nat /\ d.ladjust \in BOOLEAN /\ d.altfmt \in BOOLEAN
  BY DEF Parsed
<1>3. /\ high \in Seq(Code) /\ Len(high) = 8
      /\ low \in Seq(Code) /\ Len(low) = 8
  BY Digits16Is
<1>4. /\ open \in Seq(Code) /\ Len(open) = B
      /\ close \in Seq(Code) /\ Len(close) = B
      /\ Len(Bracket(d, 0)) = B /\ B \in {0, 1}
      /\ <<58>> \in Seq(Code) /\ Len(<<58>>) = 1
  <2>1. 91 \in Code /\ 93 \in Code /\ 0 \in Code /\ 58 \in Code
    BY DEF Code
  <2> QED
    BY <2>1, BracketIs, CodesAre DEF Brackets
<1> HIDE DEF open, close, high, low, B
<1>5. room = d.length - 17 - 2 * B /\ room \in Int
  BY <1>2, <1>4
<1> HIDE DEF room
<1>6. /\ left \in Seq(Code) /\ right \in Seq(Code)
      /\ Len(left) + Len(right) = IF room > 0 THEN room ELSE 0
      /\ Len(left) \in Int /\ Len(right) \in Int
  <2>1. BLANK \in Code
    BY CodesAre
  <2>2. \A x \in Int : Times(x, BLANK) \in Seq(Code)
                       /\ Len(Times(x, BLANK)) = IF x > 0 THEN x ELSE 0
    BY <2>1, TimesFacts
  <2>5. Times(0, BLANK) \in Seq(Code) /\ Len(Times(0, BLANK)) = 0
    <3>1. 0 \in Int /\ ~(0 > 0)
      OBVIOUS
    <3> QED
      BY <2>2, <3>1
  <2>6. /\ Times(room, BLANK) \in Seq(Code)
        /\ Len(Times(room, BLANK)) = IF room > 0 THEN room ELSE 0
    BY <1>5, <2>2
  <2>3. CASE d.ladjust
    <3>1. left = Times(0, BLANK) /\ right = Times(room, BLANK)
      BY <2>3
    <3> HIDE DEF left, right
    <3> QED
      BY <1>5, <2>5, <2>6, <3>1
  <2>4. CASE ~d.ladjust
    <3>1. left = Times(room, BLANK) /\ right = Times(0, BLANK)
      BY <2>4
    <3> HIDE DEF left, right
    <3> QED
      BY <1>5, <2>5, <2>6, <3>1
  <2> QED
    BY <1>2, <2>3, <2>4
<1> HIDE DEF left, right
<1> DEFINE x1 == left \o open
           x2 == x1 \o high
           x3 == x2 \o <<58>>
           x4 == x3 \o low
           x5 == x4 \o close
           all == x5 \o right
<1>7. all \in Seq(Code) /\ Len(all) = Len(left) + Len(right) + 17 + 2 * B
  <2>1. x1 \in Seq(Code) /\ Len(x1) = Len(left) + B
    BY <1>4, <1>6, Joined
  <2> HIDE DEF x1
  <2>2. x2 \in Seq(Code) /\ Len(x2) = Len(left) + B + 8
    BY <1>3, <1>6, <2>1, Joined
  <2> HIDE DEF x2
  <2>3. x3 \in Seq(Code) /\ Len(x3) = Len(left) + B + 8 + 1
    BY <1>4, <2>2, Joined
  <2> HIDE DEF x3
  <2>4. x4 \in Seq(Code) /\ Len(x4) = Len(left) + B + 8 + 1 + 8
    BY <1>3, <2>3, Joined
  <2> HIDE DEF x4
  <2>5. x5 \in Seq(Code) /\ Len(x5) = Len(left) + 17 + 2 * B
    <3>1. x5 \in Seq(Code) /\ Len(x5) = Len(left) + B + 8 + 1 + 8 + B
      BY <1>4, <2>4, Joined
    <3>2. B \in Int
      BY <1>4
    <3> QED
      BY <1>6, <3>1, <3>2
  <2> HIDE DEF x5
  <2>6. all \in Seq(Code) /\ Len(all) = Len(x5) + Len(right)
    BY <1>6, <2>5, Joined
  <2>7. B \in Int
    BY <1>4
  <2> QED
    BY <1>6, <2>5, <2>6, <2>7
<1> HIDE DEF all
<1>8. Len(all) = Larger(d.length, 2 * B + 17)
  <2>1. PICK L \in Int : L = d.length
    BY <1>2
  <2>2. PICK C \in Int : C = 2 * B
    BY <1>4
  <2>3. PICK T \in Int : T = Len(all)
    BY <1>7, LenProperties
  <2>4. PICK R \in Int : R = room
    BY <1>5
  <2>5. R = L - 17 - C
    BY <1>5, <2>1, <2>2, <2>4
  <2>6. T = (IF R > 0 THEN R ELSE 0) + 17 + C
    BY <1>6, <1>7, <2>2, <2>3, <2>4
  <2>7. T = IF L > C + 17 THEN L ELSE C + 17
    BY <2>5, <2>6
  <2> QED
    BY <2>1, <2>2, <2>3, <2>7 DEF Larger
<1>9. 2 * B = IF d.altfmt THEN 2 ELSE 0
  BY DEF B, Brackets
<1> QED
  BY <1>1, <1>7, <1>8, <1>9 DEF all

(* A field of bits is a number. *)
LEMMA FieldIs ==
    ASSUME NEW u \in Nat, NEW it \in Items
    PROVE  /\ it.name \in Seq(Code)
           /\ it.last # 0 => FieldOf(u, it) \in Nat
<1>1. /\ it.bit \in 1 .. LONG_BITS /\ it.last \in 0 .. LONG_BITS
      /\ it.last <= it.bit /\ it.name \in Seq(33 .. 255)
  BY DEF Items
<1>2. it.name \in Seq(Code)
  <2>1. 33 .. 255 \subseteq Code
    BY DEF Code
  <2> QED
    BY <1>1, <2>1, SeqMonotonic
<1>3. ASSUME it.last # 0 PROVE FieldOf(u, it) \in Nat
  <2>1. it.last - 1 \in Nat /\ it.bit - it.last + 1 \in Nat /\ 2 \in Nat
    <3>1. LONG_BITS \in Int
      BY LongBitsAssumption
    <3>2. PICK x \in Int : x = it.last /\ x >= 0
      BY <1>1, <3>1
    <3>3. PICK y \in Int : y = it.bit /\ x <= y
      BY <1>1, <3>1, <3>2
    <3>4. x - 1 \in Nat /\ y - x + 1 \in Nat
      BY <1>3, <3>2, <3>3
    <3> QED
      BY <3>2, <3>3, <3>4
  <2>2. Power(2, it.last - 1) \in Nat /\ Power(2, it.last - 1) >= 1
    BY <2>1, PowersOfTwo
  <2>3. Power(2, it.bit - it.last + 1) \in Nat /\ Power(2, it.bit - it.last + 1) >= 1
    BY <2>1, PowersOfTwo
  <2>4. u \div Power(2, it.last - 1) \in Nat
    BY <2>2
  <2> HIDE DEF FieldOf
  <2>5. (u \div Power(2, it.last - 1)) % Power(2, it.bit - it.last + 1) \in Nat
    BY <2>3, <2>4
  <2> QED
    BY <2>5 DEF FieldOf
<1> QED
  BY <1>2, <1>3

LEMMA LongsAre == Long \subseteq Int /\ ULong \subseteq Nat /\ Word \in Nat
<1>1. LONG_BITS \in Nat
  BY LongBitsAssumption
<1>2. Word \in Nat
  BY <1>1, PowersOfTwo DEF Word
<1> QED
  BY <1>2 DEF Long, ULong

LEMMA PrintBitsIs ==
    ASSUME NEW arg \in [u : ULong, base : 2 .. 16, items : Seq(Items)]
    PROVE  PrintBits(arg) \in Seq(Code)
<1> DEFINE items == arg.items
           n == Len(items)
           Shown_(it) == it.last # 0 \/ Bit(arg.u, it.bit) = 1
           Any_(k) == \E j \in 1 .. k : Shown_(items[j])
           Item(it) == it.name \o
                       IF it.last = 0 THEN <<>>
                       ELSE printnum(FieldOf(arg.u, it), arg.base)
           first == printnum(arg.u, arg.base)
           sep(k) == <<IF Any_(k - 1) THEN 44 ELSE 60>>
           After(k, q) == IF Shown_(items[k]) THEN q \o sep(k) \o Item(items[k]) ELSE q
           S == Seq(Code)
           step == [p \in (0 .. n - 1) \X S |-> After(p[1] + 1, p[2])]
           f == CHOOSE h : h = [k \in 0 .. n |->
                  CASE k = 0 -> first
                    [] k # 0 /\ Shown_(items[k]) -> h[k - 1] \o sep(k) \o Item(items[k])
                    [] OTHER -> h[k - 1]]
<1>1. /\ arg.u \in Nat /\ arg.base \in 2 .. 16 /\ items \in Seq(Items)
      /\ n \in Nat
  BY LongsAre, LenProperties
<1>2. \A b \in 2 .. 16, u \in Nat : printnum(u, b) \in S
  <2> TAKE b \in 2 .. 16, u \in Nat
  <2>1. printnum(u, b) \in Seq(Code \ {NUL})
    BY DigitsPrinted
  <2> QED
    BY <2>1, SeqMonotonic
<1>3. ASSUME NEW k \in 1 .. n PROVE Item(items[k]) \in S /\ sep(k) \in S
  <2>1. items[k] \in Items
    BY <1>1, <1>3, ElementOfSeq
  <2> DEFINE it == items[k]
             field == IF it.last = 0 THEN <<>>
                      ELSE printnum(FieldOf(arg.u, it), arg.base)
  <2>2. it.name \in S /\ field \in S
    BY <1>1, <1>2, <2>1, FieldIs, CodesAre
  <2>3. sep(k) \in S
    <3>1. 44 \in Code /\ 60 \in Code
      BY DEF Code
    <3> HIDE DEF Any_
    <3> QED
      BY <3>1, CodesAre
  <2>4. Item(it) = it.name \o field
    OBVIOUS
  <2> HIDE DEF field, Item, it
  <2>5. Item(it) \in S
    BY <2>2, <2>4, Joined
  <2> QED
    BY <2>3, <2>5 DEF it
<1>4. first \in S
  BY <1>1, <1>2
<1>5. PrintBits(arg) = IF arg.u # 0 /\ Any_(n) THEN f[n] \o <<62>> ELSE f[0]
  BY DEF PrintBits
<1> HIDE DEF Item, sep, first, Shown_, n, items
<1>6. ASSUME NEW k \in 1 .. n, NEW q \in S PROVE After(k, q) \in S
  <2>1. q \o sep(k) \in S
    BY <1>3, Joined
  <2>2. (q \o sep(k)) \o Item(items[k]) \in S
    BY <1>3, <2>1, Joined
  <2> QED
    BY <2>2
<1>7. \A k \in 0 .. n - 1 : k + 1 \in 1 .. n
  BY <1>1
<1>8. step \in [(0 .. n - 1) \X S -> S]
  <2> HIDE DEF After
  <2> QED
    BY <1>6, <1>7
<1>9. \A k \in 0 .. n - 1, q \in S : step[<<k, q>>] = After(k + 1, q)
  <2> HIDE DEF After, S
  <2> TAKE k \in 0 .. n - 1, q \in S
  <2>1. <<k, q>> \in (0 .. n - 1) \X S
    OBVIOUS
  <2> QED
    BY <2>1
<1> HIDE DEF step, S
<1>10. PICK g \in [0 .. n -> S] : Run(first, step, g, n)
  <2>1. n \in 0 .. n
    BY <1>1
  <2> QED
    BY <1>1, <1>4, <1>8, <2>1, RunExists
<1>11. g = [k \in 0 .. n |->
             CASE k = 0 -> first
               [] k # 0 /\ Shown_(items[k]) -> g[k - 1] \o sep(k) \o Item(items[k])
               [] OTHER -> g[k - 1]]
  <2>1. ASSUME NEW k \in 0 .. n, k # 0
        PROVE  g[k] = IF Shown_(items[k]) THEN g[k - 1] \o sep(k) \o Item(items[k])
                      ELSE g[k - 1]
    <3>1. k - 1 \in 0 .. n - 1 /\ k - 1 \in 0 .. n /\ (k - 1) + 1 = k
      BY <1>1, <2>1
    <3>2. g[(k - 1) + 1] = step[<<k - 1, g[k - 1]>>]
      BY <1>10, <3>1 DEF Run
    <3>3. step[<<k - 1, g[k - 1]>>] = After((k - 1) + 1, g[k - 1])
      <4> HIDE DEF After
      <4> QED
        BY <1>9, <3>1
    <3> QED
      BY <3>1, <3>2, <3>3
  <2>2. g[0] = first
    BY <1>10 DEF Run
  <2> QED
    BY <2>1, <2>2
<1>12. f = [k \in 0 .. n |->
             CASE k = 0 -> first
               [] k # 0 /\ Shown_(items[k]) -> f[k - 1] \o sep(k) \o Item(items[k])
               [] OTHER -> f[k - 1]]
  BY <1>11
<1> HIDE DEF f
<1>13. /\ f[0] = first
       /\ \A k \in 0 .. n - 1 : f[k + 1] = After(k + 1, f[k])
  <2>1. ASSUME NEW k \in 0 .. n - 1 PROVE f[k + 1] = After(k + 1, f[k])
    <3>1. k + 1 \in 0 .. n /\ k + 1 # 0 /\ (k + 1) - 1 = k
      BY <1>1
    <3> QED
      BY <1>12, <3>1
  <2>2. 0 \in 0 .. n
    BY <1>1
  <2> QED
    BY <1>12, <2>1, <2>2
<1> DEFINE P == {k \in Nat : k <= n => f[k] \in S}
<1>14. P = Nat
  <2>1. 0 \in P
    BY <1>4, <1>13
  <2>2. \A k \in P : k + 1 \in P
    <3> SUFFICES ASSUME NEW k \in P, k + 1 <= n PROVE f[k + 1] \in S
      OBVIOUS
    <3>1. k \in 0 .. n - 1 /\ f[k] \in S
      BY <1>1
    <3> HIDE DEF After, P
    <3>2. k + 1 \in 1 .. n
      BY <1>7, <3>1
    <3> QED
      BY <1>6, <1>13, <3>1, <3>2
  <2>3. P \in SUBSET Nat
    OBVIOUS
  <2> HIDE DEF P
  <2> QED
    BY <2>1, <2>2, <2>3, SetInduction
<1>15. f[n] \in Seq(Code) /\ f[0] \in Seq(Code)
  <2>1. n \in P /\ n <= n
    BY <1>1, <1>14
  <2> QED
    BY <1>4, <1>13, <2>1 DEF P, S
<1>16. f[n] \o <<62>> \in Seq(Code)
  <2>1. <<62>> \in Seq(Code)
    BY CodesAre
  <2> QED
    BY <1>15, <2>1, Joined
<1> QED
  BY <1>5, <1>15, <1>16

(* What each conversion prints is a sequence of characters, of this width. *)
Magnitude(x) == IF x < 0 THEN -x ELSE x
Wide(d, x, base, signed) ==
    DigitCount(Magnitude(x), base)
      + (IF signed /\ (x < 0 \/ d.plus_sign # 0) THEN 1 ELSE 0)
      + PrefixLength(d, x, base)

LEMMA SignedIs ==
    ASSUME NEW d \in Parsed, NEW x \in Int, NEW base \in {10, 16}
    PROVE  /\ print_signed(d, x, base) \in Seq(Code)
           /\ Len(print_signed(d, x, base)) =
                Larger(d.length, Wide(d, x, base, TRUE))
<1>1. d.plus_sign \in {0, BLANK, PLUS}
  BY DEF Parsed
<1>2. MINUS # 0 /\ base \in {8, 10, 16}
  BY DEF MINUS
<1>3. CASE x >= 0
  <2>1. x \in Nat /\ d.plus_sign \in {0, BLANK, PLUS, MINUS} /\ Magnitude(x) = x
    BY <1>1, <1>3 DEF Magnitude
  <2>2. print_signed(d, x, base) = print_num(d, x, d.plus_sign, base)
    BY <1>3 DEF print_signed
  <2>3. /\ print_num(d, x, d.plus_sign, base) \in Seq(Code)
        /\ Len(print_num(d, x, d.plus_sign, base)) =
             Larger(d.length, DigitCount(x, base)
                                + (IF d.plus_sign # 0 THEN 1 ELSE 0)
                                + PrefixLength(d, x, base))
    BY <1>2, <2>1, PrintNumIs
  <2>4. (IF d.plus_sign # 0 THEN 1 ELSE 0)
          = (IF TRUE /\ (x < 0 \/ d.plus_sign # 0) THEN 1 ELSE 0)
    BY <1>3
  <2> QED
    BY <2>1, <2>2, <2>3, <2>4 DEF Wide
<1>4. CASE ~(x >= 0)
  <2>1. -x \in Nat /\ MINUS \in {0, BLANK, PLUS, MINUS} /\ Magnitude(x) = -x
        /\ (-x # 0 <=> x # 0)
    BY <1>4 DEF Magnitude
  <2>2. print_signed(d, x, base) = print_num(d, -x, MINUS, base)
    BY <1>4 DEF print_signed
  <2>3. /\ print_num(d, -x, MINUS, base) \in Seq(Code)
        /\ Len(print_num(d, -x, MINUS, base)) =
             Larger(d.length, DigitCount(-x, base)
                                + (IF MINUS # 0 THEN 1 ELSE 0)
                                + PrefixLength(d, -x, base))
    BY <1>2, <2>1, PrintNumIs
  <2>4. (IF MINUS # 0 THEN 1 ELSE 0)
          = (IF TRUE /\ (x < 0 \/ d.plus_sign # 0) THEN 1 ELSE 0)
    BY <1>2, <1>4
  <2>5. PrefixLength(d, -x, base) = PrefixLength(d, x, base)
    BY <2>1 DEF PrefixLength
  <2> QED
    BY <2>1, <2>2, <2>3, <2>4, <2>5 DEF Wide
<1> QED
  BY <1>3, <1>4

LEMMA UnsignedIs ==
    ASSUME NEW d \in Parsed, NEW u \in Nat, NEW base \in {8, 10, 16}
    PROVE  /\ print_unsigned(d, u, base) \in Seq(Code)
           /\ Len(print_unsigned(d, u, base)) =
                Larger(d.length, Wide(d, u, base, FALSE))
<1>1. Magnitude(u) = u /\ 0 \in {0, BLANK, PLUS, MINUS}
  BY DEF Magnitude
<1>2. /\ print_num(d, u, 0, base) \in Seq(Code)
      /\ Len(print_num(d, u, 0, base)) =
           Larger(d.length, DigitCount(u, base) + (IF 0 # 0 THEN 1 ELSE 0)
                              + PrefixLength(d, u, base))
  BY <1>1, PrintNumIs
<1>3. (IF 0 # 0 THEN 1 ELSE 0) = (IF FALSE /\ (u < 0 \/ d.plus_sign # 0) THEN 1 ELSE 0)
  OBVIOUS
<1> QED
  BY <1>1, <1>2, <1>3 DEF Wide, print_unsigned

BaseOf(conv) == CASE conv \in {"d", "D", "u", "U"} -> 10
                  [] conv \in {"o", "O"} -> 8
                  [] OTHER -> 16

LEMMA NumbersConverted ==
    ASSUME NEW d \in Parsed, d.conv \in SignedConvs \cup UnsignedConvs,
           NEW x \in ArgsFor(d.conv)
    PROVE  /\ Convert(d, x) \in Seq(Code)
           /\ Len(Convert(d, x)) =
                Larger(d.length, Wide(d, x, BaseOf(d.conv), d.conv \in SignedConvs))
<1>1. CASE d.conv \in SignedConvs
  <2>1. x \in Int
    <3>1. ArgsFor(d.conv) = Long
      BY <1>1 DEF ArgsFor, SignedConvs, UnsignedConvs
    <3> QED
      BY <3>1, LongsAre
  <2>2. CASE d.conv \in {"d", "D"}
    <3>1. Convert(d, x) = print_signed(d, x, 10) /\ BaseOf(d.conv) = 10
      BY <2>2 DEF Convert, BaseOf
    <3> QED
      BY <1>1, <2>1, <3>1, SignedIs
  <2>3. CASE d.conv \in {"z", "Z"}
    <3>1. Convert(d, x) = print_signed(d, x, 16) /\ BaseOf(d.conv) = 16
      BY <2>3 DEF Convert, BaseOf
    <3> QED
      BY <1>1, <2>1, <3>1, SignedIs
  <2> QED
    BY <1>1, <2>2, <2>3 DEF SignedConvs
<1>2. CASE d.conv \in UnsignedConvs
  <2>1. x \in Nat /\ (d.conv \in SignedConvs) = FALSE
    <3>1. ArgsFor(d.conv) = ULong
      BY <1>2 DEF ArgsFor, SignedConvs, UnsignedConvs
    <3>2. d.conv \notin SignedConvs
      BY <1>2 DEF SignedConvs, UnsignedConvs
    <3>3. (d.conv \in SignedConvs) = FALSE
      BY <3>2
    <3>4. x \in Nat
      BY <3>1, LongsAre
    <3> QED
      BY <3>3, <3>4
  <2>2. CASE d.conv \in {"u", "U"}
    <3>1. Convert(d, x) = print_unsigned(d, x, 10) /\ BaseOf(d.conv) = 10
      BY <2>2 DEF Convert, BaseOf
    <3>2. Len(print_unsigned(d, x, BaseOf(d.conv)))
            = Larger(d.length, Wide(d, x, BaseOf(d.conv), FALSE))
          /\ print_unsigned(d, x, BaseOf(d.conv)) \in Seq(Code)
      BY <2>1, <3>1, UnsignedIs
    <3> QED
      BY <2>1, <3>1, <3>2
  <2>3. CASE d.conv \in {"o", "O"}
    <3>1. Convert(d, x) = print_unsigned(d, x, 8) /\ BaseOf(d.conv) = 8
      BY <2>3 DEF Convert, BaseOf
    <3>2. Len(print_unsigned(d, x, BaseOf(d.conv)))
            = Larger(d.length, Wide(d, x, BaseOf(d.conv), FALSE))
          /\ print_unsigned(d, x, BaseOf(d.conv)) \in Seq(Code)
      BY <2>1, <3>1, UnsignedIs
    <3> QED
      BY <2>1, <3>1, <3>2
  <2>4. CASE d.conv \in {"x", "X"}
    <3>1. Convert(d, x) = print_unsigned(d, x, 16) /\ BaseOf(d.conv) = 16
      BY <2>4 DEF Convert, BaseOf
    <3>2. Len(print_unsigned(d, x, BaseOf(d.conv)))
            = Larger(d.length, Wide(d, x, BaseOf(d.conv), FALSE))
          /\ print_unsigned(d, x, BaseOf(d.conv)) \in Seq(Code)
      BY <2>1, <3>1, UnsignedIs
    <3> QED
      BY <2>1, <3>1, <3>2
  <2> QED
    BY <1>2, <2>2, <2>3, <2>4 DEF UnsignedConvs
<1> QED
  BY <1>1, <1>2

LEMMA PointersConverted ==
    ASSUME NEW d \in Parsed, d.conv = "p", NEW x \in ArgsFor("p")
    PROVE  /\ Convert(d, x) \in Seq(Code)
           /\ Len(Convert(d, x)) = 2 + Larger(8, Wide(d, x, 16, FALSE))
<1> DEFINE e == [d EXCEPT !.padc = ZERO, !.length = 8]
           q == print_unsigned(e, x, 16)
<1>1. x \in Nat
  BY LongsAre DEF ArgsFor, SignedConvs
<1>2. /\ e \in Parsed /\ e.length = 8 /\ e.altfmt = d.altfmt
      /\ e.plus_sign = d.plus_sign
  BY DEF Parsed
<1>3. Convert(d, x) = <<ZERO, LOWER_X>> \o q
  BY DEF Convert
<1> HIDE DEF e
<1>4. q \in Seq(Code) /\ Len(q) = Larger(8, Wide(e, x, 16, FALSE))
  BY <1>1, <1>2, UnsignedIs
<1>5. Wide(e, x, 16, FALSE) = Wide(d, x, 16, FALSE)
  BY <1>2 DEF Wide, PrefixLength
<1>6. <<ZERO, LOWER_X>> \in Seq(Code) /\ Len(<<ZERO, LOWER_X>>) = 2
  BY CodesAre
<1> HIDE DEF q
<1> QED
  BY <1>3, <1>4, <1>5, <1>6, Joined

LEMMA Converted ==
    ASSUME NEW d \in Parsed, NEW x \in ArgsFor(d.conv)
    PROVE  Convert(d, x) \in Seq(Code)
<1>1. CASE d.conv \in SignedConvs \cup UnsignedConvs
  BY <1>1, NumbersConverted
<1>2. CASE d.conv = "p"
  BY <1>2, PointersConverted
<1>3. CASE d.conv = "c"
  <2>1. x \in Code /\ Convert(d, x) = <<x>>
    BY <1>3 DEF ArgsFor, Convert, SignedConvs, UnsignedConvs
  <2> QED
    BY <2>1, CodesAre
<1>4. CASE d.conv = "s"
  <2>1. x \in Seq(Code \ {NUL}) /\ Convert(d, x) = PrintString(d, x)
    BY <1>4 DEF ArgsFor, Convert, SignedConvs, UnsignedConvs
  <2>2. x \in Seq(Code)
    BY <2>1, SeqMonotonic
  <2> QED
    BY <2>1, <2>2, PrintStringIs
<1>5. CASE d.conv \in {"b", "B"}
  <2>1. /\ x \in [u : ULong, base : 2 .. 16, items : Seq(Items)]
        /\ Convert(d, x) = PrintBits(x)
    BY <1>5 DEF ArgsFor, Convert, SignedConvs, UnsignedConvs
  <2> QED
    BY <2>1, PrintBitsIs
<1>6. CASE d.conv = "t"
  <2>1. /\ x \in [task : 0 .. 2047, lthread : 0 .. 127, high : Nat, low : Nat]
        /\ Convert(d, x) = IF d.longopt = 0 THEN PrintThread(d, x)
                           ELSE PrintThreadLong(d, x)
    BY <1>6 DEF ArgsFor, Convert, SignedConvs, UnsignedConvs
  <2>2. x.task \in Nat /\ x.lthread \in 0 .. 127 /\ x.high \in Nat /\ x.low \in Nat
    BY SMTT(30), <2>1
  <2>3. PrintThread(d, x) \in Seq(Code)
    BY <2>2, PrintThreadIs
  <2>4. PrintThreadLong(d, x) \in Seq(Code)
    BY <2>2, PrintThreadLongIs
  <2> QED
    BY <2>1, <2>3, <2>4
<1> QED
  BY <1>1, <1>2, <1>3, <1>4, <1>5, <1>6 DEF Parsed
----------------------------------------------------------------------------
(* The first characters of a sequence. *)
First(q, k) == SubSeq(q, 1, k)

LEMMA FirstFacts ==
    ASSUME NEW q \in Seq(Code), NEW k \in 0 .. Len(q)
    PROVE  /\ First(q, k) \in Seq(Code) /\ Len(First(q, k)) = k
           /\ \A j \in 1 .. k : First(q, k)[j] = q[j]
<1>1. Len(q) \in Nat /\ k \in Nat /\ k <= Len(q) /\ 1 \in Int /\ k \in Int
  BY LenProperties
<1>2. \A j \in 1 .. k : q[j] \in Code
  BY <1>1, ElementOfSeq
<1>3. /\ SubSeq(q, 1, k) \in Seq(Code)
      /\ Len(SubSeq(q, 1, k)) = IF 1 <= k THEN k - 1 + 1 ELSE 0
      /\ \A j \in 1 .. k - 1 + 1 : SubSeq(q, 1, k)[j] = q[1 + j - 1]
  BY <1>1, <1>2, SubSeqProperties
<1>4. Len(SubSeq(q, 1, k)) = k
  BY <1>1, <1>3
<1>5. ASSUME NEW j \in 1 .. k PROVE SubSeq(q, 1, k)[j] = q[j]
  <2>1. j \in 1 .. k - 1 + 1 /\ 1 + j - 1 = j
    BY <1>1
  <2> QED
    BY <1>3, <2>1
<1> QED
  BY <1>3, <1>4, <1>5 DEF First

LEMMA FirstGrows ==
    ASSUME NEW q \in Seq(Code), NEW k \in 0 .. Len(q) - 1
    PROVE  /\ q[k + 1] \in Code
           /\ First(q, k + 1) = Append(First(q, k), q[k + 1])
<1> DEFINE a == First(q, k)
           b == First(q, k + 1)
           c == Append(a, q[k + 1])
<1>1. Len(q) \in Nat /\ k \in 0 .. Len(q) /\ k + 1 \in 0 .. Len(q) /\ k + 1 \in 1 .. Len(q)
  BY LenProperties
<1>2. q[k + 1] \in Code
  BY <1>1, ElementOfSeq
<1>3. /\ a \in Seq(Code) /\ Len(a) = k /\ \A j \in 1 .. k : a[j] = q[j]
      /\ b \in Seq(Code) /\ Len(b) = k + 1 /\ \A j \in 1 .. k + 1 : b[j] = q[j]
  BY <1>1, FirstFacts
<1> HIDE DEF a, b
<1>4. /\ c \in Seq(Code) /\ Len(c) = k + 1
      /\ \A j \in 1 .. k : c[j] = a[j]
      /\ c[k + 1] = q[k + 1]
  BY <1>2, <1>3, AppendProperties
<1> HIDE DEF c
<1>5. \A j \in 1 .. k + 1 : j = k + 1 \/ j \in 1 .. k
  BY <1>1
<1>6. \A j \in 1 .. Len(b) : b[j] = c[j]
  BY <1>3, <1>4, <1>5
<1>7. b = c
  BY <1>3, <1>4, <1>6, SeqEqual
<1> QED
  BY <1>2, <1>7 DEF a, b, c

LEMMA FirstEnds ==
    ASSUME NEW q \in Seq(Code)
    PROVE  First(q, Len(q)) = q /\ First(q, 0) = <<>>
<1>1. First(q, Len(q)) = q
  BY SubSeqFull DEF First
<1>2. First(q, 0) = <<>>
  BY SubSeqEmpty, 1 \in Int, 0 \in Int, 0 < 1 DEF First
<1> QED
  BY <1>1, <1>2

(* vsnprintf keeps the first max characters. *)
Bound(max, q) == IF max # UNLIMITED /\ Len(q) > max THEN max ELSE Len(q)

LEMMA VsnprintfIs ==
    ASSUME NEW max \in Nat \cup {UNLIMITED}, NEW q \in Seq(Code)
    PROVE  vsnprintf(max, q) = First(q, Bound(max, q))
<1> DEFINE n == Len(q)
           m == Bound(max, q)
           g == [k \in 0 .. n |-> First(q, IF k <= m THEN k ELSE m)]
           f == CHOOSE h : h = [k \in 0 .. n |->
                  IF k = 0 THEN <<>> ELSE savechar(h[k - 1], max, q[k])]
<1>1. n \in Nat
  BY LenProperties
<1>2. m \in Nat /\ m <= n /\ (max # UNLIMITED /\ m # max => m = n /\ n < max)
      /\ (max = UNLIMITED => m = n)
  BY <1>1 DEF Bound, UNLIMITED
<1> HIDE DEF m
<1>3. ASSUME NEW k \in 0 .. n, k # 0 PROVE g[k] = savechar(g[k - 1], max, q[k])
  <2> DEFINE j == IF k - 1 <= m THEN k - 1 ELSE m
  <2>1. k - 1 \in 0 .. n - 1 /\ k - 1 \in 0 .. n /\ (k - 1) + 1 = k
    BY <1>1, <1>3
  <2>2. j \in 0 .. Len(q) /\ g[k - 1] = First(q, j)
    BY <1>1, <1>2, <2>1
  <2>3. Len(First(q, j)) = j
    BY <2>2, FirstFacts
  <2>4. CASE k <= m
    <3>1. j = k - 1 /\ ~(max # UNLIMITED /\ j = max)
      BY <1>1, <1>2, <2>1, <2>4
    <3>2. savechar(g[k - 1], max, q[k]) = Append(First(q, k - 1), q[k])
      BY <2>2, <2>3, <3>1 DEF savechar
    <3>3. First(q, k) = Append(First(q, k - 1), q[k])
      BY <2>1, FirstGrows
    <3>4. g[k] = First(q, k)
      BY <2>4
    <3> QED
      BY <3>2, <3>3, <3>4
  <2>5. CASE ~(k <= m)
    <3>1. j = m /\ m < n /\ max # UNLIMITED /\ j = max
      BY <1>1, <1>2, <2>1, <2>5
    <3>2. savechar(g[k - 1], max, q[k]) = First(q, m)
      BY <2>2, <2>3, <3>1 DEF savechar
    <3>3. g[k] = First(q, m)
      BY <2>5
    <3> QED
      BY <3>2, <3>3
  <2> QED
    BY <2>4, <2>5
<1>4. g[0] = <<>> /\ g[n] = First(q, m)
  <2>1. 0 \in 0 .. n /\ n \in 0 .. n /\ 0 <= m /\ (n <= m => n = m)
    BY <1>1, <1>2
  <2> QED
    BY <2>1, FirstEnds
<1>5. g = [k \in 0 .. n |-> IF k = 0 THEN <<>> ELSE savechar(g[k - 1], max, q[k])]
  <2> DEFINE h == [k \in 0 .. n |-> IF k = 0 THEN <<>> ELSE savechar(g[k - 1], max, q[k])]
  <2>1. \A k \in 0 .. n : g[k] = h[k]
    BY <1>3, <1>4
  <2> QED
    BY <2>1
<1> HIDE DEF g
<1>6. f = [k \in 0 .. n |-> IF k = 0 THEN <<>> ELSE savechar(f[k - 1], max, q[k])]
  BY <1>5
<1>7. vsnprintf(max, q) = f[n]
  BY DEF vsnprintf
<1> HIDE DEF f
<1> DEFINE P == {k \in Nat : k <= n => f[k] = g[k]}
<1>8. P = Nat
  <2>1. 0 \in P
    BY <1>1, <1>4, <1>6
  <2>2. \A k \in P : k + 1 \in P
    <3> SUFFICES ASSUME NEW k \in P, k + 1 <= n PROVE f[k + 1] = g[k + 1]
      OBVIOUS
    <3>1. k + 1 \in 0 .. n /\ k + 1 # 0 /\ (k + 1) - 1 = k /\ f[k] = g[k]
      BY <1>1
    <3>2. f[k + 1] = savechar(f[k], max, q[k + 1])
      BY <1>6, <3>1
    <3>3. g[k + 1] = savechar(g[k], max, q[k + 1])
      BY <1>3, <3>1
    <3> QED
      BY <3>1, <3>2, <3>3
  <2>3. P \in SUBSET Nat
    OBVIOUS
  <2> HIDE DEF P
  <2> QED
    BY <2>1, <2>2, <2>3, SetInduction
<1>9. f[n] = g[n]
  BY <1>1, <1>8
<1> QED
  BY <1>4, <1>7, <1>9 DEF m

(* The characters that are not NUL, one character after the other. *)
Keeps(q, c) == IF c # NUL THEN Append(q, c) ELSE q
Kept(q) == CHOOSE h : h = [k \in 0 .. Len(q) |->
             CASE k = 0 -> <<>>
               [] k # 0 /\ q[k] # NUL -> Append(h[k - 1], q[k])
               [] OTHER -> h[k - 1]]

LEMMA KeptIs ==
    ASSUME NEW q \in Seq(Code)
    PROVE  /\ NotNul(q) = Kept(q)[Len(q)]
           /\ Kept(q)[0] = <<>>
           /\ \A k \in 0 .. Len(q) - 1 :
                Kept(q)[k + 1] = Keeps(Kept(q)[k], q[k + 1])
           /\ \A k \in 0 .. Len(q) : Kept(q)[k] \in Seq(Code \ {NUL})
<1> DEFINE n == Len(q)
           S == Seq(Code \ {NUL})
           step == [p \in (0 .. n - 1) \X S |-> Keeps(p[2], q[p[1] + 1])]
           f == Kept(q)
<1>1. n \in Nat /\ n \in 0 .. n
  BY LenProperties
<1>2. ASSUME NEW k \in 0 .. n - 1, NEW r \in S PROVE Keeps(r, q[k + 1]) \in S
  <2>1. q[k + 1] \in Code
    BY FirstGrows
  <2> QED
    BY <2>1, AppendProperties DEF Keeps
<1>3. step \in [(0 .. n - 1) \X S -> S]
  <2> HIDE DEF S
  <2> QED
    BY <1>2
<1>4. \A k \in 0 .. n - 1, r \in S : step[<<k, r>>] = Keeps(r, q[k + 1])
  <2> HIDE DEF S
  <2> TAKE k \in 0 .. n - 1, r \in S
  <2>1. <<k, r>> \in (0 .. n - 1) \X S
    OBVIOUS
  <2> QED
    BY <2>1
<1>5. <<>> \in S
  OBVIOUS
<1> HIDE DEF step, S
<1>6. PICK g \in [0 .. n -> S] : Run(<<>>, step, g, n)
  <2> HIDE DEF n
  <2> QED
    BY <1>1, <1>3, <1>5, RunExists
<1>7. g = [k \in 0 .. n |->
             CASE k = 0 -> <<>>
               [] k # 0 /\ q[k] # NUL -> Append(g[k - 1], q[k])
               [] OTHER -> g[k - 1]]
  <2>1. ASSUME NEW k \in 0 .. n, k # 0 PROVE g[k] = Keeps(g[k - 1], q[k])
    <3>1. k - 1 \in 0 .. n - 1 /\ k - 1 \in 0 .. n /\ (k - 1) + 1 = k
      BY <1>1, <2>1
    <3>2. g[(k - 1) + 1] = step[<<k - 1, g[k - 1]>>]
      BY <1>6, <3>1 DEF Run
    <3>3. step[<<k - 1, g[k - 1]>>] = Keeps(g[k - 1], q[(k - 1) + 1])
      BY <1>4, <3>1
    <3> QED
      BY <3>1, <3>2, <3>3
  <2>2. g[0] = <<>>
    BY <1>6 DEF Run
  <2> QED
    BY <2>1, <2>2 DEF Keeps
<1>8. f = [k \in 0 .. n |->
             CASE k = 0 -> <<>>
               [] k # 0 /\ q[k] # NUL -> Append(f[k - 1], q[k])
               [] OTHER -> f[k - 1]]
  BY <1>7 DEF Kept
<1>9. NotNul(q) = f[n]
  BY DEF NotNul, Kept
<1> HIDE DEF f
<1>10. f[0] = <<>> /\ \A k \in 0 .. n - 1 : f[k + 1] = Keeps(f[k], q[k + 1])
  <2>1. ASSUME NEW k \in 0 .. n - 1 PROVE f[k + 1] = Keeps(f[k], q[k + 1])
    <3>1. k + 1 \in 0 .. n /\ k + 1 # 0 /\ (k + 1) - 1 = k
      BY <1>1
    <3> QED
      BY <1>8, <3>1 DEF Keeps
  <2>2. 0 \in 0 .. n
    BY <1>1
  <2> QED
    BY <1>8, <2>1, <2>2
<1> DEFINE P == {k \in Nat : k <= n => f[k] \in S}
<1>11. P = Nat
  <2>1. 0 \in P
    BY <1>5, <1>10
  <2>2. \A k \in P : k + 1 \in P
    <3> SUFFICES ASSUME NEW k \in P, k + 1 <= n PROVE f[k + 1] \in S
      OBVIOUS
    <3>1. k \in 0 .. n - 1 /\ f[k] \in S
      BY <1>1
    <3> HIDE DEF P
    <3> QED
      BY <1>2, <1>10, <3>1
  <2>3. P \in SUBSET Nat
    OBVIOUS
  <2> HIDE DEF P
  <2> QED
    BY <2>1, <2>2, <2>3, SetInduction
<1>12. \A k \in 0 .. n : f[k] \in S
  BY <1>1, <1>11
<1> QED
  BY <1>9, <1>10, <1>12 DEF f, n, S

LEMMA NotNulGrows ==
    ASSUME NEW q \in Seq(Code), NEW c \in Code
    PROVE  /\ NotNul(q) \in Seq(Code \ {NUL})
           /\ NotNul(Append(q, c)) = Keeps(NotNul(q), c)
<1> DEFINE n == Len(q)
           r == Append(q, c)
           f == Kept(q)
           g == Kept(r)
<1>1. /\ n \in Nat /\ r \in Seq(Code) /\ Len(r) = n + 1 /\ r[n + 1] = c
      /\ \A k \in 1 .. n : r[k] = q[k]
  BY AppendProperties, LenProperties
<1> HIDE DEF r
<1>2. /\ NotNul(q) = f[n] /\ f[0] = <<>>
      /\ \A k \in 0 .. n - 1 : f[k + 1] = Keeps(f[k], q[k + 1])
      /\ \A k \in 0 .. n : f[k] \in Seq(Code \ {NUL})
  BY KeptIs
<1>3. /\ NotNul(r) = g[n + 1] /\ g[0] = <<>>
      /\ \A k \in 0 .. n : g[k + 1] = Keeps(g[k], r[k + 1])
  <2>1. \A k \in 0 .. n : k \in 0 .. Len(r) - 1
    BY <1>1
  <2> QED
    BY <1>1, <2>1, KeptIs
<1> HIDE DEF n, f, g
<1> DEFINE P == {k \in Nat : k <= n => f[k] = g[k]}
<1>4. P = Nat
  <2>1. 0 \in P
    BY <1>2, <1>3
  <2>2. \A k \in P : k + 1 \in P
    <3> TAKE k \in P
    <3>1. CASE k + 1 <= n
      <4>1. k \in 0 .. n - 1 /\ k \in 0 .. n /\ k + 1 \in 1 .. n /\ f[k] = g[k]
        BY <1>1, <3>1
      <4>2. f[k + 1] = g[k + 1]
        BY <1>1, <1>2, <1>3, <4>1
      <4> QED
        BY <4>1, <4>2
    <3>2. CASE ~(k + 1 <= n)
      BY <3>2
    <3> QED
      BY <3>1, <3>2
  <2>3. P \in SUBSET Nat
    OBVIOUS
  <2> HIDE DEF P
  <2> QED
    BY <2>1, <2>2, <2>3, SetInduction
<1>5. f[n] = g[n] /\ n \in 0 .. n
  BY <1>1, <1>4
<1>6. g[n + 1] = Keeps(g[n], r[n + 1])
  BY <1>3, <1>5
<1> QED
  BY <1>1, <1>2, <1>3, <1>5, <1>6 DEF r

LEMMA NotNulEmpty == NotNul(<<>>) = <<>>
<1>1. <<>> \in Seq(Code) /\ Len(<<>>) = 0
  BY CodesAre
<1> QED
  BY <1>1, KeptIs
----------------------------------------------------------------------------
(* A character behind the second of two sequences. *)
LEMMA JoinedAppend ==
    ASSUME NEW p \in Seq(Code), NEW q \in Seq(Code), NEW c \in Code
    PROVE  p \o Append(q, c) = Append(p \o q, c)
<1> DEFINE qc == Append(q, c)
           pq == p \o q
           x  == p \o qc
           y  == Append(pq, c)
<1>1. /\ qc \in Seq(Code) /\ Len(qc) = Len(q) + 1 /\ qc[Len(q) + 1] = c
      /\ \A k \in 1 .. Len(q) : qc[k] = q[k]
  BY AppendProperties
<1>2. /\ pq \in Seq(Code) /\ Len(pq) = Len(p) + Len(q)
      /\ \A k \in 1 .. Len(pq) : pq[k] = IF k <= Len(p) THEN p[k] ELSE q[k - Len(p)]
  BY ConcatProperties
<1> HIDE DEF qc, pq
<1>8. qc \in Seq(Code) /\ pq \in Seq(Code)
  BY <1>1, <1>2
<1>3. /\ x \in Seq(Code) /\ Len(x) = Len(p) + Len(qc)
      /\ \A k \in 1 .. Len(x) : x[k] = IF k <= Len(p) THEN p[k] ELSE qc[k - Len(p)]
  BY <1>8, ConcatProperties
<1>4. /\ y \in Seq(Code) /\ Len(y) = Len(pq) + 1 /\ y[Len(pq) + 1] = c
      /\ \A k \in 1 .. Len(pq) : y[k] = pq[k]
  BY <1>8, AppendProperties
<1> HIDE DEF x, y
<1>5. PICK m \in Nat, n \in Nat : m = Len(p) /\ n = Len(q)
  BY LenProperties
<1>6. Len(x) = m + (n + 1) /\ Len(y) = (m + n) + 1 /\ Len(x) = Len(y) /\ Len(pq) = m + n
  BY <1>1, <1>2, <1>3, <1>4, <1>5
<1>7. ASSUME NEW k \in 1 .. Len(x) PROVE x[k] = y[k]
  <2>1. CASE k = m + n + 1
    <3>1. ~(k <= m) /\ k - m = n + 1
      BY <1>5, <2>1
    <3> QED
      BY <1>1, <1>3, <1>4, <1>5, <1>6, <2>1, <3>1
  <2>2. CASE k \in 1 .. m + n /\ k <= m
    BY <1>2, <1>3, <1>4, <1>5, <1>6, <2>2
  <2>3. CASE k \in 1 .. m + n /\ ~(k <= m)
    <3>1. k - m \in 1 .. n
      BY <1>5, <2>3
    <3> QED
      BY <1>1, <1>2, <1>3, <1>4, <1>5, <1>6, <2>3, <3>1
  <2>4. k = m + n + 1 \/ k \in 1 .. m + n
    BY <1>5, <1>6
  <2> QED
    BY <2>1, <2>2, <2>3, <2>4
<1> QED
  BY <1>3, <1>4, <1>6, <1>7, SeqEqual DEF x, y, qc, pq

(* What printf has been given: written, or still in the buffer. *)
Buffers == [buf : Seq(Code), out : Seq(Code)]
Given(st) == st.out \o st.buf

(* A character that is not one too many is given; one that is comes with   *)
(* the other bytes of an int.                                              *)
LEMMA PrintfCharIs ==
    ASSUME NEW st \in Buffers, NEW c \in Code
    PROVE  /\ printf_char(st, c) \in Buffers /\ Given(st) \in Seq(Code)
           /\ c = 10 => /\ printf_char(st, c).buf = <<>>
                        /\ Given(printf_char(st, c)) = Append(Given(st), c)
           /\ c # 10 /\ c # NUL /\ Len(st.buf) < PRINTF_BUFMAX - 1 =>
                /\ printf_char(st, c).buf = Append(st.buf, c)
                /\ Given(printf_char(st, c)) = Append(Given(st), c)
           /\ c # 10 /\ (c = NUL \/ Len(st.buf) >= PRINTF_BUFMAX - 1) =>
                Given(printf_char(st, c)) = Given(st) \o <<c, NUL, NUL, NUL>>
<1> DEFINE w == Given(st)
           t == printf_char(st, c)
<1>1. st.buf \in Seq(Code) /\ st.out \in Seq(Code) /\ w \in Seq(Code)
  <2>1. st.buf \in Seq(Code) /\ st.out \in Seq(Code)
    BY DEF Buffers
  <2> QED
    BY <2>1, ConcatProperties DEF Given
<1>2. w = st.out \o st.buf
  BY DEF Given
<1>3. /\ <<c, NUL, NUL, NUL>> \in Seq(Code) /\ <<>> \in Seq(Code) /\ <<10>> \in Seq(Code)
  BY DEF Code, NUL
<1> HIDE DEF w
<1>4. CASE c = 10
  <2>1. t = [buf |-> <<>>, out |-> w \o <<10>>]
    BY <1>2, <1>4 DEF printf_char, puts
  <2>2. w \o <<10>> \in Seq(Code) /\ w \o <<10>> = Append(w, 10)
    BY <1>1, <1>3, ConcatProperties
  <2>3. (w \o <<10>>) \o <<>> = w \o <<10>>
    BY <2>2
  <2>4. t \in Buffers /\ t.buf = <<>> /\ t.out = w \o <<10>>
    BY <1>3, <2>1, <2>2 DEF Buffers
  <2>5. Given(t) = Append(w, c)
    BY <1>4, <2>2, <2>3, <2>4 DEF Given
  <2> QED
    BY <1>1, <1>4, <2>4, <2>5 DEF w
<1>5. CASE c # 10 /\ (c = NUL \/ Len(st.buf) >= PRINTF_BUFMAX - 1)
  <2> DEFINE v == w \o <<c, NUL, NUL, NUL>>
  <2>1. t = [buf |-> <<>>, out |-> v]
    BY <1>2, <1>5 DEF printf_char, putchar, flush
  <2>2. v \in Seq(Code)
    BY <1>1, <1>3, ConcatProperties
  <2> HIDE DEF v
  <2>3. v \o <<>> = v
    BY <2>2
  <2>4. t \in Buffers /\ Given(t) = v
    BY <1>3, <2>1, <2>2, <2>3 DEF Buffers, Given
  <2>5. ~(c = 10) /\ ~(c # 10 /\ c # NUL /\ Len(st.buf) < PRINTF_BUFMAX - 1)
    <3>1. Len(st.buf) \in Nat /\ PRINTF_BUFMAX \in Nat
      BY <1>1, LenProperties, PrintfBufmaxAssumption
    <3> QED
      BY <1>5, <3>1
  <2> QED
    BY <1>1, <2>4, <2>5 DEF w, v
<1>6. CASE ~(c = 10) /\ ~(c # 10 /\ (c = NUL \/ Len(st.buf) >= PRINTF_BUFMAX - 1))
  <2>1. t = [st EXCEPT !.buf = Append(st.buf, c)]
    BY <1>6 DEF printf_char
  <2>2. Append(st.buf, c) \in Seq(Code)
    BY <1>1, AppendProperties
  <2>3. st.out \o Append(st.buf, c) = Append(st.out \o st.buf, c)
    BY <1>1, JoinedAppend
  <2>4. t \in Buffers /\ t.buf = Append(st.buf, c) /\ t.out = st.out
    BY <2>1, <2>2 DEF Buffers
  <2>5. Given(t) = Append(w, c)
    BY <1>2, <2>3, <2>4 DEF Given
  <2> QED
    BY <1>1, <1>6, <2>4, <2>5 DEF w
<1> QED
  BY <1>4, <1>5, <1>6

(* The three bytes that follow it are not seen. *)
LEMMA NulsUnseen ==
    ASSUME NEW w \in Seq(Code), NEW c \in Code
    PROVE  NotNul(w \o <<c, NUL, NUL, NUL>>) = Keeps(NotNul(w), c)
<1> DEFINE w1 == Append(w, c)
           w2 == Append(w1, NUL)
           w3 == Append(w2, NUL)
           w4 == Append(w3, NUL)
<1>1. NUL \in Code
  BY DEF NUL, Code
<1>2. w1 \in Seq(Code) /\ NotNul(w1) = Keeps(NotNul(w), c)
  BY AppendProperties, NotNulGrows
<1>3. w \o <<c, NUL, NUL, NUL>> = w4
  OBVIOUS
<1> HIDE DEF w1
<1>4. w2 \in Seq(Code) /\ NotNul(w2) = NotNul(w1)
  BY <1>1, <1>2, AppendProperties, NotNulGrows DEF Keeps
<1> HIDE DEF w2
<1>5. w3 \in Seq(Code) /\ NotNul(w3) = NotNul(w2)
  BY <1>1, <1>4, AppendProperties, NotNulGrows DEF Keeps
<1> HIDE DEF w3
<1>6. NotNul(w4) = NotNul(w3)
  BY <1>1, <1>5, AppendProperties, NotNulGrows DEF Keeps
<1> QED
  BY <1>2, <1>3, <1>4, <1>5, <1>6

(* After k characters. *)
Printed(q) == CHOOSE h : h = [k \in 0 .. Len(q) |->
                IF k = 0 THEN [buf |-> <<>>, out |-> <<>>]
                ELSE printf_char(h[k - 1], q[k])]

LEMMA PrintedIs ==
    ASSUME NEW q \in Seq(Code)
    PROVE  /\ vprintf(q) = Given(Printed(q)[Len(q)])
           /\ Printed(q)[0] = [buf |-> <<>>, out |-> <<>>]
           /\ \A k \in 0 .. Len(q) - 1 :
                Printed(q)[k + 1] = printf_char(Printed(q)[k], q[k + 1])
           /\ \A k \in 0 .. Len(q) : Printed(q)[k] \in Buffers
<1> DEFINE n == Len(q)
           a == [buf |-> <<>>, out |-> <<>>]
           step == [p \in (0 .. n - 1) \X Buffers |-> printf_char(p[2], q[p[1] + 1])]
           f == Printed(q)
<1>1. n \in Nat /\ n \in 0 .. n
  BY LenProperties
<1>2. ASSUME NEW k \in 0 .. n - 1, NEW st \in Buffers
      PROVE  printf_char(st, q[k + 1]) \in Buffers
  <2>1. q[k + 1] \in Code
    BY FirstGrows
  <2> QED
    BY <2>1, PrintfCharIs
<1>3. step \in [(0 .. n - 1) \X Buffers -> Buffers]
  BY <1>2
<1>4. \A k \in 0 .. n - 1, st \in Buffers :
        step[<<k, st>>] = printf_char(st, q[k + 1])
  <2> TAKE k \in 0 .. n - 1, st \in Buffers
  <2>1. <<k, st>> \in (0 .. n - 1) \X Buffers
    OBVIOUS
  <2> QED
    BY <2>1
<1>5. a \in Buffers
  BY DEF Buffers
<1> HIDE DEF step
<1>6. PICK g \in [0 .. n -> Buffers] : Run(a, step, g, n)
  <2> HIDE DEF n, a
  <2> QED
    BY <1>1, <1>3, <1>5, RunExists
<1>7. g = [k \in 0 .. n |-> IF k = 0 THEN a ELSE printf_char(g[k - 1], q[k])]
  <2>1. ASSUME NEW k \in 0 .. n, k # 0 PROVE g[k] = printf_char(g[k - 1], q[k])
    <3>1. k - 1 \in 0 .. n - 1 /\ k - 1 \in 0 .. n /\ (k - 1) + 1 = k
      BY <1>1, <2>1
    <3>2. g[(k - 1) + 1] = step[<<k - 1, g[k - 1]>>]
      BY <1>6, <3>1 DEF Run
    <3>3. step[<<k - 1, g[k - 1]>>] = printf_char(g[k - 1], q[(k - 1) + 1])
      BY <1>4, <3>1
    <3> QED
      BY <3>1, <3>2, <3>3
  <2>2. g[0] = a
    BY <1>6 DEF Run
  <2> HIDE DEF a
  <2> QED
    BY <2>1, <2>2
<1>8. f = [k \in 0 .. n |-> IF k = 0 THEN a ELSE printf_char(f[k - 1], q[k])]
  BY <1>7 DEF Printed
<1>9. vprintf(q) = Given(f[n])
  BY DEF vprintf, Printed, flush, Given
<1> HIDE DEF f, a
<1>10. f[0] = a /\ \A k \in 0 .. n - 1 : f[k + 1] = printf_char(f[k], q[k + 1])
  <2>1. ASSUME NEW k \in 0 .. n - 1 PROVE f[k + 1] = printf_char(f[k], q[k + 1])
    <3>1. k + 1 \in 0 .. n /\ k + 1 # 0 /\ (k + 1) - 1 = k
      BY <1>1
    <3> QED
      BY <1>8, <3>1
  <2>2. 0 \in 0 .. n
    BY <1>1
  <2> QED
    BY <1>8, <2>1, <2>2
<1> DEFINE P == {k \in Nat : k <= n => f[k] \in Buffers}
<1>11. P = Nat
  <2>1. 0 \in P
    BY <1>5, <1>10
  <2>2. \A k \in P : k + 1 \in P
    <3> SUFFICES ASSUME NEW k \in P, k + 1 <= n PROVE f[k + 1] \in Buffers
      OBVIOUS
    <3>1. k \in 0 .. n - 1 /\ f[k] \in Buffers
      BY <1>1
    <3> HIDE DEF P
    <3> QED
      BY <1>2, <1>10, <3>1
  <2>3. P \in SUBSET Nat
    OBVIOUS
  <2> HIDE DEF P
  <2> QED
    BY <2>1, <2>2, <2>3, SetInduction
<1>12. \A k \in 0 .. n : f[k] \in Buffers
  BY <1>1, <1>11
<1> QED
  BY <1>9, <1>10, <1>12 DEF f, n, a

(* printf shows all the characters, whatever its buffer does. *)
LEMMA PrintfShowsAll ==
    ASSUME NEW q \in Seq(Code)
    PROVE  vprintf(q) \in Seq(Code) /\ NotNul(vprintf(q)) = NotNul(q)
<1> DEFINE n == Len(q)
           f == Printed(q)
           P == {k \in Nat : k <= n => NotNul(Given(f[k])) = NotNul(First(q, k))}
<1>1. n \in Nat /\ n \in 0 .. n
  BY LenProperties
<1>2. /\ vprintf(q) = Given(f[n])
      /\ f[0] = [buf |-> <<>>, out |-> <<>>]
      /\ \A k \in 0 .. n - 1 : f[k + 1] = printf_char(f[k], q[k + 1])
      /\ \A k \in 0 .. n : f[k] \in Buffers
  BY PrintedIs
<1>3. \A k \in 0 .. n - 1 : /\ q[k + 1] \in Code /\ First(q, k) \in Seq(Code)
                            /\ First(q, k + 1) = Append(First(q, k), q[k + 1])
  <2> TAKE k \in 0 .. n - 1
  <2>1. k \in 0 .. n
    BY <1>1
  <2> QED
    BY <2>1, FirstGrows, FirstFacts
<1>4. \A st \in Buffers : Given(st) \in Seq(Code)
  BY PrintfCharIs, CodesAre, 10 \in Code DEF Code
<1>5. First(q, n) = q /\ First(q, 0) = <<>>
  BY FirstEnds
<1> HIDE DEF n, f
<1>6. P = Nat
  <2>1. 0 \in P
    <3>1. Given(f[0]) = <<>>
      BY <1>2 DEF Given
    <3> QED
      BY <1>5, <3>1
  <2>2. \A k \in P : k + 1 \in P
    <3> SUFFICES ASSUME NEW k \in P, k + 1 <= n
                 PROVE  NotNul(Given(f[k + 1])) = NotNul(First(q, k + 1))
      OBVIOUS
    <3> DEFINE st == f[k]
               c  == q[k + 1]
               t  == printf_char(st, c)
               w  == Given(st)
               l  == First(q, k)
    <3>1. k \in 0 .. n - 1 /\ k \in 0 .. n /\ NotNul(w) = NotNul(l)
      BY <1>1
    <3>2. /\ f[k + 1] = t /\ st \in Buffers /\ c \in Code /\ l \in Seq(Code)
          /\ First(q, k + 1) = Append(l, c) /\ w \in Seq(Code)
      BY <1>2, <1>3, <1>4, <3>1
    <3>3. Given(t) = Append(w, c) \/ Given(t) = w \o <<c, NUL, NUL, NUL>>
      <4>1. Len(st.buf) \in Nat /\ PRINTF_BUFMAX \in Nat
        BY <3>2, LenProperties, PrintfBufmaxAssumption DEF Buffers
      <4>2. \/ c = 10 \/ (c # 10 /\ c # NUL /\ Len(st.buf) < PRINTF_BUFMAX - 1)
            \/ c # 10 /\ (c = NUL \/ Len(st.buf) >= PRINTF_BUFMAX - 1)
        BY <4>1
      <4> HIDE DEF t, st, c, w
      <4> QED
        BY <3>2, <4>2, PrintfCharIs DEF t, w
    <3> HIDE DEF st, c, t, w, l
    <3>4. NotNul(Given(t)) = Keeps(NotNul(w), c)
      BY <3>2, <3>3, NotNulGrows, NulsUnseen
    <3>5. NotNul(Append(l, c)) = Keeps(NotNul(l), c)
      BY <3>2, NotNulGrows
    <3> QED
      BY <3>1, <3>2, <3>4, <3>5
  <2>3. P \in SUBSET Nat
    OBVIOUS
  <2> HIDE DEF P
  <2> QED
    BY <2>1, <2>2, <2>3, SetInduction
<1>7. NotNul(Given(f[n])) = NotNul(First(q, n))
  BY <1>1, <1>6
<1>8. Given(f[n]) \in Seq(Code)
  BY <1>1, <1>2, <1>4
<1> QED
  BY <1>2, <1>5, <1>7, <1>8

(* A text without a NUL has none at any place. *)
LEMMA NoNul ==
    ASSUME NEW q \in Seq(Code), NotNul(q) = q
    PROVE  \A k \in 1 .. Len(q) : q[k] # NUL
<1>1. NotNul(q) \in Seq(Code \ {NUL})
  BY NotNulGrows, 10 \in Code DEF Code
<1>2. q \in Seq(Code \ {NUL})
  BY <1>1
<1> QED
  BY <1>2, ElementOfSeq

(* A text whose lines fit the buffer is written as it is. *)
LEMMA PrintfExact ==
    ASSUME NEW q \in Seq(Code), NotNul(q) = q, FitsBuffer(q)
    PROVE  vprintf(q) = q
<1> DEFINE n == Len(q)
           f == Printed(q)
           m == PRINTF_BUFMAX - 1
           Good(k, b) == /\ b <= k /\ b <= m
                         /\ \A j \in k - b + 1 .. k : q[j] # 10
           P == {k \in Nat : k <= n => /\ Given(f[k]) = First(q, k)
                                       /\ Good(k, Len(f[k].buf))}
<1>1. n \in Nat /\ n \in 0 .. n /\ m \in Nat
  BY LenProperties, PrintfBufmaxAssumption
<1>2. /\ vprintf(q) = Given(f[n])
      /\ f[0] = [buf |-> <<>>, out |-> <<>>]
      /\ \A k \in 0 .. n - 1 : f[k + 1] = printf_char(f[k], q[k + 1])
      /\ \A k \in 0 .. n : f[k] \in Buffers
  BY PrintedIs
<1>3. \A k \in 0 .. n - 1 : /\ q[k + 1] \in Code /\ First(q, k) \in Seq(Code)
                            /\ First(q, k + 1) = Append(First(q, k), q[k + 1])
  <2> TAKE k \in 0 .. n - 1
  <2>1. k \in 0 .. n
    BY <1>1
  <2> QED
    BY <2>1, FirstGrows, FirstFacts
<1>4. \A k \in 1 .. n : q[k] # NUL
  BY NoNul
<1>5. First(q, n) = q /\ First(q, 0) = <<>>
  BY FirstEnds
<1>6. \A k \in 1 .. n : k + m <= n => \E j \in k .. k + m : q[j] = 10
  <2> TAKE k \in 1 .. n
  <2>1. k + PRINTF_BUFMAX - 1 = k + m
    BY PrintfBufmaxAssumption
  <2> QED
    BY <2>1 DEF FitsBuffer
<1>7. \A st \in Buffers : st.buf \in Seq(Code) /\ Len(st.buf) \in Nat
  BY LenProperties DEF Buffers
<1>8. \A b \in Nat : b < PRINTF_BUFMAX - 1 <=> b < m
  OBVIOUS
<1> HIDE DEF n, f, m
<1>9. P = Nat
  <2>1. 0 \in P
    <3>1. Given(f[0]) = <<>> /\ Len(f[0].buf) = 0
      BY <1>2 DEF Given
    <3>2. Good(0, 0)
      BY <1>1
    <3> HIDE DEF Good
    <3> QED
      BY <1>5, <3>1, <3>2
  <2>2. \A k \in P : k + 1 \in P
    <3> SUFFICES ASSUME NEW k \in P, k + 1 <= n
                 PROVE  /\ Given(f[k + 1]) = First(q, k + 1)
                        /\ Good(k + 1, Len(f[k + 1].buf))
      OBVIOUS
    <3> DEFINE st == f[k]
               c  == q[k + 1]
               t  == printf_char(st, c)
               w  == Given(st)
               l  == First(q, k)
    <3>1. /\ k \in 0 .. n - 1 /\ k \in 0 .. n /\ w = l /\ Good(k, Len(st.buf))
          /\ k \in Nat /\ k + 1 \in 1 .. n
      BY <1>1
    <3>2. /\ f[k + 1] = t /\ st \in Buffers /\ c \in Code /\ l \in Seq(Code)
          /\ First(q, k + 1) = Append(l, c)
      BY <1>2, <1>3, <3>1
    <3>3. c # NUL
      BY <1>4, <3>1
    <3>4. PICK b \in Nat : b = Len(st.buf)
      BY <1>7, <3>2
    <3>5. b <= k /\ b <= m /\ \A j \in k - b + 1 .. k : q[j] # 10
      BY <3>1, <3>4
    <3>6. c = q[k + 1]
      OBVIOUS
    <3> HIDE DEF st, c, t, w, l
    <3>7. CASE c = 10
      <4>1. Given(t) = Append(w, c) /\ t.buf = <<>>
        BY <3>2, <3>7, PrintfCharIs DEF t, w
      <4>2. Len(t.buf) = 0
        BY <4>1
      <4>3. Good(k + 1, 0)
        BY <1>1, <3>1
      <4> HIDE DEF Good
      <4> QED
        BY <3>1, <3>2, <4>1, <4>2, <4>3
    <3>8. CASE c # 10 /\ b < m
      <4>1. c # 10 /\ c # NUL /\ Len(st.buf) < PRINTF_BUFMAX - 1
        BY <1>8, <3>3, <3>4, <3>8
      <4>2. Given(t) = Append(w, c) /\ t.buf = Append(st.buf, c)
        BY <3>2, <4>1, PrintfCharIs DEF t, w
      <4>3. Len(t.buf) = b + 1
        BY <1>7, <3>2, <3>4, <4>2, AppendProperties
      <4>4. Good(k + 1, b + 1)
        <5>1. \A j \in (k + 1) - (b + 1) + 1 .. k + 1 : j = k + 1 \/ j \in k - b + 1 .. k
          BY <3>1, <3>4
        <5> QED
          BY <1>1, <3>1, <3>4, <3>5, <3>6, <3>8, <5>1
      <4> HIDE DEF Good
      <4> QED
        BY <3>1, <3>2, <4>2, <4>3, <4>4
    <3>9. CASE c # 10 /\ ~(b < m)
      <4>1. b = m
        BY <1>1, <3>4, <3>5, <3>9
      <4>2. k + 1 - m \in 1 .. n /\ (k + 1 - m) + m = k + 1
        BY <1>1, <3>1, <3>4, <3>5, <4>1
      <4>3. PICK j \in k + 1 - m .. k + 1 : q[j] = 10
        BY <1>6, <3>1, <4>2
      <4>4. j = k + 1 \/ j \in k - b + 1 .. k
        BY <1>1, <3>1, <4>1
      <4> QED
        BY <3>5, <3>6, <3>9, <4>3, <4>4
    <3> QED
      BY <3>7, <3>8, <3>9
  <2>3. P \in SUBSET Nat
    OBVIOUS
  <2> HIDE DEF P
  <2> QED
    BY <2>1, <2>2, <2>3, SetInduction
<1>10. Given(f[n]) = First(q, n)
  BY <1>1, <1>9
<1> QED
  BY <1>2, <1>5, <1>10
----------------------------------------------------------------------------
(* Before the call nothing has been written; after it the text is what was *)
(* before the conversion and the conversion, and one of the two callers    *)
(* has been handed all of it.                                              *)
StdioInv ==
    \/ call = NoCall /\ text = <<>> /\ console = <<>> /\ s = <<>>
    \/ /\ call.f \in Formats /\ call.arg \in Args(call.f.conv)
       /\ call.before \in Texts /\ call.max \in Nat \cup {UNLIMITED}
       /\ text = call.before \o Convert(Parse(call.f), call.arg)
       /\ console = <<>> \/ console = vprintf(text)
       /\ \/ s = <<>>
          \/ s = vsnprintf(call.max, text) \o <<NUL>> /\ len = Len(s) - 1

LEMMA StdioKept == StdioInv /\ [Next]_vars => StdioInv'
<1> SUFFICES ASSUME StdioInv, [Next]_vars PROVE StdioInv'
  OBVIOUS
<1>1. CASE UNCHANGED stdioVars
  BY <1>1 DEF StdioInv, stdioVars
<1>2. CASE StdioNext
  <2>1. call = NoCall
    BY <1>2 DEF StdioNext
  <2>2. console = <<>> /\ s = <<>>
    <3>1. NoCall.f.conv = ""
      BY DEF NoCall
    <3>2. call.f \notin Formats
      BY <2>1, <3>1, FormatsAssumption
            DEF Specifications, SignedConvs, UnsignedConvs
    <3> QED
      BY <3>2 DEF StdioInv
  <2>3. PICK f \in Formats : \E arg \in Args(f.conv), before \in Texts :
          \/ Printf(f, arg, before)
          \/ \E max \in Sizes : Snprintf(f, arg, before, max)
    BY <1>2 DEF StdioNext
  <2>4. PICK arg \in Args(f.conv), before \in Texts :
          \/ Printf(f, arg, before)
          \/ \E max \in Sizes : Snprintf(f, arg, before, max)
    BY <2>3
  <2>5. ASSUME NEW max \in Nat \cup {UNLIMITED}, Called(f, arg, before, max)
        PROVE  /\ call'.f \in Formats /\ call'.arg \in Args(call'.f.conv)
               /\ call'.before \in Texts /\ call'.max \in Nat \cup {UNLIMITED}
               /\ text' = call'.before \o Convert(Parse(call'.f), call'.arg)
               /\ call'.max = max
    BY <2>5 DEF Called
  <2>6. CASE Printf(f, arg, before)
    <3>1. UNLIMITED \in Nat \cup {UNLIMITED}
      OBVIOUS
    <3>2. /\ Called(f, arg, before, UNLIMITED) /\ console' = vprintf(text')
          /\ s' = <<>>
      BY <2>2, <2>6 DEF Printf
    <3> QED
      BY <2>5, <3>1, <3>2 DEF StdioInv
  <2>7. ASSUME NEW max \in Sizes, Snprintf(f, arg, before, max) PROVE StdioInv'
    <3>1. max \in Nat \cup {UNLIMITED}
      BY SizesAssumption
    <3>2. /\ Called(f, arg, before, max) /\ console' = <<>>
          /\ s' = vsnprintf(max, text') \o <<NUL>> /\ len' = Len(s') - 1
      BY <2>2, <2>7 DEF Snprintf
    <3> QED
      BY <2>5, <3>1, <3>2 DEF StdioInv
  <2> QED
    BY <2>6, <2>7, <2>4
<1> QED
  BY <1>1, <1>2 DEF Next, vars

LEMMA StdioInvariant == Spec => []StdioInv
<1>1. Init => StdioInv
  BY DEF Init, StdioInit, StdioInv
<1> QED
  BY <1>1, StdioKept, PTL DEF Spec

(* What a call has been given, and what it has made of it. *)
LEMMA CallFacts ==
    ASSUME StdioInv, call.f \in Formats
    PROVE  /\ Parse(call.f) \in Parsed /\ Parse(call.f).conv = call.f.conv
           /\ call.arg \in ArgsFor(call.f.conv)
           /\ call.before \in Seq(Code) /\ text \in Seq(Code)
           /\ Field = Convert(Parse(call.f), call.arg)
<1> DEFINE d == Parse(call.f)
           b == call.before
           c == Convert(d, call.arg)
<1>1. call.f \in Specifications
  BY FormatsAssumption
<1>2. d \in Parsed /\ d.conv = call.f.conv
  BY <1>1, ParseIs
<1>3. call # NoCall
  <2>1. NoCall.f.conv = ""
    BY DEF NoCall
  <2>2. call.f.conv # ""
    BY <1>1 DEF Specifications, SignedConvs, UnsignedConvs
  <2> QED
    BY <2>1, <2>2
<1>4. /\ call.arg \in ArgsFor(call.f.conv) /\ b \in Seq(Code \ {NUL}) /\ text = b \o c
  BY <1>3, ArgsAssumption, TextsAssumption DEF StdioInv
<1>5. b \in Seq(Code) /\ c \in Seq(Code)
  BY <1>2, <1>4, Converted, SeqMonotonic
<1>6. Field = SubSeq(text, Len(b) + 1, Len(text))
  BY DEF Field
<1> HIDE DEF b, c, d
<1>7. /\ text \in Seq(Code) /\ Len(text) = Len(b) + Len(c)
      /\ \A k \in 1 .. Len(text) : text[k] = IF k <= Len(b) THEN b[k] ELSE c[k - Len(b)]
  BY <1>4, <1>5, ConcatProperties
<1>8. PICK m \in Nat, n \in Nat : m = Len(b) /\ n = Len(c)
  BY <1>5, LenProperties
<1>9. /\ m + 1 \in Int /\ m + n \in Int /\ Len(text) = m + n
      /\ Field = SubSeq(text, m + 1, m + n)
  BY <1>6, <1>7, <1>8
<1>10. \A k \in m + 1 .. m + n : text[k] \in Code
  BY <1>7, <1>8, <1>9, ElementOfSeq
<1>11. /\ Field \in Seq(Code)
       /\ Len(Field) = IF m + 1 <= m + n THEN m + n - (m + 1) + 1 ELSE 0
       /\ \A k \in 1 .. m + n - (m + 1) + 1 : Field[k] = text[m + 1 + k - 1]
  <2> DEFINE lo == m + 1
             hi == m + n
             part == SubSeq(text, lo, hi)
  <2>1. lo \in Int /\ hi \in Int /\ \A k \in lo .. hi : text[k] \in Code
    BY <1>9, <1>10
  <2>2. Field = part
    BY <1>9
  <2> HIDE DEF lo, hi
  <2>3. /\ part \in Seq(Code) /\ Len(part) = IF lo <= hi THEN hi - lo + 1 ELSE 0
        /\ \A k \in 1 .. hi - lo + 1 : part[k] = text[lo + k - 1]
    BY <2>1, SubSeqProperties
  <2> HIDE DEF part
  <2> QED
    BY <2>2, <2>3 DEF lo, hi
<1>12. Len(Field) = n /\ m + n - (m + 1) + 1 = n
  BY <1>8, <1>11
<1>13. ASSUME NEW k \in 1 .. n PROVE Field[k] = c[k]
  <2>1. /\ m + 1 + k - 1 = m + k /\ m + k \in 1 .. m + n /\ ~(m + k <= m)
        /\ (m + k) - m = k
    BY <1>8
  <2>2. Field[k] = text[m + k]
    BY <1>11, <1>12, <2>1
  <2> QED
    BY <1>7, <1>8, <1>9, <2>1, <2>2
<1>14. Field = c
  BY <1>5, <1>8, <1>11, <1>12, <1>13, SeqEqual
<1> QED
  BY <1>2, <1>4, <1>5, <1>7, <1>14 DEF b, c, d

(* printf writes every character of the text, in order, and nothing else   *)
(* where there is no NUL and the lines fit its buffer.                     *)
THEOREM PrintfWritesText == Spec => []PrintfFaithful
<1>1. StdioInv => PrintfFaithful
  <2> SUFFICES ASSUME StdioInv, console # <<>> PROVE PrintfFaithful
    BY DEF PrintfFaithful
  <2>1. call.f \in Formats /\ console = vprintf(text)
    BY DEF StdioInv
  <2>2. text \in Seq(Code)
    BY <2>1, CallFacts
  <2>3. NotNul(console) = NotNul(text)
    BY <2>1, <2>2, PrintfShowsAll
  <2>4. NotNul(text) = text /\ FitsBuffer(text) => console = text
    BY <2>1, <2>2, PrintfExact
  <2> QED
    BY <2>3, <2>4 DEF PrintfFaithful
<1> QED
  BY <1>1, StdioInvariant, PTL

(* snprintf leaves a prefix of the text and a NUL behind it: not more      *)
(* characters than its size, and no fewer than fit in one less.            *)
THEOREM SnprintfKeepsPrefix == Spec => []SnprintfPrefix
<1>1. StdioInv => SnprintfPrefix
  <2> SUFFICES ASSUME StdioInv, s # <<>> PROVE SnprintfPrefix
    BY DEF SnprintfPrefix
  <2>1. /\ call.f \in Formats /\ call.max \in Nat \cup {UNLIMITED}
        /\ s = vsnprintf(call.max, text) \o <<NUL>> /\ len = Len(s) - 1
    BY DEF StdioInv
  <2>2. text \in Seq(Code)
    BY <2>1, CallFacts
  <2> DEFINE m == Bound(call.max, text)
             p == First(text, m)
  <2>3. s = p \o <<NUL>>
    BY <2>1, <2>2, VsnprintfIs
  <2>4. /\ Len(text) \in Nat /\ m \in 0 .. Len(text)
        /\ call.max = UNLIMITED => m = Len(text)
        /\ call.max # UNLIMITED =>
             /\ m <= call.max
             /\ Len(text) < call.max => m = Len(text)
             /\ m < Len(text) => m >= call.max - 1
    <3>1. Len(text) \in Nat
      BY <2>2, LenProperties
    <3> QED
      BY <2>1, <3>1 DEF Bound, UNLIMITED
  <2> HIDE DEF m
  <2>5. p \in Seq(Code) /\ Len(p) = m
    BY <2>2, <2>4, FirstFacts
  <2>6. <<NUL>> \in Seq(Code) /\ Len(<<NUL>>) = 1
    BY CodesAre
  <2> HIDE DEF p
  <2>7. Len(s) = m + 1
    BY <2>3, <2>5, <2>6, ConcatProperties
  <2>8. len = m
    BY <2>1, <2>4, <2>7
  <2>9. p = SubSeq(text, 1, len)
    BY <2>8 DEF p, First
  <2> QED
    BY <2>3, <2>4, <2>8, <2>9 DEF SnprintfPrefix
<1> QED
  BY <1>1, StdioInvariant, PTL

(* Every conversion of _doprnt gives a field of the width asked for, or of *)
(* its contents where they are wider, for every format and argument.       *)
THEOREM FieldsAreWide == Spec => []FieldWidth
<1>1. StdioInv => FieldWidth
  <2> SUFFICES ASSUME StdioInv, call # NoCall PROVE FieldWidth
    BY DEF FieldWidth
  <2> DEFINE d == Parse(call.f)
             a == call.arg
             conv == call.f.conv
  <2>1. call.f \in Formats
    BY DEF StdioInv
  <2>2. /\ d \in Parsed /\ d.conv = conv /\ a \in ArgsFor(conv)
        /\ Field = Convert(d, a) /\ Spec_ = d
    BY <2>1, CallFacts DEF Spec_
  <2>3. Numbers = SignedConvs \cup UnsignedConvs
    BY DEF Numbers
  <2>4. \A convs : Of(convs) = (conv \in convs)
    BY DEF Of
  <2> HIDE DEF d, a, conv
  <2>5. NumberLength = Wide(d, a, BaseOf(conv), Of(SignedConvs))
    <3>1. Base = BaseOf(conv)
      BY <2>4 DEF Base, BaseOf
    <3>2. call.arg = a
      BY DEF a
    <3> HIDE DEF BaseOf
    <3> QED
      BY <2>2, <3>1, <3>2 DEF NumberLength, Wide, Magnitude, PrefixLength
  <2>6. ASSUME Of(Numbers) PROVE Len(Field) = Larger(d.length, NumberLength)
    <3>1. conv \in SignedConvs \cup UnsignedConvs /\ Of(SignedConvs) = (conv \in SignedConvs)
      BY <2>3, <2>4, <2>6
    <3> QED
      BY <2>2, <2>5, <3>1, NumbersConverted
  <2>7. ASSUME Of({"p"}) PROVE Len(Field) = 2 + Larger(8, NumberLength)
    <3>1. conv = "p"
      BY <2>4, <2>7
    <3>2. BaseOf(conv) = 16
      BY <3>1 DEF BaseOf
    <3>3. Of(SignedConvs) = FALSE
      <4>1. conv \notin SignedConvs
        BY <3>1 DEF SignedConvs
      <4>2. (conv \in SignedConvs) = FALSE
        BY <4>1
      <4>3. Of(SignedConvs) = (conv \in SignedConvs)
        BY <2>4
      <4> QED
        BY <4>2, <4>3
    <3> QED
      BY <2>2, <2>5, <3>1, <3>2, <3>3, PointersConverted
  <2>8. ASSUME Of({"c"}) PROVE Len(Field) = 1
    <3>1. conv = "c"
      BY <2>4, <2>8
    <3>2. Field = <<a>>
      BY <2>2, <3>1 DEF Convert
    <3> QED
      BY <3>2
  <2>9. ASSUME Of({"s"})
        PROVE  LET cut == d.prec # -1 /\ d.prec < Len(a)
                   n   == IF cut THEN d.prec ELSE Len(a)
               IN  Len(Field) =
                     Larger(n, IF cut /\ d.ladjust THEN d.length - 1 ELSE d.length)
    <3>1. conv = "s"
      BY <2>4, <2>9
    <3>2. a \in Seq(Code \ {NUL}) /\ Field = PrintString(d, a)
      BY <2>2, <3>1 DEF Convert, ArgsFor, SignedConvs, UnsignedConvs
    <3>3. a \in Seq(Code) /\ Len(a) \in Nat
      BY <3>2, SeqMonotonic, LenProperties
    <3>4. d.prec \in Int /\ (Len(a) > d.prec <=> d.prec < Len(a))
      BY <2>2, <3>3 DEF Parsed
    <3>5. Shown(d, a) = IF d.prec # -1 /\ d.prec < Len(a) THEN d.prec ELSE Len(a)
      BY <3>4 DEF Shown
    <3>6. Len(Field) =
            LET cut == d.prec # -1 /\ d.prec < Len(a)
            IN  Larger(Shown(d, a), IF cut /\ d.ladjust THEN d.length - 1 ELSE d.length)
      BY <2>2, <3>2, <3>3, PrintStringIs
    <3> QED
      BY <3>5, <3>6
  <2>10. ASSUME Of({"t"})
         PROVE  Len(Field) = Larger(d.length,
                  (IF d.altfmt THEN 2 ELSE 0) +
                  (IF d.longopt > 0 THEN 17
                   ELSE DigitCount(a.task, 16) + 1 + DigitCount(a.lthread, 16)))
    <3>1. conv = "t"
      BY <2>4, <2>10
    <3>2. /\ a \in [task : 0 .. 2047, lthread : 0 .. 127, high : Nat, low : Nat]
          /\ Field = IF d.longopt = 0 THEN PrintThread(d, a) ELSE PrintThreadLong(d, a)
      BY <2>2, <3>1 DEF Convert, ArgsFor, SignedConvs, UnsignedConvs
    <3>3. a.task \in Nat /\ a.lthread \in 0 .. 127 /\ a.high \in Nat /\ a.low \in Nat
      BY SMTT(30), <3>2
    <3>4. d.longopt \in {0, 1}
      BY <2>2 DEF Parsed
    <3>5. CASE d.longopt = 0
      <4>1. ~(d.longopt > 0)
        BY <3>5
      <4> QED
        BY <2>2, <3>2, <3>3, <3>5, <4>1, PrintThreadIs
    <3>6. CASE d.longopt = 1
      <4>1. d.longopt > 0 /\ d.longopt # 0
        BY <3>6
      <4> QED
        BY <2>2, <3>2, <3>3, <4>1, PrintThreadLongIs
    <3> QED
      BY <3>4, <3>5, <3>6
  <2>11. Spec_ = d /\ call.arg = a /\ call # NoCall
    BY <2>2 DEF a
  <2> HIDE DEF d, a, conv
  <2> QED
    BY <2>6, <2>7, <2>8, <2>9, <2>10, <2>11 DEF FieldWidth
<1> QED
  BY <1>1, StdioInvariant, PTL
----------------------------------------------------------------------------
(* Every character has a digit value, and each digit printed has its own. *)
LEMMA DigitValues ==
    /\ \A c : DigitOf(c) \in 0 .. 36
    /\ \A k \in 0 .. 15 : DigitOf(digs(k)) = k
    /\ DigitOf(ZERO) = 0 /\ DigitOf(NUL) = 36 /\ DigitOf(BLANK) = 36
    /\ DigitOf(LOWER_X) >= 16 /\ DigitOf(88) >= 16 /\ DigitOf(MINUS) = 36
    /\ \A c : isspace(c) => DigitOf(c) = 36
    /\ \A c : DigitOf(c) \in Int
<1>1. \A c : DigitOf(c) \in 0 .. 36
  <2> TAKE c
  <2>1. CASE c \in 48 .. 57
    BY <2>1 DEF DigitOf
  <2>2. CASE c \in 97 .. 122
    BY <2>2 DEF DigitOf
  <2>3. CASE c \in 65 .. 90
    BY <2>3 DEF DigitOf
  <2> QED
    BY <2>1, <2>2, <2>3 DEF DigitOf
<1>2. \A k \in 0 .. 15 : DigitOf(digs(k)) = k
  <2> TAKE k \in 0 .. 15
  <2>1. CASE k < 10
    BY <2>1 DEF DigitOf, digs, ZERO
  <2>2. CASE ~(k < 10)
    BY <2>2 DEF DigitOf, digs, LOWER_A
  <2> QED
    BY <2>1, <2>2
<1>3. DigitOf(ZERO) = 0 /\ DigitOf(NUL) = 36 /\ DigitOf(BLANK) = 36 /\ DigitOf(MINUS) = 36
  BY DEF DigitOf, ZERO, NUL, BLANK, MINUS
<1>4. DigitOf(LOWER_X) >= 16 /\ DigitOf(88) >= 16
  BY DEF DigitOf, LOWER_X
<1>5. \A c : isspace(c) => DigitOf(c) = 36
  BY DEF isspace, DigitOf, BLANK
<1>6. \A c : DigitOf(c) \in Int
  <2> TAKE c
  <2>1. DigitOf(c) \in 0 .. 36
    BY <1>1
  <2> QED
    BY <2>1
<1> QED
  BY <1>1, <1>2, <1>3, <1>4, <1>5, <1>6

(* Half of a word. *)
LEMMA WordFacts ==
    /\ Word \in Nat /\ Word \div 2 \in Nat /\ Word \div 2 >= 1
    /\ Word = 2 * (Word \div 2)
<1> DEFINE h == Power(2, LONG_BITS - 1)
<1>1. LONG_BITS - 1 \in Nat /\ (LONG_BITS - 1) + 1 = LONG_BITS
  BY LongBitsAssumption
<1>2. h \in Nat /\ h >= 1
  BY <1>1, PowersOfTwo
<1>3. Power(2, LONG_BITS) = 2 * h
  BY <1>1, PowerIs, 2 \in Nat
<1> HIDE DEF h
<1> QED
  BY <1>2, <1>3 DEF Word

(* What the digits from p on come to, after each of them. *)
Value(q, p, base) ==
    CHOOSE h : h = [k \in Nat |->
      IF k = 0 THEN 0 ELSE (h[k - 1] * base + DigitOf(q[p + k - 1])) % Word]

ComesTo(h, q, p, base) ==
    /\ h[0] = 0
    /\ \A k \in Nat : /\ h[k] \in Nat
                       /\ h[k + 1] = (h[k] * base + DigitOf(q[p + k])) % Word

(* The characters w lie in q from the place z after p on. *)
Written(q, p, z, w) == \A k \in 1 .. Len(w) : q[p + (z + k - 1)] = w[k]

LEMMA ValueIs ==
    ASSUME NEW q, NEW p \in Nat, NEW base \in Nat
    PROVE  ComesTo(Value(q, p, base), q, p, base)
<1> DEFINE step == [x \in Nat \X Nat |-> (x[2] * base + DigitOf(q[p + x[1]])) % Word]
           f == Value(q, p, base)
<1>1. Word \in Nat \ {0}
  BY WordFacts
<1>2. \A k \in Nat : DigitOf(q[p + k]) \in Nat
  BY DigitValues
<1>3. \A k, v \in Nat : (v * base + DigitOf(q[p + k])) % Word \in Nat
  <2> TAKE k, v \in Nat
  <2> DEFINE x == v * base
             y == DigitOf(q[p + k])
  <2>1. x \in Nat /\ y \in Nat
    BY <1>2
  <2> HIDE DEF x, y
  <2>2. x + y \in Nat
    BY <2>1
  <2> DEFINE w == x + y
  <2> HIDE DEF w
  <2>3. w % Word \in Nat
    BY <1>1, <2>2 DEF w
  <2> QED
    BY <2>3 DEF w, x, y
<1>4. step \in [Nat \X Nat -> Nat]
  BY <1>3
<1>5. \A k, v \in Nat : step[<<k, v>>] = (v * base + DigitOf(q[p + k])) % Word
  <2> TAKE k, v \in Nat
  <2>1. <<k, v>> \in Nat \X Nat
    OBVIOUS
  <2> QED
    BY <2>1
<1> HIDE DEF step
<1>6. PICK g \in [Nat -> Nat] : Recurs(0, step, g)
  BY <1>4, RecursionExists, 0 \in Nat
<1>7. \A k \in Nat \ {0} : k - 1 \in Nat /\ (k - 1) + 1 = k /\ p + (k - 1) = p + k - 1
  OBVIOUS
<1>8. ASSUME NEW k \in Nat \ {0}
      PROVE  g[k] = (g[k - 1] * base + DigitOf(q[p + k - 1])) % Word
  <2>1. g[(k - 1) + 1] = step[<<k - 1, g[k - 1]>>]
    BY <1>6, <1>7 DEF Recurs
  <2>2. step[<<k - 1, g[k - 1]>>] = (g[k - 1] * base + DigitOf(q[p + (k - 1)])) % Word
    BY <1>5, <1>7
  <2> QED
    BY <1>7, <2>1, <2>2
<1>9. g = [k \in Nat |->
             IF k = 0 THEN 0 ELSE (g[k - 1] * base + DigitOf(q[p + k - 1])) % Word]
  BY <1>6, <1>8 DEF Recurs
<1>10. f = [k \in Nat |->
              IF k = 0 THEN 0 ELSE (f[k - 1] * base + DigitOf(q[p + k - 1])) % Word]
  BY <1>9 DEF Value
<1> HIDE DEF f
<1>11. \A k \in Nat : /\ k + 1 \in Nat /\ k + 1 # 0 /\ (k + 1) - 1 = k
                      /\ p + (k + 1) - 1 = p + k
  OBVIOUS
<1>12. f[0] = 0
  BY <1>10
<1>13. \A k \in Nat : f[k + 1] = (f[k] * base + DigitOf(q[p + k])) % Word
  <2> TAKE k \in Nat
  <2>1. f[k + 1] = (f[(k + 1) - 1] * base + DigitOf(q[p + (k + 1) - 1])) % Word
    BY <1>10, <1>11
  <2> QED
    BY <1>11, <2>1
<1> DEFINE P == {k \in Nat : f[k] \in Nat}
<1>14. P = Nat
  <2>1. 0 \in P
    BY <1>12
  <2>2. \A k \in P : k + 1 \in P
    <3> TAKE k \in P
    <3>1. k \in Nat /\ f[k] \in Nat
      OBVIOUS
    <3>2. f[k + 1] \in Nat
      BY ZenonT(40), <1>3, <1>13, <3>1
    <3> QED
      BY <3>1, <3>2
  <2>3. P \in SUBSET Nat
    OBVIOUS
  <2> HIDE DEF P
  <2> QED
    BY <2>1, <2>2, <2>3, SetInduction
<1>15. \A k \in Nat : f[k] \in Nat
  BY <1>14
<1> QED
  BY <1>12, <1>13, <1>15 DEF f, ComesTo

LEMMA DigitsAre ==
    ASSUME NEW q, NEW p \in Nat, NEW base \in Nat, NEW n \in Nat,
           \A k \in 0 .. n - 1 : DigitOf(q[p + k]) < base,
           DigitOf(q[p + n]) >= base
    PROVE  Digits(q, p, base) = [v |-> Value(q, p, base)[n], p |-> p + n]
<1> DEFINE stop == {k \in Nat : DigitOf(q[p + k]) >= base}
<1>1. \A k \in Nat : DigitOf(q[p + k]) \in Int
  BY DigitValues
<1>2. n \in stop /\ stop \in SUBSET Nat
  OBVIOUS
<1>3. \A k \in 0 .. n - 1 : k \notin stop
  BY <1>1
<1>4. Digits(q, p, base) =
        [v |-> Value(q, p, base)[Until(stop)], p |-> p + Until(stop)]
  BY DEF Digits, Value
<1> HIDE DEF stop
<1>5. Until(stop) = n
  BY <1>2, <1>3, UntilIs
<1> QED
  BY <1>4, <1>5

(* The digits that printnum prints are digits, and come to the number.     *)
LEMMA PrintedDigits ==
    ASSUME NEW b \in 2 .. 16
    PROVE  \A u \in Nat : /\ Len(printnum(u, b)) \in Nat \ {0}
                          /\ \A k \in 1 .. Len(printnum(u, b)) :
                               DigitOf(printnum(u, b)[k]) \in 0 .. b - 1
<1> DEFINE Good(w) == /\ Len(w) \in Nat \ {0}
                      /\ \A k \in 1 .. Len(w) : DigitOf(w[k]) \in 0 .. b - 1
           P == {u \in Nat : Good(printnum(u, b))}
<1>1. ASSUME NEW u \in Nat PROVE digs(u % b) \in Code /\ DigitOf(digs(u % b)) \in 0 .. b - 1
  <2>1. u % b \in 0 .. b - 1 /\ u % b \in 0 .. 15
    BY Quotients, b \in Nat, b >= 2
  <2> QED
    BY <2>1, DigitValues, DigitsPrinted
<1>2. ASSUME NEW u \in Nat, 0 .. u - 1 \subseteq P PROVE u \in P
  <2> DEFINE c == digs(u % b)
             w == printnum(u \div b, b)
  <2>1. /\ c \in Code /\ DigitOf(c) \in 0 .. b - 1
        /\ printnum(u, b) = (IF u < b THEN <<>> ELSE w) \o <<c>>
    BY <1>1, DigitsPrinted
  <2> HIDE DEF c
  <2>2. CASE u < b
    <3>1. printnum(u, b) = <<c>>
      BY <2>1, <2>2
    <3>2. Good(<<c>>)
      BY <2>1
    <3> QED
      BY <3>1, <3>2
  <2>3. CASE ~(u < b)
    <3>1. u \div b \in 0 .. u - 1
      <4>1. u \div b \in Nat /\ u \div b < u
        BY <2>3, Quotients, b \in Nat, b >= 2, u # 0
      <4> QED
        BY <4>1
    <3>2. Good(w)
      BY <1>2, <3>1
    <3>3. w \in Seq(Code)
      <4>1. u \div b \in Nat
        BY <3>1
      <4>2. w \in Seq(Code \ {NUL})
        BY <4>1, DigitsPrinted
      <4> QED
        BY <4>2, SeqMonotonic
    <3> DEFINE x == Append(w, c)
    <3>4. printnum(u, b) = x
      BY <2>1, <2>3, <3>3
    <3>5. /\ Len(x) = Len(w) + 1 /\ x[Len(w) + 1] = c
          /\ \A k \in 1 .. Len(w) : x[k] = w[k]
      BY <2>1, <3>3, AppendProperties
    <3> HIDE DEF x, w
    <3>6. \A k \in 1 .. Len(w) + 1 : k = Len(w) + 1 \/ k \in 1 .. Len(w)
      BY <3>2
    <3>7. Good(x)
      BY <2>1, <3>2, <3>5, <3>6
    <3> HIDE DEF Good
    <3> QED
      BY <3>4, <3>7
  <2> QED
    BY <2>2, <2>3
<1>3. P \in SUBSET Nat
  OBVIOUS
<1> HIDE DEF P
<1>4. P = Nat
  BY <1>2, <1>3, StrongInduction
<1> QED
  BY <1>4 DEF P

LEMMA NumberValue ==
    ASSUME NEW q, NEW p \in Nat, NEW b \in 2 .. 16, NEW z \in Nat,
           Value(q, p, b)[z] = 0, NEW v \in 0 .. Word - 1,
           Written(q, p, z, printnum(v, b))
    PROVE  Value(q, p, b)[z + Len(printnum(v, b))] = v
<1> DEFINE val == Value(q, p, b)
           At_(w) == \A k \in 1 .. Len(w) : q[p + (z + k - 1)] = w[k]
           P == {u \in Nat : u < Word /\ At_(printnum(u, b))
                                => val[z + Len(printnum(u, b))] = u}
<1>1. \A k \in Nat : /\ val[k] \in Nat
                     /\ val[k + 1] = (val[k] * b + DigitOf(q[p + k])) % Word
  <2>1. ComesTo(val, q, p, b)
    BY ValueIs, b \in Nat
  <2> QED
    BY <2>1 DEF ComesTo
<1>2. val[z] = 0
  OBVIOUS
<1>3. Word \in Nat
  BY WordFacts
<1>4. \A u \in Nat : u < Word => u % Word = u
  BY <1>3
<1> HIDE DEF val
<1>5. ASSUME NEW u \in Nat, 0 .. u - 1 \subseteq P PROVE u \in P
  <2> SUFFICES ASSUME u < Word, At_(printnum(u, b))
               PROVE  val[z + Len(printnum(u, b))] = u
    BY DEF P
  <2> DEFINE c == digs(u % b)
             w == printnum(u \div b, b)
  <2>1. /\ u % b \in 0 .. b - 1 /\ u \div b \in Nat
        /\ u = b * (u \div b) + (u % b) /\ (u # 0 => u \div b < u)
    BY Quotients, b \in Nat, b >= 2
  <2>2. c \in Code /\ DigitOf(c) = u % b
    <3>1. (u % b) \in 0 .. 15
      <4>1. (u % b) \in 0 .. b - 1
        BY <2>1
      <4> HIDE <2>1
      <4> QED
        BY <4>1
    <3>2. DigitOf(digs(u % b)) = (u % b)
      BY <3>1, DigitValues
    <3>3. digs(u % b) \in Code
      BY <3>1, DigitsPrinted
    <3> QED
      BY <3>2, <3>3
  <2>3. printnum(u, b) = (IF u < b THEN <<>> ELSE w) \o <<c>>
    BY DigitsPrinted
  <2> HIDE DEF c
  <2>4. CASE u < b
    <3>1. printnum(u, b) = <<c>>
      BY <2>2, <2>3, <2>4
    <3>2. q[p + (z + 1 - 1)] = c
      BY <3>1
    <3>3. z + 1 - 1 = z /\ (u % b) = u
      BY <2>4
    <3>4. val[z + 1] = (0 * b + u) % Word
      BY <1>1, <1>2, <2>2, <3>2, <3>3
    <3>5. 0 * b + u = u
      OBVIOUS
    <3>6. val[z + 1] = u
      BY <1>4, <3>4, <3>5
    <3>7. Len(<<c>>) = 1
      OBVIOUS
    <3> QED
      BY <3>1, <3>6, <3>7
  <2>5. CASE ~(u < b)
    <3>1. u \div b \in P /\ u \div b < Word
      <4> DEFINE r == u \div b
      <4>1. r \in Nat /\ r < u
        BY <2>1, <2>5
      <4> HIDE DEF r
      <4>2. r \in 0 .. u - 1 /\ r < Word
        BY <1>3, <4>1
      <4>3. r \in P
        BY <1>5, <4>2
      <4> QED
        BY <4>2, <4>3 DEF r
    <3>2. w \in Seq(Code)
      <4>1. w \in Seq(Code \ {NUL})
        BY <2>1, DigitsPrinted
      <4> QED
        BY <4>1, SeqMonotonic
    <3> DEFINE x == Append(w, c)
               n == Len(w)
    <3>3. printnum(u, b) = x
      BY <2>2, <2>3, <2>5, <3>2
    <3>4. /\ Len(x) = n + 1 /\ x[n + 1] = c /\ n \in Nat
          /\ \A k \in 1 .. n : x[k] = w[k]
      BY <2>2, <3>2, AppendProperties, LenProperties
    <3>5. At_(x)
      BY <3>3
    <3>6. val[z + n] = u \div b
      <4>1. At_(w) => val[z + n] = u \div b
        BY <3>1 DEF P
      <4> HIDE DEF x, w
      <4>2. \A k \in 1 .. n : k \in 1 .. n + 1
        BY <3>4
      <4>3. At_(w)
        BY <3>4, <3>5, <4>2
      <4> QED
        BY <4>1, <4>3
    <3>7. q[p + (z + (n + 1) - 1)] = c
      <4> HIDE DEF x, n
      <4>1. n + 1 \in 1 .. Len(x)
        BY <3>4
      <4> QED
        BY <3>4, <3>5, <4>1
    <3> HIDE DEF x, w, n
    <3>8. z + (n + 1) - 1 = z + n /\ z + n \in Nat /\ (z + n) + 1 = z + (n + 1)
      BY <3>4
    <3>9. val[(z + n) + 1] = ((u \div b) * b + (u % b)) % Word
      <4>1. val[(z + n) + 1] = (val[z + n] * b + DigitOf(q[p + (z + n)])) % Word
        BY <1>1, <3>8
      <4>2. DigitOf(q[p + (z + n)]) = (u % b)
        BY <2>2, <3>7, <3>8
      <4> QED
        BY <3>6, <4>1, <4>2
    <3>10. (u \div b) * b + (u % b) = u
      BY <2>1
    <3>11. val[z + (n + 1)] = u
      BY <1>4, <3>8, <3>9, <3>10
    <3> QED
      BY <3>3, <3>4, <3>11
  <2> QED
    BY <2>4, <2>5
<1>6. P \in SUBSET Nat
  OBVIOUS
<1> HIDE DEF P
<1>7. P = Nat
  BY <1>5, <1>6, StrongInduction
<1>8. v \in P /\ v < Word
  BY <1>3, <1>7
<1>9. At_(printnum(v, b))
  BY DEF Written
<1>10. val[z + Len(printnum(v, b))] = v
  BY <1>8, <1>9 DEF P
<1> QED
  BY <1>10 DEF val

(* What was printed is read, with the zeros in front of it. *)
LEMMA NumberRead ==
    ASSUME NEW q, NEW p \in Nat, NEW b \in 2 .. 16, NEW z \in Nat,
           NEW u \in 0 .. Word - 1,
           \A k \in 1 .. z : q[p + (k - 1)] = ZERO,
           Written(q, p, z, printnum(u, b)),
           q[p + (z + Len(printnum(u, b)))] \in {NUL, BLANK}
    PROVE  /\ Digits(q, p, b) = [v |-> u, p |-> p + (z + Len(printnum(u, b)))]
           /\ DigitOf(q[p]) < 16
           /\ q[p + 1] \notin {LOWER_X, 88}
<1> DEFINE n == Len(printnum(u, b))
           m == z + n
           val == Value(q, p, b)
<1>1. u \in Nat /\ b \in Nat /\ b \in Int /\ b <= 16 /\ b >= 2
  BY WordFacts
<1>2. n \in Nat \ {0} /\ \A k \in 1 .. n : DigitOf(printnum(u, b)[k]) \in 0 .. b - 1
  BY <1>1, PrintedDigits
<1>3. /\ \A k \in 1 .. z : q[p + (k - 1)] = ZERO
      /\ \A k \in 1 .. n : q[p + (z + k - 1)] = printnum(u, b)[k]
      /\ q[p + m] \in {NUL, BLANK}
  BY DEF Written
<1>4. /\ val[0] = 0
      /\ \A k \in Nat : /\ val[k] \in Nat
                        /\ val[k + 1] = (val[k] * b + DigitOf(q[p + k])) % Word
  <2>1. ComesTo(val, q, p, b)
    BY <1>1, ValueIs
  <2> QED
    BY <2>1 DEF ComesTo
<1> DEFINE P == {k \in Nat : k <= z => val[k] = 0}
<1> HIDE DEF n, val
<1>5. P = Nat
  <2>1. 0 \in P
    BY <1>4, 0 \in Nat
  <2>2. \A k \in P : k + 1 \in P
    <3> TAKE k \in P
    <3>1. CASE k + 1 <= z
      <4>1. k \in Nat /\ k + 1 \in 1 .. z /\ (k + 1) - 1 = k /\ k <= z
        BY <3>1
      <4>2. val[k] = 0
        BY <4>1
      <4>3. q[p + k] = ZERO
        BY <1>3, <4>1
      <4>4. DigitOf(q[p + k]) = 0
        BY <4>3, DigitValues
      <4>5. val[k + 1] = (val[k] * b + DigitOf(q[p + k])) % Word
        BY <1>4, <4>1
      <4>6. val[k + 1] = (0 * b + 0) % Word
        BY <4>2, <4>4, <4>5
      <4>7. 0 * b + 0 = 0 /\ 0 % Word = 0
        BY <1>1, WordFacts
      <4>8. val[k + 1] = 0
        BY <4>6, <4>7
      <4> QED
        BY <4>1, <4>8
    <3>2. CASE ~(k + 1 <= z)
      BY <3>2
    <3> QED
      BY <3>1, <3>2
  <2>3. P \in SUBSET Nat
    OBVIOUS
  <2> HIDE DEF P
  <2> QED
    BY <2>1, <2>2, <2>3, SetInduction
<1>6. Value(q, p, b)[z] = 0
  <2>1. z \in P /\ z <= z
    BY <1>5
  <2> QED
    BY <2>1 DEF val
<1>7. val[m] = u
  <2>2. Value(q, p, b)[z + Len(printnum(u, b))] = u
    BY <1>6, NumberValue
  <2> QED
    BY <2>2 DEF val, n
<1>8. ASSUME NEW k \in 0 .. m - 1 PROVE DigitOf(q[p + k]) < b
  <2>1. CASE k < z
    <3>1. k + 1 \in 1 .. z /\ (k + 1) - 1 = k
      BY <2>1
    <3>2. q[p + k] = ZERO
      BY <1>3, <3>1
    <3>3. DigitOf(q[p + k]) = 0
      BY <3>2, DigitValues
    <3> QED
      BY <1>1, <3>3
  <2>2. CASE ~(k < z)
    <3>1. k - z + 1 \in 1 .. n /\ z + (k - z + 1) - 1 = k
      BY <1>2, <2>2
    <3>2. q[p + (z + (k - z + 1) - 1)] = printnum(u, b)[k - z + 1]
      BY <1>3, <3>1
    <3>3. q[p + k] = printnum(u, b)[k - z + 1]
      BY <3>1, <3>2
    <3>4. DigitOf(q[p + k]) \in 0 .. b - 1
      BY <1>2, <3>1, <3>3
    <3> QED
      BY <1>1, <3>4
  <2> QED
    BY <2>1, <2>2
<1>9. DigitOf(q[p + m]) >= b /\ q[p + m] \notin {LOWER_X, 88}
  <2>1. DigitOf(q[p + m]) = 36
    <3>1. CASE q[p + m] = NUL
      BY <3>1, DigitValues
    <3>2. CASE q[p + m] = BLANK
      BY <3>2, DigitValues
    <3> QED
      BY <1>3, <3>1, <3>2
  <2>2. q[p + m] \notin {LOWER_X, 88}
    BY <1>3 DEF NUL, BLANK, LOWER_X
  <2> QED
    BY <1>1, <2>1, <2>2
<1>10. m \in Nat /\ m >= 1
  BY <1>2
<1> HIDE DEF m
<1>11. Digits(q, p, b) = [v |-> Value(q, p, b)[m], p |-> p + m]
  <2>1. \A k \in 0 .. m - 1 : DigitOf(q[p + k]) < b
    BY <1>8
  <2>2. m \in Nat /\ b \in Nat /\ p \in Nat /\ DigitOf(q[p + m]) >= b
    BY <1>1, <1>9, <1>10
  <2> QED
    BY <2>1, <2>2, DigitsAre
<1>12. DigitOf(q[p]) < 16
  <2>1. 0 \in 0 .. m - 1 /\ p + 0 = p
    BY <1>10
  <2>2. DigitOf(q[p + 0]) < b
    BY <1>8, <2>1
  <2>3. DigitOf(q[p]) \in Int
    BY DigitValues
  <2> QED
    BY <1>1, <2>1, <2>2, <2>3
<1>13. q[p + 1] \notin {LOWER_X, 88}
  <2>1. CASE m = 1
    BY <1>9, <2>1
  <2>2. CASE m # 1
    <3>1. 1 \in 0 .. m - 1
      BY <1>10, <2>2
    <3>2. DigitOf(q[p + 1]) < b
      BY <1>8, <3>1
    <3>3. DigitOf(q[p + 1]) \in Int
      BY DigitValues
    <3>4. DigitOf(q[p + 1]) < 16
      BY <1>1, <3>2, <3>3
    <3>5. DigitOf(LOWER_X) >= 16 /\ DigitOf(88) >= 16
      BY DigitValues
    <3>6. DigitOf(LOWER_X) \in Int /\ DigitOf(88) \in Int
      BY DigitValues
    <3> QED
      BY <3>3, <3>4, <3>5, <3>6
  <2> QED
    BY <2>1, <2>2
<1> QED
  BY <1>7, <1>11, <1>12, <1>13 DEF m, n, val

(* White space is skipped, and words end at it. *)
LEMMA SpaceSkipped ==
    ASSUME NEW q, NEW p \in Int, NEW n \in Nat,
           \A k \in 0 .. n - 1 : isspace(q[p + k]), ~isspace(q[p + n])
    PROVE  SkipSpace(q, p) = p + n
<1> DEFINE stop == {k \in Nat : ~isspace(q[p + k])}
<1>1. n \in stop /\ stop \in SUBSET Nat /\ \A k \in 0 .. n - 1 : k \notin stop
  OBVIOUS
<1>2. SkipSpace(q, p) = p + Until(stop)
  BY DEF SkipSpace
<1> HIDE DEF stop
<1> QED
  BY <1>1, <1>2, UntilIs

LEMMA WordEnds ==
    ASSUME NEW q, NEW p \in Int, NEW n \in Nat,
           \A k \in 0 .. n - 1 : ~isspace(q[p + k]), isspace(q[p + n])
    PROVE  WordEnd(q, p) = p + n
<1> DEFINE stop == {k \in Nat : isspace(q[p + k])}
<1>1. n \in stop /\ stop \in SUBSET Nat /\ \A k \in 0 .. n - 1 : k \notin stop
  OBVIOUS
<1>2. WordEnd(q, p) = p + Until(stop)
  BY DEF WordEnd
<1> HIDE DEF stop
<1> QED
  BY <1>1, <1>2, UntilIs
----------------------------------------------------------------------------
(* Where in a sequence another one lies. *)
Placed(q, r, o) == \A k \in 1 .. Len(r) : q[o + k] = r[k]

LEMMA PlacedIn ==
    ASSUME NEW x \in Seq(Code), NEW y \in Seq(Code)
    PROVE  /\ x \o y \in Seq(Code) /\ Len(x \o y) = Len(x) + Len(y)
           /\ Len(x) \in Nat /\ Len(y) \in Nat
           /\ Placed(x \o y, x, 0) /\ Placed(x \o y, y, Len(x))
           /\ \A r \in Seq(Code), o \in Nat :
                Placed(x, r, o) /\ o + Len(r) <= Len(x) => Placed(x \o y, r, o)
<1> DEFINE w == x \o y
<1>1. /\ w \in Seq(Code) /\ Len(w) = Len(x) + Len(y)
      /\ \A k \in 1 .. Len(x) + Len(y) :
           w[k] = IF k <= Len(x) THEN x[k] ELSE y[k - Len(x)]
  BY ConcatProperties
<1>2. PICK m \in Nat, n \in Nat : m = Len(x) /\ n = Len(y)
  BY LenProperties
<1> HIDE DEF w
<1>3. ASSUME NEW k \in 1 .. m PROVE w[k] = x[k]
  BY <1>1, <1>2
<1>4. ASSUME NEW k \in 1 .. n PROVE w[m + k] = y[k]
  <2>1. m + k \in 1 .. m + n /\ ~(m + k <= m) /\ (m + k) - m = k
    OBVIOUS
  <2> QED
    BY <1>1, <1>2, <2>1
<1>5. Placed(w, x, 0)
  <2> SUFFICES ASSUME NEW k \in 1 .. m PROVE w[0 + k] = x[k]
    BY <1>2 DEF Placed
  <2>1. 0 + k = k
    OBVIOUS
  <2> QED
    BY <1>3, <2>1
<1>6. Placed(w, y, Len(x))
  BY <1>2, <1>4 DEF Placed
<1>7. ASSUME NEW r \in Seq(Code), NEW o \in Nat, Placed(x, r, o), o + Len(r) <= Len(x)
      PROVE  Placed(w, r, o)
  <2>1. PICK l \in Nat : l = Len(r)
    BY LenProperties
  <2> SUFFICES ASSUME NEW k \in 1 .. l PROVE w[o + k] = r[k]
    BY <2>1 DEF Placed
  <2>2. o + k \in 1 .. m
    BY <1>2, <1>7, <2>1
  <2>3. x[o + k] = r[k]
    BY <1>7, <2>1 DEF Placed
  <2> QED
    BY <1>3, <2>2, <2>3
<1> QED
  BY <1>1, <1>2, <1>5, <1>6, <1>7 DEF w

(* Seven sequences, one after the other. *)
InRow(q, w, x1, x2, x3, x4, x5, x6, x7) ==
    LET n2 == Len(x1) + Len(x2)
        n3 == n2 + Len(x3)
        n4 == n3 + Len(x4)
        n5 == n4 + Len(x5)
        n6 == n5 + Len(x6)
    IN  /\ q \in Seq(Code) /\ w \in Seq(Code) /\ Len(w) = n6
        /\ Placed(q, x1, 0) /\ Placed(q, x2, Len(x1)) /\ Placed(q, x3, n2)
        /\ Placed(q, x4, n3) /\ Placed(q, x5, n4) /\ Placed(q, x6, n5)
        /\ Placed(q, x7, n6)

LEMMA PlacedInRow ==
    ASSUME NEW x1 \in Seq(Code), NEW x2 \in Seq(Code), NEW x3 \in Seq(Code),
           NEW x4 \in Seq(Code), NEW x5 \in Seq(Code), NEW x6 \in Seq(Code),
           NEW x7 \in Seq(Code)
    PROVE  InRow(x1 \o x2 \o x3 \o x4 \o x5 \o x6 \o x7,
                 x1 \o x2 \o x3 \o x4 \o x5 \o x6, x1, x2, x3, x4, x5, x6, x7)
<1> DEFINE Within(w, r, o) == Placed(w, r, o) /\ o + Len(r) <= Len(w)
           Joined_(w, y, z) ==
             /\ z \in Seq(Code) /\ Len(z) = Len(w) + Len(y)
             /\ Within(z, y, Len(w))
             /\ \A r \in Seq(Code), o \in Nat : Within(w, r, o) => Within(z, r, o)
<1>1. ASSUME NEW w \in Seq(Code), NEW y \in Seq(Code) PROVE Joined_(w, y, w \o y)
  <2>1. /\ w \o y \in Seq(Code) /\ Len(w \o y) = Len(w) + Len(y)
        /\ Len(w) \in Nat /\ Len(y) \in Nat
        /\ Placed(w \o y, y, Len(w))
        /\ \A r \in Seq(Code), o \in Nat :
             Placed(w, r, o) /\ o + Len(r) <= Len(w) => Placed(w \o y, r, o)
    BY PlacedIn
  <2>2. ASSUME NEW r \in Seq(Code), NEW o \in Nat, Within(w, r, o)
        PROVE  Within(w \o y, r, o)
    <3>1. Len(r) \in Nat
      BY LenProperties
    <3>2. Placed(w \o y, r, o)
      BY <2>1, <2>2
    <3> QED
      BY <2>1, <2>2, <3>1, <3>2
  <2> QED
    BY <2>1, <2>2
<1>2. Placed(x1, x1, 0)
  BY DEF Placed
<1>3. /\ Len(x1) \in Nat /\ Len(x2) \in Nat /\ Len(x3) \in Nat /\ Len(x4) \in Nat
      /\ Len(x5) \in Nat /\ Len(x6) \in Nat /\ Len(x7) \in Nat
  BY LenProperties
<1> DEFINE w2 == x1 \o x2
           w3 == w2 \o x3
           w4 == w3 \o x4
           w5 == w4 \o x5
           w6 == w5 \o x6
           w7 == w6 \o x7
<1>4. /\ Joined_(x1, x2, w2) /\ Joined_(w2, x3, w3) /\ Joined_(w3, x4, w4)
      /\ Joined_(w4, x5, w5) /\ Joined_(w5, x6, w6) /\ Joined_(w6, x7, w7)
  <2> HIDE DEF Joined_
  <2>1. Joined_(x1, x2, w2)
    BY <1>1
  <2>2. /\ w2 \in Seq(Code) /\ w3 \in Seq(Code) /\ w4 \in Seq(Code)
        /\ w5 \in Seq(Code) /\ w6 \in Seq(Code)
    BY ConcatProperties
  <2> HIDE DEF w2, w3, w4, w5, w6, w7
  <2>3. Joined_(w2, x3, w3)
    BY <1>1, <2>2 DEF w3
  <2>4. Joined_(w3, x4, w4)
    BY <1>1, <2>2 DEF w4
  <2>5. Joined_(w4, x5, w5)
    BY <1>1, <2>2 DEF w5
  <2>6. Joined_(w5, x6, w6)
    BY <1>1, <2>2 DEF w6
  <2>7. Joined_(w6, x7, w7)
    BY <1>1, <2>2 DEF w7
  <2> QED
    BY <2>1, <2>3, <2>4, <2>5, <2>6, <2>7
<1>5. w7 = x1 \o x2 \o x3 \o x4 \o x5 \o x6 \o x7 /\ w6 = x1 \o x2 \o x3 \o x4 \o x5 \o x6
  OBVIOUS
<1> DEFINE n1 == Len(x1)
           n2 == n1 + Len(x2)
           n3 == n2 + Len(x3)
           n4 == n3 + Len(x4)
           n5 == n4 + Len(x5)
           n6 == n5 + Len(x6)
<1>6. /\ n1 \in Nat /\ n2 \in Nat /\ n3 \in Nat /\ n4 \in Nat /\ n5 \in Nat /\ n6 \in Nat
      /\ 0 \in Nat
  BY <1>3
<1> HIDE DEF w2, w3, w4, w5, w6, w7
<1>7. /\ Len(w2) = n2 /\ Len(w3) = n3 /\ Len(w4) = n4 /\ Len(w5) = n5 /\ Len(w6) = n6
      /\ w7 \in Seq(Code) /\ w6 \in Seq(Code)
  BY <1>4
<1>8. Within(x1, x1, 0)
  BY <1>2, <1>3
<1> HIDE DEF Within
<1>9. /\ Within(w2, x1, 0) /\ Within(w2, x2, n1)
  BY <1>4, <1>6, <1>8 DEF n1
<1> HIDE DEF n1, n2, n3, n4, n5, n6
<1>10. /\ Within(w3, x1, 0) /\ Within(w3, x2, n1) /\ Within(w3, x3, n2)
  BY <1>4, <1>6, <1>7, <1>9
<1>11. /\ Within(w4, x1, 0) /\ Within(w4, x2, n1) /\ Within(w4, x3, n2)
       /\ Within(w4, x4, n3)
  BY <1>4, <1>6, <1>7, <1>10
<1>12. /\ Within(w5, x1, 0) /\ Within(w5, x2, n1) /\ Within(w5, x3, n2)
       /\ Within(w5, x4, n3) /\ Within(w5, x5, n4)
  BY <1>4, <1>6, <1>7, <1>11
<1>13. /\ Within(w6, x1, 0) /\ Within(w6, x2, n1) /\ Within(w6, x3, n2)
       /\ Within(w6, x4, n3) /\ Within(w6, x5, n4) /\ Within(w6, x6, n5)
  BY <1>4, <1>6, <1>7, <1>12
<1>14. /\ Within(w7, x1, 0) /\ Within(w7, x2, n1) /\ Within(w7, x3, n2)
       /\ Within(w7, x4, n3) /\ Within(w7, x5, n4) /\ Within(w7, x6, n5)
       /\ Within(w7, x7, n6)
  BY <1>4, <1>6, <1>7, <1>13
<1>15. /\ Placed(w7, x1, 0) /\ Placed(w7, x2, n1) /\ Placed(w7, x3, n2)
       /\ Placed(w7, x4, n3) /\ Placed(w7, x5, n4) /\ Placed(w7, x6, n5)
       /\ Placed(w7, x7, n6)
  BY <1>14 DEF Within
<1> QED
  BY <1>5, <1>7, <1>15 DEF InRow, n1, n2, n3, n4, n5, n6

(* A number as it was printed: blanks, the sign, the prefix, zeros, the    *)
(* digits, blanks, and what comes after it.                                *)
Lies(q, m, g, h, z, num, r, tail) ==
    LET o == m + g + h + z + Len(num) IN
    /\ \A k \in 1 .. m : q[k] = BLANK
    /\ g = 1 => q[m + 1] = MINUS
    /\ h = 2 => q[m + g + 1] = ZERO /\ q[m + g + 2] = LOWER_X
    /\ \A k \in 1 .. z : q[m + g + h + k] = ZERO
    /\ Placed(q, num, m + g + h + z)
    /\ \A k \in 1 .. r : q[o + k] = BLANK
    /\ Placed(q, tail, o + r)

Minus(c) == IF c = MINUS THEN 1 ELSE 0
Hex(d, u, base) == IF u # 0 /\ d.altfmt /\ base = 16 THEN 2 ELSE 0

NumberLaid(d, u, c, base, tail) ==
    \E m, z, r \in Nat :
      /\ Lies(print_num(d, u, c, base) \o tail, m, Minus(c),
              Hex(d, u, base), z, printnum(u, base), r, tail)
      /\ u # 0 /\ d.altfmt /\ base = 8 => z >= 1
      /\ d.padc = ZERO /\ c = 0 => m = 0
      /\ Len(print_num(d, u, c, base)) =
           m + Minus(c) + Hex(d, u, base) + z + Len(printnum(u, base)) + r

LEMMA NumberLies ==
    ASSUME NEW d \in Parsed, NEW u \in Nat, NEW c \in {0, BLANK, MINUS},
           NEW base \in {8, 10, 16}, NEW tail \in Seq(Code)
    PROVE  /\ print_num(d, u, c, base) \o tail \in Seq(Code)
           /\ print_num(d, u, c, base) \in Seq(Code)
           /\ NumberLaid(d, u, c, base, tail)
<1> DEFINE num    == printnum(u, base)
           sign   == IF c = 0 THEN <<>> ELSE <<c>>
           prefix == CASE u # 0 /\ d.altfmt /\ base = 8  -> <<ZERO>>
                       [] u # 0 /\ d.altfmt /\ base = 16 -> <<ZERO, LOWER_X>>
                       [] OTHER -> <<>>
           room   == d.length - Len(num) - Len(sign) - Len(prefix)
           Pad(x, here) == IF here THEN Times(room, x) ELSE <<>>
           left   == Pad(BLANK, d.padc = BLANK /\ ~d.ladjust)
           zeros  == Pad(ZERO, d.padc = ZERO)
           right  == Pad(BLANK, d.padc = BLANK /\ d.ladjust)
           whole  == print_num(d, u, c, base)
           q      == whole \o tail
<1>1. whole = left \o sign \o prefix \o zeros \o num \o right
  BY DEF print_num
<1>2. num \in Seq(Code) /\ Len(num) \in Nat
  <2>1. base \in 2 .. 16
    OBVIOUS
  <2>2. num \in Seq(Code \ {NUL})
    BY <2>1, DigitsPrinted
  <2> QED
    BY <2>2, SeqMonotonic, LenProperties
<1>3. /\ sign \in Seq(Code) /\ Len(sign) = (IF c # 0 THEN 1 ELSE 0)
      /\ c # 0 => sign[1] = c
  BY CodesAre
<1>4. /\ prefix \in Seq(Code)
      /\ CASE u # 0 /\ d.altfmt /\ base = 8 -> Len(prefix) = 1 /\ prefix[1] = ZERO
           [] u # 0 /\ d.altfmt /\ base = 16 ->
                Len(prefix) = 2 /\ prefix[1] = ZERO /\ prefix[2] = LOWER_X
           [] OTHER -> Len(prefix) = 0
  BY CodesAre
<1>5. /\ d.length \in Nat /\ d.altfmt \in BOOLEAN /\ d.ladjust \in BOOLEAN
      /\ d.padc \in {BLANK, ZERO}
  BY DEF Parsed
<1>6. Len(sign) \in Nat /\ Len(prefix) \in Nat /\ room \in Int
  BY <1>2, <1>3, <1>4, <1>5, LenProperties
<1> HIDE DEF num, sign, prefix, room
<1>7. \A x \in {BLANK, ZERO}, here \in BOOLEAN :
        /\ Pad(x, here) \in Seq(Code)
        /\ \A k \in 1 .. Len(Pad(x, here)) : Pad(x, here)[k] = x
        /\ ~here => Len(Pad(x, here)) = 0
  <2> TAKE x \in {BLANK, ZERO}, here \in BOOLEAN
  <2>1. x \in Code
    BY CodesAre
  <2>2. /\ Times(room, x) \in Seq(Code)
        /\ Len(Times(room, x)) = IF room > 0 THEN room ELSE 0
        /\ \A k \in 1 .. room : Times(room, x)[k] = x
    BY <1>6, <2>1, TimesFacts
  <2>3. <<>> \in Seq(Code) /\ Len(<<>>) = 0
    BY CodesAre
  <2>4. CASE here
    <3>1. Pad(x, here) = Times(room, x)
      BY <2>4
    <3>2. \A k \in 1 .. Len(Times(room, x)) : k \in 1 .. room
      BY <1>6, <2>2
    <3> QED
      BY <2>2, <2>4, <3>1, <3>2
  <2>5. CASE ~here
    BY <2>3, <2>5
  <2> QED
    BY <2>4, <2>5
<1> HIDE DEF Pad
<1>8. /\ left \in Seq(Code) /\ zeros \in Seq(Code) /\ right \in Seq(Code)
      /\ \A k \in 1 .. Len(left) : left[k] = BLANK
      /\ \A k \in 1 .. Len(zeros) : zeros[k] = ZERO
      /\ \A k \in 1 .. Len(right) : right[k] = BLANK
      /\ ~(d.padc = BLANK) => Len(left) = 0
  <2>1. /\ (d.padc = BLANK /\ ~d.ladjust) \in BOOLEAN
        /\ (d.padc = ZERO) \in BOOLEAN /\ (d.padc = BLANK /\ d.ladjust) \in BOOLEAN
        /\ BLANK \in {BLANK, ZERO} /\ ZERO \in {BLANK, ZERO}
    OBVIOUS
  <2>2. /\ left \in Seq(Code) /\ \A k \in 1 .. Len(left) : left[k] = BLANK
        /\ ~(d.padc = BLANK /\ ~d.ladjust) => Len(left) = 0
    BY <1>7, <2>1
  <2>3. zeros \in Seq(Code) /\ \A k \in 1 .. Len(zeros) : zeros[k] = ZERO
    BY <1>7, <2>1
  <2>4. right \in Seq(Code) /\ \A k \in 1 .. Len(right) : right[k] = BLANK
    BY <1>7, <2>1
  <2> QED
    BY <2>2, <2>3, <2>4
<1> HIDE DEF left, zeros, right
<1>9. PICK a \in Nat, e \in Nat, f \in Nat, b \in Nat, n \in Nat, r \in Nat :
        /\ a = Len(left) /\ e = Len(sign) /\ f = Len(prefix) /\ b = Len(zeros)
        /\ n = Len(num) /\ r = Len(right)
  BY <1>2, <1>6, <1>8, LenProperties
<1>10. /\ q \in Seq(Code) /\ whole \in Seq(Code)
       /\ Len(whole) = a + e + f + b + n + r
       /\ Placed(q, left, 0) /\ Placed(q, sign, a) /\ Placed(q, prefix, a + e)
       /\ Placed(q, zeros, a + e + f) /\ Placed(q, num, a + e + f + b)
       /\ Placed(q, right, a + e + f + b + n)
       /\ Placed(q, tail, a + e + f + b + n + r)
  <2>1. q = left \o sign \o prefix \o zeros \o num \o right \o tail
    BY <1>1
  <2>2. /\ left \in Seq(Code) /\ sign \in Seq(Code) /\ prefix \in Seq(Code)
        /\ zeros \in Seq(Code) /\ num \in Seq(Code) /\ right \in Seq(Code)
    BY <1>2, <1>3, <1>4, <1>8
  <2>3. InRow(left \o sign \o prefix \o zeros \o num \o right \o tail,
              left \o sign \o prefix \o zeros \o num \o right,
              left, sign, prefix, zeros, num, right, tail)
    BY <2>2, PlacedInRow
  <2> HIDE DEF whole, q
  <2>4. InRow(q, whole, left, sign, prefix, zeros, num, right, tail)
    BY <1>1, <2>1, <2>3
  <2> QED
    BY <1>9, <2>4 DEF InRow
<1> HIDE DEF whole, q
<1>11. /\ e = IF c # 0 THEN 1 ELSE 0
       /\ e = 1 => q[a + 1] = c
  <2>1. e = IF c # 0 THEN 1 ELSE 0
    BY <1>3, <1>9
  <2>2. ASSUME e = 1 PROVE q[a + 1] = c
    <3>1. c # 0 /\ 1 \in 1 .. Len(sign)
      BY <1>9, <2>1, <2>2
    <3> QED
      BY <1>3, <1>10, <3>1 DEF Placed
  <2> QED
    BY <2>1, <2>2
<1>12. /\ f = IF u # 0 /\ d.altfmt /\ base = 8 THEN 1 ELSE Hex(d, u, base)
       /\ f = 1 => q[a + e + 1] = ZERO
       /\ f = 2 => q[a + e + 1] = ZERO /\ q[a + e + 2] = LOWER_X
  <2>1. \A k \in 1 .. f : q[a + e + k] = prefix[k]
    BY <1>9, <1>10 DEF Placed
  <2>2. CASE u # 0 /\ d.altfmt /\ base = 8
    <3>1. f = 1 /\ prefix[1] = ZERO
      BY <1>4, <1>9, <2>2
    <3> QED
      BY <2>1, <2>2, <3>1
  <2>3. CASE u # 0 /\ d.altfmt /\ base = 16
    <3>1. f = 2 /\ prefix[1] = ZERO /\ prefix[2] = LOWER_X
      BY <1>4, <1>9, <2>3
    <3>2. 1 \in 1 .. f /\ 2 \in 1 .. f
      BY <3>1
    <3> QED
      BY <2>1, <2>3, <3>1, <3>2 DEF Hex
  <2>4. CASE ~(u # 0 /\ d.altfmt /\ (base = 8 \/ base = 16))
    <3>1. f = 0
      BY <1>4, <1>9, <2>4
    <3> QED
      BY <2>4, <3>1 DEF Hex
  <2> QED
    BY <2>2, <2>3, <2>4
<1>13. /\ \A k \in 1 .. a : q[k] = BLANK
       /\ \A k \in 1 .. b : q[a + e + f + k] = ZERO
       /\ \A k \in 1 .. r : q[a + e + f + b + n + k] = BLANK
  <2>1. \A k \in 1 .. a : q[0 + k] = BLANK /\ 0 + k = k
    BY <1>8, <1>9, <1>10 DEF Placed
  <2>2. \A k \in 1 .. b : q[a + e + f + k] = ZERO
    BY <1>8, <1>9, <1>10 DEF Placed
  <2>3. \A k \in 1 .. r : q[a + e + f + b + n + k] = BLANK
    BY <1>8, <1>9, <1>10 DEF Placed
  <2> QED
    BY <2>1, <2>2, <2>3
<1> DEFINE m == a + (IF c = BLANK THEN 1 ELSE 0)
           g == Minus(c)
           h == Hex(d, u, base)
           z == b + (IF f = 1 THEN 1 ELSE 0)
<1>14. BLANK # 0 /\ MINUS # 0 /\ BLANK # MINUS /\ BLANK # ZERO
  BY DEF BLANK, MINUS, ZERO
<1>15. /\ m \in Nat /\ g \in {0, 1} /\ h \in {0, 2} /\ z \in Nat /\ f \in {0, 1, 2}
       /\ m + g = a + e /\ h + z = f + b
       /\ (f = 1 => h = 0) /\ (f # 1 => h = f)
       /\ (g = 1 => m = a /\ e = 1 /\ c = MINUS)
  BY <1>11, <1>12, <1>14 DEF Minus, Hex
<1>16. \A k \in 1 .. m : q[k] = BLANK
  <2>1. CASE c = BLANK
    <3>1. m = a + 1 /\ q[a + 1] = BLANK
      BY <1>11, <1>14, <2>1
    <3>2. \A k \in 1 .. m : k \in 1 .. a \/ k = a + 1
      BY <3>1
    <3> QED
      BY <1>13, <3>1, <3>2
  <2>2. CASE c # BLANK
    BY <1>13, <2>2
  <2> QED
    BY <2>1, <2>2
<1> HIDE DEF m, g, h, z
<1>17. g = 1 => q[m + 1] = MINUS
  BY <1>11, <1>15
<1>18. h = 2 => q[m + g + 1] = ZERO /\ q[m + g + 2] = LOWER_X
  <2> SUFFICES ASSUME h = 2 PROVE q[m + g + 1] = ZERO /\ q[m + g + 2] = LOWER_X
    OBVIOUS
  <2>1. f = 2 /\ m + g + 1 = a + e + 1 /\ m + g + 2 = a + e + 2
    BY <1>15
  <2> QED
    BY <1>12, <2>1
<1>19. ASSUME NEW k \in 1 .. z PROVE q[m + g + h + k] = ZERO
  <2>1. CASE f = 1
    <3>1. z = b + 1 /\ h = 0
      BY <1>15, <2>1 DEF z
    <3>2. CASE k = 1
      <4>1. m + g + h + k = a + e + 1
        BY <1>15, <3>1, <3>2
      <4> QED
        BY <1>12, <2>1, <4>1
    <3>3. CASE k # 1
      <4>1. k - 1 \in 1 .. b /\ m + g + h + k = a + e + f + (k - 1)
        BY <1>15, <2>1, <3>1, <3>3
      <4> QED
        BY <1>13, <4>1
    <3> QED
      BY <3>2, <3>3
  <2>2. CASE f # 1
    <3>1. z = b /\ h = f /\ m + g + h + k = a + e + f + k
      BY <1>15, <2>2 DEF z
    <3> QED
      BY <1>13, <3>1
  <2> QED
    BY <2>1, <2>2
<1>20. m + g + h + z = a + e + f + b
  BY <1>15
<1> DEFINE o == m + g + h + z + Len(num)
<1>21. o = a + e + f + b + n /\ o + r = a + e + f + b + n + r
  BY <1>9, <1>20
<1> HIDE DEF o
<1>22. Placed(q, num, m + g + h + z) /\ Placed(q, tail, o + r)
  BY <1>10, <1>20, <1>21
<1>23. \A k \in 1 .. r : q[o + k] = BLANK
  BY <1>13, <1>21
<1>24. Lies(q, m, g, h, z, num, r, tail)
  BY <1>16, <1>17, <1>18, <1>19, <1>22, <1>23 DEF Lies, o
<1>25. u # 0 /\ d.altfmt /\ base = 8 => z >= 1
  BY <1>12 DEF z
<1>26. d.padc = ZERO /\ c = 0 => m = 0
  <2> SUFFICES ASSUME d.padc = ZERO, c = 0 PROVE m = 0
    OBVIOUS
  <2>1. a = 0
    BY <1>8, <1>9, <1>14
  <2> QED
    BY <1>14, <2>1 DEF m
<1>27. Len(whole) = m + g + h + z + Len(num) + r
  BY <1>10, <1>21 DEF o
<1> QED
  BY <1>10, <1>15, <1>24, <1>25, <1>26, <1>27
     DEF NumberLaid, q, whole, num, g, h

(* What such a number is read as, digit by digit. *)
Readable(q, m, g, h, z, b, u, r, tail) ==
    /\ m \in Nat /\ z \in Nat /\ r \in Nat /\ g \in {0, 1} /\ h \in {0, 2}
    /\ b \in {8, 10, 16} /\ u \in 0 .. Word - 1
    /\ tail \in Seq(Code) /\ Len(tail) >= 1 /\ tail[1] \in {NUL, BLANK}
    /\ Lies(q, m, g, h, z, printnum(u, b), r, tail)
    /\ h = 2 => b = 16

LEMMA LaidDigits ==
    ASSUME NEW q, NEW m, NEW g, NEW h, NEW z, NEW b, NEW u, NEW r, NEW tail,
           Readable(q, m, g, h, z, b, u, r, tail)
    PROVE  /\ Digits(q, m + g + h + 1, b) =
                [v |-> u, p |-> m + g + h + 1 + (z + Len(printnum(u, b)))]
           /\ DigitOf(q[m + g + h + 1]) < 16
           /\ q[m + g + h + 2] \notin {LOWER_X, 88}
           /\ Len(printnum(u, b)) \in Nat \ {0}
<1> DEFINE w == m + g + h
           p == m + g + h + 1
           num == printnum(u, b)
           n == Len(num)
           o == w + z + n
<1>1. /\ m \in Nat /\ z \in Nat /\ r \in Nat /\ g \in {0, 1} /\ h \in {0, 2}
      /\ b \in {8, 10, 16} /\ u \in 0 .. Word - 1 /\ u \in Nat /\ b \in 2 .. 16
  BY WordFacts DEF Readable
<1>2. tail \in Seq(Code) /\ Len(tail) >= 1 /\ tail[1] \in {NUL, BLANK}
  BY DEF Readable
<1>3. /\ \A k \in 1 .. z : q[w + k] = ZERO
      /\ Placed(q, num, w + z)
      /\ \A k \in 1 .. r : q[o + k] = BLANK
      /\ Placed(q, tail, o + r)
  BY DEF Readable, Lies
<1>4. n \in Nat \ {0}
  BY <1>1, PrintedDigits
<1>5. w \in Nat /\ p \in Nat /\ p = w + 1
  BY <1>1
<1> HIDE DEF w, p, num, n
<1>6. \A k \in 1 .. z : q[p + (k - 1)] = ZERO
  <2> TAKE k \in 1 .. z
  <2>1. p + (k - 1) = w + k
    BY <1>1, <1>5
  <2> QED
    BY <1>3, <2>1
<1>7. Written(q, p, z, num)
  <2> SUFFICES ASSUME NEW k \in 1 .. n PROVE q[p + (z + k - 1)] = num[k]
    BY DEF Written, n
  <2>1. p + (z + k - 1) = w + z + k
    BY <1>1, <1>4, <1>5
  <2>2. q[w + z + k] = num[k]
    BY <1>3 DEF Placed, n
  <2> QED
    BY <2>1, <2>2
<1>8. q[p + (z + n)] \in {NUL, BLANK}
  <2>1. p + (z + n) = o + 1 /\ o \in Nat
    BY <1>1, <1>4, <1>5
  <2> HIDE DEF o
  <2>2. CASE r = 0
    <3>1. o + r + 1 = o + 1 /\ 1 \in 1 .. Len(tail)
      BY <1>2, <2>1, <2>2, LenProperties
    <3>2. q[o + r + 1] = tail[1]
      BY <1>3, <3>1 DEF Placed
    <3> QED
      BY <1>2, <2>1, <3>1, <3>2
  <2>3. CASE r # 0
    <3>1. 1 \in 1 .. r
      BY <1>1, <2>3
    <3> QED
      BY <1>3, <2>1, <3>1
  <2> QED
    BY <2>2, <2>3
<1>9. /\ Digits(q, p, b) = [v |-> u, p |-> p + (z + n)]
      /\ DigitOf(q[p]) < 16 /\ q[p + 1] \notin {LOWER_X, 88}
  BY ZenonT(40), <1>1, <1>5, <1>6, <1>7, <1>8, NumberRead DEF num, n
<1>10. p + 1 = m + g + h + 2
  BY <1>1 DEF p
<1> QED
  BY <1>4, <1>9, <1>10 DEF p, num, n

(* The blanks before it are skipped; what follows them is the sign or, if  *)
(* there is none, the prefix or a digit.                                   *)
LEMMA LaidStart ==
    ASSUME NEW q, NEW m, NEW g, NEW h, NEW z, NEW b, NEW u, NEW r, NEW tail,
           Readable(q, m, g, h, z, b, u, r, tail)
    PROVE  /\ SkipSpace(q, 1) = m + 1
           /\ q[m + 1] = MINUS <=> g = 1
<1>1. /\ m \in Nat /\ g \in {0, 1} /\ h \in {0, 2} /\ z \in Nat
  BY DEF Readable
<1>2. /\ \A k \in 1 .. m : q[k] = BLANK
      /\ g = 1 => q[m + 1] = MINUS
      /\ h = 2 => q[m + g + 1] = ZERO
  BY DEF Readable, Lies
<1>3. DigitOf(q[m + g + h + 1]) < 16
  BY LaidDigits
<1>4. g = 0 => DigitOf(q[m + 1]) < 16
  <2> SUFFICES ASSUME g = 0 PROVE DigitOf(q[m + 1]) < 16
    OBVIOUS
  <2>1. CASE h = 0
    <3>1. m + g + h + 1 = m + 1
      BY <1>1, <2>1
    <3> QED
      BY <1>3, <3>1
  <2>2. CASE h = 2
    <3>1. m + g + 1 = m + 1
      BY <1>1
    <3>2. q[m + 1] = ZERO
      BY <1>2, <2>2, <3>1
    <3>3. DigitOf(q[m + 1]) = 0
      BY <3>2, DigitValues
    <3> QED
      BY <3>3
  <2> QED
    BY <1>1, <2>1, <2>2
<1>5. \A c : DigitOf(c) < 16 => ~isspace(c) /\ c # MINUS
  <2> SUFFICES ASSUME NEW c, DigitOf(c) < 16 PROVE ~isspace(c) /\ c # MINUS
    OBVIOUS
  <2>1. isspace(c) => DigitOf(c) = 36
    BY DigitValues
  <2>2. c = MINUS => DigitOf(c) = 36
    BY DigitValues
  <2>3. DigitOf(c) # 36
    OBVIOUS
  <2> QED
    BY <2>1, <2>2, <2>3
<1>6. q[m + 1] = MINUS <=> g = 1
  <2>1. CASE g = 1
    BY <1>2, <2>1
  <2>2. CASE g = 0
    <3>1. q[m + 1] # MINUS
      BY <1>4, <1>5, <2>2
    <3> QED
      BY <2>2, <3>1
  <2> QED
    BY <1>1, <2>1, <2>2
<1>7. ~isspace(q[m + 1])
  <2>1. CASE g = 1
    BY <1>2, <2>1 DEF isspace, MINUS, BLANK
  <2>2. CASE g = 0
    BY <1>4, <1>5, <2>2
  <2> QED
    BY <1>1, <2>1, <2>2
<1>8. SkipSpace(q, 1) = 1 + m
  <2>1. \A k \in 0 .. m - 1 : isspace(q[1 + k])
    <3> TAKE k \in 0 .. m - 1
    <3>1. 1 + k \in 1 .. m
      BY <1>1
    <3>2. q[1 + k] = BLANK
      BY <1>2, <3>1
    <3> QED
      BY <3>2 DEF isspace
  <2>2. 1 + m = m + 1 /\ 1 \in Int
    BY <1>1
  <2>3. ~isspace(q[1 + m])
    BY <1>7, <2>2
  <2> QED
    BY <1>1, <2>1, <2>2, <2>3, SpaceSkipped
<1>9. 1 + m = m + 1
  BY <1>1
<1> QED
  BY <1>6, <1>8, <1>9

(* The radix that is found in it. *)
Based(q, m, g, h, z, b, u) ==
    /\ Radix(q, m + g + 1, b) = [base |-> b, p |-> m + g + h + 1]
    /\ h = 2 => Radix(q, m + g + 1, 0) = [base |-> b, p |-> m + g + h + 1]
    /\ h = 0 /\ (z >= 1 \/ u = 0)
         => Radix(q, m + g + 1, 0) = [base |-> 8, p |-> m + g + h + 1]

LEMMA LaidRadix ==
    ASSUME NEW q, NEW m, NEW g, NEW h, NEW z, NEW b, NEW u, NEW r, NEW tail,
           Readable(q, m, g, h, z, b, u, r, tail)
    PROVE  Based(q, m, g, h, z, b, u)
<1>1. /\ m \in Nat /\ g \in {0, 1} /\ h \in {0, 2} /\ z \in Nat /\ b \in {8, 10, 16}
      /\ h = 2 => b = 16
      /\ b \in 2 .. 16
  BY DEF Readable
<1> DEFINE p == m + g + 1
<1>2. p \in Nat /\ (h = 0 => m + g + h + 1 = p) /\ (h = 2 => m + g + h + 1 = p + 2)
      /\ m + g + 2 = p + 1
  BY <1>1
<1>3. /\ h = 2 => q[m + g + 1] = ZERO /\ q[m + g + 2] = LOWER_X
      /\ \A k \in 1 .. z : q[m + g + h + k] = ZERO
      /\ Placed(q, printnum(u, b), m + g + h + z)
  BY DEF Readable, Lies
<1>4. h = 0 => q[p + 1] \notin {LOWER_X, 88}
  <2>1. /\ Digits(q, m + g + h + 1, b) =
             [v |-> u, p |-> m + g + h + 1 + (z + Len(printnum(u, b)))]
        /\ DigitOf(q[m + g + h + 1]) < 16
        /\ q[m + g + h + 2] \notin {LOWER_X, 88}
        /\ Len(printnum(u, b)) \in Nat \ {0}
    BY LaidDigits, Zenon
  <2>2. h = 0 => m + g + h + 2 = p + 1
    BY <1>1
  <2> QED
    BY <2>1, <2>2
<1>5. h = 0 /\ (z >= 1 \/ u = 0) => q[p] = ZERO
  <2> SUFFICES ASSUME h = 0, z >= 1 \/ u = 0 PROVE q[p] = ZERO
    OBVIOUS
  <2>1. CASE z >= 1
    <3>1. 1 \in 1 .. z /\ m + g + h + 1 = p
      BY <1>1, <2>1
    <3> QED
      BY <1>3, <3>1
  <2>2. CASE z = 0 /\ u = 0
    <3>1. printnum(0, b) = <<digs(0 % b)>>
      <4>1. printnum(0, b) = (IF 0 < b THEN <<>> ELSE printnum(0 \div b, b)) \o <<digs(0 % b)>>
            /\ digs(0 % b) \in Code
        BY <1>1, DigitsPrinted, 0 \in Nat
      <4>2. 0 < b
        BY <1>1
      <4> QED
        BY <4>1, <4>2
    <3>2. digs(0 % b) = ZERO
      <4>1. 0 % b = 0
        BY <1>1
      <4> QED
        BY <4>1 DEF digs, ZERO
    <3>3. m + g + h + z + 1 = p /\ m + g + h + z = m + g
      BY <1>1, <2>2
    <3>4. printnum(u, b) = <<ZERO>> /\ 1 \in 1 .. Len(<<ZERO>>) /\ <<ZERO>>[1] = ZERO
      BY <2>2, <3>1, <3>2
    <3>5. q[m + g + h + z + 1] = ZERO
      BY <1>3, <3>4 DEF Placed
    <3> QED
      BY <3>3, <3>5
  <2> QED
    BY <1>1, <2>1, <2>2
<1> HIDE DEF p
<1>6. CASE h = 2
  <2>1. q[p] = ZERO /\ q[p + 1] \in {LOWER_X, 88} /\ b = 16 /\ h # 0
    BY <1>1, <1>2, <1>3, <1>6 DEF p
  <2>2. Radix(q, p, 16) = [base |-> 16, p |-> p + 2]
    BY <2>1 DEF Radix
  <2>3. Radix(q, p, 0) = [base |-> 16, p |-> p + 2]
    BY <2>1 DEF Radix
  <2> QED
    BY <1>2, <1>6, <2>1, <2>2, <2>3 DEF p, Based
<1>7. CASE h = 0
  <2>1. h # 2 /\ m + g + h + 1 = p /\ b # 0
    BY <1>1, <1>2, <1>7
  <2>2. Radix(q, p, b) = [base |-> b, p |-> p]
    BY <1>4, <1>7, <2>1 DEF Radix
  <2>3. (z >= 1 \/ u = 0) => Radix(q, p, 0) = [base |-> 8, p |-> p]
    BY <1>4, <1>5, <1>7 DEF Radix
  <2> QED
    BY <1>7, <2>1, <2>2, <2>3 DEF p, Based
<1> QED
  BY <1>1, <1>6, <1>7

(* A number and its sign; the least long is its own negation. *)
LEMMA SignedAgain ==
    ASSUME NEW v \in Long
    PROVE  /\ v >= 0 => v \in 0 .. Word - 1 /\ Negated(v, FALSE) = v
           /\ v < 0 => -v \in 0 .. Word - 1 /\ Negated(-v, TRUE) = v
<1> DEFINE half == Word \div 2
<1>1. /\ Word \in Nat /\ half \in Nat /\ half >= 1 /\ Word = 2 * half
      /\ v \in Int /\ -half <= v /\ v <= half - 1
  BY WordFacts DEF Long
<1>2. ASSUME v >= 0 PROVE v \in 0 .. Word - 1 /\ Negated(v, FALSE) = v
  <2>1. v < half /\ v \in 0 .. Word - 1
    <3> HIDE DEF half
    <3> QED
      BY <1>1, <1>2
  <2> QED
    BY <2>1 DEF Negated, Signed
<1>3. ASSUME v < 0 PROVE -v \in 0 .. Word - 1 /\ Negated(-v, TRUE) = v
  <2> DEFINE w == Word + v
  <2>1. -v \in 0 .. Word - 1 /\ w \in Nat /\ w < Word /\ ~(w < half) /\ w - Word = v
    <3> HIDE DEF half
    <3> QED
      BY <1>1, <1>3
  <2>2. (-(-v)) % Word = w
    <3>1. -(-v) = v /\ v = Word * (-1) + w
      BY <1>1
    <3>2. v % Word = w
      <4> HIDE DEF w
      <4>1. Word > 0 /\ w \in 0 .. Word - 1
        BY <1>1, <2>1
      <4> QED
        BY <1>1, <3>1, <4>1
    <3> QED
      BY <3>1, <3>2
  <2> HIDE DEF w
  <2>3. Negated(-v, TRUE) = Signed(w)
    BY <2>2 DEF Negated
  <2> QED
    BY <2>1, <2>3 DEF Signed
<1> QED
  BY <1>2, <1>3

(* strtol, strtoul and atol read it. *)
LEMMA LaidRead ==
    ASSUME NEW q, NEW m, NEW g, NEW h, NEW z, NEW b, NEW u, NEW r, NEW tail,
           Readable(q, m, g, h, z, b, u, r, tail)
    PROVE  /\ strtol(q, b) = Negated(u, g = 1)
           /\ g = 0 => strtoul(q, b) = u
           /\ g = 0 /\ h = 2 => strtoul(q, 0) = u
           /\ g = 0 /\ h = 0 /\ b = 8 /\ (z >= 1 \/ u = 0) => strtoul(q, 0) = u
           /\ g = 0 /\ m = 0 /\ h = 0 /\ b = 10 => atol(q) = Signed(u)
<1>1. /\ m \in Nat /\ g \in {0, 1} /\ h \in {0, 2}
  BY DEF Readable
<1>2. SkipSpace(q, 1) = m + 1 /\ (q[m + 1] = MINUS <=> g = 1)
  BY LaidStart
<1>3. /\ Radix(q, m + g + 1, b) = [base |-> b, p |-> m + g + h + 1]
      /\ h = 2 => Radix(q, m + g + 1, 0) = [base |-> b, p |-> m + g + h + 1]
      /\ h = 0 /\ (z >= 1 \/ u = 0)
           => Radix(q, m + g + 1, 0) = [base |-> 8, p |-> m + g + h + 1]
  <2>1. Based(q, m, g, h, z, b, u)
    BY LaidRadix, Zenon
  <2> QED
    BY <2>1 DEF Based
<1>4. /\ Digits(q, m + g + h + 1, b) =
           [v |-> u, p |-> m + g + h + 1 + (z + Len(printnum(u, b)))]
      /\ DigitOf(q[m + g + h + 1]) < 16
      /\ q[m + g + h + 2] \notin {LOWER_X, 88}
      /\ Len(printnum(u, b)) \in Nat \ {0}
  BY LaidDigits, Zenon
<1> DEFINE p == m + g + h + 1
           neg == q[m + 1] = MINUS
<1>5. Digits(q, p, b).v = u
  BY <1>4
<1>6. (IF neg THEN (m + 1) + 1 ELSE m + 1) = m + g + 1
  BY <1>1, <1>2
<1>7. strtol(q, b) = Negated(u, g = 1)
  <2>1. strtol(q, b) =
          Negated(Digits(q, Radix(q, IF neg THEN (m + 1) + 1 ELSE m + 1, b).p,
                            Radix(q, IF neg THEN (m + 1) + 1 ELSE m + 1, b).base).v, neg)
    BY <1>2 DEF strtol
  <2>2. neg = (g = 1)
    BY <1>2
  <2> HIDE DEF neg, p
  <2>3. strtol(q, b) = Negated(Digits(q, p, b).v, neg)
    BY <1>3, <1>6, <2>1 DEF p
  <2> QED
    BY <1>5, <2>2, <2>3
<1>8. g = 0 => m + g + 1 = m + 1
  BY <1>1
<1>9. \A c : strtoul(q, c) =
               Digits(q, Radix(q, m + 1, c).p, Radix(q, m + 1, c).base).v
  BY <1>2 DEF strtoul
<1>10. g = 0 => strtoul(q, b) = u
  BY <1>3, <1>5, <1>8, <1>9
<1>11. g = 0 /\ h = 2 => strtoul(q, 0) = u
  BY <1>3, <1>5, <1>8, <1>9
<1>12. g = 0 /\ h = 0 /\ b = 8 /\ (z >= 1 \/ u = 0) => strtoul(q, 0) = u
  BY <1>3, <1>5, <1>8, <1>9
<1>13. g = 0 /\ m = 0 /\ h = 0 /\ b = 10 => atol(q) = Signed(u)
  <2>1. g = 0 /\ m = 0 /\ h = 0 => p = 1
    OBVIOUS
  <2> QED
    BY <1>5, <2>1 DEF atol
<1> QED
  BY <1>7, <1>10, <1>11, <1>12, <1>13

(* Zero is printed the same in every base. *)
LEMMA ZeroAlike ==
    ASSUME NEW b \in 2 .. 16
    PROVE  printnum(0, b) = <<ZERO>>
<1>1. /\ printnum(0, b) = (IF 0 < b THEN <<>> ELSE printnum(0 \div b, b)) \o <<digs(0 % b)>>
      /\ digs(0 % b) \in Code
  BY DigitsPrinted, 0 \in Nat
<1>2. 0 < b
  OBVIOUS
<1>3. 0 % b = 0
  OBVIOUS
<1>4. digs(0 % b) = ZERO
  BY <1>3 DEF digs, ZERO
<1> QED
  BY <1>1, <1>2, <1>4

(* A scan by a format of four that stops nowhere goes through all of it. *)
Passes(f) == f.conv = "" => isspace(f.c)

LEMMA FourScanned ==
    ASSUME NEW q, NEW f1, NEW f2, NEW f3, NEW f4,
           Passes(f1), Passes(f2), Passes(f3), Passes(f4)
    PROVE  sscanf(q, <<f1, f2, f3, f4>>) =
             Scanned(f4, q, Scanned(f3, q, Scanned(f2, q, Scanned(f1, q,
               [vals |-> 0, stored |-> <<>>, p |-> 1]))))
<1> DEFINE fmt == <<f1, f2, f3, f4>>
           s0 == [vals |-> 0, stored |-> <<>>, p |-> 1]
           s1 == Scanned(f1, q, s0)
           s2 == Scanned(f2, q, s1)
           s3 == Scanned(f3, q, s2)
           s4 == Scanned(f4, q, s3)
           e == [k \in 0 .. 4 |-> IF k = 0 THEN s0 ELSE IF k = 1 THEN s1
                                  ELSE IF k = 2 THEN s2 ELSE IF k = 3 THEN s3 ELSE s4]
           state == CHOOSE x : x = [k \in 0 .. Len(fmt) |->
                      IF k = 0 THEN s0 ELSE Scanned(fmt[k], q, x[k - 1])]
           Other(k) == /\ fmt[k + 1].conv = "" /\ ~isspace(fmt[k + 1].c)
                       /\ q[state[k].p] # fmt[k + 1].c
           stop == {k \in Nat : k = Len(fmt) \/ Other(k)}
<1>1. /\ Len(fmt) = 4 /\ fmt[1] = f1 /\ fmt[2] = f2 /\ fmt[3] = f3 /\ fmt[4] = f4
  OBVIOUS
<1>2. sscanf(q, fmt) = state[Until(stop)]
  BY DEF sscanf
<1> HIDE DEF s0, s1, s2, s3, s4, fmt
<1>3. /\ e[0] = s0 /\ e[1] = Scanned(f1, q, e[0]) /\ e[2] = Scanned(f2, q, e[1])
      /\ e[3] = Scanned(f3, q, e[2]) /\ e[4] = Scanned(f4, q, e[3]) /\ e[4] = s4
  <2>1. e[0] = s0 /\ e[1] = s1 /\ e[2] = s2 /\ e[3] = s3 /\ e[4] = s4
    OBVIOUS
  <2> HIDE DEF e
  <2>2. /\ s1 = Scanned(f1, q, s0) /\ s2 = Scanned(f2, q, s1)
        /\ s3 = Scanned(f3, q, s2) /\ s4 = Scanned(f4, q, s3)
    BY DEF s1, s2, s3, s4
  <2> QED
    BY <2>1, <2>2
<1>4. e = [k \in 0 .. 4 |-> e[k]]
  OBVIOUS
<1> HIDE DEF e
<1>5. e = [k \in 0 .. 4 |-> IF k = 0 THEN s0 ELSE Scanned(fmt[k], q, e[k - 1])]
  <2>1. ASSUME NEW k \in 0 .. 4
        PROVE  e[k] = IF k = 0 THEN s0 ELSE Scanned(fmt[k], q, e[k - 1])
    <3>1. CASE k = 0
      BY <1>3, <3>1
    <3>2. CASE k = 1
      <4>1. k - 1 = 0 /\ k # 0
        BY <3>2
      <4> QED
        BY <1>1, <1>3, <3>2, <4>1
    <3>3. CASE k = 2
      <4>1. k - 1 = 1 /\ k # 0
        BY <3>3
      <4> QED
        BY <1>1, <1>3, <3>3, <4>1
    <3>4. CASE k = 3
      <4>1. k - 1 = 2 /\ k # 0
        BY <3>4
      <4> QED
        BY <1>1, <1>3, <3>4, <4>1
    <3>5. CASE k = 4
      <4>1. k - 1 = 3 /\ k # 0
        BY <3>5
      <4> QED
        BY <1>1, <1>3, <3>5, <4>1
    <3> QED
      BY <3>1, <3>2, <3>3, <3>4, <3>5
  <2> QED
    BY <1>4, <2>1
<1>6. state = [k \in 0 .. 4 |-> IF k = 0 THEN s0 ELSE Scanned(fmt[k], q, state[k - 1])]
  BY <1>1, <1>5
<1> HIDE DEF state
<1>7. /\ state[0] = s0 /\ state[1] = Scanned(f1, q, state[0])
      /\ state[2] = Scanned(f2, q, state[1]) /\ state[3] = Scanned(f3, q, state[2])
      /\ state[4] = Scanned(f4, q, state[3])
  <2>1. \A k \in {1, 2, 3, 4} : state[k] = Scanned(fmt[k], q, state[k - 1])
    BY <1>6
  <2>2. state[0] = s0
    BY <1>6
  <2>3. state[1] = Scanned(fmt[1], q, state[0])
    <3>1. state[1] = Scanned(fmt[1], q, state[1 - 1]) /\ 1 - 1 = 0
      BY <2>1
    <3> QED
      BY <3>1
  <2>4. state[2] = Scanned(fmt[2], q, state[1])
    <3>1. state[2] = Scanned(fmt[2], q, state[2 - 1]) /\ 2 - 1 = 1
      BY <2>1
    <3> QED
      BY <3>1
  <2>5. state[3] = Scanned(fmt[3], q, state[2])
    <3>1. state[3] = Scanned(fmt[3], q, state[3 - 1]) /\ 3 - 1 = 2
      BY <2>1
    <3> QED
      BY <3>1
  <2>6. state[4] = Scanned(fmt[4], q, state[3])
    <3>1. state[4] = Scanned(fmt[4], q, state[4 - 1]) /\ 4 - 1 = 3
      BY <2>1
    <3> QED
      BY <3>1
  <2> QED
    BY <1>1, <2>2, <2>3, <2>4, <2>5, <2>6
<1>8. Until(stop) = 4
  <2>1. 4 \in stop /\ stop \in SUBSET Nat
    BY <1>1
  <2>2. \A k \in 0 .. 3 : k \notin stop
    <3> TAKE k \in 0 .. 3
    <3>1. Passes(fmt[k + 1])
      <4>1. CASE k = 0
        <5>1. k + 1 = 1
          BY <4>1
        <5> QED
          BY <1>1, <5>1
      <4>2. CASE k = 1
        <5>1. k + 1 = 2
          BY <4>2
        <5> QED
          BY <1>1, <5>1
      <4>3. CASE k = 2
        <5>1. k + 1 = 3
          BY <4>3
        <5> QED
          BY <1>1, <5>1
      <4>4. CASE k = 3
        <5>1. k + 1 = 4
          BY <4>4
        <5> QED
          BY <1>1, <5>1
      <4> QED
        BY <4>1, <4>2, <4>3, <4>4
    <3>2. ~Other(k)
      BY <3>1 DEF Passes
    <3>3. k # Len(fmt)
      BY <1>1
    <3> HIDE DEF Other
    <3> QED
      BY <3>2, <3>3
  <2> HIDE DEF stop
  <2>3. \A k \in 0 .. 4 - 1 : k \notin stop
    <3>1. 4 - 1 = 3
      OBVIOUS
    <3> QED
      BY <2>2, <3>1
  <2> QED
    BY <2>1, <2>3, UntilIs
<1>9. state[4] = s4
  BY <1>7 DEF s1, s2, s3, s4
<1>10. sscanf(q, fmt) = s4
  BY <1>2, <1>8, <1>9
<1> QED
  BY <1>10 DEF fmt, s0, s1, s2, s3, s4

LEMMA PairJoined ==
    ASSUME NEW v, NEW w
    PROVE  /\ <<>> \o <<v>> = <<v>> /\ <<v>> \o <<w>> = <<v, w>>
           /\ <<>> \o <<>> = <<>>
<1> DEFINE S == {v, w}
<1>1. /\ <<v>> \in Seq(S) /\ <<w>> \in Seq(S) /\ <<>> \in Seq(S) /\ <<v, w>> \in Seq(S)
  OBVIOUS
<1>2. <<>> \o <<v>> = <<v>> /\ <<>> \o <<>> = <<>>
  BY <1>1, ConcatEmptySeq
<1> DEFINE x == <<v>> \o <<w>>
           y == <<v, w>>
<1>3. /\ x \in Seq(S) /\ Len(x) = 2 /\ x[1] = v /\ x[2] = w
  BY <1>1, ConcatProperties
<1>4. y \in Seq(S) /\ Len(y) = 2 /\ y[1] = v /\ y[2] = w
  BY <1>1
<1> HIDE DEF x, y, S
<1>5. \A k \in 1 .. Len(x) : x[k] = y[k]
  <2>1. \A k \in 1 .. 2 : k = 1 \/ k = 2
    OBVIOUS
  <2> QED
    BY <1>3, <1>4, <2>1
<1>6. x = y
  BY <1>3, <1>4, <1>5, SeqEqual
<1> QED
  BY <1>2, <1>6 DEF x, y

(* What the readers' tests put after the number. *)
Rest == <<BLANK, LOWER_A, LOWER_X, 10, NUL>>

(* sscanf reads the number and the word after it. *)
Scans(q, b, v, discard) ==
    LET end == sscanf(q, <<Blanks, Conv(IF b = 16 THEN "x" ELSE "d", discard),
                           Blanks, Conv("s", FALSE)>>)
    IN  /\ end.vals = IF discard THEN 1 ELSE 2
        /\ end.stored = IF discard THEN <<AWord>> ELSE <<v, AWord>>

LEMMA LaidScanned ==
    ASSUME NEW q, NEW m, NEW g, NEW z, NEW b \in {10, 16}, NEW u, NEW r,
           NEW discard \in BOOLEAN,
           Readable(q, m, g, 0, z, b, u, r, Rest)
    PROVE  Scans(q, b, Negated(u, g = 1), discard)
<1> DEFINE f2 == Conv(IF b = 16 THEN "x" ELSE "d", discard)
           f4 == Conv("s", FALSE)
           s0 == [vals |-> 0, stored |-> <<>>, p |-> 1]
           n  == Len(printnum(u, b))
           o  == m + g + 0 + z + n
           v  == Negated(u, g = 1)
           p2 == o + 1
           p3 == o + r + 2
<1>1. /\ m \in Nat /\ g \in {0, 1} /\ z \in Nat /\ r \in Nat
  BY DEF Readable
<1>2. /\ Digits(q, m + g + 0 + 1, b) =
           [v |-> u, p |-> m + g + 0 + 1 + (z + Len(printnum(u, b)))]
      /\ DigitOf(q[m + g + 0 + 1]) < 16
      /\ q[m + g + 0 + 2] \notin {LOWER_X, 88}
      /\ Len(printnum(u, b)) \in Nat \ {0}
  BY LaidDigits, Zenon
<1>3. SkipSpace(q, 1) = m + 1 /\ (q[m + 1] = MINUS <=> g = 1)
  BY LaidStart
<1>4. /\ \A k \in 1 .. r : q[o + k] = BLANK
      /\ Placed(q, Rest, o + r)
  BY DEF Readable, Lies
<1>5. n \in Nat /\ o \in Nat /\ p2 \in Nat /\ p3 \in Nat
  BY <1>1, <1>2
<1>6. Digits(q, m + g + 1, b) = [v |-> u, p |-> p2]
  <2>1. m + g + 0 + 1 = m + g + 1 /\ m + g + 0 + 1 + (z + n) = p2
    BY <1>1, <1>5
  <2> QED
    BY <1>2, <2>1
<1> HIDE DEF n, o
<1>7. /\ q[o + r + 1] = BLANK /\ q[p3] = LOWER_A /\ q[p3 + 1] = LOWER_X /\ q[p3 + 2] = 10
  <2>1. /\ Len(Rest) = 5 /\ Rest[1] = BLANK /\ Rest[2] = LOWER_A
        /\ Rest[3] = LOWER_X /\ Rest[4] = 10
    BY DEF Rest
  <2>2. \A k \in 1 .. 5 : q[o + r + k] = Rest[k]
    BY <1>4, <2>1 DEF Placed
  <2>3. /\ 1 \in 1 .. 5 /\ 2 \in 1 .. 5 /\ 3 \in 1 .. 5 /\ 4 \in 1 .. 5
        /\ p3 = o + r + 2 /\ p3 + 1 = o + r + 3 /\ p3 + 2 = o + r + 4
    BY <1>1, <1>5
  <2> HIDE DEF p3
  <2> QED
    BY <2>1, <2>2, <2>3
<1>8. SkipSpace(q, p2) = p3
  <2>1. \A k \in 0 .. (r + 1) - 1 : isspace(q[p2 + k])
    <3> TAKE k \in 0 .. (r + 1) - 1
    <3>1. p2 + k = o + (k + 1) /\ k + 1 \in 1 .. r + 1
      BY <1>1, <1>5
    <3>2. CASE k + 1 \in 1 .. r
      <4>1. q[p2 + k] = BLANK
        BY <1>4, <3>1, <3>2
      <4> QED
        BY <4>1 DEF isspace
    <3>3. CASE k = r
      <4>1. p2 + k = o + r + 1
        BY <1>1, <1>5, <3>3
      <4> QED
        BY <1>7, <4>1 DEF isspace
    <3> QED
      BY <1>1, <3>1, <3>2, <3>3
  <2>2. p2 + (r + 1) = p3 /\ r + 1 \in Nat /\ p2 \in Int
    BY <1>1, <1>5
  <2>3. ~isspace(q[p2 + (r + 1)])
    BY <1>7, <2>2 DEF isspace, LOWER_A, BLANK
  <2> HIDE DEF p2, p3
  <2>4. SkipSpace(q, p2) = p2 + (r + 1)
    BY <2>1, <2>2, <2>3, SpaceSkipped
  <2> QED
    BY <2>2, <2>4
<1>9. WordEnd(q, p3) = p3 + 2
  <2> HIDE DEF p3
  <2>1. \A k \in 0 .. 2 - 1 : ~isspace(q[p3 + k])
    <3> TAKE k \in 0 .. 2 - 1
    <3>1. (k = 0 /\ p3 + k = p3) \/ k = 1
      BY <1>5
    <3>2. ~isspace(LOWER_A) /\ ~isspace(LOWER_X)
      BY DEF isspace, LOWER_A, LOWER_X, BLANK
    <3> QED
      BY <1>7, <3>1, <3>2
  <2>2. isspace(q[p3 + 2])
    BY <1>7 DEF isspace
  <2> QED
    BY <1>5, <2>1, <2>2, WordEnds
<1>10. SubSeq(q, p3, (p3 + 2) - 1) = AWord
  <2> HIDE DEF p3
  <2>1. (p3 + 2) - 1 = p3 + 1 /\ p3 \in Int /\ p3 + 1 \in Int
    BY <1>5
  <2>2. \A k \in p3 .. p3 + 1 : q[k] \in {LOWER_A, LOWER_X}
    <3> TAKE k \in p3 .. p3 + 1
    <3>1. k = p3 \/ k = p3 + 1
      BY <1>5
    <3> QED
      BY <1>7, <3>1
  <2> DEFINE w == SubSeq(q, p3, p3 + 1)
  <2>3. /\ w \in Seq({LOWER_A, LOWER_X})
        /\ Len(w) = IF p3 <= p3 + 1 THEN (p3 + 1) - p3 + 1 ELSE 0
        /\ \A k \in 1 .. (p3 + 1) - p3 + 1 : w[k] = q[p3 + k - 1]
    BY <2>1, <2>2, SubSeqProperties
  <2> HIDE DEF w
  <2>4. p3 <= p3 + 1 /\ (p3 + 1) - p3 + 1 = 2 /\ p3 + 1 - 1 = p3 /\ p3 + 2 - 1 = p3 + 1
    BY <1>5
  <2>5. Len(w) = 2 /\ w[1] = LOWER_A /\ w[2] = LOWER_X
    <3>1. 1 \in 1 .. 2 /\ 2 \in 1 .. 2
      OBVIOUS
    <3> QED
      BY <1>7, <2>3, <2>4, <3>1
  <2>6. /\ AWord \in Seq({LOWER_A, LOWER_X}) /\ Len(AWord) = 2
        /\ AWord[1] = LOWER_A /\ AWord[2] = LOWER_X
    BY DEF AWord
  <2>7. \A k \in 1 .. Len(w) : w[k] = AWord[k]
    <3>1. \A k \in 1 .. 2 : k = 1 \/ k = 2
      OBVIOUS
    <3> QED
      BY <2>5, <2>6, <3>1
  <2>8. w = AWord
    BY <2>3, <2>5, <2>6, <2>7, SeqEqual
  <2> QED
    BY <2>1, <2>8 DEF w
<1> HIDE DEF p2, p3, v
<1> DEFINE s1 == [vals |-> 0, stored |-> <<>>, p |-> m + 1]
           s2 == [vals |-> IF discard THEN 0 ELSE 1,
                  stored |-> IF discard THEN <<>> ELSE <<v>>, p |-> p2]
           s3 == [vals |-> IF discard THEN 0 ELSE 1,
                  stored |-> IF discard THEN <<>> ELSE <<v>>, p |-> p3]
           s4 == [vals |-> IF discard THEN 1 ELSE 2,
                  stored |-> IF discard THEN <<AWord>> ELSE <<v, AWord>>, p |-> p3 + 2]
<1>11. /\ Blanks.conv = "" /\ isspace(Blanks.c)
       /\ f4.conv = "s" /\ f4.discard = FALSE
       /\ f2.conv = (IF b = 16 THEN "x" ELSE "d") /\ f2.discard = discard
  BY DEF Blanks, Conv, isspace
<1>12. Passes(Blanks) /\ Passes(f2) /\ Passes(f4)
  BY <1>11 DEF Passes
<1> HIDE DEF f2, f4
<1>13. Scanned(Blanks, q, s0) = s1
  BY ZenonT(40), <1>3, <1>11 DEF Scanned
<1>14. Scanned(f2, q, s1) = s2
  <2>1. f2.conv \in {"d", "x"} /\ f2.conv # "" /\ f2.conv # "s"
    BY <1>11
  <2>2. (IF f2.conv = "x" THEN 16 ELSE 10) = b
    BY <1>11
  <2>3. ScanNumber(q, m + 1, b) = [v |-> v, p |-> p2]
    <3>1. (IF q[m + 1] = MINUS THEN (m + 1) + 1 ELSE m + 1) = m + g + 1
      BY <1>1, <1>3
    <3>2. (q[m + 1] = MINUS) = (g = 1)
      BY <1>3
    <3>3. ScanNumber(q, m + 1, b) =
            [v |-> Negated(Digits(q, m + g + 1, b).v, q[m + 1] = MINUS),
             p |-> Digits(q, m + g + 1, b).p]
      BY <3>1 DEF ScanNumber
    <3> QED
      BY <1>6, <3>2, <3>3 DEF v
  <2>4. <<>> \o <<v>> = <<v>> /\ <<>> \o <<>> = <<>>
    BY PairJoined
  <2>5. Scanned(f2, q, s1) =
          [vals |-> 0 + (IF f2.discard THEN 0 ELSE 1),
           stored |-> <<>> \o (IF f2.discard THEN <<>>
                               ELSE <<ScanNumber(q, m + 1, b).v>>),
           p |-> ScanNumber(q, m + 1, b).p]
    BY ZenonT(40), <2>1, <2>2 DEF Scanned
  <2>6. CASE discard
    <3>1. /\ (IF f2.discard THEN 0 ELSE 1) = 0
          /\ (IF f2.discard THEN <<>> ELSE <<ScanNumber(q, m + 1, b).v>>) = <<>>
      BY <1>11, <2>6
    <3>2. s2 = [vals |-> 0, stored |-> <<>>, p |-> p2]
      BY <2>6
    <3>3. 0 + 0 = 0 /\ ScanNumber(q, m + 1, b).p = p2
      BY <2>3
    <3> HIDE DEF s1, s2
    <3> QED
      BY <2>4, <2>5, <3>1, <3>2, <3>3
  <2>7. CASE ~discard
    <3>1. /\ (IF f2.discard THEN 0 ELSE 1) = 1
          /\ (IF f2.discard THEN <<>> ELSE <<ScanNumber(q, m + 1, b).v>>)
               = <<ScanNumber(q, m + 1, b).v>>
      BY <1>11, <2>7
    <3>2. s2 = [vals |-> 1, stored |-> <<v>>, p |-> p2]
      BY <2>7
    <3>3. 0 + 1 = 1 /\ ScanNumber(q, m + 1, b).p = p2 /\ ScanNumber(q, m + 1, b).v = v
      BY <2>3
    <3> HIDE DEF s1, s2
    <3> QED
      BY <2>4, <2>5, <3>1, <3>2, <3>3
  <2> QED
    BY <2>6, <2>7
<1>15. Scanned(Blanks, q, s2) = s3
  BY ZenonT(40), <1>8, <1>11 DEF Scanned
<1>16. Scanned(f4, q, s3) = s4
  <2>1. f4.conv \notin {"d", "x"} /\ f4.conv # "" /\ f4.conv = "s"
    BY <1>11
  <2>2. Scanned(f4, q, s3) =
          [vals |-> s3.vals + 1,
           stored |-> s3.stored \o <<SubSeq(q, p3, (p3 + 2) - 1)>>,
           p |-> p3 + 2]
    BY ZenonT(40), <1>9, <1>11, <2>1 DEF Scanned
  <2>3. <<>> \o <<AWord>> = <<AWord>> /\ <<v>> \o <<AWord>> = <<v, AWord>>
    BY PairJoined
  <2>4. CASE discard
    <3>1. /\ s4 = [vals |-> 1, stored |-> <<AWord>>, p |-> p3 + 2]
          /\ s3.vals = 0 /\ s3.stored = <<>>
      BY <2>4
    <3>2. 0 + 1 = 1
      OBVIOUS
    <3> HIDE DEF s3, s4
    <3> QED
      BY <1>10, <2>2, <2>3, <3>1, <3>2
  <2>5. CASE ~discard
    <3>1. /\ s4 = [vals |-> 2, stored |-> <<v, AWord>>, p |-> p3 + 2]
          /\ s3.vals = 1 /\ s3.stored = <<v>>
      BY <2>5
    <3>2. 1 + 1 = 2
      OBVIOUS
    <3> HIDE DEF s3, s4
    <3> QED
      BY <1>10, <2>2, <2>3, <3>1, <3>2
  <2> QED
    BY <2>4, <2>5
<1>17. sscanf(q, <<Blanks, f2, Blanks, f4>>) =
         Scanned(f4, q, Scanned(Blanks, q, Scanned(f2, q, Scanned(Blanks, q, s0))))
  BY <1>12, FourScanned
<1>18. sscanf(q, <<Blanks, f2, Blanks, f4>>) = s4
  BY <1>13, <1>14, <1>15, <1>16, <1>17
<1> QED
  BY <1>18 DEF Scans, f2, f4, v
----------------------------------------------------------------------------
(* Whatever print_num prints can be read. *)
Readably(d, u, c, b, tail) ==
    \E m, z, r \in Nat :
      /\ Readable(print_num(d, u, c, b) \o tail, m, Minus(c), Hex(d, u, b),
                  z, b, u, r, tail)
      /\ u # 0 /\ d.altfmt /\ b = 8 => z >= 1
      /\ d.padc = ZERO /\ c = 0 => m = 0
      /\ Len(print_num(d, u, c, b)) =
           m + Minus(c) + Hex(d, u, b) + z + Len(printnum(u, b)) + r

LEMMA PrintedReadable ==
    ASSUME NEW d \in Parsed, NEW u \in 0 .. Word - 1, NEW c \in {0, BLANK, MINUS},
           NEW b \in {8, 10, 16}, NEW tail \in Seq(Code), Len(tail) >= 1,
           tail[1] \in {NUL, BLANK}
    PROVE  Readably(d, u, c, b, tail)
<1> DEFINE q == print_num(d, u, c, b) \o tail
<1>1. u \in Nat
  BY WordFacts
<1>2. PICK m, z, r \in Nat :
        /\ Lies(q, m, Minus(c), Hex(d, u, b), z, printnum(u, b), r, tail)
        /\ u # 0 /\ d.altfmt /\ b = 8 => z >= 1
        /\ d.padc = ZERO /\ c = 0 => m = 0
        /\ Len(print_num(d, u, c, b)) =
             m + Minus(c) + Hex(d, u, b) + z + Len(printnum(u, b)) + r
  <2>1. NumberLaid(d, u, c, b, tail)
    BY <1>1, NumberLies
  <2> QED
    BY <2>1 DEF NumberLaid
<1>3. Minus(c) \in {0, 1} /\ Hex(d, u, b) \in {0, 2} /\ (Hex(d, u, b) = 2 => b = 16)
  BY DEF Minus, Hex
<1> HIDE DEF q
<1>4. Readable(q, m, Minus(c), Hex(d, u, b), z, b, u, r, tail)
  BY <1>2, <1>3 DEF Readable
<1> QED
  BY <1>2, <1>4 DEF q, Readably

LEMMA TailsAre ==
    /\ <<NUL>> \in Seq(Code) /\ Len(<<NUL>>) >= 1 /\ <<NUL>>[1] \in {NUL, BLANK}
    /\ Rest \in Seq(Code) /\ Len(Rest) >= 1 /\ Rest[1] \in {NUL, BLANK}
    /\ \A w \in Seq(Code) : w \o <<BLANK>> \o AWord \o <<10, NUL>> = w \o Rest
<1>1. /\ <<NUL>> \in Seq(Code) /\ Len(<<NUL>>) >= 1 /\ <<NUL>>[1] \in {NUL, BLANK}
  BY CodesAre
<1>2. /\ BLANK \in Code /\ LOWER_A \in Code /\ LOWER_X \in Code /\ 10 \in Code
      /\ NUL \in Code
  BY DEF Code, BLANK, LOWER_A, LOWER_X, NUL
<1>3. Rest \in Seq(Code) /\ Len(Rest) >= 1 /\ Rest[1] \in {NUL, BLANK}
  BY <1>2 DEF Rest
<1>4. <<BLANK>> \in Seq(Code) /\ AWord \in Seq(Code) /\ <<10, NUL>> \in Seq(Code)
  BY <1>2 DEF AWord
<1>5. (<<BLANK>> \o AWord) \o <<10, NUL>> = Rest
  <2> DEFINE x == <<BLANK>> \o AWord
             y == x \o <<10, NUL>>
  <2>1. /\ x \in Seq(Code) /\ Len(x) = 3 /\ x[1] = BLANK /\ x[2] = LOWER_A /\ x[3] = LOWER_X
    BY <1>4, ConcatProperties DEF AWord
  <2> HIDE DEF x
  <2> DEFINE e == <<10, NUL>>
  <2>2. e \in Seq(Code) /\ Len(e) = 2 /\ e[1] = 10 /\ e[2] = NUL
    BY <1>4
  <2>3. y = x \o e
    OBVIOUS
  <2> HIDE DEF y, e
  <2>4. /\ y \in Seq(Code) /\ Len(y) = 3 + 2
        /\ \A k \in 1 .. 3 + 2 : y[k] = IF k <= 3 THEN x[k] ELSE e[k - 3]
    <3>1. /\ x \o e \in Seq(Code) /\ Len(x \o e) = Len(x) + Len(e)
          /\ \A k \in 1 .. Len(x) + Len(e) :
               (x \o e)[k] = IF k <= Len(x) THEN x[k] ELSE e[k - Len(x)]
      BY <2>1, <2>2, ConcatProperties
    <3> QED
      BY <2>1, <2>2, <2>3, <3>1
  <2>5. /\ y \in Seq(Code) /\ Len(y) = 5
        /\ y[1] = BLANK /\ y[2] = LOWER_A /\ y[3] = LOWER_X /\ y[4] = 10 /\ y[5] = NUL
    BY <2>1, <2>2, <2>4
  <2>6. /\ Len(Rest) = 5 /\ Rest[1] = BLANK /\ Rest[2] = LOWER_A /\ Rest[3] = LOWER_X
        /\ Rest[4] = 10 /\ Rest[5] = NUL
    BY DEF Rest
  <2>7. \A k \in 1 .. 5 : k = 1 \/ k = 2 \/ k = 3 \/ k = 4 \/ k = 5
    OBVIOUS
  <2>8. \A k \in 1 .. Len(y) : y[k] = Rest[k]
    BY <2>5, <2>6, <2>7
  <2>9. y = Rest
    BY <1>3, <2>5, <2>6, <2>8, SeqEqual
  <2> QED
    BY <2>9 DEF x, y
<1>6. ASSUME NEW w \in Seq(Code)
      PROVE  w \o <<BLANK>> \o AWord \o <<10, NUL>> = w \o Rest
  <2> DEFINE x == <<BLANK>> \o AWord
  <2>1. (w \o <<BLANK>>) \o AWord = w \o x
    BY <1>4, ConcatAssociative
  <2>2. x \in Seq(Code)
    BY <1>4, ConcatProperties
  <2> HIDE DEF x
  <2>3. (w \o x) \o <<10, NUL>> = w \o (x \o <<10, NUL>>)
    BY <1>4, <2>2, ConcatAssociative
  <2>4. x \o <<10, NUL>> = Rest
    BY <1>5 DEF x
  <2> QED
    BY <2>1, <2>3, <2>4
<1> QED
  BY <1>1, <1>3, <1>6

(* %d and %z, and their like. *)
LEMMA SignedRead ==
    ASSUME NEW d \in Parsed, NEW v \in Long, NEW b \in {10, 16},
           ~(d.plus_sign = PLUS /\ v >= 0)
    PROVE  /\ print_signed(d, v, b) \in Seq(Code)
           /\ strtol(print_signed(d, v, b) \o <<NUL>>, b) = v
           /\ ~(d.altfmt /\ b = 16) =>
                \A discard \in BOOLEAN :
                  Scans(print_signed(d, v, b) \o Rest, b, v, discard)
<1>1. PICK u \in 0 .. Word - 1, c \in {0, BLANK, MINUS} :
        /\ print_signed(d, v, b) = print_num(d, u, c, b)
        /\ Negated(u, Minus(c) = 1) = v
  <2>1. v \in Int
    BY WordFacts DEF Long
  <2>2. BLANK # MINUS /\ MINUS # 0 /\ d.plus_sign \in {0, BLANK, PLUS}
    BY DEF BLANK, MINUS, Parsed
  <2>3. CASE v >= 0
    <3>1. d.plus_sign \in {0, BLANK} /\ v \in 0 .. Word - 1 /\ Negated(v, FALSE) = v
      BY <2>2, <2>3, SignedAgain
    <3>2. (Minus(d.plus_sign) = 1) = FALSE
      BY <2>2, <3>1 DEF Minus
    <3>3. print_signed(d, v, b) = print_num(d, v, d.plus_sign, b)
      BY <2>3 DEF print_signed
    <3>4. Negated(v, Minus(d.plus_sign) = 1) = v
      BY <3>1, <3>2
    <3> QED
      BY <3>1, <3>3, <3>4
  <2>4. CASE ~(v >= 0)
    <3>1. v < 0
      BY <2>1, <2>4
    <3>2. -v \in 0 .. Word - 1 /\ Negated(-v, TRUE) = v
      BY <3>1, SignedAgain
    <3>3. (Minus(MINUS) = 1) = TRUE
      BY DEF Minus
    <3>4. print_signed(d, v, b) = print_num(d, -v, MINUS, b)
      BY <2>4 DEF print_signed
    <3>5. Negated(-v, Minus(MINUS) = 1) = v
      BY <3>2, <3>3
    <3> QED
      BY <3>2, <3>4, <3>5
  <2> QED
    BY <2>3, <2>4
<1> DEFINE x == print_num(d, u, c, b)
<1>2. x \in Seq(Code)
  <2>1. u \in Nat /\ b \in {8, 10, 16}
    BY WordFacts
  <2> QED
    BY <2>1, TailsAre, NumberLies
<1>3. strtol(x \o <<NUL>>, b) = v
  <2>1. b \in {8, 10, 16}
    OBVIOUS
  <2>2. PICK m, z, r \in Nat :
          Readable(x \o <<NUL>>, m, Minus(c), Hex(d, u, b), z, b, u, r, <<NUL>>)
    <3>1. Readably(d, u, c, b, <<NUL>>)
      BY <2>1, TailsAre, PrintedReadable
    <3> QED
      BY <3>1 DEF Readably
  <2>3. strtol(x \o <<NUL>>, b) = Negated(u, Minus(c) = 1)
    BY <2>2, LaidRead
  <2> QED
    BY <1>1, <2>3
<1>4. ASSUME ~(d.altfmt /\ b = 16), NEW discard \in BOOLEAN
      PROVE  Scans(x \o Rest, b, v, discard)
  <2>1. b \in {8, 10, 16}
    OBVIOUS
  <2>2. Hex(d, u, b) = 0
    BY <1>4 DEF Hex
  <2>3. PICK m, z, r \in Nat :
          Readable(x \o Rest, m, Minus(c), Hex(d, u, b), z, b, u, r, Rest)
    <3>1. Readably(d, u, c, b, Rest)
      BY <2>1, TailsAre, PrintedReadable
    <3> QED
      BY <3>1 DEF Readably
  <2>4. Readable(x \o Rest, m, Minus(c), 0, z, b, u, r, Rest)
    BY <2>2, <2>3
  <2> HIDE DEF x
  <2>5. Scans(x \o Rest, b, Negated(u, Minus(c) = 1), discard)
    BY <2>4, LaidScanned
  <2> QED
    BY <1>1, <2>5
<1> QED
  BY <1>1, <1>2, <1>3, <1>4 DEF x

(* %u, %o, %x and their like. *)
LEMMA UnsignedRead ==
    ASSUME NEW d \in Parsed, NEW v \in ULong, NEW b \in {8, 10, 16}
    PROVE  LET x == print_unsigned(d, v, b)  q == x \o <<NUL>>
           IN  /\ strtoul(q, b) = v
               /\ d.altfmt /\ b # 10 => strtoul(q, 0) = v
               /\ b = 10 /\ x[1] # BLANK => atol(q) = Signed(v)
<1> DEFINE x == print_num(d, v, 0, b)
           q == x \o <<NUL>>
           h == Hex(d, v, b)
<1>1. v \in 0 .. Word - 1 /\ v \in Nat
  BY WordFacts DEF ULong
<1>2. Minus(0) = 0
  BY DEF Minus, MINUS
<1>3. PICK m, z, r \in Nat :
        /\ Readable(q, m, Minus(0), h, z, b, v, r, <<NUL>>)
        /\ v # 0 /\ d.altfmt /\ b = 8 => z >= 1
        /\ Len(x) = m + Minus(0) + h + z + Len(printnum(v, b)) + r
  <2>1. Readably(d, v, 0, b, <<NUL>>)
    BY <1>1, TailsAre, PrintedReadable
  <2> QED
    BY <2>1 DEF Readably
<1>4. x \in Seq(Code)
  BY <1>1, TailsAre, NumberLies
<1>5. h \in {0, 2} /\ (h = 2 <=> v # 0 /\ d.altfmt /\ b = 16)
  BY DEF Hex
<1> HIDE DEF x, q, h
<1>6. Readable(q, m, 0, h, z, b, v, r, <<NUL>>)
  BY <1>2, <1>3
<1>7. strtoul(q, b) = v
  BY <1>6, LaidRead
<1>8. ASSUME d.altfmt, b # 10 PROVE strtoul(q, 0) = v
  <2>1. CASE h = 2
    BY <1>6, <2>1, LaidRead
  <2>2. CASE h = 0 /\ b = 8
    <3>1. z >= 1 \/ v = 0
      BY <1>3, <1>8, <2>2
    <3> QED
      BY <1>6, <2>2, <3>1, LaidRead
  <2>3. CASE h = 0 /\ b = 16
    <3>1. v = 0
      BY <1>5, <1>8, <2>3
    <3>2. printnum(v, b) = printnum(v, 8)
      <4>1. b \in 2 .. 16 /\ 8 \in 2 .. 16
        OBVIOUS
      <4> QED
        BY <3>1, <4>1, ZeroAlike
    <3>3. Readable(q, m, 0, h, z, 8, v, r, <<NUL>>)
      BY <1>6, <2>3, <3>2 DEF Readable
    <3> QED
      BY <2>3, <3>1, <3>3, LaidRead
  <2> QED
    BY <1>5, <1>8, <2>1, <2>2, <2>3
<1>9. ASSUME b = 10, x[1] # BLANK PROVE atol(q) = Signed(v)
  <2>1. h = 0
    BY <1>5, <1>9
  <2>2. m = 0
    <3> SUFFICES ASSUME m # 0 PROVE FALSE
      OBVIOUS
    <3>1. Len(printnum(v, b)) \in Nat \ {0}
      BY <1>6, LaidDigits
    <3>2. 1 \in 1 .. m /\ 1 \in 1 .. Len(x)
      BY <1>2, <1>3, <2>1, <3>1
    <3>3. q[1] = BLANK
      BY <1>6, <3>2 DEF Readable, Lies
    <3>4. q[1] = x[1]
      <4>1. <<NUL>> \in Seq(Code) /\ Len(<<NUL>>) \in Nat
        BY TailsAre
      <4>2. Placed(q, x, 0)
        BY <1>4, <4>1, PlacedIn DEF q
      <4>3. q[0 + 1] = x[1]
        BY <3>2, <4>2 DEF Placed
      <4> QED
        BY <4>3
    <3> QED
      BY <1>9, <3>3, <3>4
  <2> QED
    BY <1>6, <1>9, <2>1, <2>2, LaidRead
<1>10. print_unsigned(d, v, b) = x
  BY DEF print_unsigned, x
<1> QED
  BY <1>7, <1>8, <1>9, <1>10 DEF q

(* %p: the digits are after the prefix, and no blanks before them. *)
LEMMA PointerRead ==
    ASSUME NEW d \in Parsed, NEW v \in ULong, d.padc = ZERO,
           ~(d.altfmt /\ v # 0)
    PROVE  strtoul((<<ZERO, LOWER_X>> \o print_unsigned(d, v, 16)) \o <<NUL>>, 0) = v
<1> DEFINE x == print_num(d, v, 0, 16)
           y == x \o <<NUL>>
           two == <<ZERO, LOWER_X>>
           q == two \o y
           num == printnum(v, 16)
<1>1. v \in 0 .. Word - 1 /\ v \in Nat
  BY WordFacts DEF ULong
<1>2. Minus(0) = 0 /\ Hex(d, v, 16) = 0
  BY DEF Minus, MINUS, Hex
<1>3. PICK z \in Nat, r \in Nat :
        /\ Readable(y, 0, 0, 0, z, 16, v, r, <<NUL>>)
        /\ Len(x) = 0 + 0 + 0 + z + Len(num) + r
  <2>1. Readably(d, v, 0, 16, <<NUL>>)
    BY <1>1, TailsAre, PrintedReadable
  <2>2. PICK m, z, r \in Nat :
          /\ Readable(y, m, Minus(0), Hex(d, v, 16), z, 16, v, r, <<NUL>>)
          /\ m = 0
          /\ Len(x) = m + Minus(0) + Hex(d, v, 16) + z + Len(num) + r
    BY <2>1 DEF Readably
  <2> QED
    BY <1>2, <2>2
<1>4. x \in Seq(Code) /\ two \in Seq(Code) /\ <<NUL>> \in Seq(Code)
      /\ Len(two) = 2 /\ two[1] = ZERO /\ two[2] = LOWER_X
  BY <1>1, TailsAre, NumberLies, CodesAre
<1>5. (two \o x) \o <<NUL>> = q
  BY <1>4, ConcatAssociative
<1> HIDE DEF two, x
<1>6. y \in Seq(Code) /\ Len(y) = Len(x) + 1
  BY <1>4, Joined, TailsAre, CodesAre
<1> HIDE DEF y, q
<1>7. q[1] = ZERO /\ q[2] = LOWER_X /\ \A k \in 1 .. Len(y) : q[2 + k] = y[k]
  <2>1. Placed(q, two, 0) /\ Placed(q, y, 2)
    BY <1>4, <1>6, PlacedIn DEF q
  <2>2. q[0 + 1] = two[1] /\ q[0 + 2] = two[2]
    BY <1>4, <2>1 DEF Placed
  <2> QED
    BY <1>4, <2>1, <2>2 DEF Placed
<1>8. Len(num) \in Nat \ {0}
  BY <1>3, LaidDigits
<1> DEFINE n == Len(num)
<1> HIDE DEF num
<1>9. Len(y) = z + n + r + 1
  BY <1>3, <1>6, <1>8
<1>10. /\ \A k \in 1 .. z : y[0 + 0 + 0 + k] = ZERO
       /\ Placed(y, num, 0 + 0 + 0 + z)
       /\ \A k \in 1 .. r : y[0 + 0 + 0 + z + n + k] = BLANK
       /\ Placed(y, <<NUL>>, 0 + 0 + 0 + z + n + r)
  BY <1>3 DEF Readable, Lies, num
<1> HIDE DEF n
<1>11. n \in Nat \ {0} /\ n = Len(num)
  BY <1>8 DEF n
<1>12. \A k \in 1 .. z : q[0 + 0 + 2 + k] = ZERO
  <2> TAKE k \in 1 .. z
  <2>1. 0 + 0 + 0 + k = k /\ 0 + 0 + 2 + k = 2 + k /\ k \in 1 .. Len(y)
    BY <1>9, <1>11
  <2> QED
    BY <1>7, <1>10, <2>1
<1>13. Placed(q, num, 0 + 0 + 2 + z)
  <2> SUFFICES ASSUME NEW k \in 1 .. n PROVE q[0 + 0 + 2 + z + k] = num[k]
    BY <1>11 DEF Placed
  <2>1. 0 + 0 + 2 + z + k = 2 + (0 + 0 + 0 + z + k) /\ 0 + 0 + 0 + z + k \in 1 .. Len(y)
    BY <1>9, <1>11
  <2>2. y[0 + 0 + 0 + z + k] = num[k]
    BY <1>10, <1>11 DEF Placed
  <2> QED
    BY <1>7, <2>1, <2>2
<1>14. \A k \in 1 .. r : q[0 + 0 + 2 + z + n + k] = BLANK
  <2> TAKE k \in 1 .. r
  <2>1. /\ 0 + 0 + 2 + z + n + k = 2 + (0 + 0 + 0 + z + n + k)
        /\ 0 + 0 + 0 + z + n + k \in 1 .. Len(y)
    BY <1>9, <1>11
  <2> QED
    BY <1>7, <1>10, <2>1
<1>15. Placed(q, <<NUL>>, 0 + 0 + 2 + z + n + r)
  <2>1. Len(<<NUL>>) = 1
    OBVIOUS
  <2> SUFFICES ASSUME NEW k \in 1 .. 1 PROVE q[0 + 0 + 2 + z + n + r + k] = <<NUL>>[k]
    BY <2>1 DEF Placed
  <2>2. /\ 0 + 0 + 2 + z + n + r + k = 2 + (0 + 0 + 0 + z + n + r + k)
        /\ 0 + 0 + 0 + z + n + r + k \in 1 .. Len(y)
    BY <1>9, <1>11
  <2>3. y[0 + 0 + 0 + z + n + r + k] = <<NUL>>[k]
    BY <1>10, <2>1 DEF Placed
  <2> QED
    BY <1>7, <2>2, <2>3
<1>16. q[0 + 0 + 1] = ZERO /\ q[0 + 0 + 2] = LOWER_X
  BY <1>7
<1>17. Lies(q, 0, 0, 2, z, num, r, <<NUL>>)
  BY <1>11, <1>12, <1>13, <1>14, <1>15, <1>16 DEF Lies
<1>18. Readable(q, 0, 0, 2, z, 16, v, r, <<NUL>>)
  BY <1>1, <1>17, TailsAre DEF Readable, num
<1>19. strtoul(q, 0) = v
  BY <1>18, LaidRead
<1>20. print_unsigned(d, v, 16) = x
  BY DEF print_unsigned, x
<1> QED
  BY <1>5, <1>19, <1>20 DEF two
----------------------------------------------------------------------------
(* Each number that a conversion prints is read back by strtol, strtoul,   *)
(* atol and sscanf, for every width, flag and argument.  What the items of *)
(* a %b show is the number only if there is an item for each of its bits,  *)
(* as in the formats of the run.                                           *)
THEOREM NumbersReadBack == Spec => [](Of({"b", "B"}) \/ ReadBack)
<1> DEFINE NumberBack == Of({"b", "B"}) \/ ReadBack
<1>1. StdioInv => NumberBack
  <2> SUFFICES ASSUME StdioInv, call # NoCall, ~Of({"b", "B"}) PROVE ReadBack
    BY DEF ReadBack
  <2> DEFINE d == Parse(call.f)
             v == call.arg
             conv == call.f.conv
             F == Field
             z == F \o <<NUL>>
             line == F \o <<BLANK>> \o AWord \o <<10, NUL>>
             plus == d.plus_sign = PLUS /\ v >= 0
  <2>1. call.f \in Formats
    BY DEF StdioInv
  <2>2. /\ d \in Parsed /\ d.conv = conv /\ v \in ArgsFor(conv)
        /\ F = Convert(d, v) /\ Spec_ = d
    BY <2>1, CallFacts DEF Spec_
  <2>3. \A convs : Of(convs) = (conv \in convs)
    BY DEF Of
  <2>4. Base = BaseOf(conv)
    BY <2>3 DEF Base, BaseOf
  <2>5. Spec_ = d /\ call.arg = v /\ Field = F
    BY <2>2
  <2> HIDE DEF d, v, conv, F
  <2>6. ASSUME Of(SignedConvs)
        PROVE  /\ Base \in {10, 16} /\ v \in Long
               /\ F = print_signed(d, v, Base)
    <3>1. conv \in SignedConvs
      BY <2>3, <2>6
    <3>2. v \in Long
      BY <2>2, <3>1 DEF ArgsFor, SignedConvs, UnsignedConvs
    <3>3. CASE conv \in {"d", "D"}
      BY <2>2, <2>4, <3>2, <3>3 DEF BaseOf, Convert
    <3>4. CASE conv \in {"z", "Z"}
      BY <2>2, <2>4, <3>2, <3>4 DEF BaseOf, Convert
    <3> QED
      BY <3>1, <3>3, <3>4 DEF SignedConvs
  <2>7. ASSUME Of(SignedConvs), ~plus
        PROVE  /\ strtol(z, Base) = v
               /\ ~(d.altfmt /\ Base = 16) =>
                    \A discard \in BOOLEAN : Scans(line, Base, v, discard)
    <3>1. /\ F \in Seq(Code) /\ strtol(F \o <<NUL>>, Base) = v
          /\ ~(d.altfmt /\ Base = 16) =>
               \A discard \in BOOLEAN : Scans(F \o Rest, Base, v, discard)
      BY <2>2, <2>6, <2>7, SignedRead
    <3>2. line = F \o Rest
      BY <3>1, TailsAre
    <3> QED
      BY <3>1, <3>2
  <2>8. ASSUME Of(UnsignedConvs)
        PROVE  /\ strtoul(z, Base) = v
               /\ d.altfmt /\ Base # 10 => strtoul(z, 0) = v
               /\ Base = 10 /\ F[1] # BLANK => atol(z) = Signed(v)
    <3>1. conv \in UnsignedConvs
      BY <2>3, <2>8
    <3>2. v \in ULong
      BY <2>2, <3>1 DEF ArgsFor, SignedConvs, UnsignedConvs
    <3>3. Base \in {8, 10, 16} /\ F = print_unsigned(d, v, Base)
      <4>1. CASE conv \in {"u", "U"}
        BY <2>2, <2>4, <4>1 DEF BaseOf, Convert
      <4>2. CASE conv \in {"o", "O"}
        BY <2>2, <2>4, <4>2 DEF BaseOf, Convert
      <4>3. CASE conv \in {"x", "X"}
        BY <2>2, <2>4, <4>3 DEF BaseOf, Convert
      <4> QED
        BY <3>1, <4>1, <4>2, <4>3 DEF UnsignedConvs
    <3> QED
      BY <2>2, <3>2, <3>3, UnsignedRead
  <2>9. ASSUME Of({"u", "U"}) PROVE Of(UnsignedConvs) /\ Base = 10
    <3>1. conv \in {"u", "U"}
      BY <2>3, <2>9
    <3> QED
      BY <2>3, <2>4, <3>1 DEF BaseOf, UnsignedConvs
  <2>10. ASSUME Of({"p"}), ~(d.altfmt /\ v # 0) PROVE strtoul(z, 0) = v
    <3> DEFINE d2 == [d EXCEPT !.padc = ZERO, !.length = 8]
    <3>1. conv = "p"
      BY <2>3, <2>10
    <3>2. v \in ULong
      BY <2>2, <3>1 DEF ArgsFor, SignedConvs, UnsignedConvs
    <3>3. F = <<ZERO, LOWER_X>> \o print_unsigned(d2, v, 16)
      BY <2>2, <3>1 DEF Convert
    <3>4. d2 \in Parsed /\ d2.padc = ZERO /\ d2.altfmt = d.altfmt
      BY <2>2 DEF Parsed
    <3> HIDE DEF d2
    <3> QED
      BY <2>10, <3>2, <3>3, <3>4, PointerRead
  <2>11. ASSUME Of(SignedConvs), ~plus, ~(d.altfmt /\ Base = 16),
                NEW discard \in BOOLEAN
         PROVE  LET Word_ == IF Base = 16 THEN "x" ELSE "d"
                    end == sscanf(line, <<Blanks, Conv(Word_, discard), Blanks,
                                          Conv("s", FALSE)>>)
                IN  /\ end.vals = IF discard THEN 1 ELSE 2
                    /\ end.stored = IF discard THEN <<AWord>> ELSE <<v, AWord>>
    BY <2>7, <2>11 DEF Scans
  <2> DEFINE Scan(discard) ==
               sscanf(line, <<Blanks, Conv(IF Base = 16 THEN "x" ELSE "d", discard),
                              Blanks, Conv("s", FALSE)>>)
  <2>12. ASSUME Of(SignedConvs), ~plus, ~(d.altfmt /\ Base = 16)
         PROVE  /\ Scan(FALSE).vals = 2 /\ Scan(FALSE).stored = <<v, AWord>>
                /\ Scan(TRUE).vals = 1 /\ Scan(TRUE).stored = <<AWord>>
    <3>1. FALSE \in BOOLEAN /\ TRUE \in BOOLEAN
      OBVIOUS
    <3>2. Scan(FALSE).vals = 2 /\ Scan(FALSE).stored = <<v, AWord>>
      BY <2>11, <2>12, <3>1
    <3>3. Scan(TRUE).vals = 1 /\ Scan(TRUE).stored = <<AWord>>
      BY <2>11, <2>12, <3>1
    <3> QED
      BY <3>2, <3>3
  <2>13. ~Of({"b", "B"})
    OBVIOUS
  <2>14. ASSUME Of({"u", "U"}), F[1] # BLANK PROVE atol(z) = Signed(v)
    BY <2>8, <2>9, <2>14
  <2> QED
    BY <2>5, <2>7, <2>8, <2>10, <2>12, <2>13, <2>14, Zenon DEF ReadBack
<1> HIDE DEF NumberBack
<1>2. Spec => []NumberBack
  BY <1>1, StdioInvariant, PTL
<1> QED
  BY <1>2 DEF NumberBack
----------------------------------------------------------------------------
(* The bytes that can be in the buffer, and the line that its first n are. *)
Byte == Letter \cup Junk \cup {0, NEWLINE}
LineOf(f, n) == [k \in 1 .. n |-> f[k - 1]]

(* The terminal shows the line that is in the buffer, and if it shows that *)
(* the line was ended by a newline this is the buffer's next byte.         *)
Faithful == Seen = LineOf(buffer, i) /\ (Complete => buffer[i] = NEWLINE)

LineInv ==
    /\ at \in {"read", "reading", "write"}
    /\ buffer \in [0 .. BLOCK -> Byte]
    /\ i \in 0 .. BLOCK
    /\ screen \in Seq(Byte)
    /\ early \in BOOLEAN
    /\ at = "reading" => /\ i < BLOCK
                         /\ echoed = <<>>
                         /\ \A k \in 1 .. Len(screen) : screen[k] # NEWLINE
    /\ echoed \in {<<>>, LineOf(buffer, i + 1)}
    /\ ~early => Faithful
----------------------------------------------------------------------------
(* What is in the first n places of an array is a sequence. *)
LEMMA LineFacts ==
    ASSUME NEW n \in Nat, NEW f, \A k \in 0 .. n - 1 : f[k] \in Byte
    PROVE  /\ LineOf(f, n) \in Seq(Byte)
           /\ Len(LineOf(f, n)) = n
           /\ \A k \in 1 .. n : LineOf(f, n)[k] = f[k - 1]
<1>1. \A k \in 1 .. n : f[k - 1] \in Byte
  OBVIOUS
<1>2. LineOf(f, n) \in [1 .. n -> Byte]
  BY <1>1 DEF LineOf
<1> QED
  BY <1>2, LenProperties DEF LineOf

(* A line of no characters. *)
LEMMA EmptyLine == \A f : LineOf(f, 0) = <<>>
<1> SUFFICES ASSUME NEW f PROVE LineOf(f, 0) = <<>>
  OBVIOUS
<1>1. LineOf(f, 0) \in Seq(Byte) /\ Len(LineOf(f, 0)) = 0
  BY LineFacts
<1>2. <<>> \in Seq(Byte) /\ Len(<<>>) = 0
  BY EmptySeq
<1> QED
  BY <1>1, <1>2, EmptySeq

(* The next byte is put behind the line. *)
LEMMA LineGrows ==
    ASSUME NEW n \in Nat, NEW f, \A k \in 0 .. n - 1 : f[k] \in Byte,
           NEW g, \A k \in 0 .. n - 1 : g[k] = f[k], g[n] \in Byte
    PROVE  LineOf(g, n + 1) = Append(LineOf(f, n), g[n])
<1>1. /\ LineOf(f, n) \in Seq(Byte) /\ Len(LineOf(f, n)) = n
      /\ \A k \in 1 .. n : LineOf(f, n)[k] = f[k - 1]
  BY LineFacts
<1>2. \A k \in 0 .. n : g[k] \in Byte
  OBVIOUS
<1>3. /\ LineOf(g, n + 1) \in Seq(Byte) /\ Len(LineOf(g, n + 1)) = n + 1
      /\ \A k \in 1 .. n + 1 : LineOf(g, n + 1)[k] = g[k - 1]
  <2>1. n + 1 \in Nat /\ (n + 1) - 1 = n
    OBVIOUS
  <2> QED
    BY <1>2, <2>1, LineFacts
<1> DEFINE l == LineOf(f, n)
           m == LineOf(g, n + 1)
           a == Append(l, g[n])
<1>4. /\ a \in Seq(Byte) /\ Len(a) = n + 1
      /\ \A k \in 1 .. n : a[k] = l[k]
      /\ a[n + 1] = g[n]
  BY <1>1, AppendProperties
<1> HIDE DEF l, m, a
<1>5. ASSUME NEW k \in 1 .. n + 1 PROVE m[k] = a[k]
  <2>1. CASE k = n + 1
    BY <2>1, <1>3, <1>4 DEF m
  <2>2. CASE k \in 1 .. n
    <3>1. k - 1 \in 0 .. n - 1 /\ m[k] = g[k - 1] /\ l[k] = f[k - 1]
      BY <2>2, <1>1, <1>3 DEF l, m
    <3> QED
      BY <2>2, <3>1, <1>4
  <2> QED
    BY <2>1, <2>2
<1>6. m = a
  BY <1>3, <1>4, <1>5, SeqEqual DEF m
<1> QED
  BY <1>6 DEF l, m, a

(* Two arrays with the same first n bytes have the same line. *)
LEMMA LineStays ==
    ASSUME NEW n \in Nat, NEW f, NEW g, \A k \in 0 .. n - 1 : g[k] = f[k]
    PROVE  LineOf(g, n) = LineOf(f, n)
BY DEF LineOf

(* What Front leaves of a sequence. *)
LEMMA FrontFacts ==
    ASSUME NEW q \in Seq(Byte), q # <<>>
    PROVE  /\ Front(q) \in Seq(Byte) /\ Len(Front(q)) = Len(q) - 1
           /\ \A k \in 1 .. Len(q) - 1 : Front(q)[k] = q[k]
           /\ Len(q) \in Nat \ {0}
<1>1. Len(q) \in Nat \ {0}
  BY EmptySeq
<1>2. \A k \in 1 .. Len(q) - 1 : q[k] \in Byte
  BY <1>1, ElementOfSeq
<1>3. /\ SubSeq(q, 1, Len(q) - 1) \in Seq(Byte)
      /\ Len(SubSeq(q, 1, Len(q) - 1)) =
           IF 1 <= Len(q) - 1 THEN Len(q) - 1 - 1 + 1 ELSE 0
      /\ \A k \in 1 .. Len(q) - 1 - 1 + 1 :
           SubSeq(q, 1, Len(q) - 1)[k] = q[1 + k - 1]
  BY <1>1, <1>2, SubSeqProperties
<1>4. Len(Front(q)) = Len(q) - 1
  <2>1. \A n \in Nat \ {0} : (IF 1 <= n - 1 THEN n - 1 - 1 + 1 ELSE 0) = n - 1
    OBVIOUS
  <2> QED
    BY <1>1, <1>3, <2>1 DEF Front
<1>5. \A k \in 1 .. Len(q) - 1 : Front(q)[k] = q[k]
  <2> TAKE k \in 1 .. Len(q) - 1
  <2>1. k \in 1 .. Len(q) - 1 - 1 + 1 /\ 1 + k - 1 = k
    BY <1>1
  <2> QED
    BY <1>3, <2>1 DEF Front
<1> QED
  BY <1>1, <1>3, <1>4, <1>5 DEF Front
(* Front takes back what Append has put. *)
LEMMA FrontOfAppend ==
    ASSUME NEW q \in Seq(Byte), NEW c \in Byte
    PROVE  Front(Append(q, c)) = q /\ Last(Append(q, c)) = c
<1> DEFINE a == Append(q, c)
           b == Front(a)
<1>1. /\ a \in Seq(Byte) /\ Len(a) = Len(q) + 1 /\ a # <<>>
      /\ \A k \in 1 .. Len(q) : a[k] = q[k]
      /\ a[Len(q) + 1] = c
      /\ Len(q) \in Nat
  BY AppendProperties, LenProperties
<1> HIDE DEF a
<1>2. /\ b \in Seq(Byte) /\ Len(b) = Len(a) - 1
      /\ \A k \in 1 .. Len(a) - 1 : b[k] = a[k]
  BY <1>1, FrontFacts
<1> HIDE DEF b
<1>3. b = q
  BY <1>1, <1>2, SeqEqual
<1> QED
  BY <1>1, <1>3 DEF Last, a, b

(* A line in the buffer loses its last character. *)
LEMMA LineShrinks ==
    ASSUME NEW n \in Nat \ {0}, NEW f, \A k \in 0 .. n - 1 : f[k] \in Byte
    PROVE  Front(LineOf(f, n)) = LineOf(f, n - 1)
<1>1. /\ n - 1 \in Nat /\ (n - 1) + 1 = n /\ f[n - 1] \in Byte
      /\ \A k \in 0 .. (n - 1) - 1 : f[k] \in Byte
  OBVIOUS
<1>2. LineOf(f, n) = Append(LineOf(f, n - 1), f[n - 1])
  <2>1. LineOf(f, (n - 1) + 1) = Append(LineOf(f, n - 1), f[n - 1])
    BY <1>1, LineGrows
  <2> QED
    BY <1>1, <2>1
<1>3. LineOf(f, n - 1) \in Seq(Byte)
  BY <1>1, LineFacts
<1> QED
  BY <1>1, <1>2, <1>3, FrontOfAppend
----------------------------------------------------------------------------
(* The characters of a line do not end it. *)
LEMMA BytesDiffer == Letter \subseteq Byte \ {NEWLINE} /\ 0 \in Byte /\ NEWLINE \in Byte
BY LetterAssumption DEF Byte, Newlines, NEWLINE

(* While the line is edited the terminal shows no newline. *)
LEMMA NotComplete ==
    ASSUME NEW q \in Seq(Byte), \A k \in 1 .. Len(q) : q[k] # NEWLINE
    PROVE  ~(q # <<>> /\ Last(q) = NEWLINE)
<1> SUFFICES ASSUME q # <<>> PROVE Last(q) # NEWLINE
  OBVIOUS
<1>1. Len(q) \in 1 .. Len(q)
  BY FrontFacts
<1> QED
  BY <1>1 DEF Last

LEMMA LineInvInit == ConsoleInit => LineInv
<1> SUFFICES ASSUME ConsoleInit PROVE LineInv
  OBVIOUS
<1>1. screen \in Seq(Byte) /\ buffer \in [0 .. BLOCK -> Byte] /\ 0 \in 0 .. BLOCK
  <2>1. Junk \subseteq Byte /\ buffer \in [0 .. BLOCK -> Junk]
    BY DEF ConsoleInit, Byte
  <2>2. screen \in Seq(Byte)
    BY EmptySeq DEF ConsoleInit
  <2>3. BLOCK \in Nat /\ 0 \in 0 .. BLOCK
    BY BlockAssumption
  <2> QED
    BY <2>1, <2>2, <2>3
<1>2. Faithful
  BY EmptyLine DEF ConsoleInit, Faithful, Seen, Complete
<1> QED
  BY <1>1, <1>2 DEF ConsoleInit, LineInv

LEMMA ReadCallKeeps == LineInv /\ ReadCall => LineInv'
<1> SUFFICES ASSUME LineInv, ReadCall PROVE LineInv'
  OBVIOUS
<1>1. screen' = <<>> /\ i' = 0
  BY DEF ReadCall
<1>2. /\ screen' \in Seq(Byte) /\ Len(screen') = 0
      /\ i' \in 0 .. BLOCK /\ i' < BLOCK
  BY <1>1, BlockAssumption, EmptySeq
<1>3. Faithful'
  BY <1>1, EmptyLine DEF Faithful, Seen, Complete
<1>4. early' \in BOOLEAN /\ at' = "reading" /\ echoed' = <<>> /\ buffer' = buffer
  BY DEF ReadCall
<1>5. \A k \in 1 .. Len(screen') : screen'[k] # NEWLINE
  BY <1>2
<1> QED
  BY <1>2, <1>3, <1>4, <1>5 DEF LineInv

(* What is known while the line is edited. *)
LEMMA Editing ==
    ASSUME LineInv, at = "reading"
    PROVE  /\ BLOCK \in Nat /\ i \in Nat /\ i < BLOCK
           /\ ~Complete /\ Seen = screen
           /\ \A k \in 0 .. BLOCK : buffer[k] \in Byte
           /\ \A k \in 0 .. i - 1 : buffer[k] \in Byte
           /\ LineOf(buffer, i) \in Seq(Byte) /\ Len(LineOf(buffer, i)) = i
           /\ ~early => screen = LineOf(buffer, i)
<1>1. BLOCK \in Nat /\ i \in Nat /\ i < BLOCK
  BY BlockAssumption DEF LineInv
<1>2. ~Complete
  BY NotComplete DEF LineInv, Complete
<1>3. Seen = screen
  BY <1>2 DEF Seen
<1>4. \A k \in 0 .. BLOCK : buffer[k] \in Byte
  BY DEF LineInv
<1>5. \A k \in 0 .. i - 1 : buffer[k] \in Byte
  BY <1>1, <1>4
<1>6. LineOf(buffer, i) \in Seq(Byte) /\ Len(LineOf(buffer, i)) = i
  BY <1>1, <1>5, LineFacts
<1> QED
  BY <1>1, <1>2, <1>3, <1>4, <1>5, <1>6 DEF LineInv, Faithful

(* A delete, at the start of the line and behind it. *)
LEMMA DeleteKeeps ==
    ASSUME LineInv, at = "reading", Delete, UNCHANGED echoed
    PROVE  LineInv'
<1>1. CASE i = 0
  <2>1. /\ i' = 1 /\ UNCHANGED <<screen, buffer>> /\ early'
        /\ at' = IF 1 < BLOCK THEN "reading" ELSE "write"
    <3>1. Advance(1) /\ UNCHANGED <<screen, buffer>> /\ early' = (early \/ i = 0)
      BY <1>1 DEF Delete
    <3> QED
      BY <1>1, <3>1 DEF Advance
  <2>3. early' \in BOOLEAN
    BY DEF Delete
  <2>2. 1 \in 0 .. BLOCK
    BY BlockAssumption
  <2> QED
    BY <2>1, <2>2, <2>3 DEF LineInv
<1>2. CASE i # 0
  <2>1. /\ BLOCK \in Nat /\ i \in Nat \ {0} /\ i < BLOCK
        /\ i - 1 \in 0 .. BLOCK /\ i - 1 < BLOCK /\ i > 0
        /\ i \in 0 .. BLOCK
    BY <1>2, Editing
  <2>2. /\ i' = i - 1 /\ at' = "reading" /\ buffer' = [buffer EXCEPT ![i] = 0]
        /\ screen' = IF screen = <<>> THEN <<>> ELSE Front(screen)
        /\ early' = early
    BY <1>2, <2>1 DEF Delete, Advance, puts_rubout, LineInv
  <2>3. buffer' \in [0 .. BLOCK -> Byte]
    BY <2>2, BytesDiffer DEF LineInv
  <2>4. /\ screen' \in Seq(Byte)
        /\ \A k \in 1 .. Len(screen') : screen'[k] # NEWLINE
    <3>1. CASE screen = <<>>
      BY <3>1, <2>2 DEF LineInv
    <3>2. CASE screen # <<>>
      <4>1. /\ screen' \in Seq(Byte) /\ Len(screen') = Len(screen) - 1
            /\ \A k \in 1 .. Len(screen) - 1 : screen'[k] = screen[k]
            /\ Len(screen) \in Nat \ {0}
        BY <2>2, <3>2, FrontFacts DEF LineInv
      <4>2. \A k \in 1 .. Len(screen) : screen[k] # NEWLINE
        BY DEF LineInv
      <4> QED
        BY <4>1, <4>2
    <3> QED
      BY <3>1, <3>2
  <2>5. ASSUME ~early PROVE Faithful'
    <3>1. /\ screen = LineOf(buffer, i) /\ Len(screen) = i
          /\ \A k \in 0 .. i - 1 : buffer[k] \in Byte
      BY <2>5, Editing
    <3>2. screen # <<>>
      BY <2>1, <3>1, EmptySeq
    <3>3. screen' = LineOf(buffer, i - 1)
      BY <2>1, <2>2, <3>1, <3>2, LineShrinks
    <3>4. \A k \in 0 .. (i - 1) - 1 : buffer'[k] = buffer[k]
      BY <2>1, <2>2 DEF LineInv
    <3>5. LineOf(buffer', i - 1) = LineOf(buffer, i - 1)
      BY <2>1, <3>4, LineStays
    <3>6. ~Complete'
      BY <2>4, NotComplete DEF Complete
    <3> QED
      BY <2>2, <3>3, <3>5, <3>6 DEF Faithful, Seen
  <2>6. echoed' = <<>>
    BY DEF LineInv
  <2> QED
    BY <2>1, <2>2, <2>3, <2>4, <2>5, <2>6 DEF LineInv
<1> QED
  BY <1>1, <1>2

LEMMA OrdinaryKeeps ==
    ASSUME LineInv, at = "reading", NEW c \in Letter, Ordinary(c), UNCHANGED echoed
    PROVE  LineInv'
<1>1. /\ BLOCK \in Nat /\ i \in Nat /\ i < BLOCK
      /\ i + 1 \in 0 .. BLOCK /\ i \in 0 .. BLOCK
      /\ \A k \in 0 .. i - 1 : k \in 0 .. BLOCK /\ k # i
  BY Editing
<1>2. /\ i' = i + 1 /\ at' = IF i + 1 < BLOCK THEN "reading" ELSE "write"
      /\ buffer' = [buffer EXCEPT ![i] = c]
      /\ screen' = Append(screen, c) /\ early' = early
  BY DEF Ordinary, Advance, putc
<1>3. c \in Byte /\ c # NEWLINE
  BY BytesDiffer
<1>4. buffer' \in [0 .. BLOCK -> Byte] /\ buffer'[i] = c
  BY <1>1, <1>2, <1>3 DEF LineInv
<1>5. /\ screen' \in Seq(Byte)
      /\ \A k \in 1 .. Len(screen') : screen'[k] # NEWLINE
  <2>1. /\ screen' \in Seq(Byte) /\ Len(screen') = Len(screen) + 1
        /\ \A k \in 1 .. Len(screen) : screen'[k] = screen[k]
        /\ screen'[Len(screen) + 1] = c
        /\ Len(screen) \in Nat
    BY <1>2, <1>3, AppendProperties, LenProperties DEF LineInv
  <2>2. \A k \in 1 .. Len(screen) : screen[k] # NEWLINE
    BY DEF LineInv
  <2> QED
    BY <1>3, <2>1, <2>2
<1>6. ASSUME ~early PROVE Faithful'
  <2>1. /\ screen = LineOf(buffer, i)
        /\ \A k \in 0 .. i - 1 : buffer[k] \in Byte
    BY <1>6, Editing
  <2>2. \A k \in 0 .. i - 1 : buffer'[k] = buffer[k]
    BY <1>1, <1>2 DEF LineInv
  <2>3. LineOf(buffer', i + 1) = Append(LineOf(buffer, i), c)
    <3>1. LineOf(buffer', i + 1) = Append(LineOf(buffer, i), buffer'[i])
      BY <1>1, <1>3, <1>4, <2>1, <2>2, LineGrows
    <3> QED
      BY <3>1, <1>4
  <2>4. ~Complete'
    BY <1>5, NotComplete DEF Complete
  <2> QED
    BY <1>2, <2>1, <2>3, <2>4 DEF Faithful, Seen
<1>7. echoed' = <<>>
  BY DEF LineInv
<1> QED
  BY <1>1, <1>2, <1>4, <1>5, <1>6, <1>7 DEF LineInv

LEMMA NewlineKeeps ==
    ASSUME LineInv, at = "reading", Newline, UNCHANGED echoed
    PROVE  LineInv'
<1>1. /\ BLOCK \in Nat /\ i \in Nat /\ i < BLOCK /\ i \in 0 .. BLOCK
      /\ \A k \in 0 .. i - 1 : k \in 0 .. BLOCK /\ k # i
  BY Editing
<1>2. /\ i' = i /\ at' = "write" /\ buffer' = [buffer EXCEPT ![i] = NEWLINE]
      /\ screen' = Append(screen, NEWLINE) /\ early' = early
  BY DEF Newline, putc
<1>3. buffer' \in [0 .. BLOCK -> Byte] /\ buffer'[i] = NEWLINE
  BY <1>1, <1>2, BytesDiffer DEF LineInv
<1>4. /\ screen' \in Seq(Byte) /\ screen' # <<>>
      /\ Front(screen') = screen /\ Last(screen') = NEWLINE
  BY <1>2, BytesDiffer, AppendProperties, FrontOfAppend DEF LineInv
<1>5. ASSUME ~early PROVE Faithful'
  <2>1. screen = LineOf(buffer, i)
    BY <1>5, Editing
  <2>2. \A k \in 0 .. i - 1 : buffer'[k] = buffer[k]
    BY <1>1, <1>2 DEF LineInv
  <2>3. LineOf(buffer', i) = LineOf(buffer, i)
    BY <1>1, <2>2, LineStays
  <2> QED
    BY <1>2, <1>3, <1>4, <2>1, <2>3 DEF Faithful, Seen, Complete
<1>6. echoed' = <<>>
  BY DEF LineInv
<1> QED
  BY <1>2, <1>3, <1>4, <1>5, <1>6 DEF LineInv

LEMMA KeypressKeeps == LineInv /\ Keypress => LineInv'
<1> SUFFICES ASSUME LineInv, Keypress PROVE LineInv'
  OBVIOUS
<1>1. at = "reading" /\ UNCHANGED echoed
  BY DEF Keypress
<1>2. CASE EndOfText
  BY <1>1, <1>2 DEF EndOfText, LineInv, Faithful, Seen, Complete
<1> QED
  BY <1>1, <1>2, DeleteKeeps, OrdinaryKeeps, NewlineKeeps DEF Keypress

LEMMA WriteCallKeeps == LineInv /\ WriteCall => LineInv'
BY DEF WriteCall, LineInv, Faithful, Seen, Complete, LineOf

LEMMA StutterKeeps == LineInv /\ UNCHANGED consoleVars => LineInv'
BY DEF consoleVars, LineInv, Faithful, Seen, Complete

(* The index stays in the buffer, and the terminal and the buffer agree.   *)
LEMMA LineInvariant == ConsoleSpec => []LineInv
<1>1. LineInv /\ [ConsoleNext]_consoleVars => LineInv'
  BY ReadCallKeeps, KeypressKeeps, WriteCallKeeps, StutterKeeps
  DEF ConsoleNext
<1> QED
  BY LineInvInit, <1>1, PTL DEF ConsoleSpec

(* To the console the other calls of the library are no steps.             *)
LEMMA ClientIsConsole == Spec => ConsoleSpec
<1>1. Init => ConsoleInit
  BY DEF Init
<1>2. [Next]_vars => [ConsoleNext]_consoleVars
  BY DEF Next, vars
<1> QED
  BY <1>1, <1>2, PTL DEF Spec, ConsoleSpec

(* typo writes the line that the terminal has shown, and with it the       *)
(* newline that ended it, unless the line began with a delete.             *)
THEOREM EchoIsFaithful == Spec => []EchoesLine
<1>1. LineInv => EchoesLine
  <2> SUFFICES ASSUME LineInv, echoed # <<>>, ~early
               PROVE  /\ Front(echoed) = Seen
                      /\ Complete => Last(echoed) = NEWLINE
    BY DEF EchoesLine
  <2>1. /\ echoed = LineOf(buffer, i + 1) /\ Faithful
        /\ i \in Nat /\ i <= BLOCK
        /\ BLOCK \in Nat /\ buffer \in [0 .. BLOCK -> Byte]
    BY BlockAssumption DEF LineInv
  <2>2. /\ i + 1 \in Nat \ {0} /\ (i + 1) - 1 = i
        /\ \A k \in 0 .. (i + 1) - 1 : buffer[k] \in Byte
    BY <2>1
  <2>3. Front(echoed) = LineOf(buffer, i)
    BY <2>1, <2>2, LineShrinks
  <2>4. Len(echoed) = i + 1 /\ echoed[i + 1] = buffer[i]
    <3>1. /\ Len(LineOf(buffer, i + 1)) = i + 1
          /\ \A k \in 1 .. i + 1 : LineOf(buffer, i + 1)[k] = buffer[k - 1]
      <4>1. PICK n \in Nat : n = i + 1
        BY <2>2
      <4>2. \A k \in 0 .. n - 1 : buffer[k] \in Byte
        BY <2>2, <4>1
      <4> QED
        BY <4>1, <4>2, LineFacts
    <3> QED
      BY <2>1, <2>2, <3>1
  <2> QED
    BY <2>1, <2>3, <2>4 DEF Faithful, Last
<1> QED
  BY <1>1, LineInvariant, ClientIsConsole, PTL
----------------------------------------------------------------------------
(* The refinement of the line editor: LineOf(buffer, i) is its line and    *)
(* Seen its screen, and a step of read_syscall's loop is one of its edits. *)

LEMMA RefinesInit == ConsoleInit => Line!Init
<1> SUFFICES ASSUME ConsoleInit PROVE Line!Init
  OBVIOUS
<1>1. LineOf(buffer, i) = <<>> /\ Seen = <<>>
  BY EmptyLine DEF ConsoleInit, Seen, Complete
<1> QED
  BY <1>1 DEF Line!Init, LineOf, ConsoleInit

LEMMA RefinesRead == LineInv /\ ReadCall => Line!Next
<1> SUFFICES ASSUME LineInv, ReadCall PROVE Line!Next
  OBVIOUS
<1>1. LineOf(buffer', i') = <<>> /\ Seen' = <<>>
  BY EmptyLine DEF ReadCall, Seen, Complete
<1>2. at # "reading" /\ at' = "reading"
  BY DEF ReadCall
<1> QED
  BY <1>1, <1>2 DEF Line!Next, Line!Begin, LineOf

(* The line after a key is complete when it is full. *)
LEMMA FullWhenDone ==
    ASSUME LineInv, at = "reading", LineInv', NEW n \in Nat, n <= BLOCK, Advance(n)
    PROVE  (at' # "reading") = (Len(LineOf(buffer', i')) = BLOCK)
<1>1. BLOCK \in Nat /\ i' = n /\ n \in Nat /\ n <= BLOCK
      /\ at' = IF n < BLOCK THEN "reading" ELSE "write"
  BY BlockAssumption DEF Advance
<1>2. \A k \in 0 .. n - 1 : buffer'[k] \in Byte
  BY <1>1 DEF LineInv
<1>3. LineOf(buffer', n) \in Seq(Byte) /\ Len(LineOf(buffer', n)) = n
  BY <1>2, LineFacts
<1> QED
  BY <1>1, <1>3

(* Behind the first place a delete erases the last character. *)
LEMMA RefinesErase ==
    ASSUME LineInv, at = "reading", Delete, LineInv', i # 0
    PROVE  Line!Next
<1>1. /\ BLOCK \in Nat /\ i \in Nat \ {0} /\ i < BLOCK /\ i > 0
      /\ i - 1 \in Nat /\ i - 1 <= BLOCK /\ i - 1 < BLOCK
      /\ LineOf(buffer, i) \in Seq(Byte) /\ Len(LineOf(buffer, i)) = i
      /\ \A k \in 0 .. i - 1 : buffer[k] \in Byte
      /\ Seen = screen
  BY Editing
<1>2. /\ Advance(i - 1) /\ i' = i - 1 /\ at' = "reading"
      /\ buffer' = [buffer EXCEPT ![i] = 0]
      /\ screen' = IF screen = <<>> THEN <<>> ELSE Front(screen)
  BY <1>1 DEF Delete, Advance, puts_rubout
<1>3. LineOf(buffer, i) # <<>>
  BY <1>1, EmptySeq
<1>4. LineOf(buffer', i') = Front(LineOf(buffer, i))
  <2>1. \A k \in 0 .. (i - 1) - 1 : buffer'[k] = buffer[k]
    BY <1>1, <1>2 DEF LineInv
  <2>2. LineOf(buffer', i - 1) = LineOf(buffer, i - 1)
    BY <1>1, <2>1, LineStays
  <2>3. Front(LineOf(buffer, i)) = LineOf(buffer, i - 1)
    BY <1>1, LineShrinks
  <2> QED
    BY <1>2, <2>2, <2>3
<1>5. Seen' = screen'
  <2>1. ~Complete'
    BY <1>2, NotComplete DEF LineInv, Complete
  <2> QED
    BY <2>1 DEF Seen
<1>6. (at' # "reading") = (Len(LineOf(buffer', i')) = BLOCK)
  BY <1>1, <1>2, FullWhenDone
<1>7. Line!Erase
  BY <1>1, <1>2, <1>3, <1>4, <1>5 DEF Line!Erase, Line!Front, Front, LineOf
<1> QED
  BY <1>6, <1>7 DEF Line!Next, LineOf

(* At the first place it puts in the byte that the buffer has there. *)
LEMMA RefinesEraseNothing ==
    ASSUME LineInv, at = "reading", Delete, LineInv', i = 0
    PROVE  Line!Next
<1>1. BLOCK \in Nat /\ 1 \in Nat /\ 1 <= BLOCK /\ buffer[0] \in Byte
  BY BlockAssumption DEF LineInv
<1>2. Advance(1) /\ i' = 1 /\ UNCHANGED <<screen, buffer>>
  BY DEF Delete, Advance
<1>3. LineOf(buffer, i) = <<>>
  BY EmptyLine
<1>4. LineOf(buffer', i') = <<buffer[0]>>
  BY <1>2 DEF LineOf
<1>5. Seen' = Seen
  BY <1>2 DEF Seen, Complete
<1>6. (at' # "reading") = (Len(LineOf(buffer', i')) = BLOCK)
  BY <1>1, <1>2, FullWhenDone
<1>7. Line!EraseNothing
  <2>1. buffer[0] \in Letter \cup Junk \cup {NEWLINE}
    BY <1>1, JunkAssumption DEF Byte
  <2> QED
    BY <2>1, <1>3, <1>4, <1>5 DEF Line!EraseNothing, LineOf
<1> QED
  BY <1>6, <1>7 DEF Line!Next, LineOf

LEMMA RefinesType ==
    ASSUME LineInv, at = "reading", NEW c \in Letter, Ordinary(c), LineInv'
    PROVE  Line!Next
<1>1. /\ BLOCK \in Nat /\ i \in Nat /\ i < BLOCK /\ i \in 0 .. BLOCK
      /\ i + 1 \in Nat /\ i + 1 <= BLOCK
      /\ \A k \in 0 .. i - 1 : k \in 0 .. BLOCK /\ k # i
      /\ \A k \in 0 .. i - 1 : buffer[k] \in Byte
      /\ Seen = screen
  BY Editing
<1>2. /\ Advance(i + 1) /\ i' = i + 1 /\ buffer' = [buffer EXCEPT ![i] = c]
      /\ screen' = Append(screen, c)
  BY DEF Ordinary, Advance, putc
<1>3. c \in Byte /\ c # NEWLINE /\ buffer'[i] = c
  BY <1>1, <1>2, BytesDiffer DEF LineInv
<1>4. LineOf(buffer', i') = Append(LineOf(buffer, i), c)
  <2>1. \A k \in 0 .. i - 1 : buffer'[k] = buffer[k]
    BY <1>1, <1>2 DEF LineInv
  <2>2. LineOf(buffer', i + 1) = Append(LineOf(buffer, i), buffer'[i])
    BY <1>1, <1>3, <2>1, LineGrows
  <2> QED
    BY <1>2, <1>3, <2>2
<1>5. Seen' = screen'
  <2>1. Last(screen') = c
    BY <1>2, <1>3, FrontOfAppend DEF LineInv
  <2> QED
    BY <1>3, <2>1 DEF Seen, Complete
<1>6. (at' # "reading") = (Len(LineOf(buffer', i')) = BLOCK)
  BY <1>1, <1>2, FullWhenDone
<1>7. Line!Type
  BY <1>1, <1>2, <1>4, <1>5 DEF Line!Type, LineOf
<1> QED
  BY <1>6, <1>7 DEF Line!Next, LineOf

(* A newline, or EOT, completes the line as it is. *)
LEMMA RefinesComplete ==
    ASSUME LineInv, at = "reading", Newline \/ EndOfText
    PROVE  Line!Next
<1>1. at' # "reading" /\ i' = i
  BY DEF Newline, EndOfText
<1>2. LineOf(buffer', i) = LineOf(buffer, i)
  <2>1. i \in Nat /\ \A k \in 0 .. i - 1 : k \in 0 .. BLOCK /\ k # i
    BY Editing
  <2>2. \A k \in 0 .. i - 1 : buffer'[k] = buffer[k]
    BY <2>1 DEF Newline, EndOfText, LineInv
  <2> QED
    BY <2>1, <2>2, LineStays
<1>3. Seen' = Seen
  <2>1. CASE Newline
    <3>1. /\ screen' = Append(screen, NEWLINE) /\ screen \in Seq(Byte)
      BY <2>1 DEF Newline, putc, LineInv
    <3>2. /\ screen' # <<>> /\ Front(screen') = screen
          /\ Last(screen') = NEWLINE
      BY <3>1, BytesDiffer, AppendProperties, FrontOfAppend
    <3> QED
      BY <3>2, Editing DEF Seen, Complete
  <2>2. CASE EndOfText
    BY <2>2 DEF EndOfText, Seen, Complete
  <2> QED
    BY <2>1, <2>2
<1> QED
  BY <1>1, <1>2, <1>3 DEF Line!Next, LineOf

(* Every step of typo is one of the line editor, or none: the write of a   *)
(* line changes nothing that read has promised.                            *)
LEMMA RefinesStep ==
    LineInv /\ LineInv' /\ [ConsoleNext]_consoleVars => [Line!Next]_(Line!vars)
<1> SUFFICES ASSUME LineInv, LineInv', [ConsoleNext]_consoleVars
             PROVE  [Line!Next]_(Line!vars)
  OBVIOUS
<1>1. CASE ReadCall
  BY <1>1, RefinesRead
<1>2. CASE Keypress
  <2>1. at = "reading"
    BY <1>2 DEF Keypress
  <2> QED
    BY <1>2, <2>1, RefinesErase, RefinesEraseNothing, RefinesType,
       RefinesComplete DEF Keypress
<1>3. CASE WriteCall
  <2>1. /\ UNCHANGED <<i, buffer, screen>>
        /\ at # "reading" /\ at' # "reading"
    BY <1>3 DEF WriteCall
  <2> QED
    BY <2>1 DEF Line!vars, Seen, Complete
<1>4. CASE UNCHANGED consoleVars
  BY <1>4 DEF consoleVars, Line!vars, Seen, Complete
<1> QED
  BY <1>1, <1>2, <1>3, <1>4 DEF ConsoleNext

(* read_syscall with typo implements the line editor of LineSpec, which    *)
(* has no index and no buffer.                                             *)
THEOREM LineImplemented == Spec => EditsLine
<1>1. LineInv /\ LineInv' /\ [ConsoleNext]_consoleVars => [Line!Next]_(Line!vars)
  BY RefinesStep
<1> QED
  BY RefinesInit, <1>1, LineInvariant, ClientIsConsole, PTL DEF ConsoleSpec, EditsLine, Line!Spec
=============================================================================
