--------------------------- MODULE StringsProofs ---------------------------
(***************************************************************************)
(* Theorems about the string functions, for a memory of any size and any   *)
(* set of characters.                                                      *)
(***************************************************************************)
EXTENDS Strings, Induction, SequenceTheorems

(* A loop makes as many rounds as there are places before the first stop.  *)
LEMMA UntilIs ==
    ASSUME NEW stop \in SUBSET Nat,
           NEW n \in stop, \A k \in 0 .. n - 1 : k \notin stop
    PROVE  Until(stop) = n
<1> DEFINE Later(k) == {d \in stop : k <= d}
           First(k) == CHOOSE d \in Later(k) : \A e \in Later(k) : d <= e
           g == [k \in Nat |-> IF Later(k) = {} THEN 0 ELSE First(k)]
           f == CHOOSE h : h = [k \in Nat |-> IF k \in stop THEN k ELSE h[k + 1]]
<1>1. ASSUME NEW k \in stop PROVE g[k] = k
  <2>1. k \in Later(k) /\ (\A e \in Later(k) : k <= e)
    OBVIOUS
  <2>2. First(k) \in Later(k) /\ First(k) <= k
    BY <2>1
  <2>3. First(k) = k /\ Later(k) # {} /\ k \in Nat
    BY <2>1, <2>2
  <2> HIDE DEF Later, First
  <2> QED
    BY <2>3
<1>2. ASSUME NEW k \in Nat \ stop PROVE g[k] = g[k + 1]
  <2>1. k + 1 \in Nat /\ \A d \in stop : d # k /\ (k <= d <=> k + 1 <= d)
    OBVIOUS
  <2>2. Later(k) = Later(k + 1)
    BY <2>1
  <2>3. First(k) = First(k + 1)
    BY <2>2
  <2> HIDE DEF Later, First
  <2> QED
    BY <2>1, <2>2, <2>3
<1>3. g = [k \in Nat |-> IF k \in stop THEN k ELSE g[k + 1]]
  <2> HIDE DEF Later, First
  <2> QED
    BY <1>1, <1>2
<1>4. f = [k \in Nat |-> IF k \in stop THEN k ELSE f[k + 1]]
  <2> HIDE DEF g
  <2> QED
    BY <1>3
<1>5. Until(stop) = f[0]
  BY DEF Until
<1> HIDE DEF f, g
<1>6. f[n] = n /\ \A k \in Nat \ stop : f[k] = f[k + 1]
  BY <1>4
<1>7. f[0] = f[n]
  BY <1>6, LoopEnds
<1> QED
  BY <1>5, <1>6, <1>7
----------------------------------------------------------------------------
(* Addresses wrap. *)
LEMMA PtrFacts ==
    /\ \A a \in Int : Ptr(a) \in Addr
    /\ \A a \in Addr : Ptr(a) = a /\ Ptr(a + SIZE) = a
    /\ Ptr(-1) = SIZE - 1 /\ Ptr(SIZE) = 0
  BY SizeAssumption DEF Ptr, Addr

Memory == [Addr -> Char]

LEMMA SetFacts ==
    ASSUME NEW m \in Memory, NEW a \in Int, NEW c \in Char
    PROVE  /\ Set(m, a, c) \in Memory
           /\ Set(m, a, c)[Ptr(a)] = c
           /\ \A x \in Addr \ {Ptr(a)} : Set(m, a, c)[x] = m[x]
  BY PtrFacts DEF Set, Memory

LEMMA AtFacts ==
    ASSUME NEW m \in Memory
    PROVE  /\ \A a \in Int : At(m, a) \in Char
           /\ \A a \in Addr : At(m, a) = m[a]
  BY PtrFacts DEF At, Memory

(* One round after the other of the loops that write.                      *)
LEMMA UpRounds ==
    ASSUME NEW m \in Memory, NEW d \in Int, NEW s \in Int
    PROVE  /\ Up(m, d, s, 0) = m
           /\ \A k \in Nat :
                /\ Up(m, d, s, k) \in Memory
                /\ Up(m, d, s, k + 1) =
                     Set(Up(m, d, s, k), d + k, At(Up(m, d, s, k), s + k))
<1> DEFINE Round(k, b) == Set(b, d + k, At(b, s + k))
           step == [p \in Nat \X Memory |-> Round(p[1], p[2])]
           f == CHOOSE h : h = [j \in Nat |->
                  IF j = 0 THEN m
                  ELSE LET b == h[j - 1] IN Set(b, d + j - 1, At(b, s + j - 1))]
<1>1. \A k \in Nat, b \in Memory : Round(k, b) \in Memory
  <2> TAKE k \in Nat, b \in Memory
  <2>1. d + k \in Int /\ At(b, s + k) \in Char
    BY AtFacts
  <2> QED
    BY <2>1, SetFacts
<1>2. step \in [Nat \X Memory -> Memory]
  BY <1>1
<1>3. \A k \in Nat, b \in Memory : step[<<k, b>>] = Round(k, b)
  <2> TAKE k \in Nat, b \in Memory
  <2>1. <<k, b>> \in Nat \X Memory
    OBVIOUS
  <2> HIDE DEF Round
  <2> QED
    BY <2>1
<1> HIDE DEF step
<1>4. PICK g \in [Nat -> Memory] : Recurs(m, step, g)
  BY <1>2, RecursionExists
<1>5. g[0] = m /\ \A k \in Nat : g[k + 1] = Round(k, g[k])
  <2> HIDE DEF Round
  <2> QED
    BY <1>3, <1>4 DEF Recurs
<1>6. g = [j \in Nat |->
             IF j = 0 THEN m
             ELSE LET b == g[j - 1] IN Set(b, d + j - 1, At(b, s + j - 1))]
  <2>1. ASSUME NEW j \in Nat, j # 0
        PROVE  g[j] = Set(g[j - 1], d + j - 1, At(g[j - 1], s + j - 1))
    <3>1. /\ j - 1 \in Nat /\ (j - 1) + 1 = j
          /\ d + (j - 1) = d + j - 1 /\ s + (j - 1) = s + j - 1
      BY <2>1
    <3>2. g[(j - 1) + 1] = Round(j - 1, g[j - 1])
      BY <1>5, <3>1
    <3> QED
      BY <3>1, <3>2
  <2> HIDE DEF Round
  <2> QED
    BY <1>5, <2>1
<1>7. f = [j \in Nat |->
             IF j = 0 THEN m
             ELSE LET b == f[j - 1] IN Set(b, d + j - 1, At(b, s + j - 1))]
  BY <1>6
<1>8. \A k : Up(m, d, s, k) = f[k]
  BY DEF Up
<1> HIDE DEF f
<1>9. f[0] = m /\ \A k \in Nat : f[k + 1] = Round(k, f[k])
  <2>1. ASSUME NEW k \in Nat PROVE f[k + 1] = Round(k, f[k])
    <3>1. /\ k + 1 \in Nat /\ k + 1 # 0 /\ (k + 1) - 1 = k
          /\ d + (k + 1) - 1 = d + k /\ s + (k + 1) - 1 = s + k
      OBVIOUS
    <3>2. f[k + 1] = Set(f[(k + 1) - 1], d + (k + 1) - 1,
                         At(f[(k + 1) - 1], s + (k + 1) - 1))
      BY <1>7, <3>1
    <3> QED
      BY <3>1, <3>2
  <2> QED
    BY <1>7, <2>1
<1> DEFINE P == {k \in Nat : f[k] \in Memory}
<1>10. P = Nat
  <2>1. 0 \in P
    BY <1>9
  <2>2. ASSUME NEW k \in P PROVE k + 1 \in P
    <3> HIDE DEF Round
    <3> QED
      BY <1>1, <1>9
  <2> HIDE DEF P
  <2>3. P \in SUBSET Nat
    BY DEF P
  <2> QED
    BY <2>1, <2>2, <2>3, SetInduction
<1> QED
  BY <1>8, <1>9, <1>10

LEMMA DownRounds ==
    ASSUME NEW m \in Memory, NEW d \in Int, NEW s \in Int, NEW count \in Int
    PROVE  /\ Down(m, d, s, count, 0) = m
           /\ \A k \in Nat :
                /\ Down(m, d, s, count, k) \in Memory
                /\ Down(m, d, s, count, k + 1) =
                     Set(Down(m, d, s, count, k), d + (count - 1 - k),
                         At(Down(m, d, s, count, k), s + (count - 1 - k)))
<1> DEFINE Round(k, b) == Set(b, d + (count - 1 - k), At(b, s + (count - 1 - k)))
           step == [p \in Nat \X Memory |-> Round(p[1], p[2])]
           f == CHOOSE h : h = [j \in Nat |->
                  IF j = 0 THEN m
                  ELSE LET b == h[j - 1] IN Set(b, d + count - j, At(b, s + count - j))]
<1>1. \A k \in Nat, b \in Memory : Round(k, b) \in Memory
  <2> TAKE k \in Nat, b \in Memory
  <2>1. /\ d + (count - 1 - k) \in Int
        /\ At(b, s + (count - 1 - k)) \in Char
    BY AtFacts
  <2> QED
    BY <2>1, SetFacts
<1>2. step \in [Nat \X Memory -> Memory]
  BY <1>1
<1>3. \A k \in Nat, b \in Memory : step[<<k, b>>] = Round(k, b)
  <2> TAKE k \in Nat, b \in Memory
  <2>1. <<k, b>> \in Nat \X Memory
    OBVIOUS
  <2> HIDE DEF Round
  <2> QED
    BY <2>1
<1> HIDE DEF step
<1>4. PICK g \in [Nat -> Memory] : Recurs(m, step, g)
  BY <1>2, RecursionExists
<1>5. g[0] = m /\ \A k \in Nat : g[k + 1] = Round(k, g[k])
  <2> HIDE DEF Round
  <2> QED
    BY <1>3, <1>4 DEF Recurs
<1>6. g = [j \in Nat |->
             IF j = 0 THEN m
             ELSE LET b == g[j - 1] IN Set(b, d + count - j, At(b, s + count - j))]
  <2>1. ASSUME NEW j \in Nat, j # 0
        PROVE  g[j] = Set(g[j - 1], d + count - j, At(g[j - 1], s + count - j))
    <3>1. /\ j - 1 \in Nat /\ (j - 1) + 1 = j
          /\ d + (count - 1 - (j - 1)) = d + count - j
          /\ s + (count - 1 - (j - 1)) = s + count - j
      BY <2>1
    <3>2. g[(j - 1) + 1] = Round(j - 1, g[j - 1])
      BY <1>5, <3>1
    <3> QED
      BY <3>1, <3>2
  <2> HIDE DEF Round
  <2> QED
    BY <1>5, <2>1
<1>7. f = [j \in Nat |->
             IF j = 0 THEN m
             ELSE LET b == f[j - 1] IN Set(b, d + count - j, At(b, s + count - j))]
  BY <1>6
<1>8. \A k : Down(m, d, s, count, k) = f[k]
  BY DEF Down
<1> HIDE DEF f
<1>9. f[0] = m /\ \A k \in Nat : f[k + 1] = Round(k, f[k])
  <2>1. ASSUME NEW k \in Nat PROVE f[k + 1] = Round(k, f[k])
    <3>1. /\ k + 1 \in Nat /\ k + 1 # 0 /\ (k + 1) - 1 = k
          /\ d + count - (k + 1) = d + (count - 1 - k)
          /\ s + count - (k + 1) = s + (count - 1 - k)
      OBVIOUS
    <3>2. f[k + 1] = Set(f[(k + 1) - 1], d + count - (k + 1),
                         At(f[(k + 1) - 1], s + count - (k + 1)))
      BY <1>7, <3>1
    <3> QED
      BY <3>1, <3>2
  <2> QED
    BY <1>7, <2>1
<1> DEFINE P == {k \in Nat : f[k] \in Memory}
<1>10. P = Nat
  <2>1. 0 \in P
    BY <1>9
  <2>2. ASSUME NEW k \in P PROVE k + 1 \in P
    <3> HIDE DEF Round
    <3> QED
      BY <1>1, <1>9
  <2> HIDE DEF P
  <2>3. P \in SUBSET Nat
    BY DEF P
  <2> QED
    BY <2>1, <2>2, <2>3, SetInduction
<1> QED
  BY <1>8, <1>9, <1>10

LEMMA FillRounds ==
    ASSUME NEW m \in Memory, NEW d \in Int, NEW c \in Char
    PROVE  /\ memset(m, d, c, 0) = m
           /\ \A k \in Nat :
                /\ memset(m, d, c, k) \in Memory
                /\ memset(m, d, c, k + 1) =
                     Set(memset(m, d, c, k), d + k, c)
<1> DEFINE Round(k, b) == Set(b, d + k, c)
           step == [p \in Nat \X Memory |-> Round(p[1], p[2])]
           f == CHOOSE h : h = [j \in Nat |->
                  IF j = 0 THEN m
                  ELSE Set(h[j - 1], d + j - 1, c)]
<1>1. \A k \in Nat, b \in Memory : Round(k, b) \in Memory
  <2> TAKE k \in Nat, b \in Memory
  <2>1. d + k \in Int
    OBVIOUS
  <2> QED
    BY <2>1, SetFacts
<1>2. step \in [Nat \X Memory -> Memory]
  BY <1>1
<1>3. \A k \in Nat, b \in Memory : step[<<k, b>>] = Round(k, b)
  <2> TAKE k \in Nat, b \in Memory
  <2>1. <<k, b>> \in Nat \X Memory
    OBVIOUS
  <2> HIDE DEF Round
  <2> QED
    BY <2>1
<1> HIDE DEF step
<1>4. PICK g \in [Nat -> Memory] : Recurs(m, step, g)
  BY <1>2, RecursionExists
<1>5. g[0] = m /\ \A k \in Nat : g[k + 1] = Round(k, g[k])
  <2> HIDE DEF Round
  <2> QED
    BY <1>3, <1>4 DEF Recurs
<1>6. g = [j \in Nat |->
             IF j = 0 THEN m
             ELSE Set(g[j - 1], d + j - 1, c)]
  <2>1. ASSUME NEW j \in Nat, j # 0
        PROVE  g[j] = Set(g[j - 1], d + j - 1, c)
    <3>1. /\ j - 1 \in Nat /\ (j - 1) + 1 = j
          /\ d + (j - 1) = d + j - 1
      BY <2>1
    <3>2. g[(j - 1) + 1] = Round(j - 1, g[j - 1])
      BY <1>5, <3>1
    <3> QED
      BY <3>1, <3>2
  <2> HIDE DEF Round
  <2> QED
    BY <1>5, <2>1
<1>7. f = [j \in Nat |->
             IF j = 0 THEN m
             ELSE Set(f[j - 1], d + j - 1, c)]
  BY <1>6
<1>8. \A k : memset(m, d, c, k) = f[k]
  BY DEF memset
<1> HIDE DEF f
<1>9. f[0] = m /\ \A k \in Nat : f[k + 1] = Round(k, f[k])
  <2>1. ASSUME NEW k \in Nat PROVE f[k + 1] = Round(k, f[k])
    <3>1. /\ k + 1 \in Nat /\ k + 1 # 0 /\ (k + 1) - 1 = k
          /\ d + (k + 1) - 1 = d + k
      OBVIOUS
    <3>2. f[k + 1] = Set(f[(k + 1) - 1], d + (k + 1) - 1, c)
      BY <1>7, <3>1
    <3> QED
      BY <3>1, <3>2
  <2> QED
    BY <1>7, <2>1
<1> DEFINE P == {k \in Nat : f[k] \in Memory}
<1>10. P = Nat
  <2>1. 0 \in P
    BY <1>9
  <2>2. ASSUME NEW k \in P PROVE k + 1 \in P
    <3> HIDE DEF Round
    <3> QED
      BY <1>1, <1>9
  <2> HIDE DEF P
  <2>3. P \in SUBSET Nat
    BY DEF P
  <2> QED
    BY <2>1, <2>2, <2>3, SetInduction
<1> QED
  BY <1>8, <1>9, <1>10
----------------------------------------------------------------------------
(* Where a string ends. *)
LEMMA LengthIs ==
    ASSUME NEW m, NEW s \in Addr, NEW n \in Nat, s + n < SIZE,
           m[s + n] = 0, \A i \in 0 .. n - 1 : m[s + i] # 0
    PROVE  Length(m, s) = n
<1> DEFINE Ends_(k) == m[s + k] = 0 /\ \A i \in 0 .. k - 1 : m[s + i] # 0
<1>1. n \in 0 .. SIZE /\ Ends_(n)
  BY SizeAssumption DEF Addr
<1>2. ASSUME NEW k \in 0 .. SIZE, Ends_(k) PROVE k = n
  <2>1. ~(k < n) /\ ~(n < k)
    BY <1>1, <1>2
  <2> QED
    BY <2>1, SizeAssumption
<1> HIDE DEF Ends_
<1>3. (CHOOSE k \in 0 .. SIZE : Ends_(k)) = n
  BY <1>1, <1>2
<1> QED
  BY <1>3 DEF Ends_, Length

LEMMA LengthFacts ==
    ASSUME NEW m, NEW s \in Addr, IsString(m, s)
    PROVE  /\ Length(m, s) \in Nat /\ s + Length(m, s) < SIZE
           /\ m[s + Length(m, s)] = 0
           /\ \A i \in 0 .. Length(m, s) - 1 : m[s + i] # 0
<1> DEFINE Nuls == {k \in Nat : s + k < SIZE /\ m[s + k] = 0}
<1>1. Nuls # {}
  <2>1. PICK a \in s .. SIZE - 1 : m[a] = 0
    BY DEF IsString
  <2>2. a - s \in Nat /\ s + (a - s) = a /\ s + (a - s) < SIZE
    BY SizeAssumption DEF Addr
  <2> QED
    BY <2>1, <2>2
<1>2. PICK n \in Nuls : \A k \in Nuls : n <= k
  BY <1>1, LeastNatural
<1>3. ASSUME NEW i \in 0 .. n - 1 PROVE m[s + i] # 0
  <2>1. i \in Nat /\ s + i < SIZE /\ ~(n <= i)
    BY SizeAssumption DEF Addr
  <2> QED
    BY <1>2, <2>1
<1>4. Length(m, s) = n
  BY <1>3, LengthIs
<1> QED
  BY <1>3, <1>4

LEMMA StrlenIs ==
    ASSUME NEW m \in Memory, NEW s \in Addr, IsString(m, s)
    PROVE  strlen(m, s) = Length(m, s)
<1> DEFINE n == Length(m, s)
<1>1. /\ n \in Nat /\ s + n < SIZE /\ m[s + n] = 0
      /\ \A i \in 0 .. n - 1 : m[s + i] # 0
  BY LengthFacts
<1> HIDE DEF n
<1>2. \A i \in 0 .. n : s + i \in Addr /\ At(m, s + i) = m[s + i]
  BY <1>1, AtFacts, SizeAssumption DEF Addr
<1>3. n \in Ends(m, s) /\ \A i \in 0 .. n - 1 : i \notin Ends(m, s)
  BY <1>1, <1>2 DEF Ends
<1>4. Ends(m, s) \in SUBSET Nat
  BY DEF Ends
<1>5. Until(Ends(m, s)) = n
  BY <1>1, <1>3, <1>4, UntilIs
<1> QED
  BY <1>5 DEF strlen, n
----------------------------------------------------------------------------
(* What the loops leave: copying upwards is safe when the destination is   *)
(* below the source or apart from it, downwards when it is not below.      *)
Copied(m, d, s, from, n) ==
    [a \in Addr |-> IF a \in d + from .. d + n - 1 THEN m[s + (a - d)] ELSE m[a]]

LEMMA UpCopies ==
    ASSUME NEW m \in Memory, NEW d \in Addr, NEW s \in Addr, NEW n \in Nat,
           d + n <= SIZE, s + n <= SIZE,
           d < s \/ s + n <= d
    PROVE  \A k \in 0 .. n : Up(m, d, s, k) = Copied(m, d, s, 0, k)
<1> DEFINE P == {k \in Nat : k <= n => Up(m, d, s, k) = Copied(m, d, s, 0, k)}
<1> USE SizeAssumption DEF Addr
<1>1. 0 \in P
  <2>1. Copied(m, d, s, 0, 0) = m
    BY DEF Copied, Memory
  <2> QED
    BY <2>1, UpRounds
<1>2. ASSUME NEW k \in P, k + 1 <= n
      PROVE  Up(m, d, s, k + 1) = Copied(m, d, s, 0, k + 1)
  <2> DEFINE u == Up(m, d, s, k)
             v == Up(m, d, s, k + 1)
  <2>1. /\ u = Copied(m, d, s, 0, k) /\ u \in Memory /\ v \in Memory
        /\ v = Set(u, d + k, At(u, s + k))
    <3>1. k \in Nat /\ k + 1 \in Nat /\ k <= n /\ d \in Int /\ s \in Int
      BY <1>2
    <3>2. u = Copied(m, d, s, 0, k)
      BY <1>2, <3>1
    <3> QED
      BY ZenonT(40), <3>1, <3>2, UpRounds
  <2>2. d + k \in Addr /\ s + k \in Addr /\ Ptr(d + k) = d + k
    BY <1>2, PtrFacts
  <2>3. At(u, s + k) = m[s + k]
    <3>1. At(u, s + k) = u[s + k]
      BY <2>1, <2>2, AtFacts
    <3>2. s + k \notin d + 0 .. d + k - 1
      BY <1>2
    <3> QED
      BY <2>1, <2>2, <3>1, <3>2 DEF Copied
  <2>4. At(u, s + k) \in Char
    BY <2>1, <2>2, AtFacts
  <2>5. /\ v[d + k] = m[s + k]
        /\ \A x \in Addr \ {d + k} : v[x] = u[x]
    BY <2>1, <2>2, <2>3, <2>4, SetFacts
  <2>6. ASSUME NEW x \in Addr
        PROVE  v[x] = Copied(m, d, s, 0, k + 1)[x]
    <3>1. CASE x = d + k
      BY <2>5, <3>1 DEF Copied
    <3>2. CASE x # d + k
      <4>1. x \in d + 0 .. d + (k + 1) - 1 <=> x \in d + 0 .. d + k - 1
        BY <3>2
      <4>2. u[x] = IF x \in d + 0 .. d + k - 1 THEN m[s + (x - d)] ELSE m[x]
        BY <2>1 DEF Copied
      <4> QED
        BY <2>5, <3>2, <4>1, <4>2 DEF Copied
    <3> QED
      BY <3>1, <3>2
  <2> HIDE DEF u, v
  <2> QED
    BY <2>1, <2>6 DEF v, Copied, Memory
<1> HIDE DEF P
<1>3. P \in SUBSET Nat /\ \A k \in P : k + 1 \in P
  BY <1>2 DEF P
<1>4. P = Nat
  BY <1>1, <1>3, SetInduction
<1> QED
  BY <1>4 DEF P

LEMMA DownCopies ==
    ASSUME NEW m \in Memory, NEW d \in Addr, NEW s \in Addr, NEW n \in Nat,
           d + n <= SIZE, s + n <= SIZE, s <= d
    PROVE  \A k \in 0 .. n : Down(m, d, s, n, k) = Copied(m, d, s, n - k, n)
<1> DEFINE P == {k \in Nat : k <= n =>
                   Down(m, d, s, n, k) = Copied(m, d, s, n - k, n)}
<1>0. /\ Down(m, d, s, n, 0) = m
      /\ \A k \in Nat : /\ Down(m, d, s, n, k) \in Memory
                        /\ Down(m, d, s, n, k + 1) =
                             Set(Down(m, d, s, n, k), d + (n - 1 - k),
                                 At(Down(m, d, s, n, k), s + (n - 1 - k)))
  <2>1. d \in Int /\ s \in Int /\ n \in Int
    BY SizeAssumption DEF Addr
  <2>2. \A x, y, z \in Int :
          /\ Down(m, x, y, z, 0) = m
          /\ \A k \in Nat : /\ Down(m, x, y, z, k) \in Memory
                            /\ Down(m, x, y, z, k + 1) =
                                 Set(Down(m, x, y, z, k), x + (z - 1 - k),
                                     At(Down(m, x, y, z, k), y + (z - 1 - k)))
    BY DownRounds
  <2> QED
    BY <2>1, <2>2, Zenon
<1> USE SizeAssumption DEF Addr
<1>1. 0 \in P
  <2>1. Copied(m, d, s, n - 0, n) = m
    BY DEF Copied, Memory
  <2> QED
    BY <1>0, <2>1
<1>2. ASSUME NEW k \in P, k + 1 <= n
      PROVE  Down(m, d, s, n, k + 1) = Copied(m, d, s, n - (k + 1), n)
  <2> DEFINE u == Down(m, d, s, n, k)
             v == Down(m, d, s, n, k + 1)
             j == n - 1 - k
  <2>1. /\ u = Copied(m, d, s, n - k, n) /\ u \in Memory /\ v \in Memory
        /\ v = Set(u, d + j, At(u, s + j))
    <3>1. k \in Nat /\ k + 1 \in Nat /\ k <= n
          /\ d \in Int /\ s \in Int /\ n \in Int
      BY <1>2
    <3>2. u = Copied(m, d, s, n - k, n)
      BY <1>2, <3>1
    <3> QED
      BY <1>0, <3>1, <3>2
  <2>2. /\ j \in 0 .. n - 1 /\ n - k = j + 1 /\ n - (k + 1) = j
        /\ d + j \in Addr /\ s + j \in Addr /\ Ptr(d + j) = d + j
    BY <1>2, PtrFacts
  <2> HIDE DEF j
  <2>3. At(u, s + j) = m[s + j]
    <3>1. At(u, s + j) = u[s + j]
      BY <2>1, <2>2, AtFacts
    <3>2. s + j \notin d + (j + 1) .. d + n - 1
      BY <2>2
    <3> QED
      BY <2>1, <2>2, <3>1, <3>2 DEF Copied
  <2>4. At(u, s + j) \in Char
    BY <2>1, <2>2, AtFacts
  <2>5. /\ v[d + j] = m[s + j]
        /\ \A x \in Addr \ {d + j} : v[x] = u[x]
    BY <2>1, <2>2, <2>3, <2>4, SetFacts
  <2>6. ASSUME NEW x \in Addr
        PROVE  v[x] = Copied(m, d, s, j, n)[x]
    <3>1. CASE x = d + j
      BY <2>2, <2>5, <3>1 DEF Copied
    <3>2. CASE x # d + j
      <4>1. x \in d + j .. d + n - 1 <=> x \in d + (j + 1) .. d + n - 1
        BY <2>2, <3>2
      <4>2. u[x] = IF x \in d + (j + 1) .. d + n - 1 THEN m[s + (x - d)] ELSE m[x]
        BY <2>1, <2>2 DEF Copied
      <4> QED
        BY <2>5, <3>2, <4>1, <4>2 DEF Copied
    <3> QED
      BY <3>1, <3>2
  <2> HIDE DEF u, v
  <2> QED
    BY <2>1, <2>2, <2>6 DEF v, Copied, Memory
<1> HIDE DEF P
<1>3. P \in SUBSET Nat /\ \A k \in P : k + 1 \in P
  BY <1>2 DEF P
<1>4. P = Nat
  BY <1>1, <1>3, SetInduction
<1> QED
  BY <1>4 DEF P

(* Clearing wraps at the end of the memory. *)
LEMMA FillCovers ==
    ASSUME NEW m \in Memory, NEW d \in Int, NEW c \in Char, NEW n \in Nat
    PROVE  \A j \in 0 .. n - 1 : memset(m, d, c, n)[Ptr(d + j)] = c
<1> DEFINE P == {k \in Nat : \A j \in 0 .. k - 1 : memset(m, d, c, k)[Ptr(d + j)] = c}
<1>1. 0 \in P
  OBVIOUS
<1>2. ASSUME NEW k \in P PROVE k + 1 \in P
  <2> DEFINE u == memset(m, d, c, k)
             v == memset(m, d, c, k + 1)
  <2>1. u \in Memory /\ v = Set(u, d + k, c) /\ d + k \in Int
    <3>1. k \in Nat /\ d + k \in Int
      OBVIOUS
    <3> QED
      BY <3>1, FillRounds
  <2>2. v[Ptr(d + k)] = c /\ \A x \in Addr \ {Ptr(d + k)} : v[x] = u[x]
    BY <2>1, SetFacts
  <2>3. ASSUME NEW j \in 0 .. (k + 1) - 1 PROVE v[Ptr(d + j)] = c
    <3>1. Ptr(d + j) \in Addr
      BY PtrFacts
    <3>2. CASE Ptr(d + j) = Ptr(d + k)
      BY <2>2, <3>2
    <3>3. CASE Ptr(d + j) # Ptr(d + k)
      <4>1. j \in 0 .. k - 1
        BY <3>3
      <4>2. u[Ptr(d + j)] = c
        BY <4>1
      <4> QED
        BY <2>2, <3>1, <3>3, <4>2
    <3> QED
      BY <3>2, <3>3
  <2> QED
    BY <2>3
<1> HIDE DEF P
<1>3. P \in SUBSET Nat
  BY DEF P
<1>4. P = Nat
  BY <1>1, <1>2, <1>3, SetInduction
<1> QED
  BY <1>4 DEF P

(* It leaves the bytes alone that it does not come to. *)
LEMMA FillSpares ==
    ASSUME NEW m \in Memory, NEW d \in Int, NEW c \in Char, NEW n \in Nat,
           NEW x \in Addr, \A j \in 0 .. n - 1 : Ptr(d + j) # x
    PROVE  memset(m, d, c, n)[x] = m[x]
<1> DEFINE P == {k \in Nat : k <= n => memset(m, d, c, k)[x] = m[x]}
<1>1. 0 \in P
  BY FillRounds
<1>2. ASSUME NEW k \in P, k + 1 <= n PROVE memset(m, d, c, k + 1)[x] = m[x]
  <2>1. /\ memset(m, d, c, k) \in Memory /\ d + k \in Int
        /\ memset(m, d, c, k + 1) = Set(memset(m, d, c, k), d + k, c)
    <3>1. k \in Nat /\ d + k \in Int
      OBVIOUS
    <3> QED
      BY <3>1, FillRounds
  <2>2. k \in 0 .. n - 1
    BY <1>2
  <2>3. Ptr(d + k) # x /\ memset(m, d, c, k)[x] = m[x]
    BY <1>2, <2>2
  <2> QED
    BY <2>1, <2>3, SetFacts
<1> HIDE DEF P
<1>3. P \in SUBSET Nat /\ \A k \in P : k + 1 \in P
  BY <1>2 DEF P
<1>4. P = Nat
  BY <1>1, <1>3, SetInduction
<1> QED
  BY <1>4 DEF P

LEMMA Fills ==
    ASSUME NEW m \in Memory, NEW d \in Nat, NEW c \in Char, NEW n \in Nat,
           d + n <= SIZE
    PROVE  memset(m, d, c, n) =
             [a \in Addr |-> IF a \in d .. d + n - 1 THEN c ELSE m[a]]
<1>1. \A j \in 0 .. n - 1 : d + j \in Addr /\ Ptr(d + j) = d + j
  BY SizeAssumption, PtrFacts DEF Addr
<1>2. ASSUME NEW a \in Addr, a \in d .. d + n - 1
      PROVE  memset(m, d, c, n)[a] = c
  <2>1. a - d \in 0 .. n - 1 /\ d + (a - d) = a
    BY <1>2 DEF Addr
  <2>2. Ptr(d + (a - d)) = a
    BY <1>1, <2>1
  <2>3. d \in Int
    OBVIOUS
  <2>4. \A j \in 0 .. n - 1 : memset(m, d, c, n)[Ptr(d + j)] = c
    BY <2>3, FillCovers, SizeAssumption
  <2> QED
    BY <2>1, <2>2, <2>4
<1>3. ASSUME NEW a \in Addr, a \notin d .. d + n - 1
      PROVE  memset(m, d, c, n)[a] = m[a]
  <2>1. \A j \in 0 .. n - 1 : d + j # a
    BY <1>3 DEF Addr
  <2>2. \A j \in 0 .. n - 1 : Ptr(d + j) # a
    BY <1>1, <2>1
  <2>3. d \in Int
    OBVIOUS
  <2> QED
    BY <2>2, <2>3, FillSpares
<1>4. memset(m, d, c, n) \in Memory
  BY FillRounds
<1> QED
  BY <1>2, <1>3, <1>4 DEF Memory
----------------------------------------------------------------------------
(* Cells that have none in common. *)
LEMMA ApartFacts ==
    ASSUME NEW d \in Addr, NEW s \in Addr, NEW n \in Nat, NEW k \in Nat \ {0},
           Apart(d, n, s, k)
    PROVE  d + n <= SIZE /\ (n = 0 \/ d + n <= s \/ s + k <= d)
<1> USE SizeAssumption DEF Addr
<1>1. /\ \A a \in d .. d + n - 1 : a \in 0 .. SIZE - 1
      /\ \A a \in d .. d + n - 1 : a \notin s .. s + k - 1
  BY DEF Apart, Cells
<1>2. d + n <= SIZE
  <2>1. CASE n = 0
    BY <2>1
  <2>2. CASE n # 0
    <3>1. d + n - 1 \in d .. d + n - 1
      BY <2>2
    <3>2. d + n - 1 \in 0 .. SIZE - 1
      BY <1>1, <3>1
    <3> QED
      BY <3>2
  <2> QED
    BY <2>1, <2>2
<1>3. ASSUME n # 0, s < d + n, d < s + k PROVE FALSE
  <2>1. CASE d <= s
    <3>1. s \in d .. d + n - 1 /\ s \in s .. s + k - 1
      BY <1>3, <2>1
    <3> QED
      BY <1>1, <3>1
  <2>2. CASE s < d
    <3>1. d \in d .. d + n - 1 /\ d \in s .. s + k - 1
      BY <1>3, <2>2
    <3> QED
      BY <1>1, <3>1
  <2> QED
    BY <2>1, <2>2
<1> QED
  BY <1>2, <1>3

(* A loop that copies upwards meets the characters of the source.          *)
LEMMA ReadsAhead ==
    ASSUME NEW m \in Memory, NEW d \in Addr, NEW s \in Addr, NEW n \in Nat,
           d + n <= SIZE, s + n <= SIZE,
           d < s \/ s + n <= d
    PROVE  \A j \in 0 .. n - 1 : j \in CopiesNul(m, d, s) <=> m[s + j] = 0
<1> USE SizeAssumption DEF Addr
<1> TAKE j \in 0 .. n - 1
<1>1. Up(m, d, s, j) = Copied(m, d, s, 0, j)
  BY UpCopies
<1>2. Copied(m, d, s, 0, j) \in Memory
  <2>1. d \in Int /\ s \in Int /\ j \in Nat
    OBVIOUS
  <2>2. \A x, y \in Int, k \in Nat : Up(m, x, y, k) \in Memory
    BY UpRounds
  <2>3. Up(m, d, s, j) \in Memory
    BY <2>1, <2>2
  <2> QED
    BY <1>1, <2>3
<1>3. s + j \in 0 .. SIZE - 1 /\ s + j \notin d + 0 .. d + j - 1
  OBVIOUS
<1>4. At(Up(m, d, s, j), s + j) = m[s + j]
  <2>1. At(Up(m, d, s, j), s + j) = Copied(m, d, s, 0, j)[s + j]
    BY <1>1, <1>2, <1>3, AtFacts
  <2> QED
    BY <1>3, <2>1 DEF Copied
<1> QED
  BY <1>4 DEF CopiesNul

LEMMA CopiedIsPatch ==
    ASSUME NEW m \in Memory, NEW d \in Addr, NEW s \in Addr, NEW n \in Nat,
           NEW bytes, Len(bytes) = n, \A i \in 1 .. n : bytes[i] = m[s + i - 1]
    PROVE  Copied(m, d, s, 0, n) = Patch(m, d, bytes)
<1>1. ASSUME NEW a \in Addr, a \in d .. d + n - 1
      PROVE  m[s + (a - d)] = bytes[a - d + 1]
  <2>1. /\ a - d + 1 \in 1 .. n
        /\ s + (a - d + 1) - 1 = s + (a - d)
    BY <1>1, SizeAssumption DEF Addr
  <2> QED
    BY <2>1
<1>2. d + 0 = d
  BY SizeAssumption DEF Addr
<1> QED
  BY <1>1, <1>2 DEF Copied, Patch, Cells

(* The string at s and the sequences made from it.                         *)
LEMMA StrFacts ==
    ASSUME NEW m \in Memory, NEW s \in Addr, IsString(m, s)
    PROVE  /\ Str(m, s) \in Seq(Char)
           /\ Len(Str(m, s)) = Length(m, s)
           /\ \A i \in 1 .. Length(m, s) :
                Str(m, s)[i] = m[s + i - 1] /\ Str(m, s)[i] # 0
<1> DEFINE n == Length(m, s)
<1>1. n \in Nat /\ s + n < SIZE /\ \A i \in 0 .. n - 1 : m[s + i] # 0
  BY LengthFacts
<1>2. Str(m, s) = [i \in 1 .. n |-> m[s + i - 1]]
  BY DEF Str, Bytes
<1> HIDE DEF n
<1>3. ASSUME NEW i \in 1 .. n
      PROVE  m[s + i - 1] \in Char /\ m[s + i - 1] # 0
  <2>1. i - 1 \in 0 .. n - 1 /\ s + (i - 1) = s + i - 1 /\ s + i - 1 \in Addr
    BY <1>1, SizeAssumption DEF Addr
  <2> QED
    BY <1>1, <2>1 DEF Memory
<1>4. Str(m, s) \in [1 .. n -> Char]
  BY <1>2, <1>3
<1>5. Str(m, s) \in Seq(Char) /\ Len(Str(m, s)) = n
  BY <1>1, <1>2, <1>4
<1> QED
  BY <1>2, <1>3, <1>5 DEF n
----------------------------------------------------------------------------
(* Each function that writes leaves the memory that CopyingIsRight says.   *)
LEMMA MemmoveIs ==
    ASSUME NEW m \in Memory, NEW d \in Addr, NEW s \in Addr, NEW n \in Nat,
           MayMemmove(m, d, s, n)
    PROVE  /\ memmove(m, d, s, n) \in Memory
           /\ memmove(m, d, s, n) = Patch(m, d, Bytes(m, s, n))
<1> USE SizeAssumption DEF Addr
<1>1. d + n <= SIZE /\ s + n <= SIZE
  <2>1. CASE n = 0
    BY <2>1
  <2>2. CASE n # 0
    <3>1. d + n - 1 \in d .. d + n - 1 /\ s + n - 1 \in s .. s + n - 1
      BY <2>2
    <3>2. d + n - 1 \in 0 .. SIZE - 1 /\ s + n - 1 \in 0 .. SIZE - 1
      BY <3>1 DEF MayMemmove, Cells
    <3> QED
      BY <3>2
  <2> QED
    BY <2>1, <2>2
<1>2. /\ Len(Bytes(m, s, n)) = n
      /\ \A i \in 1 .. n : Bytes(m, s, n)[i] = m[s + i - 1]
  BY DEF Bytes
<1>3. Copied(m, d, s, 0, n) = Patch(m, d, Bytes(m, s, n))
  <2> DEFINE bytes == Bytes(m, s, n)
  <2>1. Len(bytes) = n /\ \A i \in 1 .. n : bytes[i] = m[s + i - 1]
    BY <1>2
  <2> HIDE DEF bytes, Addr
  <2>2. Copied(m, d, s, 0, n) = Patch(m, d, bytes)
    BY <2>1, CopiedIsPatch
  <2> QED
    BY <2>2 DEF bytes
<1>4. d \in Int /\ s \in Int /\ n \in Int /\ n \in 0 .. n
  OBVIOUS
<1>5. CASE d < s
  <2>1. memmove(m, d, s, n) = Up(m, d, s, n)
    BY <1>5 DEF memmove
  <2>2. \A x, y \in Int, k \in Nat : Up(m, x, y, k) \in Memory
    BY UpRounds
  <2>3. Up(m, d, s, n) = Copied(m, d, s, 0, n)
    BY <1>1, <1>4, <1>5, UpCopies
  <2> QED
    BY <1>3, <1>4, <2>1, <2>2, <2>3
<1>6. CASE ~(d < s)
  <2>1. memmove(m, d, s, n) = Down(m, d, s, n, n)
    BY <1>6 DEF memmove
  <2>2. \A x, y, z \in Int, k \in Nat : Down(m, x, y, z, k) \in Memory
    BY DownRounds
  <2>3. \A k \in 0 .. n : Down(m, d, s, n, k) = Copied(m, d, s, n - k, n)
    BY <1>1, <1>6, DownCopies
  <2>4. Down(m, d, s, n, n) = Copied(m, d, s, 0, n)
    BY <1>4, <2>3
  <2> QED
    BY <1>3, <1>4, <2>1, <2>2, <2>4
<1> QED
  BY <1>5, <1>6

LEMMA MemsetIs ==
    ASSUME NEW m \in Memory, NEW d \in Addr, NEW c \in Char, NEW n \in Nat,
           MayMemset(m, d, n)
    PROVE  /\ memset(m, d, c, n) \in Memory
           /\ memset(m, d, c, n) = Patch(m, d, [i \in 1 .. n |-> c])
<1> USE SizeAssumption
<1>1. d \in Nat /\ d \in Int /\ d + n <= SIZE
  <2>1. CASE n = 0
    BY <2>1 DEF Addr
  <2>2. CASE n # 0
    <3>1. d + n - 1 \in d .. d + n - 1
      BY <2>2 DEF Addr
    <3>2. d + n - 1 \in 0 .. SIZE - 1
      BY <3>1 DEF MayMemset, Cells, Addr
    <3> QED
      BY <3>2 DEF Addr
  <2> QED
    BY <2>1, <2>2
<1>2. \A x \in Int, k \in Nat : memset(m, x, c, k) \in Memory
  BY FillRounds
<1>3. \A x \in Nat : x + n <= SIZE =>
        memset(m, x, c, n) =
          [a \in Addr |-> IF a \in x .. x + n - 1 THEN c ELSE m[a]]
  BY Fills
<1>4. Len([i \in 1 .. n |-> c]) = n
  OBVIOUS
<1>5. Patch(m, d, [i \in 1 .. n |-> c]) =
        [a \in Addr |-> IF a \in d .. d + n - 1 THEN c ELSE m[a]]
  <2>1. \A a \in Addr : a \in d .. d + n - 1 => a - d + 1 \in 1 .. n
    BY DEF Addr
  <2> QED
    BY <1>4, <2>1 DEF Patch, Cells
<1> QED
  BY <1>1, <1>2, <1>3, <1>5

(* Strings that are copied whole, with their NUL. *)
LEMMA CopyWhole ==
    ASSUME NEW m \in Memory, NEW d \in Addr, NEW s \in Addr,
           IsString(m, s), Apart(d, Length(m, s) + 1, s, Length(m, s) + 1)
    PROVE  /\ \A j \in 0 .. Length(m, s) :
                j \in CopiesNul(m, d, s) <=> j = Length(m, s)
           /\ Up(m, d, s, Length(m, s) + 1) \in Memory
           /\ Up(m, d, s, Length(m, s) + 1) = Patch(m, d, Str(m, s) \o <<0>>)
<1> DEFINE n == Length(m, s)
<1> USE SizeAssumption
<1>1. /\ n \in Nat /\ s + n < SIZE /\ m[s + n] = 0
      /\ \A i \in 0 .. n - 1 : m[s + i] # 0
  BY LengthFacts
<1>2. /\ Str(m, s) \in Seq(Char) /\ Len(Str(m, s)) = n
      /\ \A i \in 1 .. n : Str(m, s)[i] = m[s + i - 1]
  BY StrFacts
<1>3. Apart(d, n + 1, s, n + 1)
  OBVIOUS
<1> HIDE DEF n
<1>4. n + 1 \in Nat \ {0} /\ d \in Int /\ s \in Int
  BY <1>1 DEF Addr
<1>5. d + (n + 1) <= SIZE /\ (d + (n + 1) <= s \/ s + (n + 1) <= d)
  BY <1>3, <1>4, ApartFacts
<1>6. s + (n + 1) <= SIZE /\ (d < s \/ s + (n + 1) <= d)
  BY <1>1, <1>5 DEF Addr
<1>7. \A j \in 0 .. (n + 1) - 1 : j \in CopiesNul(m, d, s) <=> m[s + j] = 0
  BY <1>4, <1>5, <1>6, ReadsAhead
<1>8. Up(m, d, s, n + 1) = Copied(m, d, s, 0, n + 1)
  <2>1. \A k \in 0 .. n + 1 : Up(m, d, s, k) = Copied(m, d, s, 0, k)
    BY <1>4, <1>5, <1>6, UpCopies
  <2> QED
    BY <1>4, <2>1
<1>9. /\ Len(Str(m, s) \o <<0>>) = n + 1
      /\ \A i \in 1 .. n + 1 : (Str(m, s) \o <<0>>)[i] = m[s + i - 1]
  <2>1. <<0>> \in Seq(Char) /\ Len(<<0>>) = 1 /\ <<0>>[1] = 0
    BY CharAssumption
  <2>2. /\ Len(Str(m, s) \o <<0>>) = n + 1
        /\ \A i \in 1 .. n + 1 : (Str(m, s) \o <<0>>)[i] =
             IF i <= n THEN Str(m, s)[i] ELSE <<0>>[i - n]
    BY <1>2, <2>1, ConcatProperties
  <2>3. ASSUME NEW i \in 1 .. n + 1
        PROVE  (Str(m, s) \o <<0>>)[i] = m[s + i - 1]
    <3>1. CASE i <= n
      <4>1. i \in 1 .. n
        BY <1>1, <3>1
      <4> QED
        BY <1>2, <2>2, <4>1
    <3>2. CASE ~(i <= n)
      <4>1. i = n + 1 /\ i - n = 1 /\ s + i - 1 = s + n
        BY <1>1, <1>4, <3>2
      <4> QED
        BY <1>1, <2>1, <2>2, <4>1, <3>2
    <3> QED
      BY <3>1, <3>2
  <2> QED
    BY <2>2, <2>3
<1>10. Copied(m, d, s, 0, n + 1) = Patch(m, d, Str(m, s) \o <<0>>)
  <2> DEFINE b == Str(m, s) \o <<0>>
             k == n + 1
  <2>1. k \in Nat /\ Len(b) = k /\ \A i \in 1 .. k : b[i] = m[s + i - 1]
    BY <1>4, <1>9
  <2> HIDE DEF b, k
  <2>2. Copied(m, d, s, 0, k) = Patch(m, d, b)
    BY <2>1, CopiedIsPatch
  <2> QED
    BY <2>2 DEF b, k
<1>11. \A x, y \in Int, k \in Nat : Up(m, x, y, k) \in Memory
  BY UpRounds
<1>12. \A j \in 0 .. n : j \in CopiesNul(m, d, s) <=> j = n
  <2>1. \A j \in 0 .. n : j \in 0 .. (n + 1) - 1 /\ (j # n => j \in 0 .. n - 1)
    BY <1>1
  <2> QED
    BY <1>1, <1>7, <2>1
<1>13. Up(m, d, s, n + 1) \in Memory
  BY <1>4, <1>11
<1> QED
  BY <1>8, <1>10, <1>12, <1>13 DEF n

LEMMA StrcpyIs ==
    ASSUME NEW m \in Memory, NEW d \in Addr, NEW s \in Addr, MayStrcpy(m, d, s)
    PROVE  /\ strcpy(m, d, s) \in Memory
           /\ strcpy(m, d, s) = Patch(m, d, Str(m, s) \o <<0>>)
<1> DEFINE n == Length(m, s)
<1>1. /\ \A j \in 0 .. n : j \in CopiesNul(m, d, s) <=> j = n
      /\ Up(m, d, s, n + 1) \in Memory
      /\ Up(m, d, s, n + 1) = Patch(m, d, Str(m, s) \o <<0>>)
  BY CopyWhole DEF MayStrcpy
<1>2. n \in Nat
  BY LengthFacts DEF MayStrcpy
<1> HIDE DEF n
<1>3. /\ CopiesNul(m, d, s) \in SUBSET Nat /\ n \in CopiesNul(m, d, s)
      /\ \A k \in 0 .. n - 1 : k \notin CopiesNul(m, d, s)
  BY <1>1, <1>2 DEF CopiesNul
<1>4. Until(CopiesNul(m, d, s)) = n
  BY <1>3, <1>2, UntilIs
<1> QED
  BY <1>1, <1>4 DEF strcpy

(* strcat and strncat begin at the NUL of the destination. *)
LEMMA AppendFacts ==
    ASSUME NEW m \in Memory, NEW d \in Addr, NEW s \in Addr, NEW n \in Nat,
           MayStrncat(m, d, s, n)
    PROVE  /\ strlen(m, d) = Length(m, d)
           /\ d + Length(m, d) \in Addr
           /\ Apart(d + Length(m, d), n + 1, s, Length(m, s) + 1)
<1>1. IsString(m, d) /\ Apart(d, Length(m, d) + n + 1, s, Length(m, s) + 1)
  BY DEF MayStrncat
<1>2. Length(m, d) \in Nat /\ d + Length(m, d) < SIZE
  BY <1>1, LengthFacts
<1>3. strlen(m, d) = Length(m, d)
  BY <1>1, StrlenIs
<1>4. d + Length(m, d) \in Addr
  BY <1>2, SizeAssumption DEF Addr
<1>5. Cells(d + Length(m, d), n + 1) \subseteq Cells(d, Length(m, d) + n + 1)
  BY <1>2, SizeAssumption DEF Cells, Addr
<1>6. Apart(d + Length(m, d), n + 1, s, Length(m, s) + 1)
  BY <1>1, <1>5 DEF Apart
<1> QED
  BY <1>3, <1>4, <1>6

LEMMA StrcatIs ==
    ASSUME NEW m \in Memory, NEW d \in Addr, NEW s \in Addr, MayStrcat(m, d, s)
    PROVE  /\ strcat(m, d, s) \in Memory
           /\ strcat(m, d, s) =
                Patch(m, d + Length(m, d), Str(m, s) \o <<0>>)
<1>1. IsString(m, s) /\ MayStrncat(m, d, s, Length(m, s))
  BY DEF MayStrcat
<1>2. Length(m, s) \in Nat
  BY <1>1, LengthFacts
<1>3. /\ strlen(m, d) = Length(m, d)
      /\ d + Length(m, d) \in Addr
      /\ Apart(d + Length(m, d), Length(m, s) + 1, s, Length(m, s) + 1)
  BY <1>1, <1>2, AppendFacts
<1>4. MayStrcpy(m, d + Length(m, d), s)
  BY <1>1, <1>3 DEF MayStrcpy
<1>5. strcat(m, d, s) = strcpy(m, d + Length(m, d), s)
  BY <1>3 DEF strcat
<1> QED
  BY <1>3, <1>4, <1>5, StrcpyIs

(* The first n characters of a string. *)
LEMMA PrefixFacts ==
    ASSUME NEW seq, NEW S, seq \in Seq(S), NEW n \in Nat
    PROVE  /\ Prefix(seq, n) \in Seq(S)
           /\ Len(Prefix(seq, n)) = IF n < Len(seq) THEN n ELSE Len(seq)
           /\ \A i \in 1 .. Len(Prefix(seq, n)) : Prefix(seq, n)[i] = seq[i]
           /\ n >= Len(seq) => Prefix(seq, n) = seq
<1> DEFINE k == IF n < Len(seq) THEN n ELSE Len(seq)
<1>1. Len(seq) \in Nat /\ k \in 0 .. Len(seq)
  BY LenProperties
<1>2. \A i \in 1 .. k : seq[i] \in S
  BY <1>1, ElementOfSeq
<1>3. Prefix(seq, n) = SubSeq(seq, 1, k)
  BY DEF Prefix
<1> HIDE DEF k
<1>4. /\ SubSeq(seq, 1, k) \in Seq(S)
      /\ Len(SubSeq(seq, 1, k)) = IF 1 <= k THEN k - 1 + 1 ELSE 0
      /\ \A i \in 1 .. k - 1 + 1 : SubSeq(seq, 1, k)[i] = seq[1 + i - 1]
  BY <1>1, <1>2, SubSeqProperties
<1>5. Len(SubSeq(seq, 1, k)) = k
  BY <1>1, <1>4
<1>6. \A i \in 1 .. k : SubSeq(seq, 1, k)[i] = seq[i]
  BY <1>1, <1>4
<1>7. n >= Len(seq) => Prefix(seq, n) = seq
  <2>1. n >= Len(seq) => k = Len(seq)
    BY <1>1 DEF k
  <2> QED
    BY <1>3, <1>4, <1>5, <1>6, <2>1, SeqEqual
<1> QED
  BY <1>3, <1>4, <1>5, <1>6, <1>7 DEF k

(* A string of which no more than n characters are copied, and no NUL. *)
LEMMA CopyPart ==
    ASSUME NEW m \in Memory, NEW d \in Addr, NEW s \in Addr, NEW n \in Nat,
           IsString(m, s), n <= Length(m, s),
           d + n <= SIZE, d < s \/ s + n <= d
    PROVE  /\ \A j \in 0 .. n - 1 : j \notin CopiesNul(m, d, s)
           /\ Up(m, d, s, n) \in Memory
           /\ Up(m, d, s, n) = Copied(m, d, s, 0, n)
<1> DEFINE len == Length(m, s)
<1> USE SizeAssumption
<1>1. /\ len \in Nat /\ s + len < SIZE
      /\ \A i \in 0 .. len - 1 : m[s + i] # 0
  BY LengthFacts
<1>2. n <= len
  OBVIOUS
<1> HIDE DEF len
<1>3. s + n <= SIZE /\ d \in Int /\ s \in Int /\ n \in 0 .. n
  BY <1>1, <1>2 DEF Addr
<1>4. \A j \in 0 .. n - 1 : j \in CopiesNul(m, d, s) <=> m[s + j] = 0
  BY <1>3, ReadsAhead
<1>5. \A j \in 0 .. n - 1 : j \in 0 .. len - 1
  BY <1>1, <1>2
<1>6. \A k \in 0 .. n : Up(m, d, s, k) = Copied(m, d, s, 0, k)
  BY <1>3, UpCopies
<1>7. \A x, y \in Int, k \in Nat : Up(m, x, y, k) \in Memory
  BY UpRounds
<1>8. Up(m, d, s, n) \in Memory
  BY <1>3, <1>7
<1> QED
  BY <1>1, <1>3, <1>4, <1>5, <1>6, <1>8

LEMMA CatUpToIs ==
    ASSUME NEW m \in Memory, NEW d \in Addr, NEW s \in Addr, NEW n \in Nat \ {0},
           IsString(m, s), Apart(d, n + 1, s, Length(m, s) + 1)
    PROVE  /\ CatUpTo(m, d, s, n) \in Memory
           /\ CatUpTo(m, d, s, n) = Patch(m, d, Prefix(Str(m, s), n) \o <<0>>)
<1> DEFINE len == Length(m, s)
           str == Str(m, s)
           nul == CopiesNul(m, d, s)
           stop == {n - 1} \cup nul
<1> USE SizeAssumption
<1>1. len \in Nat /\ s + len < SIZE
  BY LengthFacts
<1>2. /\ str \in Seq(Char) /\ Len(str) = len
      /\ \A i \in 1 .. len : str[i] = m[s + i - 1]
  BY StrFacts
<1>3. Apart(d, n + 1, s, len + 1)
  OBVIOUS
<1>4. stop \in SUBSET Nat
  BY DEF CopiesNul
<1>5. /\ Prefix(str, n) \in Seq(Char)
      /\ Len(Prefix(str, n)) = IF n < Len(str) THEN n ELSE Len(str)
      /\ \A i \in 1 .. Len(Prefix(str, n)) : Prefix(str, n)[i] = str[i]
      /\ n >= Len(str) => Prefix(str, n) = str
  BY <1>2, PrefixFacts
<1>6. CatUpTo(m, d, s, n) =
        IF Until(stop) \in nul THEN Up(m, d, s, Until(stop) + 1)
        ELSE Set(Up(m, d, s, Until(stop) + 1), d + Until(stop) + 1, 0)
  BY DEF CatUpTo
<1>7. CASE len < n
  <2>1. Apart(d, len + 1, s, len + 1)
    <3>1. Cells(d, len + 1) \subseteq Cells(d, n + 1)
      BY <1>1, <1>7 DEF Cells, Addr
    <3> QED
      BY <1>3, <3>1 DEF Apart
  <2>2. /\ \A j \in 0 .. len : j \in nul <=> j = len
        /\ Up(m, d, s, len + 1) \in Memory
        /\ Up(m, d, s, len + 1) = Patch(m, d, str \o <<0>>)
    BY <2>1, CopyWhole
  <2> HIDE DEF len, str, nul
  <2>3. len \in stop /\ \A k \in 0 .. len - 1 : k \notin stop
    BY <1>1, <1>7, <2>2
  <2> HIDE DEF stop
  <2>4. Until(stop) = len
    BY <1>1, <1>4, <2>3, UntilIs
  <2>5. len \in nul
    BY <1>1, <2>2
  <2>6. Prefix(str, n) = str
    BY <1>1, <1>2, <1>5, <1>7
  <2> QED
    BY <1>6, <2>2, <2>4, <2>5, <2>6 DEF str
<1>8. CASE ~(len < n)
  <2>1. n + 1 \in Nat /\ len + 1 \in Nat \ {0}
    BY <1>1
  <2>2. /\ d + (n + 1) <= SIZE
        /\ d + (n + 1) <= s \/ s + (len + 1) <= d
    <3> HIDE DEF len, str, nul, stop
    <3>1. n + 1 # 0
      OBVIOUS
    <3> QED
      BY <1>3, <2>1, <3>1, ApartFacts
  <2>3. d + n <= SIZE /\ n <= len /\ (d < s \/ s + n <= d)
    BY <1>1, <1>8, <2>2 DEF Addr
  <2>4. /\ \A j \in 0 .. n - 1 : j \notin nul
        /\ Up(m, d, s, n) \in Memory
        /\ Up(m, d, s, n) = Copied(m, d, s, 0, n)
    BY <2>3, CopyPart
  <2> HIDE DEF len, str, nul
  <2>5. n - 1 \in stop /\ \A k \in 0 .. (n - 1) - 1 : k \notin stop
    BY <2>4
  <2>6. n - 1 \in Nat /\ n - 1 \notin nul
    BY <2>4
  <2> HIDE DEF stop
  <2>7. Until(stop) = n - 1
    BY <1>4, <2>5, <2>6, UntilIs
  <2>8. (n - 1) + 1 = n /\ d + (n - 1) + 1 = d + n /\ d + n \in Addr
    BY <2>2 DEF Addr
  <2> DEFINE u == Up(m, d, s, n)
             v == Set(u, d + n, 0)
             b == Prefix(str, n) \o <<0>>
  <2>9. CatUpTo(m, d, s, n) = v
    BY <1>6, <2>6, <2>7, <2>8
  <2>10. /\ v \in Memory /\ v[d + n] = 0
         /\ \A x \in Addr \ {d + n} : v[x] = u[x]
    <3>1. d + n \in Int /\ Ptr(d + n) = d + n
      BY <2>8, PtrFacts DEF Addr
    <3> QED
      BY <2>4, <3>1, SetFacts, CharAssumption
  <2>11. /\ Len(b) = n + 1 /\ b[n + 1] = 0
         /\ \A i \in 1 .. n : b[i] = m[s + i - 1]
    <3>1. <<0>> \in Seq(Char) /\ Len(<<0>>) = 1 /\ <<0>>[1] = 0
      BY CharAssumption
    <3>2. Len(Prefix(str, n)) = n
      BY <1>1, <1>2, <1>5, <1>8
    <3>3. /\ Len(b) = n + 1
          /\ \A i \in 1 .. n + 1 :
               b[i] = IF i <= n THEN Prefix(str, n)[i] ELSE <<0>>[i - n]
      BY <1>5, <3>1, <3>2, ConcatProperties
    <3>4. n + 1 \in 1 .. n + 1 /\ (n + 1) - n = 1 /\ ~(n + 1 <= n)
      OBVIOUS
    <3>5. \A i \in 1 .. n : i \in 1 .. len /\ i \in 1 .. n + 1 /\ i <= n
      BY <1>1, <1>8
    <3> HIDE DEF b
    <3> QED
      BY <1>2, <1>5, <3>1, <3>2, <3>3, <3>4, <3>5
  <2> HIDE DEF v, b
  <2>12. ASSUME NEW a \in Addr
         PROVE  v[a] = IF a \in d .. d + (n + 1) - 1 THEN b[a - d + 1] ELSE m[a]
    <3>1. CASE a = d + n
      <4>1. a \in d .. d + (n + 1) - 1 /\ a - d + 1 = n + 1
        BY <3>1 DEF Addr
      <4> QED
        BY <2>10, <2>11, <3>1, <4>1
    <3>2. CASE a \in d .. d + n - 1
      <4>1. /\ a # d + n /\ a \in d .. d + (n + 1) - 1 /\ a \in d + 0 .. d + n - 1
            /\ a - d + 1 \in 1 .. n /\ s + (a - d + 1) - 1 = s + (a - d)
        BY <3>2 DEF Addr
      <4>2. u[a] = m[s + (a - d)]
        BY <2>4, <4>1 DEF Copied
      <4>3. b[a - d + 1] = m[s + (a - d + 1) - 1]
        BY <2>11, <4>1
      <4> QED
        BY <2>10, <4>1, <4>2, <4>3
    <3>3. CASE a \notin d .. d + n
      <4>1. /\ a # d + n /\ a \notin d .. d + (n + 1) - 1
            /\ a \notin d + 0 .. d + n - 1
        BY <3>3 DEF Addr
      <4>2. u[a] = m[a]
        BY <2>4, <4>1 DEF Copied
      <4> QED
        BY <2>10, <4>1, <4>2
    <3> QED
      BY <3>1, <3>2, <3>3 DEF Addr
  <2>13. v = Patch(m, d, b)
    <3> HIDE DEF u
    <3> QED
      BY <2>10, <2>11, <2>12 DEF Patch, Cells, Memory
  <2> QED
    BY <2>9, <2>10, <2>13 DEF b, str
<1> QED
  BY <1>7, <1>8

LEMMA StrncatIs ==
    ASSUME NEW m \in Memory, NEW d \in Addr, NEW s \in Addr, NEW n \in Nat,
           MayStrncat(m, d, s, n)
    PROVE  /\ strncat(m, d, s, n) \in Memory
           /\ strncat(m, d, s, n) =
                IF n = 0 THEN m
                ELSE Patch(m, d + Length(m, d), Prefix(Str(m, s), n) \o <<0>>)
<1>1. IsString(m, s)
  BY DEF MayStrncat
<1>2. /\ strlen(m, d) = Length(m, d)
      /\ d + Length(m, d) \in Addr
      /\ Apart(d + Length(m, d), n + 1, s, Length(m, s) + 1)
  BY AppendFacts
<1>3. CASE n = 0
  BY <1>3 DEF strncat
<1>4. CASE n # 0
  <2>1. strncat(m, d, s, n) = CatUpTo(m, d + Length(m, d), s, n)
    BY <1>2, <1>4 DEF strncat
  <2> QED
    BY <1>1, <1>2, <1>4, <2>1, CatUpToIs
<1> QED
  BY <1>3, <1>4

(* Zeros behind a copy. *)
LEMMA PadsWithZeros ==
    ASSUME NEW m \in Memory, NEW u \in Memory, NEW d \in Addr,
           NEW str \in Seq(Char), NEW n \in Nat, Len(str) < n, d + n <= SIZE,
           u = Patch(m, d, str \o << 0 >>)
    PROVE  memset(u, d + Len(str) + 1, 0, n - Len(str) - 1)
             = Patch(m, d, str \o Zeros(n - Len(str)))
<1> DEFINE len == Len(str)
           x == d + len + 1
           k == n - len - 1
           b == str \o <<0>>
           z == str \o Zeros(n - len)
           v == memset(u, x, 0, k)
<1> USE SizeAssumption
<1>1. len \in Nat /\ len < n
  BY LenProperties
<1>2. <<0>> \in Seq(Char) /\ Len(<<0>>) = 1 /\ <<0>>[1] = 0
  BY CharAssumption
<1>3. /\ Zeros(n - len) \in Seq(Char) /\ Len(Zeros(n - len)) = n - len
      /\ \A i \in 1 .. n - len : Zeros(n - len)[i] = 0
  <2> HIDE DEF len
  <2>1. n - len \in Nat
    BY <1>1
  <2>2. Zeros(n - len) \in [1 .. n - len -> Char]
    BY CharAssumption DEF Zeros
  <2> QED
    BY <2>1, <2>2 DEF Zeros
<1>4. /\ Len(b) = len + 1
      /\ \A i \in 1 .. len + 1 : b[i] = IF i <= len THEN str[i] ELSE <<0>>[i - len]
  BY <1>2, ConcatProperties
<1>5. /\ Len(z) = len + (n - len)
      /\ \A i \in 1 .. len + (n - len) :
           z[i] = IF i <= len THEN str[i] ELSE Zeros(n - len)[i - len]
  BY <1>3, ConcatProperties
<1>6. u = Patch(m, d, b)
  OBVIOUS
<1> HIDE DEF b, z, len
<1>7. /\ \A i \in 1 .. len : b[i] = str[i] /\ z[i] = str[i]
      /\ b[len + 1] = 0
      /\ \A i \in len + 1 .. n : z[i] = 0
  <2>1. \A i \in 1 .. len : i \in 1 .. len + 1 /\ i \in 1 .. len + (n - len)
    BY <1>1
  <2>2. \A i \in len + 1 .. n :
          /\ i \in 1 .. len + (n - len) /\ ~(i <= len) /\ i - len \in 1 .. n - len
    BY <1>1
  <2>3. len + 1 \in 1 .. len + 1 /\ ~(len + 1 <= len) /\ (len + 1) - len = 1
    BY <1>1
  <2>4. \A i \in 1 .. len : b[i] = str[i] /\ z[i] = str[i]
    BY <1>4, <1>5, <2>1
  <2>5. b[len + 1] = 0
    <3>1. b[len + 1] = <<0>>[(len + 1) - len]
      BY <1>4, <2>3
    <3> QED
      BY <1>2, <2>3, <3>1
  <2>6. ASSUME NEW i \in len + 1 .. n PROVE z[i] = 0
    <3>1. z[i] = Zeros(n - len)[i - len]
      BY <1>5, <2>2
    <3> QED
      BY <1>3, <2>2, <3>1
  <2> QED
    BY <2>4, <2>5, <2>6
<1>8. x \in Nat /\ k \in Nat /\ x + k = d + n
  BY <1>1 DEF Addr
<1>9. v = [a \in Addr |-> IF a \in x .. x + k - 1 THEN 0 ELSE u[a]]
  <2> HIDE DEF x, k
  <2>1. \A y, r \in Nat : y + r <= SIZE =>
          memset(u, y, 0, r) =
            [a \in Addr |-> IF a \in y .. y + r - 1 THEN 0 ELSE u[a]]
    BY Fills, CharAssumption
  <2> QED
    BY <1>8, <2>1
<1> HIDE DEF v
<1>10. ASSUME NEW a \in Addr
       PROVE  v[a] = IF a \in d .. d + n - 1 THEN z[a - d + 1] ELSE m[a]
  <2>1. u[a] = IF a \in d .. d + (len + 1) - 1 THEN b[a - d + 1] ELSE m[a]
    BY <1>4, <1>6 DEF Patch, Cells
  <2>2. CASE a \in x .. x + k - 1
    <3>1. a \in d .. d + n - 1 /\ a - d + 1 \in len + 1 .. n
      BY <1>1, <1>8, <2>2 DEF Addr
    <3> QED
      BY <1>7, <1>9, <2>2, <3>1
  <2>3. CASE a \in d .. d + len - 1
    <3>1. /\ a \notin x .. x + k - 1 /\ a \in d .. d + (len + 1) - 1
          /\ a \in d .. d + n - 1 /\ a - d + 1 \in 1 .. len
      BY <1>1, <2>3 DEF Addr
    <3> QED
      BY <1>7, <1>9, <2>1, <3>1
  <2>4. CASE a = d + len
    <3>1. /\ a \notin x .. x + k - 1 /\ a \in d .. d + (len + 1) - 1
          /\ a \in d .. d + n - 1 /\ a - d + 1 = len + 1 /\ len + 1 \in len + 1 .. n
      BY <1>1, <2>4 DEF Addr
    <3> QED
      BY <1>7, <1>9, <2>1, <3>1
  <2>5. CASE a \notin d .. d + n - 1
    <3>1. /\ a \notin x .. x + k - 1 /\ a \notin d .. d + (len + 1) - 1
      BY <1>1, <2>5 DEF Addr
    <3> QED
      BY <1>9, <2>1, <2>5, <3>1
  <2> QED
    BY <1>1, <1>8, <2>2, <2>3, <2>4, <2>5 DEF Addr
<1>11. Len(z) = n
  BY <1>1, <1>5
<1> QED
  BY <1>9, <1>10, <1>11 DEF Patch, Cells, v, x, k, len, z

LEMMA StrncpyIs ==
    ASSUME NEW m \in Memory, NEW d \in Addr, NEW s \in Addr, NEW n \in Nat,
           MayStrncpy(m, d, s, n)
    PROVE  /\ strncpy(m, d, s, n) \in Memory
           /\ Length(m, s) < n =>
                strncpy(m, d, s, n)
                  = Patch(m, d, Str(m, s) \o Zeros(n - Length(m, s)))
<1> DEFINE len == Length(m, s)
           str == Str(m, s)
           nul == CopiesNul(m, d, s)
           stop == {n} \cup nul
           k == Until(stop)
<1> USE SizeAssumption
<1>1. IsString(m, s) /\ Apart(d, n, s, len + 1)
  BY DEF MayStrncpy
<1>2. len \in Nat /\ s + len < SIZE
  BY <1>1, LengthFacts
<1>3. str \in Seq(Char) /\ Len(str) = len
  BY <1>1, StrFacts
<1>4. stop \in SUBSET Nat
  BY DEF CopiesNul
<1>5. strncpy(m, d, s, n) =
        IF k = n THEN memset(Up(m, d, s, k), d + k, 0, SIZE - 1)
        ELSE memset(Up(m, d, s, k + 1), d + k + 1, 0, n - k - 1)
  BY DEF strncpy
<1>6. /\ d + n <= SIZE
      /\ n = 0 \/ d + n <= s \/ s + (len + 1) <= d
  <2> HIDE DEF len
  <2>1. len + 1 \in Nat \ {0}
    BY <1>2
  <2> QED
    BY <1>1, <2>1, ApartFacts
<1>7. \A w \in Memory, y \in Int, c \in Char, r \in Nat :
        memset(w, y, c, r) \in Memory
  BY FillRounds
<1>8. d \in Int /\ 0 \in Char /\ SIZE - 1 \in Nat
  BY CharAssumption DEF Addr
<1>9. CASE len < n
  <2>1. Apart(d, len + 1, s, len + 1)
    <3>1. Cells(d, len + 1) \subseteq Cells(d, n)
      BY <1>2, <1>9 DEF Cells, Addr
    <3> QED
      BY <1>1, <3>1 DEF Apart
  <2>2. /\ \A j \in 0 .. len : j \in nul <=> j = len
        /\ Up(m, d, s, len + 1) \in Memory
        /\ Up(m, d, s, len + 1) = Patch(m, d, str \o <<0>>)
    BY <1>1, <2>1, CopyWhole
  <2> HIDE DEF len, str, nul
  <2>3. len \in stop /\ \A i \in 0 .. len - 1 : i \notin stop
    BY <1>2, <1>9, <2>2
  <2> HIDE DEF stop
  <2>4. k = len
    BY <1>2, <1>4, <2>3, UntilIs
  <2> HIDE DEF k
  <2>5. strncpy(m, d, s, n) =
          memset(Up(m, d, s, len + 1), d + len + 1, 0, n - len - 1)
    BY <1>2, <1>5, <1>9, <2>4
  <2> DEFINE u == Up(m, d, s, len + 1)
  <2>6. u \in Memory /\ u = Patch(m, d, str \o <<0>>)
    BY <2>2
  <2> HIDE DEF u
  <2>7. memset(u, d + Len(str) + 1, 0, n - Len(str) - 1)
          = Patch(m, d, str \o Zeros(n - Len(str)))
    BY <1>3, <1>6, <1>9, <2>6, PadsWithZeros
  <2>8. d + len + 1 \in Int /\ n - len - 1 \in Nat
    BY <1>2, <1>8, <1>9
  <2>9. memset(u, d + len + 1, 0, n - len - 1) \in Memory
    BY <1>7, <1>8, <2>6, <2>8
  <2> QED
    BY <1>3, <1>9, <2>5, <2>7, <2>9 DEF u, len, str
<1>10. CASE ~(len < n)
  <2>1. n <= len /\ ((d + n <= SIZE /\ (d < s \/ s + n <= d)) \/ n = 0)
    BY <1>2, <1>6, <1>10 DEF Addr
  <2>2. Up(m, d, s, n) \in Memory /\ \A j \in 0 .. n - 1 : j \notin nul
    <3>1. CASE n = 0
      <4>1. \A x, y \in Int, r \in Nat : Up(m, x, y, r) \in Memory
        BY UpRounds
      <4>2. d \in Int /\ s \in Int
        BY DEF Addr
      <4> QED
        BY <3>1, <4>1, <4>2
    <3>2. CASE n # 0
      BY <1>1, <2>1, <3>2, CopyPart
    <3> QED
      BY <3>1, <3>2
  <2> HIDE DEF len, str, nul
  <2>3. n \in stop /\ \A i \in 0 .. n - 1 : i \notin stop
    BY <2>2
  <2> HIDE DEF stop
  <2>4. k = n
    BY <1>4, <2>3, UntilIs
  <2> HIDE DEF k
  <2> DEFINE u == Up(m, d, s, n)
  <2>5. strncpy(m, d, s, n) = memset(u, d + n, 0, SIZE - 1)
    BY <1>5, <2>4
  <2>6. u \in Memory /\ d + n \in 0 .. SIZE /\ d + n \in Int
    BY <1>6, <2>2 DEF Addr
  <2> HIDE DEF u
  <2>7. memset(u, d + n, 0, SIZE - 1) \in Memory
    BY <1>7, <1>8, <2>6
  <2>8. ~(Length(m, s) < n)
    BY <1>10 DEF len
  <2> QED
    BY <2>5, <2>7, <2>8
<1> QED
  BY <1>9, <1>10
----------------------------------------------------------------------------
(* On every memory each call the standard allows leaves the right bytes.   *)
LEMMA Copies ==
    ASSUME mem \in Memory
    PROVE  CopyingIsRight
<1>1. ASSUME NEW d \in Addr, NEW s \in Addr, NEW n \in 0 .. SIZE
      PROVE  n \in Nat
  BY SizeAssumption
<1>2. \A d, s \in Addr :
        /\ MayStrcpy(mem, d, s) =>
             strcpy(mem, d, s) = Patch(mem, d, Str(mem, s) \o <<0>>)
        /\ MayStrcat(mem, d, s) =>
             strcat(mem, d, s) =
               Patch(mem, d + Length(mem, d), Str(mem, s) \o <<0>>)
  BY StrcpyIs, StrcatIs
<1>3. \A d, s \in Addr, n \in Nat :
        /\ MayMemmove(mem, d, s, n) =>
             memmove(mem, d, s, n) = Patch(mem, d, Bytes(mem, s, n))
        /\ MayMemset(mem, d, n) => \A c \in Char :
             memset(mem, d, c, n) = Patch(mem, d, [i \in 1 .. n |-> c])
  BY MemmoveIs, MemsetIs
<1>4. \A d, s \in Addr, n \in Nat :
        /\ MayStrncat(mem, d, s, n) =>
             strncat(mem, d, s, n) =
               IF n = 0 THEN mem
               ELSE Patch(mem, d + Length(mem, d),
                          Prefix(Str(mem, s), n) \o <<0>>)
        /\ MayStrncpy(mem, d, s, n) /\ Length(mem, s) < n =>
             strncpy(mem, d, s, n)
               = Patch(mem, d, Str(mem, s) \o Zeros(n - Length(mem, s)))
  BY StrncatIs, StrncpyIs
<1> QED
  BY <1>1, <1>2, <1>3, <1>4 DEF CopyingIsRight

(* The memory stays one: no call writes anything but characters in it.     *)
LEMMA StringsStep ==
    ASSUME mem \in Memory, StringsNext
    PROVE  mem' \in Memory
<1>1. PICK d \in Addr, s \in Addr :
        \/ MayStrcpy(mem, d, s) /\ mem' = strcpy(mem, d, s)
        \/ MayStrcat(mem, d, s) /\ mem' = strcat(mem, d, s)
        \/ \E n \in 0 .. SIZE :
             \/ MayMemmove(mem, d, s, n) /\ mem' = memmove(mem, d, s, n)
             \/ MayStrncat(mem, d, s, n) /\ mem' = strncat(mem, d, s, n)
             \/ MayStrncpy(mem, d, s, n) /\ mem' = strncpy(mem, d, s, n)
        \/ \E n \in 0 .. SIZE, c \in Char :
             MayMemset(mem, d, n) /\ mem' = memset(mem, d, c, n)
  BY DEF StringsNext
<1>2. \A n \in 0 .. SIZE : n \in Nat
  BY SizeAssumption
<1>3. CASE MayStrcpy(mem, d, s) /\ mem' = strcpy(mem, d, s)
  BY <1>3, StrcpyIs
<1>4. CASE MayStrcat(mem, d, s) /\ mem' = strcat(mem, d, s)
  BY <1>4, StrcatIs
<1>5. ASSUME NEW n \in 0 .. SIZE, MayMemmove(mem, d, s, n), mem' = memmove(mem, d, s, n)
      PROVE  mem' \in Memory
  BY <1>2, <1>5, MemmoveIs
<1>6. ASSUME NEW n \in 0 .. SIZE, MayStrncat(mem, d, s, n), mem' = strncat(mem, d, s, n)
      PROVE  mem' \in Memory
  BY <1>2, <1>6, StrncatIs
<1>7. ASSUME NEW n \in 0 .. SIZE, MayStrncpy(mem, d, s, n), mem' = strncpy(mem, d, s, n)
      PROVE  mem' \in Memory
  BY <1>2, <1>7, StrncpyIs
<1>8. ASSUME NEW n \in 0 .. SIZE, NEW c \in Char, MayMemset(mem, d, n),
             mem' = memset(mem, d, c, n)
      PROVE  mem' \in Memory
  BY <1>2, <1>8, MemsetIs
<1> QED
  BY <1>1, <1>3, <1>4, <1>5, <1>6, <1>7, <1>8
----------------------------------------------------------------------------
(* A loop with a stop somewhere ends at the first. *)
LEMMA UntilFirst ==
    ASSUME NEW stop \in SUBSET Nat, NEW j \in stop
    PROVE  /\ Until(stop) \in stop /\ Until(stop) <= j
           /\ \A i \in 0 .. Until(stop) - 1 : i \notin stop
<1>1. PICK n \in stop : \A k \in stop : n <= k
  BY LeastNatural
<1>2. \A i \in 0 .. n - 1 : i \notin stop
  BY <1>1
<1>3. Until(stop) = n
  BY <1>2, UntilIs
<1> QED
  BY <1>1, <1>2, <1>3

LEMMA StringAt ==
    ASSUME NEW m \in Memory, NEW s \in Addr, IsString(m, s)
    PROVE  \A i \in 0 .. Length(m, s) :
             /\ s + i \in Addr /\ Ptr(s + i) = s + i
             /\ At(m, s + i) = m[s + i] /\ m[s + i] \in Char /\ m[s + i] \in Nat
             /\ m[s + i] = 0 <=> i = Length(m, s)
<1> DEFINE n == Length(m, s)
<1>1. /\ n \in Nat /\ s + n < SIZE /\ m[s + n] = 0
      /\ \A i \in 0 .. n - 1 : m[s + i] # 0
  BY LengthFacts
<1> HIDE DEF n
<1> SUFFICES ASSUME NEW i \in 0 .. n
             PROVE  /\ s + i \in Addr /\ Ptr(s + i) = s + i
                    /\ At(m, s + i) = m[s + i]
                    /\ m[s + i] \in Char /\ m[s + i] \in Nat
                    /\ m[s + i] = 0 <=> i = n
  BY DEF n
<1>2. s + i \in Addr /\ (i # n => i \in 0 .. n - 1)
  BY <1>1, SizeAssumption DEF Addr
<1>3. Ptr(s + i) = s + i /\ At(m, s + i) = m[s + i] /\ m[s + i] \in Char
  BY <1>2, PtrFacts, AtFacts DEF Memory
<1> QED
  BY <1>1, <1>2, <1>3, CharAssumption

LEMMA LowestIs ==
    ASSUME NEW S \in SUBSET Int, NEW x \in S, \A y \in S : x <= y
    PROVE  Lowest(S) = x
<1>1. S # {} /\ \A z \in S : (\A y \in S : z <= y) => z = x
  OBVIOUS
<1> QED
  BY <1>1 DEF Lowest

LEMMA HighestIs ==
    ASSUME NEW S \in SUBSET Int, NEW x \in S, \A y \in S : y <= x
    PROVE  Highest(S) = x
<1>1. S # {} /\ \A z \in S : (\A y \in S : y <= z) => z = x
  OBVIOUS
<1> QED
  BY <1>1 DEF Highest

(* The places in the string at s where a character of set is. *)
Hits_(m, s, set) == {a \in Cells(s, Length(m, s)) : m[a] \in set}

(* A loop over a string that stops at a character of set or at the NUL.    *)
LEMMA StopsAt ==
    ASSUME NEW m \in Memory, NEW s \in Addr, IsString(m, s), NEW set,
           NEW stop \in SUBSET Nat,
           \A i \in 0 .. Length(m, s) :
             i \in stop <=> m[s + i] = 0 \/ m[s + i] \in set
    PROVE  /\ Until(stop) \in 0 .. Length(m, s)
           /\ IF Hits_(m, s, set) = {} THEN Until(stop) = Length(m, s)
              ELSE /\ Until(stop) < Length(m, s)
                   /\ s + Until(stop) = Lowest(Hits_(m, s, set))
<1> DEFINE n == Length(m, s)
           k == Until(stop)
           hits == Hits_(m, s, set)
<1> USE SizeAssumption
<1>1. n \in Nat /\ s + n < SIZE
  BY LengthFacts
<1>2. \A i \in 0 .. n : s + i \in Addr /\ (m[s + i] = 0 <=> i = n)
  BY StringAt
<1>3. \A i \in 0 .. n : i \in stop <=> m[s + i] = 0 \/ m[s + i] \in set
  OBVIOUS
<1>4. \A a : a \in hits <=> a \in s .. s + n - 1 /\ m[a] \in set
  BY DEF Hits_, Cells
<1> HIDE DEF n, hits
<1>5. n \in stop
  BY <1>1, <1>2, <1>3
<1>6. k \in stop /\ k <= n /\ \A i \in 0 .. k - 1 : i \notin stop
  BY <1>5, UntilFirst
<1> HIDE DEF k
<1>7. k \in 0 .. n
  BY <1>6
<1>8. ASSUME NEW a \in hits PROVE s + k <= a /\ k < n
  <2>1. a \in s .. s + n - 1 /\ m[a] \in set
    BY <1>4
  <2>2. a - s \in 0 .. n /\ s + (a - s) = a /\ a - s < n
    BY <1>1, <2>1 DEF Addr
  <2>3. a - s \in stop
    BY <1>3, <2>1, <2>2
  <2>4. ~(a - s < k)
    BY <1>6, <2>2, <2>3
  <2> QED
    BY <1>1, <1>7, <2>1, <2>2, <2>4 DEF Addr
<1>9. CASE k = n
  <2>1. hits = {}
    BY <1>1, <1>8, <1>9
  <2> QED
    BY <1>7, <1>9, <2>1 DEF k, n, hits
<1>10. CASE k # n
  <2>1. m[s + k] \in set
    BY <1>2, <1>3, <1>6, <1>7, <1>10
  <2>2. s + k \in s .. s + n - 1
    BY <1>1, <1>7, <1>10 DEF Addr
  <2>3. s + k \in hits
    BY <1>4, <2>1, <2>2
  <2>4. hits \in SUBSET Int
    BY <1>4 DEF Addr
  <2>5. Lowest(hits) = s + k
    BY <1>8, <2>3, <2>4, LowestIs
  <2>6. k \in 0 .. n /\ k < n /\ hits # {}
    BY <1>7, <1>8, <2>3
  <2> QED
    BY <2>5, <2>6 DEF k, n, hits
<1> QED
  BY <1>9, <1>10

(* strchr, and strrchr character by character. *)
Found_(m, s, c) ==
    Hits_(m, s, {c}) \cup (IF c = 0 THEN {s + Length(m, s)} ELSE {})

LEMMA StrchrIs ==
    ASSUME NEW m \in Memory, NEW s \in Addr, IsString(m, s), NEW c \in Char
    PROVE  strchr(m, s, c) = Lowest(Found_(m, s, c))
<1> DEFINE n == Length(m, s)
           stop == {j \in Nat : At(m, s + j) \in {c, 0}}
           k == Until(stop)
           hits == Hits_(m, s, {c})
<1> USE SizeAssumption
<1>1. n \in Nat /\ s + n < SIZE
  BY LengthFacts
<1>2. \A i \in 0 .. n :
        /\ s + i \in Addr /\ Ptr(s + i) = s + i /\ At(m, s + i) = m[s + i]
        /\ m[s + i] = 0 <=> i = n
  BY StringAt
<1>3. strchr(m, s, c) = IF At(m, s + k) = c THEN Ptr(s + k) ELSE NULLP
  BY DEF strchr
<1>4. stop \in SUBSET Nat /\ \A i \in 0 .. n : i \in stop <=> m[s + i] = 0 \/ m[s + i] \in {c}
  BY <1>2
<1> HIDE DEF stop
<1>5. /\ k \in 0 .. n
      /\ IF hits = {} THEN k = n ELSE k < n /\ s + k = Lowest(hits)
  BY <1>4, StopsAt
<1>6. \A a : a \in hits <=> a \in s .. s + n - 1 /\ m[a] = c
  BY DEF Hits_, Cells
<1>7. Found_(m, s, c) = hits \cup (IF c = 0 THEN {s + n} ELSE {})
  BY DEF Found_
<1> HIDE DEF n, k, hits
<1>8. CASE hits # {}
  <2>1. k < n /\ s + k = Lowest(hits)
    BY <1>5, <1>8
  <2>2. c # 0
    <3>1. PICK a \in hits : TRUE
      BY <1>8
    <3>2. a \in s .. s + n - 1 /\ m[a] = c
      BY <1>6, <3>1
    <3>3. a - s \in 0 .. n /\ s + (a - s) = a /\ a - s # n
      BY <1>1, <3>2 DEF Addr
    <3> QED
      BY <1>2, <3>2, <3>3
  <2>3. Found_(m, s, c) = hits
    BY <1>7, <2>2
  <2>4. k \in stop
    <3>1. \E j \in Nat : j \in stop
      BY <1>1, <1>2, <1>4
    <3> QED
      BY <1>4, <3>1, UntilFirst DEF k
  <2>5. m[s + k] = c
    BY <1>2, <1>4, <1>5, <2>1, <2>4
  <2> QED
    BY <1>2, <1>3, <1>5, <2>1, <2>3, <2>5
<1>9. CASE hits = {} /\ c = 0
  <2>1. k = n /\ m[s + n] = 0
    BY <1>1, <1>2, <1>5, <1>9
  <2>2. Found_(m, s, c) = {s + n} /\ s + n \in Int
    BY <1>1, <1>7, <1>9 DEF Addr
  <2>3. Lowest(Found_(m, s, c)) = s + n
    BY <2>2, LowestIs
  <2> QED
    BY <1>1, <1>2, <1>3, <1>9, <2>1, <2>3
<1>10. CASE hits = {} /\ c # 0
  <2>1. k = n /\ m[s + n] = 0
    BY <1>1, <1>2, <1>5, <1>10
  <2>2. Lowest(Found_(m, s, c)) = NULLP
    BY <1>7, <1>10 DEF Lowest
  <2> QED
    BY <1>1, <1>2, <1>3, <1>10, <2>1, <2>2
<1> QED
  BY <1>8, <1>9, <1>10

LEMMA SaveRounds ==
    ASSUME NEW m \in Memory, NEW s \in Int, NEW c
    PROVE  /\ LastSeen(m, s, c)[0] = NULLP
           /\ \A k \in Nat :
                LastSeen(m, s, c)[k + 1] =
                  IF At(m, s + k) = c THEN Ptr(s + k) ELSE LastSeen(m, s, c)[k]
<1> DEFINE Round(k, b) == IF At(m, s + k) = c THEN Ptr(s + k) ELSE b
           step == [p \in Nat \X Int |-> Round(p[1], p[2])]
           f == CHOOSE h : h = [k \in Nat |->
                  CASE k = 0 -> NULLP
                    [] k # 0 /\ At(m, s + k - 1) = c -> Ptr(s + k - 1)
                    [] OTHER -> h[k - 1]]
<1>1. \A k \in Nat, b \in Int : Round(k, b) \in Int
  <2>1. \A k \in Nat : s + k \in Int
    OBVIOUS
  <2> QED
    BY <2>1, PtrFacts, SizeAssumption DEF Addr
<1>2. step \in [Nat \X Int -> Int]
  BY <1>1
<1>3. \A k \in Nat, b \in Int : step[<<k, b>>] = Round(k, b)
  <2> TAKE k \in Nat, b \in Int
  <2>1. <<k, b>> \in Nat \X Int
    OBVIOUS
  <2> HIDE DEF Round
  <2> QED
    BY <2>1
<1> HIDE DEF step
<1>4. PICK g \in [Nat -> Int] : Recurs(NULLP, step, g)
  <2>1. NULLP \in Int
    BY DEF NULLP
  <2> QED
    BY <1>2, <2>1, RecursionExists
<1>5. g[0] = NULLP /\ \A k \in Nat : g[k + 1] = Round(k, g[k])
  <2> HIDE DEF Round
  <2> QED
    BY <1>3, <1>4 DEF Recurs
<1>6. g = [k \in Nat |->
             CASE k = 0 -> NULLP
               [] k # 0 /\ At(m, s + k - 1) = c -> Ptr(s + k - 1)
               [] OTHER -> g[k - 1]]
  <2>1. ASSUME NEW j \in Nat, j # 0
        PROVE  g[j] = IF At(m, s + j - 1) = c THEN Ptr(s + j - 1) ELSE g[j - 1]
    <3>1. j - 1 \in Nat /\ (j - 1) + 1 = j /\ s + (j - 1) = s + j - 1
      BY <2>1
    <3>2. g[(j - 1) + 1] = Round(j - 1, g[j - 1])
      BY <1>5, <3>1
    <3> QED
      BY <3>1, <3>2
  <2> HIDE DEF Round
  <2> QED
    BY <1>5, <2>1
<1>7. f = [k \in Nat |->
             CASE k = 0 -> NULLP
               [] k # 0 /\ At(m, s + k - 1) = c -> Ptr(s + k - 1)
               [] OTHER -> f[k - 1]]
  BY <1>6
<1>8. LastSeen(m, s, c) = f
  BY DEF LastSeen
<1> HIDE DEF f
<1>9. f[0] = NULLP
  BY <1>7
<1>10. ASSUME NEW k \in Nat PROVE f[k + 1] = Round(k, f[k])
  <2>1. k + 1 \in Nat /\ k + 1 # 0 /\ (k + 1) - 1 = k /\ s + (k + 1) - 1 = s + k
    OBVIOUS
  <2>2. f[k + 1] = IF At(m, s + (k + 1) - 1) = c THEN Ptr(s + (k + 1) - 1)
                   ELSE f[(k + 1) - 1]
    BY <1>7, <2>1
  <2> QED
    BY <2>1, <2>2
<1> QED
  BY <1>8, <1>9, <1>10

LEMMA StrrchrIs ==
    ASSUME NEW m \in Memory, NEW s \in Addr, IsString(m, s), NEW c \in Char
    PROVE  strrchr(m, s, c) = Highest(Hits_(m, s, {c} \ {0}))
<1> DEFINE n == Length(m, s)
           Seen(k) == {a \in s .. s + k - 1 : m[a] = c}
           save == LastSeen(m, s, c)
           P == {k \in Nat : k <= n => save[k] = Highest(Seen(k))}
<1> USE SizeAssumption
<1>1. n \in Nat /\ s + n < SIZE /\ s \in Int
  BY LengthFacts DEF Addr
<1>2. \A i \in 0 .. n :
        /\ s + i \in Addr /\ Ptr(s + i) = s + i /\ At(m, s + i) = m[s + i]
        /\ m[s + i] = 0 <=> i = n
  BY StringAt
<1>3. /\ save[0] = NULLP
      /\ \A k \in Nat : save[k + 1] = IF At(m, s + k) = c THEN Ptr(s + k) ELSE save[k]
  BY SMTT(30), <1>1, SaveRounds
<1>4. strrchr(m, s, c) = save[n]
  BY StrlenIs DEF strrchr
<1>5. Hits_(m, s, {c} \ {0}) = Seen(n)
  <2>1. \A a \in s .. s + n - 1 : m[a] # 0
    <3> TAKE a \in s .. s + n - 1
    <3> HIDE DEF n
    <3>1. a - s \in 0 .. n /\ a - s # n /\ s + (a - s) = a
      BY <1>1
    <3> QED
      BY <1>2, <3>1
  <2> QED
    BY <2>1 DEF Hits_, Cells
<1> HIDE DEF n, save
<1>6. 0 \in P
  <2>1. Seen(0) = {}
    BY <1>1
  <2> QED
    BY <1>3, <2>1 DEF Highest
<1>7. ASSUME NEW k \in P, k + 1 <= n PROVE save[k + 1] = Highest(Seen(k + 1))
  <2>1. /\ k \in 0 .. n /\ save[k] = Highest(Seen(k))
        /\ At(m, s + k) = m[s + k] /\ Ptr(s + k) = s + k
    BY <1>1, <1>2, <1>7
  <2>2. save[k + 1] = IF m[s + k] = c THEN s + k ELSE save[k]
    BY <1>3, <2>1
  <2>3. \A a : a \in s .. s + (k + 1) - 1 <=> a = s + k \/ a \in s .. s + k - 1
    BY <1>1, <2>1
  <2>4. CASE m[s + k] = c
    <3>1. s + k \in Seen(k + 1) /\ Seen(k + 1) \in SUBSET Int
      BY <1>1, <2>1, <2>3, <2>4
    <3>2. \A y \in Seen(k + 1) : y <= s + k
      BY <1>1, <2>1
    <3> HIDE DEF Seen
    <3> QED
      BY <2>2, <2>4, <3>1, <3>2, HighestIs
  <2>5. CASE m[s + k] # c
    <3>1. Seen(k + 1) = Seen(k)
      BY <2>3, <2>5
    <3> QED
      BY <2>1, <2>2, <2>5, <3>1
  <2> QED
    BY <2>4, <2>5
<1> HIDE DEF P
<1>8. P \in SUBSET Nat /\ \A k \in P : k + 1 \in P
  BY <1>7 DEF P
<1>9. P = Nat
  BY <1>6, <1>8, SetInduction
<1>10. save[n] = Highest(Seen(n))
  BY <1>1, <1>9 DEF P
<1> QED
  BY <1>4, <1>5, <1>10

(* The characters of a string as a set. *)
LEMMA AmongIs ==
    ASSUME NEW m \in Memory, NEW t \in Addr, IsString(m, t), NEW c
    PROVE  Among(m, c, t) <=> c \in ToSet(Str(m, t))
<1> DEFINE n == Length(m, t)
           stop == {j \in Nat : At(m, t + j) \in {c, 0}}
           k == Until(stop)
           str == Str(m, t)
<1> USE SizeAssumption
<1>1. n \in Nat /\ t + n < SIZE
  BY LengthFacts
<1>2. \A i \in 0 .. n :
        At(m, t + i) = m[t + i] /\ (m[t + i] = 0 <=> i = n)
  BY StringAt
<1>3. c \in ToSet(str) <=> \E i \in 1 .. n : m[t + i - 1] = c
  <2>1. str \in Seq(Char) /\ Len(str) = n /\ \A i \in 1 .. n : str[i] = m[t + i - 1]
    BY StrFacts
  <2>2. DOMAIN str = 1 .. n
    BY <2>1, LenProperties
  <2> HIDE DEF str, n
  <2> QED
    BY <2>1, <2>2 DEF ToSet
<1>4. Among(m, c, t) <=> At(m, t + k) # 0
  BY DEF Among
<1>5. stop \in SUBSET Nat /\ \A i \in 0 .. n : i \in stop <=> m[t + i] = 0 \/ m[t + i] = c
  BY <1>2
<1> HIDE DEF n, stop, str
<1>6. n \in stop
  BY <1>1, <1>2, <1>5
<1>7. k \in stop /\ k <= n /\ \A i \in 0 .. k - 1 : i \notin stop
  BY <1>5, <1>6, UntilFirst
<1> HIDE DEF k
<1>8. k \in 0 .. n
  BY <1>5, <1>7
<1>9. CASE k = n
  <2>1. ASSUME NEW i \in 1 .. n, m[t + i - 1] = c PROVE FALSE
    <3>1. i - 1 \in 0 .. n /\ i - 1 \in 0 .. k - 1 /\ t + (i - 1) = t + i - 1
      BY <1>1, <1>9
    <3> QED
      BY <1>5, <1>7, <2>1, <3>1
  <2>2. c \notin ToSet(str)
    BY <1>3, <2>1
  <2>3. At(m, t + k) = 0
    BY <1>1, <1>2, <1>8, <1>9
  <2> QED
    BY <1>4, <2>2, <2>3 DEF str
<1>10. CASE k # n
  <2>1. m[t + k] = c /\ At(m, t + k) # 0
    BY <1>2, <1>5, <1>7, <1>8, <1>10
  <2>2. k + 1 \in 1 .. n /\ t + (k + 1) - 1 = t + k
    BY <1>1, <1>8, <1>10 DEF Addr
  <2>3. c \in ToSet(str)
    <3>1. m[t + (k + 1) - 1] = c
      BY <2>1, <2>2
    <3> QED
      BY <1>3, <2>2, <3>1
  <2> QED
    BY <1>4, <2>1, <2>3 DEF str
<1> QED
  BY <1>9, <1>10

(* Where the characters of one string first are in another, or others.     *)
Start_(m, s, set) ==
    IF Hits_(m, s, set) = {} THEN Length(m, s) ELSE Lowest(Hits_(m, s, set)) - s

LEMMA SpansAre ==
    ASSUME NEW m \in Memory, NEW s \in Addr, IsString(m, s),
           NEW t \in Addr, IsString(m, t)
    PROVE  LET set == ToSet(Str(m, t)) IN
           /\ strcspn(m, s, t) = Start_(m, s, set)
           /\ strspn(m, s, t) = Start_(m, s, Char \ set)
           /\ strpbrk(m, s, t) = Lowest(Hits_(m, s, set))
<1> DEFINE n == Length(m, s)
           set == ToSet(Str(m, t))
           in == {j \in Nat : AmongOrNul(m, At(m, s + j), t)}
           out == {j \in Nat : ~Among(m, At(m, s + j), t)}
<1> USE SizeAssumption
<1>1. n \in Nat /\ s + n < SIZE /\ s \in Int
  BY LengthFacts DEF Addr
<1>2. \A i \in 0 .. n :
        /\ Ptr(s + i) = s + i /\ At(m, s + i) = m[s + i] /\ m[s + i] \in Char
        /\ m[s + i] = 0 <=> i = n
  BY StringAt
<1>3. \A c : Among(m, c, t) <=> c \in set
  BY AmongIs
<1>4. 0 \notin set
  <2>1. /\ Str(m, t) \in Seq(Char)
        /\ \A i \in 1 .. Len(Str(m, t)) : Str(m, t)[i] # 0
    BY StrFacts
  <2>2. DOMAIN Str(m, t) = 1 .. Len(Str(m, t))
    BY <2>1, LenProperties
  <2> QED
    BY <2>1, <2>2 DEF ToSet
<1> HIDE DEF set
<1>5. in \in SUBSET Nat /\ \A i \in 0 .. n : i \in in <=> m[s + i] = 0 \/ m[s + i] \in set
  BY <1>2, <1>3 DEF AmongOrNul
<1>6. out \in SUBSET Nat
      /\ \A i \in 0 .. n : i \in out <=> m[s + i] = 0 \/ m[s + i] \in Char \ set
  BY <1>2, <1>3, <1>4
<1>7. strspn(m, s, t) = Until(out) /\ strcspn(m, s, t) = Until(in)
  BY DEF strspn, strcspn
<1>8. strpbrk(m, s, t) =
        IF At(m, s + Until(in)) = 0 THEN NULLP ELSE Ptr(s + Until(in))
  BY DEF strpbrk
<1> HIDE DEF in, out
<1>9. /\ Until(in) \in 0 .. n
      /\ IF Hits_(m, s, set) = {} THEN Until(in) = n
         ELSE Until(in) < n /\ s + Until(in) = Lowest(Hits_(m, s, set))
  BY <1>5, StopsAt
<1>10. /\ Until(out) \in 0 .. n
       /\ IF Hits_(m, s, Char \ set) = {} THEN Until(out) = n
          ELSE Until(out) < n /\ s + Until(out) = Lowest(Hits_(m, s, Char \ set))
  BY <1>6, StopsAt
<1>11. strcspn(m, s, t) = Start_(m, s, set)
  <2>1. (s + Until(in)) - s = Until(in)
    BY <1>1, <1>9
  <2> QED
    BY <1>7, <1>9, <2>1 DEF Start_
<1>12. strspn(m, s, t) = Start_(m, s, Char \ set)
  <2>1. (s + Until(out)) - s = Until(out)
    BY <1>1, <1>10
  <2> QED
    BY <1>7, <1>10, <2>1 DEF Start_
<1>13. strpbrk(m, s, t) = Lowest(Hits_(m, s, set))
  <2>1. CASE Hits_(m, s, set) = {}
    <3>1. At(m, s + Until(in)) = 0
      BY <1>1, <1>2, <1>9, <2>1
    <3> QED
      BY <1>8, <2>1, <3>1 DEF Lowest
  <2>2. CASE Hits_(m, s, set) # {}
    <3>1. /\ At(m, s + Until(in)) # 0 /\ Ptr(s + Until(in)) = s + Until(in)
          /\ s + Until(in) = Lowest(Hits_(m, s, set))
      BY <1>1, <1>2, <1>9, <2>2
    <3> QED
      BY <1>8, <3>1
  <2> QED
    BY <2>1, <2>2
<1> QED
  BY <1>11, <1>12, <1>13 DEF set
----------------------------------------------------------------------------
(* The order of two sequences is that of the first characters in which     *)
(* they differ, the end of one counting as 0.                              *)
Next_(a, k) == IF k < Len(a) THEN a[k + 1] ELSE 0

LEMMA OrderIs ==
    ASSUME NEW a \in Seq(Char), NEW b \in Seq(Char), NEW k \in Nat,
           k <= Len(a), k <= Len(b), \A i \in 1 .. k : a[i] = b[i],
           k < Len(a) => k < Len(b) \/ a[k + 1] # 0,
           k < Len(b) => k < Len(a) \/ b[k + 1] # 0,
           k < Len(a) /\ k < Len(b) => a[k + 1] # b[k + 1]
    PROVE  Sign(Next_(a, k) - Next_(b, k)) = Order(a, b)
<1> DEFINE x == Next_(a, k)
           y == Next_(b, k)
           la == Len(a)
           lb == Len(b)
           Same(n) == Prefix(a, n) = Prefix(b, n)
           At_(n) == /\ Same(n) /\ lb > n
                     /\ (la = n \/ (la > n /\ a[n + 1] < b[n + 1]))
<1>1. la \in Nat /\ lb \in Nat
  BY LenProperties
<1>2. /\ \A i \in 1 .. la : a[i] \in Nat
      /\ \A i \in 1 .. lb : b[i] \in Nat
  BY ElementOfSeq, CharAssumption
<1>3. \A n \in Nat : /\ Prefix(a, n) \in Seq(Char)
                     /\ Len(Prefix(a, n)) = IF n < la THEN n ELSE la
                     /\ \A i \in 1 .. Len(Prefix(a, n)) : Prefix(a, n)[i] = a[i]
  BY PrefixFacts
<1>4. \A n \in Nat : /\ Prefix(b, n) \in Seq(Char)
                     /\ Len(Prefix(b, n)) = IF n < lb THEN n ELSE lb
                     /\ \A i \in 1 .. Len(Prefix(b, n)) : Prefix(b, n)[i] = b[i]
  BY PrefixFacts
<1>5. Before(a, b) <=> \E n \in 0 .. la : At_(n)
  BY DEF Before
<1>6. k <= la /\ k <= lb /\ \A i \in 1 .. k : a[i] = b[i]
  OBVIOUS
<1>7. /\ k < la => k < lb \/ a[k + 1] # 0
      /\ k < lb => k < la \/ b[k + 1] # 0
      /\ k < la /\ k < lb => a[k + 1] # b[k + 1]
  OBVIOUS
<1>8. x = (IF k < la THEN a[k + 1] ELSE 0) /\ y = (IF k < lb THEN b[k + 1] ELSE 0)
  BY DEF Next_
<1>9. k < la => k + 1 \in 1 .. la
  BY <1>1
<1>10. k < lb => k + 1 \in 1 .. lb
  BY <1>1
<1>11. x \in Nat /\ y \in Nat
  BY <1>2, <1>8, <1>9, <1>10
<1>12. Same(k)
  <2>1. Len(Prefix(a, k)) = k /\ Len(Prefix(b, k)) = k
    <3>1. /\ Len(Prefix(a, k)) = IF k < la THEN k ELSE la
          /\ Len(Prefix(b, k)) = IF k < lb THEN k ELSE lb
      BY <1>3, <1>4
    <3> HIDE DEF la, lb
    <3> QED
      BY <1>1, <1>6, <3>1
  <2>2. \A i \in 1 .. k : Prefix(a, k)[i] = Prefix(b, k)[i]
    BY <1>3, <1>4, <1>6, <2>1
  <2>3. Prefix(a, k) \in Seq(Char) /\ Prefix(b, k) \in Seq(Char)
    BY <1>3, <1>4
  <2> DEFINE p == Prefix(a, k)
             q == Prefix(b, k)
  <2>4. p = q
    <3>1. /\ p \in Seq(Char) /\ q \in Seq(Char) /\ Len(p) = Len(q)
          /\ \A i \in 1 .. Len(p) : p[i] = q[i]
      BY <2>1, <2>2, <2>3
    <3> HIDE DEF p, q
    <3> QED
      BY <3>1, SeqEqual
  <2> QED
    BY <2>4
<1>13. ASSUME NEW n \in 0 .. la, At_(n) PROVE n = k /\ x < y
  <2>1. n \in Nat /\ lb > n /\ Prefix(a, n) = Prefix(b, n)
    BY <1>1, <1>13
  <2>2. Len(Prefix(a, n)) = n
    BY <1>1, <1>3, <2>1
  <2>3. \A i \in 1 .. n : a[i] = b[i]
    BY ZenonT(40), <1>3, <1>4, <2>1, <2>2
  <2>4. ~(k < n)
    <3>1. SUFFICES ASSUME k < n PROVE FALSE
      OBVIOUS
    <3>2. k + 1 \in 1 .. n /\ k < la /\ k < lb
      BY <1>1, <2>1, <3>1
    <3> QED
      BY <1>7, <2>3, <3>2
  <2>5. ~(n < k)
    <3>1. SUFFICES ASSUME n < k PROVE FALSE
      OBVIOUS
    <3>2. n + 1 \in 1 .. k /\ la # n /\ n + 1 \in 1 .. la
      BY <1>1, <1>6, <2>1, <3>1
    <3>3. a[n + 1] < b[n + 1] /\ a[n + 1] = b[n + 1] /\ a[n + 1] \in Nat
      BY <1>2, <1>6, <1>13, <3>2
    <3> QED
      BY <3>3
  <2>6. n = k
    BY <1>1, <2>1, <2>4, <2>5
  <2>7. x < y
    <3> HIDE DEF Same, x, y
    <3>1. lb > k /\ (la = k \/ (la > k /\ a[k + 1] < b[k + 1]))
      BY <1>13, <2>6
    <3>2. y = b[k + 1] /\ b[k + 1] \in Nat
      BY <1>1, <1>2, <1>8, <1>10, <3>1
    <3>3. CASE la = k
      BY <1>1, <1>7, <1>8, <3>1, <3>2, <3>3
    <3>4. CASE la > k /\ a[k + 1] < b[k + 1]
      BY <1>1, <1>8, <3>2, <3>4
    <3> QED
      BY <3>1, <3>3, <3>4
  <2> QED
    BY <2>6, <2>7
<1>14. x < y => At_(k) /\ k \in 0 .. la
  <2> SUFFICES ASSUME x < y PROVE At_(k) /\ k \in 0 .. la
    OBVIOUS
  <2> HIDE DEF Same, x, y
  <2>1. lb > k /\ y = b[k + 1]
    BY <1>1, <1>6, <1>8, <1>11
  <2>2. la = k \/ (la > k /\ x = a[k + 1])
    BY <1>1, <1>6, <1>8
  <2> QED
    BY <1>1, <1>6, <1>12, <2>1, <2>2
<1>15. Before(a, b) <=> x < y
  <2> HIDE DEF At_, x, y, la
  <2> QED
    BY <1>5, <1>13, <1>14
<1>16. a = b <=> x = y
  <2>1. ASSUME a = b PROVE x = y
    BY <1>8, <2>1
  <2>2. ASSUME x = y PROVE a = b
    <3> HIDE DEF x, y
    <3>1. la = k /\ lb = k
      <4>1. ~(k < la /\ k < lb)
        BY <1>7, <1>8, <2>2
      <4>2. ~(k < la /\ ~(k < lb))
        BY <1>7, <1>8, <2>2
      <4>3. ~(k < lb /\ ~(k < la))
        BY <1>7, <1>8, <2>2
      <4> QED
        BY <1>1, <1>6, <4>1, <4>2, <4>3
    <3> QED
      BY <1>6, <3>1, SeqEqual
  <2> QED
    BY <2>1, <2>2
<1> HIDE DEF x, y
<1>17. Order(a, b) = IF x = y THEN 0 ELSE IF x < y THEN -1 ELSE 1
  BY <1>15, <1>16 DEF Order
<1>18. Sign(x - y) = IF x = y THEN 0 ELSE IF x < y THEN -1 ELSE 1
  BY <1>11 DEF Sign
<1> QED
  BY <1>17, <1>18 DEF x, y

(* Two strings of which the first n characters are compared: what is there *)
(* at the kth, when they are the same before it.                           *)
LEMMA StringsCompared ==
    ASSUME NEW m \in Memory, NEW s \in Addr, NEW t \in Addr,
           IsString(m, s), IsString(m, t), NEW n \in Nat, NEW k \in Nat,
           k <= n, k <= Length(m, s), k <= Length(m, t),
           \A i \in 0 .. k - 1 : m[s + i] = m[t + i],
           k < n => m[s + k] # m[t + k] \/ m[s + k] = 0
    PROVE  Order(Prefix(Str(m, s), n), Prefix(Str(m, t), n)) =
             IF k = n THEN 0 ELSE Sign(m[s + k] - m[t + k])
<1> DEFINE a == Prefix(Str(m, s), n)
           b == Prefix(Str(m, t), n)
           ls == Length(m, s)
           lt == Length(m, t)
<1> USE SizeAssumption
<1>1. ls \in Nat /\ lt \in Nat /\ s \in Int /\ t \in Int
  BY LengthFacts DEF Addr
<1>2. /\ Str(m, s) \in Seq(Char) /\ Len(Str(m, s)) = ls
      /\ \A i \in 1 .. ls : Str(m, s)[i] = m[s + i - 1] /\ Str(m, s)[i] # 0
  BY StrFacts
<1>3. /\ Str(m, t) \in Seq(Char) /\ Len(Str(m, t)) = lt
      /\ \A i \in 1 .. lt : Str(m, t)[i] = m[t + i - 1] /\ Str(m, t)[i] # 0
  BY StrFacts
<1>4. \A i \in 0 .. ls : m[s + i] = 0 <=> i = ls
  BY StringAt
<1>5. \A i \in 0 .. lt : m[t + i] = 0 <=> i = lt
  BY StringAt
<1>6. k <= ls /\ k <= lt
  OBVIOUS
<1> HIDE DEF ls, lt
<1>7. /\ a \in Seq(Char)
      /\ Len(a) = IF n < ls THEN n ELSE ls
      /\ \A i \in 1 .. Len(a) : a[i] = Str(m, s)[i]
  BY <1>2, PrefixFacts
<1>8. /\ b \in Seq(Char)
      /\ Len(b) = IF n < lt THEN n ELSE lt
      /\ \A i \in 1 .. Len(b) : b[i] = Str(m, t)[i]
  BY <1>3, PrefixFacts
<1> HIDE DEF a, b
<1>9. \A i \in 1 .. Len(a) : i \in 1 .. ls /\ a[i] = m[s + i - 1] /\ a[i] # 0
  BY <1>1, <1>2, <1>7
<1>10. \A i \in 1 .. Len(b) : i \in 1 .. lt /\ b[i] = m[t + i - 1] /\ b[i] # 0
  BY <1>1, <1>3, <1>8
<1>11. k <= Len(a) /\ k <= Len(b)
  BY <1>1, <1>6, <1>7, <1>8
<1>12. ASSUME NEW i \in 1 .. k PROVE a[i] = b[i]
  <2>1. i \in 1 .. Len(a) /\ i \in 1 .. Len(b) /\ i - 1 \in 0 .. k - 1
    BY <1>1, <1>7, <1>8, <1>11
  <2>2. s + (i - 1) = s + i - 1 /\ t + (i - 1) = t + i - 1
    BY <1>1
  <2> QED
    BY <1>9, <1>10, <2>1, <2>2
<1>13. k < Len(a) => k < n /\ a[k + 1] = m[s + k] /\ a[k + 1] # 0
  <2> SUFFICES ASSUME k < Len(a)
               PROVE  k < n /\ a[k + 1] = m[s + k] /\ a[k + 1] # 0
    OBVIOUS
  <2>1. k < n /\ k + 1 \in 1 .. Len(a) /\ s + (k + 1) - 1 = s + k
    BY <1>1, <1>7
  <2> QED
    BY <1>9, <2>1
<1>14. k < Len(b) => k < n /\ b[k + 1] = m[t + k] /\ b[k + 1] # 0
  <2> SUFFICES ASSUME k < Len(b)
               PROVE  k < n /\ b[k + 1] = m[t + k] /\ b[k + 1] # 0
    OBVIOUS
  <2>1. k < n /\ k + 1 \in 1 .. Len(b) /\ t + (k + 1) - 1 = t + k
    BY <1>1, <1>8
  <2> QED
    BY <1>10, <2>1
<1>15. k < Len(a) /\ k < Len(b) => a[k + 1] # b[k + 1]
  BY <1>13, <1>14
<1>16. Sign(Next_(a, k) - Next_(b, k)) = Order(a, b)
  BY <1>7, <1>8, <1>11, <1>12, <1>13, <1>14, <1>15, OrderIs
<1>17. CASE k = n
  <2>1. Next_(a, k) = 0 /\ Next_(b, k) = 0
    BY <1>13, <1>14, <1>17 DEF Next_
  <2> QED
    BY <1>16, <1>17, <2>1 DEF Sign, a, b
<1>18. CASE k # n
  <2>1. Next_(a, k) = m[s + k]
    <3>1. CASE k < Len(a)
      BY <1>13, <3>1 DEF Next_
    <3>2. CASE ~(k < Len(a))
      <4>1. k = ls
        BY <1>1, <1>6, <1>7, <1>18, <3>2
      <4> QED
        BY <1>1, <1>4, <3>2, <4>1 DEF Next_
    <3> QED
      BY <3>1, <3>2
  <2>2. Next_(b, k) = m[t + k]
    <3>1. CASE k < Len(b)
      BY <1>14, <3>1 DEF Next_
    <3>2. CASE ~(k < Len(b))
      <4>1. k = lt
        BY <1>1, <1>6, <1>8, <1>18, <3>2
      <4> QED
        BY <1>1, <1>5, <3>2, <4>1 DEF Next_
    <3> QED
      BY <3>1, <3>2
  <2> QED
    BY <1>16, <1>18, <2>1, <2>2 DEF a, b
<1> QED
  BY <1>17, <1>18

(* A loop over two strings that stops where they differ, at the end of the *)
(* first or after n characters stops within both.                          *)
Stops_(m, s, t, more) == more \cup Differs(m, s, t) \cup Ends(m, s)

LEMMA ComparesWithin ==
    ASSUME NEW m \in Memory, NEW s \in Addr, NEW t \in Addr,
           IsString(m, s), IsString(m, t), NEW more \in SUBSET Nat
    PROVE  LET k == Until(Stops_(m, s, t, more)) IN
           /\ k \in Stops_(m, s, t, more)
           /\ k \in 0 .. Length(m, s) /\ k \in 0 .. Length(m, t)
           /\ \A i \in 0 .. k - 1 : i \notin more /\ m[s + i] = m[t + i]
           /\ At(m, s + k) = m[s + k] /\ At(m, t + k) = m[t + k]
           /\ k \notin more => m[s + k] # m[t + k] \/ m[s + k] = 0
<1> DEFINE stop == Stops_(m, s, t, more)
           k == Until(stop)
           ls == Length(m, s)
           lt == Length(m, t)
<1> USE SizeAssumption
<1>1. ls \in Nat /\ lt \in Nat
  BY LengthFacts
<1>2. \A i \in 0 .. ls : At(m, s + i) = m[s + i] /\ (m[s + i] = 0 <=> i = ls)
  BY StringAt
<1>3. \A i \in 0 .. lt : At(m, t + i) = m[t + i] /\ (m[t + i] = 0 <=> i = lt)
  BY StringAt
<1>4. \A i \in Nat : /\ i \in Differs(m, s, t) <=> At(m, s + i) # At(m, t + i)
                     /\ i \in Ends(m, s) <=> At(m, s + i) = 0
  BY DEF Differs, Ends
<1>0. /\ stop \in SUBSET Nat
      /\ \A i \in Nat : i \in stop <=> \/ i \in more \/ i \in Ends(m, s)
                                       \/ i \in Differs(m, s, t)
  BY DEF Stops_, Ends, Differs
<1> HIDE DEF ls, lt, stop
<1>5. ls \in stop
  BY <1>0, <1>1, <1>2, <1>4
<1>6. k \in stop /\ k <= ls /\ \A i \in 0 .. k - 1 : i \notin stop
  BY <1>0, <1>5, UntilFirst
<1> HIDE DEF k
<1>7. k \in 0 .. ls
  BY <1>0, <1>6
<1>8. k <= lt
  <2> SUFFICES ASSUME lt < k PROVE FALSE
    BY <1>1, <1>7
  <2>1. lt \in 0 .. k - 1 /\ lt \in 0 .. lt /\ lt \in 0 .. ls /\ lt \in Nat
    BY <1>1, <1>7
  <2>2. At(m, t + lt) = 0
    BY <1>3, <2>1
  <2>3. At(m, s + lt) = 0
    BY <1>0, <1>4, <1>6, <2>1, <2>2
  <2> QED
    BY <1>0, <1>4, <1>6, <2>1, <2>3
<1>9. \A i \in 0 .. k : i \in 0 .. ls /\ i \in 0 .. lt /\ i \in Nat
  BY <1>1, <1>7, <1>8
<1>10. \A i \in 0 .. k - 1 : i \notin more /\ m[s + i] = m[t + i]
  <2> TAKE i \in 0 .. k - 1
  <2>1. i \in 0 .. k
    BY <1>7
  <2> QED
    BY <1>0, <1>2, <1>3, <1>4, <1>6, <1>9, <2>1
<1>11. k \in 0 .. k
  BY <1>7
<1>12. k \notin more => m[s + k] # m[t + k] \/ m[s + k] = 0
  BY <1>0, <1>2, <1>3, <1>4, <1>6, <1>9, <1>11
<1> QED
  BY <1>2, <1>3, <1>6, <1>7, <1>9, <1>10, <1>11, <1>12 DEF k, ls, lt, stop

LEMMA StrncmpIs ==
    ASSUME NEW m \in Memory, NEW s \in Addr, NEW t \in Addr,
           IsString(m, s), IsString(m, t), NEW n \in Nat
    PROVE  Sign(strncmp(m, s, t, n))
             = Order(Prefix(Str(m, s), n), Prefix(Str(m, t), n))
<1> DEFINE stop == {n} \cup Differs(m, s, t) \cup Ends(m, s)
           k == Until(stop)
<1>1. stop \in SUBSET Nat
  BY DEF Differs, Ends
<1>2. strncmp(m, s, t, n) = IF k = n THEN 0 ELSE At(m, s + k) - At(m, t + k)
  BY DEF strncmp
<1>3. stop = {n} \cup Differs(m, s, t) \cup Ends(m, s)
  OBVIOUS
<1> HIDE DEF stop
<1>4. /\ k \in 0 .. Length(m, s) /\ k \in 0 .. Length(m, t)
      /\ \A i \in 0 .. k - 1 : i \notin {n} /\ m[s + i] = m[t + i]
      /\ At(m, s + k) = m[s + k] /\ At(m, t + k) = m[t + k]
      /\ k \notin {n} => m[s + k] # m[t + k] \/ m[s + k] = 0
  <2> DEFINE more == {n}
  <2>1. stop = Stops_(m, s, t, more) /\ more \in SUBSET Nat
    BY <1>3 DEF Stops_, Ends
  <2> HIDE DEF more, k
  <2>2. /\ k \in stop /\ k \in 0 .. Length(m, s) /\ k \in 0 .. Length(m, t)
        /\ \A i \in 0 .. k - 1 : i \notin more /\ m[s + i] = m[t + i]
        /\ At(m, s + k) = m[s + k] /\ At(m, t + k) = m[t + k]
        /\ k \notin more => m[s + k] # m[t + k] \/ m[s + k] = 0
    BY <2>1, ComparesWithin DEF k
  <2> QED
    BY <2>2 DEF more
<1> HIDE DEF k
<1>5. k <= n
  <2> SUFFICES ASSUME n < k PROVE FALSE
    BY <1>4
  <2>1. n \in 0 .. k - 1
    BY <1>4
  <2> QED
    BY <1>4, <2>1
<1>6. k \in Nat /\ k <= Length(m, s) /\ k <= Length(m, t)
  BY <1>4, LengthFacts
<1>7. Order(Prefix(Str(m, s), n), Prefix(Str(m, t), n)) =
        IF k = n THEN 0 ELSE Sign(m[s + k] - m[t + k])
  BY <1>4, <1>5, <1>6, StringsCompared
<1> QED
  BY <1>2, <1>4, <1>7 DEF Sign

(* The end of the second string alone does not stop the loop before there  *)
(* is a difference. *)
LEMMA StrcmpIs ==
    ASSUME NEW m \in Memory, NEW s \in Addr, NEW t \in Addr,
           IsString(m, s), IsString(m, t)
    PROVE  Sign(strcmp(m, s, t)) = Order(Str(m, s), Str(m, t))
<1> DEFINE stop == Differs(m, s, t) \cup Ends(m, s) \cup Ends(m, t)
           k == Until(stop)
<1> USE SizeAssumption
<1>1. stop \in SUBSET Nat
  BY DEF Differs, Ends
<1>2. strcmp(m, s, t) = At(m, s + k) - At(m, t + k)
  BY DEF strcmp
<1>3. stop = Ends(m, t) \cup Differs(m, s, t) \cup Ends(m, s)
  OBVIOUS
<1> HIDE DEF stop
<1>4. /\ k \in stop /\ k \in 0 .. Length(m, s) /\ k \in 0 .. Length(m, t)
      /\ \A i \in 0 .. k - 1 : m[s + i] = m[t + i]
      /\ At(m, s + k) = m[s + k] /\ At(m, t + k) = m[t + k]
      /\ k \notin Ends(m, t) => m[s + k] # m[t + k] \/ m[s + k] = 0
  <2> DEFINE more == Ends(m, t)
  <2>1. stop = Stops_(m, s, t, more) /\ more \in SUBSET Nat
    BY <1>3 DEF Stops_, Ends
  <2> HIDE DEF more, k
  <2>2. /\ k \in stop /\ k \in 0 .. Length(m, s) /\ k \in 0 .. Length(m, t)
        /\ \A i \in 0 .. k - 1 : m[s + i] = m[t + i]
        /\ At(m, s + k) = m[s + k] /\ At(m, t + k) = m[t + k]
        /\ k \notin more => m[s + k] # m[t + k] \/ m[s + k] = 0
    BY <2>1, ComparesWithin DEF k
  <2> QED
    BY <2>2 DEF more
<1> HIDE DEF k
<1>5. k \in Ends(m, t) => m[s + k] # m[t + k] \/ m[s + k] = 0
  BY <1>4 DEF Ends
<1>6. /\ Length(m, s) \in Nat /\ s + Length(m, s) < SIZE
      /\ Length(m, t) \in Nat /\ t + Length(m, t) < SIZE
  BY LengthFacts
<1>7. /\ k \in Nat /\ k <= Length(m, s) /\ k <= Length(m, t)
      /\ Length(m, s) < SIZE /\ Length(m, t) < SIZE
  BY <1>4, <1>6 DEF Addr
<1>8. SIZE \in Nat /\ k <= SIZE /\ k # SIZE
  BY <1>6, <1>7
<1>9. Order(Prefix(Str(m, s), SIZE), Prefix(Str(m, t), SIZE)) =
        IF k = SIZE THEN 0 ELSE Sign(m[s + k] - m[t + k])
  BY <1>4, <1>5, <1>7, <1>8, StringsCompared
<1>10. Prefix(Str(m, s), SIZE) = Str(m, s)
  <2>1. Str(m, s) \in Seq(Char) /\ Len(Str(m, s)) = Length(m, s)
    BY StrFacts
  <2> QED
    BY <1>6, <1>7, <2>1, PrefixFacts
<1>11. Prefix(Str(m, t), SIZE) = Str(m, t)
  <2>1. Str(m, t) \in Seq(Char) /\ Len(Str(m, t)) = Length(m, t)
    BY StrFacts
  <2> QED
    BY <1>6, <1>7, <2>1, PrefixFacts
<1> QED
  BY <1>2, <1>4, <1>8, <1>9, <1>10, <1>11

(* memcmp, on any bytes in memory. *)
LEMMA MemcmpLoop ==
    ASSUME NEW m \in Memory, NEW s \in Addr, NEW t \in Addr, NEW n \in Nat,
           s + n <= SIZE, t + n <= SIZE
    PROVE  \E k \in 0 .. n :
             /\ \A i \in 0 .. k - 1 : m[s + i] = m[t + i]
             /\ k # n => m[s + k] # m[t + k]
             /\ memcmp(m, s, t, n) = IF k = n THEN 0 ELSE m[s + k] - m[t + k]
             /\ k # n => m[s + k] \in Nat /\ m[t + k] \in Nat
<1> DEFINE stop == {n} \cup Differs(m, s, t)
           k == Until(stop)
<1> USE SizeAssumption
<1>1. stop \in SUBSET Nat
  BY DEF Differs
<1>2. memcmp(m, s, t, n) = IF k = n THEN 0 ELSE At(m, s + k) - At(m, t + k)
  BY DEF memcmp
<1>3. \A i \in 0 .. n - 1 :
        /\ At(m, s + i) = m[s + i] /\ At(m, t + i) = m[t + i]
        /\ m[s + i] \in Nat /\ m[t + i] \in Nat
  <2> TAKE i \in 0 .. n - 1
  <2>1. s + i \in Addr /\ t + i \in Addr
    BY DEF Addr
  <2>2. m[s + i] \in Char /\ m[t + i] \in Char
    BY <2>1 DEF Memory
  <2> QED
    BY <2>1, <2>2, AtFacts, CharAssumption
<1>4. \A i \in Nat : i \in stop <=> i = n \/ At(m, s + i) # At(m, t + i)
  BY DEF Differs
<1> HIDE DEF stop
<1>5. n \in stop
  BY <1>4
<1>6. k \in stop /\ k <= n /\ \A i \in 0 .. k - 1 : i \notin stop
  BY <1>1, <1>5, UntilFirst
<1> HIDE DEF k
<1>7. k \in 0 .. n
  BY <1>1, <1>6
<1>8. ASSUME NEW i \in 0 .. k - 1 PROVE m[s + i] = m[t + i]
  <2>1. i \in 0 .. n - 1 /\ i \in Nat /\ i \notin stop
    BY <1>6, <1>7
  <2> QED
    BY <1>3, <1>4, <2>1
<1>9. ASSUME k # n
      PROVE  /\ m[s + k] # m[t + k] /\ m[s + k] \in Nat /\ m[t + k] \in Nat
             /\ memcmp(m, s, t, n) = m[s + k] - m[t + k]
  <2>1. k \in 0 .. n - 1 /\ k \in Nat
    BY <1>7, <1>9
  <2> QED
    BY <1>2, <1>3, <1>4, <1>6, <1>9, <2>1
<1> QED
  BY <1>2, <1>7, <1>8, <1>9

LEMMA MemcmpIs ==
    ASSUME NEW m \in Memory, NEW s \in Addr, NEW t \in Addr, NEW n \in Nat,
           s + n <= SIZE, t + n <= SIZE
    PROVE  Sign(memcmp(m, s, t, n)) = Order(Bytes(m, s, n), Bytes(m, t, n))
<1> DEFINE a == Bytes(m, s, n)
           b == Bytes(m, t, n)
<1> USE SizeAssumption
<1>1. PICK k \in 0 .. n :
        /\ \A i \in 0 .. k - 1 : m[s + i] = m[t + i]
        /\ k # n => m[s + k] # m[t + k]
        /\ memcmp(m, s, t, n) = IF k = n THEN 0 ELSE m[s + k] - m[t + k]
  BY MemcmpLoop
<1>2. /\ a \in Seq(Char) /\ Len(a) = n /\ \A i \in 1 .. n : a[i] = m[s + i - 1]
      /\ b \in Seq(Char) /\ Len(b) = n /\ \A i \in 1 .. n : b[i] = m[t + i - 1]
  <2>1. ASSUME NEW i \in 1 .. n
        PROVE  m[s + i - 1] \in Char /\ m[t + i - 1] \in Char
    <3>1. s + i - 1 \in Addr /\ t + i - 1 \in Addr
      BY DEF Addr
    <3> QED
      BY <3>1 DEF Memory
  <2>2. a \in [1 .. n -> Char] /\ b \in [1 .. n -> Char]
    BY <2>1 DEF Bytes
  <2> QED
    BY <2>2 DEF Bytes
<1> HIDE DEF a, b
<1>3. ASSUME NEW i \in 1 .. k PROVE a[i] = b[i]
  <2>1. i \in 1 .. n /\ i - 1 \in 0 .. k - 1
        /\ s + (i - 1) = s + i - 1 /\ t + (i - 1) = t + i - 1
    OBVIOUS
  <2>2. m[s + (i - 1)] = m[t + (i - 1)]
    BY <1>1, <2>1
  <2> QED
    BY <1>2, <2>1, <2>2
<1>4. k # n => a[k + 1] = m[s + k] /\ b[k + 1] = m[t + k]
  <2>1. k # n => k + 1 \in 1 .. n
    OBVIOUS
  <2>2. s + (k + 1) - 1 = s + k /\ t + (k + 1) - 1 = t + k
    BY DEF Addr
  <2> QED
    BY <1>2, <2>1, <2>2
<1>5. k \in Nat /\ k <= Len(a) /\ k <= Len(b)
  BY <1>2
<1>6. Sign(Next_(a, k) - Next_(b, k)) = Order(a, b)
  BY SMTT(30), <1>1, <1>2, <1>3, <1>4, <1>5, OrderIs
<1>7. memcmp(m, s, t, n) = Next_(a, k) - Next_(b, k)
  BY <1>1, <1>2, <1>4 DEF Next_
<1> QED
  BY <1>6, <1>7 DEF a, b
----------------------------------------------------------------------------
(* The tail of a string is a string. *)
LEMMA TailFacts ==
    ASSUME NEW m \in Memory, NEW s \in Addr, IsString(m, s),
           NEW j \in 0 .. Length(m, s)
    PROVE  /\ s + j \in Addr /\ IsString(m, s + j)
           /\ Length(m, s + j) = Length(m, s) - j
<1> DEFINE n == Length(m, s)
<1> USE SizeAssumption
<1>1. /\ n \in Nat /\ s + n < SIZE /\ m[s + n] = 0 /\ s \in Int
      /\ \A i \in 0 .. n - 1 : m[s + i] # 0
  BY LengthFacts DEF Addr
<1>2. j \in 0 .. n
  OBVIOUS
<1> HIDE DEF n
<1>3. s + j \in Addr /\ s + n \in s + j .. SIZE - 1
  BY <1>1, <1>2 DEF Addr
<1>4. IsString(m, s + j)
  BY <1>1, <1>3 DEF IsString
<1>5. n - j \in Nat /\ (s + j) + (n - j) = s + n
  BY <1>1, <1>2
<1>6. ASSUME NEW i \in 0 .. (n - j) - 1 PROVE m[(s + j) + i] # 0
  <2>1. j + i \in 0 .. n - 1 /\ (s + j) + i = s + (j + i)
    BY <1>1, <1>2
  <2> QED
    BY <1>1, <2>1
<1>7. Length(m, s + j) = n - j
  BY <1>1, <1>3, <1>5, <1>6, LengthIs
<1> QED
  BY <1>3, <1>4, <1>7 DEF n

(* memcmp finds one string at the place s + j of another, or does not. *)
LEMMA FindsAt ==
    ASSUME NEW m \in Memory, NEW s \in Addr, NEW t \in Addr,
           IsString(m, s), IsString(m, t), NEW j \in 0 .. Length(m, s)
    PROVE  /\ j <= Length(m, s) - Length(m, t) =>
                (memcmp(m, s + j, t, Length(m, t)) = 0
                   <=> Prefix(Str(m, s + j), Length(m, t)) = Str(m, t))
           /\ ~(j <= Length(m, s) - Length(m, t)) =>
                Prefix(Str(m, s + j), Length(m, t)) # Str(m, t)
<1> DEFINE len == Length(m, s)
           n == Length(m, t)
           p == s + j
           b == Str(m, t)
           str == Str(m, p)
           a == Prefix(str, n)
<1> USE SizeAssumption
<1>1. len \in Nat /\ n \in Nat /\ s + len < SIZE /\ t + n < SIZE
      /\ s \in Int /\ t \in Int
  BY LengthFacts DEF Addr
<1>2. p \in Addr /\ IsString(m, p) /\ Length(m, p) = len - j
  BY TailFacts
<1>3. j \in 0 .. len
  OBVIOUS
<1> HIDE DEF p
<1>4. /\ str \in Seq(Char) /\ Len(str) = len - j
      /\ \A i \in 1 .. len - j : str[i] = m[p + i - 1]
  BY <1>2, StrFacts
<1>5. b \in Seq(Char) /\ Len(b) = n /\ \A i \in 1 .. n : b[i] = m[t + i - 1]
  BY StrFacts
<1> HIDE DEF len, n, str, b
<1>6. /\ a \in Seq(Char) /\ Len(a) = IF n < Len(str) THEN n ELSE Len(str)
      /\ \A i \in 1 .. Len(a) : a[i] = str[i]
  BY <1>1, <1>4, PrefixFacts
<1> HIDE DEF a
<1>7. ASSUME ~(j <= len - n) PROVE a # b
  BY <1>1, <1>3, <1>4, <1>5, <1>6, <1>7
<1>8. ASSUME j <= len - n PROVE memcmp(m, p, t, n) = 0 <=> a = b
  <2>1. p + n <= SIZE /\ t + n <= SIZE
    BY <1>1, <1>3, <1>8 DEF p
  <2>2. PICK k \in 0 .. n :
          /\ \A i \in 0 .. k - 1 : m[p + i] = m[t + i]
          /\ k # n => m[p + k] # m[t + k]
          /\ memcmp(m, p, t, n) = IF k = n THEN 0 ELSE m[p + k] - m[t + k]
          /\ k # n => m[p + k] \in Nat /\ m[t + k] \in Nat
    BY <1>1, <1>2, <2>1, MemcmpLoop
  <2>3. Len(a) = n
    <3>1. len \in Int /\ j \in Int /\ n \in Int /\ n <= len - j
      BY <1>1, <1>3, <1>8
    <3>2. Len(str) = len - j /\ Len(a) = IF n < Len(str) THEN n ELSE Len(str)
      BY <1>4, <1>6
    <3> QED
      BY <3>1, <3>2
  <2>4. \A i \in 1 .. n : i \in 1 .. len - j
    BY <1>1, <1>3, <1>8
  <2>5. \A i \in 1 .. n : a[i] = m[p + i - 1] /\ b[i] = m[t + i - 1]
    BY <1>4, <1>5, <1>6, <2>3, <2>4
  <2>6. CASE k = n
    <3>1. ASSUME NEW i \in 1 .. n PROVE a[i] = b[i]
      <4>1. i - 1 \in 0 .. k - 1 /\ p + (i - 1) = p + i - 1 /\ t + (i - 1) = t + i - 1
        BY <1>1, <2>6
      <4>2. m[p + (i - 1)] = m[t + (i - 1)]
        BY <2>2, <4>1
      <4> QED
        BY <2>5, <4>1, <4>2
    <3>2. a = b
      BY <1>5, <1>6, <2>3, <3>1, SeqEqual
    <3> QED
      BY <2>2, <2>6, <3>2
  <2>7. CASE k # n
    <3>1. k + 1 \in 1 .. n /\ p + (k + 1) - 1 = p + k /\ t + (k + 1) - 1 = t + k
      BY <1>1, <1>2, <2>7 DEF Addr
    <3>2. a[k + 1] = m[p + k] /\ b[k + 1] = m[t + k]
      BY <2>5, <3>1
    <3>3. a # b
      BY <2>2, <2>7, <3>2
    <3>4. memcmp(m, p, t, n) # 0
      BY <2>2, <2>7
    <3> QED
      BY <3>3, <3>4
  <2> QED
    BY <2>6, <2>7
<1> QED
  BY <1>7, <1>8 DEF a, b, str, p, n, len

LEMMA StrstrIs ==
    ASSUME NEW m \in Memory, NEW s \in Addr, NEW t \in Addr,
           IsString(m, s), IsString(m, t)
    PROVE  strstr(m, s, t) =
             Lowest({p \in Cells(s, Length(m, s) + 1) :
                       Prefix(Str(m, p), Len(Str(m, t))) = Str(m, t)})
<1> DEFINE len == Length(m, s)
           n == Length(m, t)
           b == Str(m, t)
           Here(j) == Prefix(Str(m, s + j), n) = b
           Same(j) == memcmp(m, s + j, t, n) = 0
           stop == {j \in Nat : TooShort(len - j, n) \/ Same(j)}
           k == Until(stop)
           set == {p \in Cells(s, len + 1) : Prefix(Str(m, p), Len(b)) = b}
<1> USE SizeAssumption
<1>1. len \in Nat /\ n \in Nat /\ s + len < SIZE /\ s \in Int
  BY LengthFacts DEF Addr
<1>2. \A j \in 0 .. len : /\ j <= len - n => (Same(j) <=> Here(j))
                          /\ ~(j <= len - n) => ~Here(j)
  BY FindsAt
<1>3. Len(b) = n
  BY StrFacts
<1>4. strstr(m, s, t) = IF TooShort(len - k, n) THEN NULLP ELSE Ptr(s + k)
  <2>1. strlen(m, s) = len /\ strlen(m, t) = n
    BY StrlenIs
  <2> QED
    BY <2>1 DEF strstr
<1>5. \A j \in 0 .. len : s + j \in Addr /\ Ptr(s + j) = s + j
  BY StringAt
<1> HIDE DEF len, n, b
<1>6. /\ stop \in SUBSET Nat
      /\ \A j \in Nat : j \in stop <=> len - j < n \/ Same(j)
  BY DEF TooShort
<1>7. \A p : p \in set <=> p \in s .. s + len /\ Prefix(Str(m, p), n) = b
  <2>1. s + (len + 1) - 1 = s + len
    BY <1>1
  <2> QED
    BY <1>3, <2>1 DEF Cells
<1> HIDE DEF Same, stop, set
<1>8. len + 1 \in stop
  <2>1. len + 1 \in Nat /\ len - (len + 1) < n
    BY <1>1
  <2> QED
    BY <1>6, <2>1
<1>9. k \in stop /\ k <= len + 1 /\ \A j \in 0 .. k - 1 : j \notin stop
  BY <1>6, <1>8, UntilFirst
<1> HIDE DEF k
<1>10. k \in Nat
  BY <1>6, <1>9
<1>11. ASSUME NEW p \in set
       PROVE  /\ p - s \in 0 .. len /\ p = s + (p - s) /\ p - s <= len - n
              /\ Same(p - s)
  <2>1. p - s \in 0 .. len /\ p = s + (p - s)
    BY <1>1, <1>7
  <2>2. Here(p - s)
    BY <1>7, <2>1
  <2> HIDE DEF Here
  <2> QED
    BY <1>2, <2>1, <2>2
<1>12. ASSUME NEW p \in set PROVE s + k <= p
  <2>1. p - s \in Nat /\ p - s \in stop
    BY <1>6, <1>11
  <2>2. ~(p - s < k)
    BY <1>9, <1>10, <2>1
  <2> QED
    BY <1>1, <1>10, <1>11, <2>1, <2>2
<1>13. CASE len - k < n
  <2>1. set = {}
    <3> SUFFICES ASSUME NEW p \in set PROVE FALSE
      OBVIOUS
    <3>1. s + k <= p /\ p - s <= len - n /\ p - s \in Int /\ p = s + (p - s)
      BY <1>11, <1>12
    <3> QED
      BY <1>1, <1>10, <1>13, <3>1
  <2>2. strstr(m, s, t) = NULLP
    BY <1>4, <1>13 DEF TooShort
  <2> QED
    BY <2>1, <2>2 DEF Lowest, set, len, b
<1>14. CASE ~(len - k < n)
  <2>1. k \in 0 .. len /\ k <= len - n /\ Same(k)
    BY <1>1, <1>6, <1>9, <1>10, <1>14
  <2>2. Here(k) /\ s + k \in s .. s + len
    BY <1>1, <1>2, <2>1
  <2>3. s + k \in set
    BY <1>7, <2>2
  <2>4. set \in SUBSET Int
    BY <1>1, <1>7
  <2>5. Lowest(set) = s + k
    BY <1>12, <2>3, <2>4, LowestIs
  <2>6. strstr(m, s, t) = s + k
    BY <1>4, <1>5, <1>14, <2>1 DEF TooShort
  <2> QED
    BY <2>5, <2>6 DEF set, len, b
<1> QED
  BY <1>13, <1>14
----------------------------------------------------------------------------
(* On every memory the searching functions find what is there. *)
LEMMA Searches ==
    ASSUME mem \in Memory
    PROVE  SearchingIsRight
<1> USE SizeAssumption
<1>1. ASSUME NEW s \in Addr, IsString(mem, s), NEW c \in Char
      PROVE  /\ strchr(mem, s, c) = Lowest(Found_(mem, s, c))
             /\ strrchr(mem, s, c) = Highest(Hits_(mem, s, {c} \ {0}))
  BY <1>1, StrchrIs, StrrchrIs
<1>2. ASSUME NEW s \in Addr, NEW t \in Addr, NEW n \in 0 .. SIZE,
             Cells(s, n) \cup Cells(t, n) \subseteq Addr
      PROVE  n \in Nat /\ s + n <= SIZE /\ t + n <= SIZE
  <2>1. CASE n = 0
    BY <2>1 DEF Addr
  <2>2. CASE n # 0
    <3>1. s + n - 1 \in s .. s + n - 1 /\ t + n - 1 \in t .. t + n - 1
      BY <2>2 DEF Addr
    <3>2. s + n - 1 \in Addr /\ t + n - 1 \in Addr
      <4>1. s .. s + n - 1 \subseteq Addr /\ t .. t + n - 1 \subseteq Addr
        BY <1>2 DEF Cells
      <4> QED
        BY <3>1, <4>1
    <3>3. /\ s \in Int /\ t \in Int /\ n \in Nat
          /\ s + n - 1 <= SIZE - 1 /\ t + n - 1 <= SIZE - 1
      BY <3>2 DEF Addr
    <3> QED
      BY <3>3
  <2> QED
    BY <2>1, <2>2
<1>3. ASSUME NEW s \in Addr, NEW t \in Addr, IsString(mem, s), IsString(mem, t),
             NEW n \in 0 .. SIZE
      PROVE  /\ Sign(strncmp(mem, s, t, n))
                  = Order(Prefix(Str(mem, s), n), Prefix(Str(mem, t), n))
             /\ Cells(s, n) \cup Cells(t, n) \subseteq Addr =>
                  Sign(memcmp(mem, s, t, n))
                    = Order(Bytes(mem, s, n), Bytes(mem, t, n))
  <2>1. n \in Nat
    OBVIOUS
  <2> QED
    BY <1>2, <1>3, <2>1, StrncmpIs, MemcmpIs
<1>4. ASSUME NEW s \in Addr, NEW t \in Addr, IsString(mem, s), IsString(mem, t)
      PROVE  LET set == ToSet(Str(mem, t)) IN
             /\ Sign(strcmp(mem, s, t)) = Order(Str(mem, s), Str(mem, t))
             /\ strcspn(mem, s, t) = Start_(mem, s, set)
             /\ strspn(mem, s, t) = Start_(mem, s, Char \ set)
             /\ strpbrk(mem, s, t) = Lowest(Hits_(mem, s, set))
             /\ strstr(mem, s, t) =
                  Lowest({p \in Cells(s, Length(mem, s) + 1) :
                            Prefix(Str(mem, p), Len(Str(mem, t))) = Str(mem, t)})
  BY <1>4, StrcmpIs, SpansAre, StrstrIs
<1>5. \A s \in Addr : IsString(mem, s) => strlen(mem, s) = Length(mem, s)
  BY StrlenIs
<1> QED
  BY <1>1, <1>3, <1>4, <1>5 DEF SearchingIsRight, Found_, Hits_, Start_
=============================================================================
