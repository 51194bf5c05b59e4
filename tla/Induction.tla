----------------------------- MODULE Induction -----------------------------
(***************************************************************************)
(* Induction and recursion over the natural numbers, as facts about sets   *)
(* and functions: what the loops of the library compute is proved from     *)
(* these.                                                                  *)
(***************************************************************************)
EXTENDS Integers, FiniteSetTheorems, FunctionTheorems, TLAPS

(* A set that has 0, and with each number the next one, has all of them:   *)
(* the numbers up to k that are missing would be as many as those moved    *)
(* down by one.                                                            *)
LEMMA SetInduction ==
    ASSUME NEW P \in SUBSET Nat, 0 \in P, \A n \in P : n + 1 \in P
    PROVE  P = Nat
<1> SUFFICES ASSUME NEW k \in Nat, k \notin P PROVE FALSE
  OBVIOUS
<1> DEFINE missing == (0 .. k) \ P
           moved == {n - 1 : n \in missing}
           Down == [n \in missing |-> n - 1]
<1>1. IsFiniteSet(missing)
  BY FS_Interval, FS_Subset, 0 \in Int, k \in Int
<1>2. moved \subseteq missing
  OBVIOUS
<1>3. IsFiniteSet(moved)
  BY <1>1, <1>2, FS_Subset
<1>4. Down \in Bijection(missing, moved)
  BY DEF Bijection, Injection, Surjection, IsInjective
<1>5. Cardinality(moved) = Cardinality(missing)
  BY <1>1, <1>4, FS_Bijection DEF ExistsBijection
<1>6. moved = missing
  BY <1>1, <1>2, <1>5, FS_Subset
<1> QED
  BY <1>6

(* The same from the values below. *)
LEMMA StrongInduction ==
    ASSUME NEW P \in SUBSET Nat,
           \A n \in Nat : 0 .. n - 1 \subseteq P => n \in P
    PROVE  P = Nat
<1> DEFINE Q == {n \in Nat : 0 .. n - 1 \subseteq P}
<1>1. 0 \in Q
  OBVIOUS
<1>2. \A n \in Q : n + 1 \in Q
  <2> SUFFICES ASSUME NEW n \in Q PROVE n + 1 \in Q
    OBVIOUS
  <2>1. n \in P
    OBVIOUS
  <2>2. 0 .. (n + 1) - 1 \subseteq P
    BY <2>1
  <2> QED
    BY <2>2
<1> HIDE DEF Q
<1>3. Q = Nat
  BY <1>1, <1>2, SetInduction DEF Q
<1> QED
  BY <1>3 DEF Q

(* Every set of naturals that is not empty has a least one. *)
LEMMA LeastNatural ==
    ASSUME NEW S \in SUBSET Nat, S # {}
    PROVE  \E n \in S : \A k \in S : n <= k
<1> SUFFICES ASSUME \A n \in S : \E k \in S : k < n PROVE FALSE
  OBVIOUS
<1> DEFINE P == Nat \ S
<1>1. \A n \in Nat : 0 .. n - 1 \subseteq P => n \in P
  <2> SUFFICES ASSUME NEW n \in Nat, 0 .. n - 1 \subseteq P, n \in S PROVE FALSE
    OBVIOUS
  <2>1. PICK k \in S : k < n
    OBVIOUS
  <2>2. k \in 0 .. n - 1
    BY <2>1
  <2> QED
    BY <2>2
<1> HIDE DEF P
<1>2. P = Nat
  BY <1>1, StrongInduction DEF P
<1> QED
  BY <1>2 DEF P
----------------------------------------------------------------------------
(* Primitive recursion: there is a function for each first value and each  *)
(* step.  Run(a, step, f, n) says that f is what the first n steps give.   *)
Run(a, step, f, n) ==
    f[0] = a /\ \A k \in 0 .. n - 1 : f[k + 1] = step[<<k, f[k]>>]

LEMMA RunUnique ==
    ASSUME NEW a, NEW step, NEW n \in Nat, NEW m \in Nat, n <= m,
           NEW f, NEW g, Run(a, step, f, n), Run(a, step, g, m)
    PROVE  \A k \in 0 .. n : f[k] = g[k]
<1> DEFINE P == {k \in Nat : k <= n => f[k] = g[k]}
<1>1. 0 \in P
  BY DEF Run
<1>2. \A k \in P : k + 1 \in P
  <2> SUFFICES ASSUME NEW k \in P, k + 1 <= n PROVE f[k + 1] = g[k + 1]
    OBVIOUS
  <2>1. k \in 0 .. n - 1 /\ k \in 0 .. m - 1 /\ f[k] = g[k]
    OBVIOUS
  <2> QED
    BY <2>1 DEF Run
<1> HIDE DEF P
<1>3. P = Nat
  BY <1>1, <1>2, SetInduction DEF P
<1> QED
  BY <1>3 DEF P

(* m steps, when there is a step for the first n.                          *)
LEMMA RunExists ==
    ASSUME NEW S, NEW a \in S, NEW n \in Nat,
           NEW step \in [(0 .. n - 1) \X S -> S], NEW m \in 0 .. n
    PROVE  \E f \in [0 .. m -> S] : Run(a, step, f, m)
<1> DEFINE P == {k \in Nat :
                   k <= n => \E f \in [0 .. k -> S] : Run(a, step, f, k)}
<1>1. 0 \in P
  <2> DEFINE f == [j \in 0 .. 0 |-> a]
  <2>1. f \in [0 .. 0 -> S] /\ Run(a, step, f, 0)
    BY DEF Run
  <2> QED
    BY <2>1
<1>2. \A k \in P : k + 1 \in P
  <2> SUFFICES ASSUME NEW k \in P, k + 1 <= n
               PROVE  \E f \in [0 .. k + 1 -> S] : Run(a, step, f, k + 1)
    OBVIOUS
  <2>1. PICK f \in [0 .. k -> S] : Run(a, step, f, k)
    OBVIOUS
  <2> DEFINE g == [j \in 0 .. k + 1 |->
                     IF j <= k THEN f[j] ELSE step[<<k, f[k]>>]]
  <2>2. step[<<k, f[k]>>] \in S
    <3>1. <<k, f[k]>> \in (0 .. n - 1) \X S
      OBVIOUS
    <3> QED
      BY <3>1
  <2>3. g \in [0 .. k + 1 -> S]
    BY <2>2
  <2>4. /\ \A j \in 0 .. k : g[j] = f[j]
        /\ g[k + 1] = step[<<k, f[k]>>]
    OBVIOUS
  <2> HIDE DEF g
  <2>5. ASSUME NEW j \in 0 .. k PROVE g[j + 1] = step[<<j, g[j]>>]
    <3>1. CASE j = k
      BY <2>4, <3>1
    <3>2. CASE j # k
      <4>1. j \in 0 .. k - 1 /\ j + 1 \in 0 .. k
        BY <3>2
      <4>2. f[j + 1] = step[<<j, f[j]>>]
        BY <2>1, <4>1 DEF Run
      <4>3. g[j + 1] = f[j + 1] /\ g[j] = f[j]
        BY <2>4, <4>1
      <4> QED
        BY <4>2, <4>3
    <3> QED
      BY <3>1, <3>2
  <2>6. Run(a, step, g, k + 1)
    BY <2>1, <2>4, <2>5 DEF Run
  <2> QED
    BY <2>3, <2>6
<1> HIDE DEF P
<1>3. P = Nat
  BY <1>1, <1>2, SetInduction DEF P
<1>4. m \in P /\ m <= n
  BY <1>3
<1> QED
  BY <1>4 DEF P

(* All steps.                                                              *)
Recurs(a, step, f) ==
    f[0] = a /\ \A k \in Nat : f[k + 1] = step[<<k, f[k]>>]

LEMMA RecursionExists ==
    ASSUME NEW S, NEW a \in S, NEW step \in [Nat \X S -> S]
    PROVE  \E f \in [Nat -> S] : Recurs(a, step, f)
<1> DEFINE run(n) == CHOOSE f \in [0 .. n -> S] : Run(a, step, f, n)
           F == [n \in Nat |-> run(n)[n]]
<1>1. ASSUME NEW n \in Nat PROVE run(n) \in [0 .. n -> S] /\ Run(a, step, run(n), n)
  <2> DEFINE some == [p \in (0 .. n - 1) \X S |-> step[p]]
  <2>1. some \in [(0 .. n - 1) \X S -> S]
    OBVIOUS
  <2>2. PICK f \in [0 .. n -> S] : Run(a, some, f, n)
    <3>1. n \in 0 .. n
      OBVIOUS
    <3> HIDE DEF some
    <3> QED
      BY <2>1, <3>1, RunExists
  <2>3. \A k \in 0 .. n - 1 : some[<<k, f[k]>>] = step[<<k, f[k]>>]
    OBVIOUS
  <2>4. Run(a, step, f, n)
    BY <2>2, <2>3 DEF Run
  <2> QED
    BY <2>4
<1> HIDE DEF run
<1>2. F \in [Nat -> S]
  BY <1>1
<1>3. F[0] = a
  BY <1>1 DEF Run
<1>4. ASSUME NEW n \in Nat PROVE F[n + 1] = step[<<n, F[n]>>]
  <2>1. Run(a, step, run(n), n) /\ Run(a, step, run(n + 1), n + 1)
    BY <1>1
  <2>2. \A k \in 0 .. n : run(n)[k] = run(n + 1)[k]
    BY <2>1, RunUnique
  <2>3. run(n + 1)[n + 1] = step[<<n, run(n + 1)[n]>>]
    BY <2>1 DEF Run
  <2> QED
    BY <2>2, <2>3
<1> HIDE DEF F
<1> QED
  BY <1>2, <1>3, <1>4 DEF Recurs
----------------------------------------------------------------------------
(* Where a loop that only looks for its end begins and ends.               *)
LEMMA LoopEnds ==
    ASSUME NEW D \in SUBSET Nat, NEW f,
           NEW a \in Nat, NEW n \in D, a <= n, \A k \in a .. n - 1 : k \notin D,
           \A k \in Nat \ D : f[k] = f[k + 1]
    PROVE  f[a] = f[n]
<1> DEFINE P == {k \in Nat : a + k <= n => f[a] = f[a + k]}
<1>1. 0 \in P
  OBVIOUS
<1>2. \A k \in P : k + 1 \in P
  <2> SUFFICES ASSUME NEW k \in P, a + (k + 1) <= n
               PROVE  f[a] = f[a + (k + 1)]
    OBVIOUS
  <2>1. a + k \in a .. n - 1 /\ a + k \in Nat /\ f[a] = f[a + k]
    OBVIOUS
  <2>2. f[a + k] = f[(a + k) + 1]
    BY <2>1
  <2> QED
    BY <2>1, <2>2
<1> HIDE DEF P
<1>3. P = Nat
  BY <1>1, <1>2, SetInduction DEF P
<1>4. n - a \in P /\ a + (n - a) = n
  BY <1>3
<1> QED
  BY <1>4 DEF P
----------------------------------------------------------------------------
(* A recursion that goes from each number to a smaller one, and ends at    *)
(* the numbers in D.                                                       *)
Descends(D, result, step, prev, f) ==
    \A n \in Nat :
      f[n] = IF n \in D THEN result[n] ELSE step[<<n, f[prev[n]]>>]

LEMMA DescentExists ==
    ASSUME NEW S, NEW D \in SUBSET Nat, NEW result \in [Nat -> S],
           NEW step \in [Nat \X S -> S], NEW prev \in [Nat -> Nat],
           \A n \in Nat \ D : prev[n] < n
    PROVE  \E f \in [Nat -> S] : Descends(D, result, step, prev, f)
<1> DEFINE R == [Nat -> S]
           Next_ == [p \in Nat \X R |->
                       [n \in Nat |-> IF n \in D THEN result[n]
                                      ELSE step[<<n, p[2][prev[n]]>>]]]
<1>1. Next_ \in [Nat \X R -> R]
  OBVIOUS
<1>2. result \in R
  OBVIOUS
<1>3. PICK g \in [Nat -> R] : Recurs(result, Next_, g)
  <2> HIDE DEF R, Next_
  <2> QED
    BY <1>1, <1>2, RecursionExists
<1>4. ASSUME NEW k \in Nat, NEW n \in Nat
      PROVE  /\ g[0][n] = result[n]
             /\ g[k + 1][n] = IF n \in D THEN result[n]
                              ELSE step[<<n, g[k][prev[n]]>>]
  <2>1. g[0] = result
    BY <1>3 DEF Recurs
  <2>2. g[k + 1] = Next_[<<k, g[k]>>]
    <3> HIDE DEF Next_
    <3> QED
      BY <1>3 DEF Recurs
  <2>3. g[k] \in R
    OBVIOUS
  <2> QED
    BY <2>1, <2>2, <2>3
<1> HIDE DEF Next_
(* After n steps the value at n stays.                                     *)
<1> DEFINE P == {n \in Nat : \A k \in Nat : k >= n => g[k][n] = g[n][n]}
<1>5. ASSUME NEW n \in Nat, 0 .. n - 1 \subseteq P PROVE n \in P
  <2> SUFFICES ASSUME NEW k \in Nat, k >= n PROVE g[k][n] = g[n][n]
    OBVIOUS
  <2>1. CASE n \in D
    <3>1. \A l \in Nat : g[l][n] = result[n]
      <4> TAKE l \in Nat
      <4>1. l = 0 \/ (l - 1 \in Nat /\ l = (l - 1) + 1)
        OBVIOUS
      <4>2. CASE l = 0
        BY <1>4, <4>2
      <4>3. CASE l - 1 \in Nat /\ l = (l - 1) + 1
        <5>1. g[(l - 1) + 1][n] = result[n]
          BY <1>4, <2>1, <4>3
        <5> QED
          BY <4>3, <5>1
      <4> QED
        BY <4>1, <4>2, <4>3
    <3> QED
      BY <3>1
  <2>2. CASE n \notin D
    <3>1. prev[n] \in 0 .. n - 1 /\ prev[n] \in P
      BY <1>5, <2>2
    <3>2. /\ n - 1 \in Nat /\ k - 1 \in Nat
          /\ n = (n - 1) + 1 /\ k = (k - 1) + 1
          /\ n - 1 >= prev[n] /\ k - 1 >= prev[n]
      BY <3>1
    <3>3. g[n - 1][prev[n]] = g[k - 1][prev[n]]
      BY <3>1, <3>2
    <3>4. /\ g[n] = g[(n - 1) + 1] /\ g[k] = g[(k - 1) + 1]
          /\ g[(n - 1) + 1][n] = step[<<n, g[n - 1][prev[n]]>>]
          /\ g[(k - 1) + 1][n] = step[<<n, g[k - 1][prev[n]]>>]
      BY <1>4, <2>2, <3>2
    <3> QED
      BY <3>3, <3>4
  <2> QED
    BY <2>1, <2>2
<1>6. P = Nat
  <2> HIDE DEF P
  <2>1. P \in SUBSET Nat
    BY DEF P
  <2> QED
    BY <1>5, <2>1, StrongInduction
<1> DEFINE f == [n \in Nat |-> g[n][n]]
<1>7. ASSUME NEW n \in Nat
      PROVE  f[n] = IF n \in D THEN result[n] ELSE step[<<n, f[prev[n]]>>]
  <2>1. CASE n \in D
    <3>1. n = 0 \/ (n - 1 \in Nat /\ n = (n - 1) + 1)
      OBVIOUS
    <3> QED
      BY <1>4, <2>1, <3>1
  <2>2. CASE n \notin D
    <3>1. prev[n] \in Nat /\ n - 1 \in Nat /\ n = (n - 1) + 1 /\ n - 1 >= prev[n]
      BY <2>2
    <3>2. prev[n] \in P
      BY <1>6, <3>1
    <3>3. g[n - 1][prev[n]] = g[prev[n]][prev[n]]
      BY <3>1, <3>2
    <3>4. g[n] = g[(n - 1) + 1] /\ g[(n - 1) + 1][n] = step[<<n, g[n - 1][prev[n]]>>]
      BY <1>4, <2>2, <3>1
    <3> QED
      BY <2>2, <3>1, <3>3, <3>4
  <2> QED
    BY <2>1, <2>2
<1>8. f \in [Nat -> S]
  OBVIOUS
<1> QED
  BY <1>7, <1>8 DEF Descends
=============================================================================
