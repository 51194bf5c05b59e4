--------------------------- MODULE TaskSetProofs ---------------------------
(***************************************************************************)
(* Theorems about the admission of task sets, for any number of tasks, any *)
(* descriptors and any layout of the memory.                               *)
(***************************************************************************)
EXTENDS TaskSet, Induction

(* f[k] is the longest period of f[0] .. f[k]. *)
Settled(f, k) == \A l \in 0 .. k : f[l].T <= f[k].T

(* The inner loop's body, as a function of the array. *)
Exchange(f, a) == [f EXCEPT ![a] = f[a + 1], ![a + 1] = f[a]]
Bubble(f, a) == IF f[a].T > f[a + 1].T THEN Exchange(f, a) ELSE f

(* What the stack check, and the check of the times, ask of a descriptor.  *)
StackOK(d) == d.stack_pos \in USR_START_ADDR .. USR_END_ADDR - 1
TimesOK(d) == d.T # 0 /\ d.C <= d.T

(* The bubble of the pass is at j, and has settled the place that this     *)
(* pass is for as soon as it is there; the passes before have settled the  *)
(* places above.                                                           *)
Sorting ==
    pc = "sort" =>
        /\ num_tasks >= 2 /\ i < num_tasks /\ j < num_tasks
        /\ Settled(tasks, j)
        /\ \A k \in Reach :
             k > num_tasks - i \/ (k = num_tasks - i /\ k <= j)
               => Settled(tasks, k)

Inv ==
    /\ TypeOK
    /\ num_tasks \in NumTasks
    /\ NothingLost
    /\ pc \in {"num_tasks", "valid_addr", "times", "assign_schedule"}
         => tasks = submitted /\ i = 0 /\ j = 0
    /\ pc \in {"times", "assign_schedule"} => \A k \in Own : StackOK(tasks[k])
    /\ pc = "assign_schedule" => \A k \in Own : TimesOK(tasks[k])
    /\ Sorting
    /\ pc = "bound" => num_tasks >= 2
    /\ pc \in {"bound", "admitted"} =>
         num_tasks \in {0, 1} \/ \A k \in Reach : Settled(tasks, k)
    /\ (/\ pc \in {"sort", "bound", "admitted"}
        /\ \A k \in Own : submitted[k].T <= submitted[num_tasks].T) =>
           /\ SamePlaces(Own, tasks, submitted)
           /\ tasks[num_tasks] = submitted[num_tasks]
           /\ \A k \in Own : /\ StackOK(tasks[k]) /\ TimesOK(tasks[k])
                             /\ tasks[k].T <= tasks[num_tasks].T
----------------------------------------------------------------------------
(* How many places hold d does not change when two places are exchanged:   *)
(* the exchange maps the places that hold d before one to one to those     *)
(* that hold it afterwards.                                                *)
LEMMA ExchangeKeepsPlaces ==
    ASSUME NEW K, IsFiniteSet(K), NEW f, NEW g, NEW a \in K, NEW b \in K,
           a # b, g[a] = f[b], g[b] = f[a],
           \A k \in K \ {a, b} : g[k] = f[k]
    PROVE  SamePlaces(K, g, f)
<1> SUFFICES ASSUME NEW d \in Descriptor
             PROVE  Cardinality({k \in K : g[k] = d})
                      = Cardinality({k \in K : f[k] = d})
  BY DEF SamePlaces
<1> DEFINE S == {k \in K : f[k] = d}
           R == {k \in K : g[k] = d}
           h == [k \in S |-> IF k = a THEN b ELSE IF k = b THEN a ELSE k]
<1>1. h \in [S -> R]
  OBVIOUS
<1>2. \A x, y \in S : h[x] = h[y] => x = y
  OBVIOUS
<1>3. ASSUME NEW r \in R
      PROVE  \E k \in S : h[k] = r
  <2>1. CASE r = a
    BY <2>1
  <2>2. CASE r = b
    BY <2>2
  <2>3. CASE r \notin {a, b}
    BY <2>3
  <2> QED
    BY <2>1, <2>2, <2>3
<1>4. IsFiniteSet(S)
  BY FS_Subset
<1>5. ExistsBijection(S, R)
  <2>1. h \in Injection(S, R)
    BY <1>1, <1>2 DEF Injection, IsInjective
  <2>2. h \in Surjection(S, R)
    BY <1>1, <1>3 DEF Surjection
  <2> QED
    BY <2>1, <2>2 DEF ExistsBijection, Bijection
<1> QED
  BY <1>4, <1>5, FS_Bijection

(* Any array has what it has, and what is kept twice is kept. *)
LEMMA SamePlacesFacts ==
    /\ \A K, f : SamePlaces(K, f, f)
    /\ \A K, f, g, h : SamePlaces(K, f, g) /\ SamePlaces(K, g, h)
                         => SamePlaces(K, f, h)
BY DEF SamePlaces

(* The periods, which the sort compares, are numbers. *)
LEMMA Periods == \A d \in Descriptor : d.T \in Nat
BY DescriptorAssumption

(* What one round of the inner loop does to the array. *)
LEMMA BubbleFacts ==
    ASSUME NEW n \in Nat, NEW f \in [0 .. n -> Descriptor],
           NEW a \in 0 .. n - 1
    PROVE  /\ Bubble(f, a) \in [0 .. n -> Descriptor]
           /\ \A k \in (0 .. n) \ {a, a + 1} : Bubble(f, a)[k] = f[k]
           /\ \/ /\ f[a].T > f[a + 1].T
                 /\ Bubble(f, a)[a] = f[a + 1] /\ Bubble(f, a)[a + 1] = f[a]
              \/ /\ f[a].T <= f[a + 1].T
                 /\ Bubble(f, a) = f
<1>1. a \in 0 .. n /\ a + 1 \in 0 .. n /\ a # a + 1
  OBVIOUS
<1>2. f[a].T \in Nat /\ f[a + 1].T \in Nat
  BY <1>1, Periods
<1>3. CASE f[a].T > f[a + 1].T
  <2>1. Bubble(f, a) = Exchange(f, a)
    BY <1>3 DEF Bubble
  <2>2. /\ Exchange(f, a) \in [0 .. n -> Descriptor]
        /\ Exchange(f, a)[a] = f[a + 1] /\ Exchange(f, a)[a + 1] = f[a]
        /\ \A k \in (0 .. n) \ {a, a + 1} : Exchange(f, a)[k] = f[k]
    BY <1>1 DEF Exchange
  <2> QED
    BY <2>1, <2>2, <1>3
<1>4. CASE f[a].T <= f[a + 1].T
  <2>1. Bubble(f, a) = f
    BY <1>2, <1>4 DEF Bubble
  <2> QED
    BY <2>1, <1>4
<1> QED
  BY <1>2, <1>3, <1>4

(* A round of the inner loop keeps the descriptors of every range that     *)
(* both places it compares are in.                                         *)
LEMMA BubbleKeepsPlaces ==
    ASSUME NEW n \in Nat, NEW f \in [0 .. n -> Descriptor],
           NEW m \in 0 .. n, NEW a \in 0 .. m - 1
    PROVE  SamePlaces(0 .. m, Bubble(f, a), f)
<1>1. /\ a \in 0 .. n - 1 /\ a \in 0 .. m /\ a + 1 \in 0 .. m /\ a # a + 1
      /\ \A k \in 0 .. m : k \in 0 .. n
  OBVIOUS
<1>2. IsFiniteSet(0 .. m)
  BY FS_Interval
<1> DEFINE g == Bubble(f, a)
<1>3. /\ \A k \in (0 .. n) \ {a, a + 1} : g[k] = f[k]
      /\ (g[a] = f[a + 1] /\ g[a + 1] = f[a]) \/ g = f
  BY <1>1, BubbleFacts
<1> HIDE DEF g
<1>4. CASE g = f
  BY <1>4, SamePlacesFacts DEF g
<1>5. CASE g[a] = f[a + 1] /\ g[a + 1] = f[a]
  <2>1. \A k \in (0 .. m) \ {a, a + 1} : g[k] = f[k]
    BY <1>1, <1>3
  <2>2. SamePlaces(0 .. m, g, f)
    BY <1>1, <1>2, <1>5, <2>1, ExchangeKeepsPlaces
  <2> QED
    BY <2>2 DEF g
<1> QED
  BY <1>3, <1>4, <1>5

(* The longest period so far is carried one place further. *)
LEMMA BubbleCarries ==
    ASSUME NEW n \in Nat, NEW f \in [0 .. n -> Descriptor],
           NEW a \in 0 .. n - 1, Settled(f, a)
    PROVE  Settled(Bubble(f, a), a + 1)
<1> DEFINE g == Bubble(f, a)
<1>1. /\ g \in [0 .. n -> Descriptor]
      /\ \A k \in (0 .. n) \ {a, a + 1} : g[k] = f[k]
      /\ \/ f[a].T > f[a + 1].T /\ g[a] = f[a + 1] /\ g[a + 1] = f[a]
         \/ f[a].T <= f[a + 1].T /\ g = f
  BY BubbleFacts
<1> HIDE DEF g
<1>2. /\ \A k \in 0 .. n : f[k].T \in Nat
      /\ a \in 0 .. n /\ a + 1 \in 0 .. n
  BY Periods
<1>3. \A l \in 0 .. a : l \in 0 .. n /\ f[l].T <= f[a].T
  BY DEF Settled
<1>4. ASSUME NEW l \in 0 .. a + 1
      PROVE  g[l].T <= g[a + 1].T
  <2>1. CASE l \in 0 .. a - 1
    <3>1. l \in (0 .. n) \ {a, a + 1} /\ l \in 0 .. a
      BY <2>1
    <3>2. g[l] = f[l] /\ f[l].T <= f[a].T /\ f[l].T \in Nat
      BY <3>1, <1>1, <1>2, <1>3
    <3> QED
      BY <3>2, <1>1, <1>2
  <2>2. CASE l = a
    BY <2>2, <1>1, <1>2
  <2>3. CASE l = a + 1
    BY <2>3, <1>1, <1>2
  <2> QED
    BY <2>1, <2>2, <2>3
<1>5. Settled(g, a + 1)
  BY <1>4 DEF Settled
<1> QED
  BY <1>5 DEF g

(* A settled place stays settled, unless the bubble leaves it with a       *)
(* longer period than the next one has.                                    *)
LEMMA BubbleKeepsSettled ==
    ASSUME NEW n \in Nat, NEW f \in [0 .. n -> Descriptor],
           NEW a \in 0 .. n - 1, NEW k \in 0 .. n, Settled(f, k),
           k = a => f[a].T <= f[a + 1].T,
           k = a + 1 => Settled(f, a)
    PROVE  Settled(Bubble(f, a), k)
<1> DEFINE g == Bubble(f, a)
<1>1. /\ g \in [0 .. n -> Descriptor]
      /\ \A l \in (0 .. n) \ {a, a + 1} : g[l] = f[l]
      /\ \/ f[a].T > f[a + 1].T /\ g[a] = f[a + 1] /\ g[a + 1] = f[a]
         \/ f[a].T <= f[a + 1].T /\ g = f
  BY BubbleFacts
<1>2. /\ \A l \in 0 .. n : f[l].T \in Nat
      /\ a \in 0 .. n /\ a + 1 \in 0 .. n
  BY Periods
<1>3. CASE k = a + 1
  BY <1>3, BubbleCarries
<1> HIDE DEF g
<1>4. CASE k = a
  <2>1. g = f
    BY <1>1, <1>2, <1>4
  <2> QED
    BY <2>1 DEF g
<1>5. CASE k < a
  <2>1. \A l \in 0 .. k : l \in (0 .. n) \ {a, a + 1} /\ k \in 0 .. k
    BY <1>5
  <2>2. \A l \in 0 .. k : g[l] = f[l] /\ g[k] = f[k]
    BY <2>1, <1>1
  <2>3. Settled(g, k)
    BY <2>2 DEF Settled
  <2> QED
    BY <2>3 DEF g
<1>6. CASE k > a + 1
  <2>1. g[k] = f[k]
    BY <1>1, <1>6
  <2>2. \A l \in 0 .. k : f[l].T <= f[k].T /\ a \in 0 .. k /\ a + 1 \in 0 .. k
    BY <1>6 DEF Settled
  <2>3. ASSUME NEW l \in 0 .. k
        PROVE  g[l].T <= f[k].T
    <3>1. CASE l \in {a, a + 1}
      BY <3>1, <2>2, <1>1
    <3>2. CASE l \notin {a, a + 1}
      BY <3>2, <2>2, <1>1
    <3> QED
      BY <3>1, <3>2
  <2>4. Settled(g, k)
    BY <2>1, <2>3 DEF Settled
  <2> QED
    BY <2>4 DEF g
<1> QED
  BY <1>3, <1>4, <1>5, <1>6
----------------------------------------------------------------------------
LEMMA InvInit == Init => Inv
<1> SUFFICES ASSUME Init PROVE Inv
  OBVIOUS
<1>1. num_tasks \in Nat /\ 0 \in Reach
  BY NumTasksAssumption DEF Init, Reach
<1>2. TypeOK
  BY <1>1 DEF Init, TypeOK, Label, Ended
<1>3. NothingLost
  BY SamePlacesFacts DEF Init, NothingLost
<1> QED
  BY <1>2, <1>3 DEF Init, Inv, Sorting

LEMMA CheckNumTasksKeeps == Inv /\ CheckNumTasks => Inv'
<1> SUFFICES ASSUME Inv, CheckNumTasks PROVE Inv'
  OBVIOUS
<1>1. UNCHANGED <<tasks, num_tasks, i, j, submitted>>
  BY DEF CheckNumTasks, Goto
<1>2. pc' \in {"EINVAL", "valid_addr"}
  BY DEF CheckNumTasks, Goto
<1>3. TypeOK' /\ NothingLost'
  BY <1>1, <1>2 DEF Inv, TypeOK, NothingLost, Reach, SamePlaces, Label, Ended
<1>4. tasks = submitted /\ i = 0 /\ j = 0
  BY DEF Inv, CheckNumTasks
<1> QED
  BY <1>1, <1>2, <1>3, <1>4 DEF Inv, Sorting

LEMMA CheckStacksKeeps == Inv /\ CheckStacks => Inv'
<1> SUFFICES ASSUME Inv, CheckStacks PROVE Inv'
  OBVIOUS
<1>1. UNCHANGED <<tasks, num_tasks, i, j, submitted>>
  BY DEF CheckStacks, Goto
<1>2. pc' \in {"times", "EFAULT"}
  BY DEF CheckStacks, Goto
<1>3. TypeOK' /\ NothingLost'
  BY <1>1, <1>2 DEF Inv, TypeOK, NothingLost, Reach, SamePlaces, Label, Ended
<1>4. tasks = submitted /\ i = 0 /\ j = 0
  BY DEF Inv, CheckStacks
<1>5. pc' = "times" => \A k \in Own : StackOK(tasks[k])
  BY DEF CheckStacks, Goto, valid_addr, StackOK
<1> QED
  BY <1>1, <1>2, <1>3, <1>4, <1>5 DEF Inv, Sorting, Own, StackOK

LEMMA CheckTimesKeeps == Inv /\ CheckTimes => Inv'
<1> SUFFICES ASSUME Inv, CheckTimes PROVE Inv'
  OBVIOUS
<1>1. UNCHANGED <<tasks, num_tasks, i, j, submitted>>
  BY DEF CheckTimes, Goto
<1>2. pc' \in {"ESCHED", "assign_schedule"}
  BY DEF CheckTimes, Goto
<1>3. TypeOK' /\ NothingLost'
  BY <1>1, <1>2 DEF Inv, TypeOK, NothingLost, Reach, SamePlaces, Label, Ended
<1>4. tasks = submitted /\ i = 0 /\ j = 0 /\ \A k \in Own : StackOK(tasks[k])
  BY DEF Inv, CheckTimes
<1>5. ASSUME pc' = "assign_schedule", NEW k \in Own
      PROVE  TimesOK(tasks[k])
  <2>1. ~(tasks[k].T < tasks[k].C) /\ tasks[k].T # 0
    BY <1>5 DEF CheckTimes, Goto
  <2>2. tasks[k] \in Descriptor
    BY NumTasksAssumption DEF Inv, TypeOK, Own, Reach
  <2>3. tasks[k].T \in Nat /\ tasks[k].C \in Nat
    BY <2>2, DescriptorAssumption
  <2> QED
    BY <2>1, <2>3 DEF TimesOK
<1> QED
  BY <1>1, <1>2, <1>3, <1>4, <1>5 DEF Inv, Sorting, Own, StackOK, TimesOK

(* With two tasks or more the sort begins at its first round; a shorter    *)
(* list is in order.                                                       *)
LEMMA AssignScheduleKeeps == Inv /\ AssignSchedule => Inv'
<1> SUFFICES ASSUME Inv, AssignSchedule PROVE Inv'
  OBVIOUS
<1>1. UNCHANGED <<tasks, num_tasks, i, j, submitted>>
  BY DEF AssignSchedule, Goto
<1>2. /\ pc' \in {"admitted", "sort"}
      /\ pc' = "sort" <=> num_tasks \notin {0, 1}
  BY DEF AssignSchedule, Goto
<1>3. TypeOK' /\ NothingLost'
  BY <1>1, <1>2 DEF Inv, TypeOK, NothingLost, Reach, SamePlaces, Label, Ended
<1>4. /\ tasks = submitted /\ i = 0 /\ j = 0
      /\ \A k \in Own : StackOK(tasks[k]) /\ TimesOK(tasks[k])
  BY DEF Inv, AssignSchedule
<1>5. num_tasks \in Nat /\ \A k \in Reach : tasks[k].T \in Nat
  BY NumTasksAssumption, Periods DEF Inv, TypeOK
<1>6. Sorting'
  <2>1. Settled(tasks, 0)
    BY <1>5 DEF Settled, Reach
  <2>2. \A k \in Reach : ~(k > num_tasks - 0) /\ (k <= 0 => k = 0)
    BY <1>5 DEF Reach
  <2> QED
    BY <1>1, <1>2, <1>4, <1>5, <2>1, <2>2 DEF Sorting, Reach, Settled
<1>7. (\A k \in Own : submitted[k].T <= submitted[num_tasks].T) =>
        /\ SamePlaces(Own, tasks, submitted)
        /\ tasks[num_tasks] = submitted[num_tasks]
        /\ \A k \in Own : /\ StackOK(tasks[k]) /\ TimesOK(tasks[k])
                          /\ tasks[k].T <= tasks[num_tasks].T
  BY <1>4, SamePlacesFacts
<1>8. (\A k \in Own' : submitted'[k].T <= submitted'[num_tasks'].T) =>
        /\ SamePlaces(Own, tasks, submitted)'
        /\ tasks'[num_tasks'] = submitted'[num_tasks']
        /\ \A k \in Own' : /\ StackOK(tasks'[k]) /\ TimesOK(tasks'[k])
                           /\ tasks'[k].T <= tasks'[num_tasks'].T
  BY <1>1, <1>7 DEF Own, SamePlaces
<1> QED
  BY <1>1, <1>2, <1>3, <1>6, <1>8 DEF Inv

(* The inner loop counts round. *)
LEMMA NextRound ==
    ASSUME NEW n \in Nat, NEW a \in 0 .. n - 1
    PROVE  (a + 1) % n = IF a + 1 = n THEN 0 ELSE a + 1
OBVIOUS

LEMMA SortStepKeeps == Inv /\ SortStep => Inv'
<1> SUFFICES ASSUME Inv, SortStep PROVE Inv'
  OBVIOUS
<1> DEFINE n == num_tasks
           f == tasks
           g == Bubble(f, j)
<1>1. /\ n \in Nat /\ n >= 2 /\ f \in [0 .. n -> Descriptor]
      /\ i \in 0 .. n - 1 /\ j \in 0 .. n - 1
  BY NumTasksAssumption DEF Inv, TypeOK, Sorting, SortStep, Reach
<1>2. /\ Settled(f, j)
      /\ \A k \in 0 .. n : k > n - i \/ (k = n - i /\ k <= j) => Settled(f, k)
  BY DEF Inv, Sorting, SortStep, Reach
<1>3. /\ tasks' = g /\ num_tasks' = n /\ submitted' = submitted
      /\ j' = IF j + 1 = n THEN 0 ELSE j + 1
      /\ i' = IF j + 1 = n THEN i + 1 ELSE i
      /\ pc' = IF i' = n THEN "bound" ELSE "sort"
  <2>1. (j + 1) % n = IF j + 1 = n THEN 0 ELSE j + 1
    BY <1>1, NextRound
  <2>2. j + 1 # 0
    BY <1>1
  <2> QED
    BY <2>1, <2>2 DEF SortStep, MustSwap, Swap, Bubble, Exchange
<1>4. g \in [0 .. n -> Descriptor]
  BY <1>1, BubbleFacts
<1>5. \A k \in 0 .. n : f[k].T \in Nat /\ g[k].T \in Nat
  BY <1>1, <1>4, Periods
<1> HIDE DEF n, f, g
<1>6. TypeOK'
  <2>1. i' \in 0 .. n /\ j' \in 0 .. n
    BY <1>1, <1>3
  <2> QED
    BY <2>1, <1>3, <1>4 DEF Inv, TypeOK, Reach, Label, Ended, n
<1>7. NothingLost'
  <2>1. SamePlaces(0 .. n, g, f)
    BY <1>1, BubbleKeepsPlaces DEF g
  <2>2. SamePlaces(0 .. n, f, submitted)
    BY DEF Inv, NothingLost, Reach, n, f
  <2>3. SamePlaces(0 .. n, g, submitted)
    BY <2>1, <2>2, SamePlacesFacts
  <2> QED
    BY <2>3, <1>3 DEF NothingLost, Reach, SamePlaces
<1>8. Settled(g, j + 1)
  BY <1>1, <1>2, BubbleCarries DEF g
<1>9. ASSUME NEW k \in 0 .. n, k > n - i \/ (k = n - i /\ k <= j)
      PROVE  Settled(g, k)
  <2>1. Settled(f, k)
    BY <1>2, <1>9
  <2>2. ASSUME k = j
        PROVE  f[j].T <= f[j + 1].T
    <3>1. j + 1 \in 0 .. n /\ j + 1 > n - i /\ j \in 0 .. j + 1
      BY <1>1, <1>9, <2>2
    <3>2. Settled(f, j + 1)
      BY <3>1, <1>2
    <3> QED
      BY <3>1, <3>2 DEF Settled
  <2> QED
    BY <1>1, <1>2, <2>1, <2>2, BubbleKeepsSettled DEF g
<1>10. \A k \in 0 .. n : k >= n - i /\ (k = n - i => j + 1 >= k)
         => Settled(g, k)
  <2> TAKE k \in 0 .. n
  <2> HAVE k >= n - i /\ (k = n - i => j + 1 >= k)
  <2>1. CASE k = n - i /\ k = j + 1
    BY <2>1, <1>8
  <2>2. CASE ~(k = n - i /\ k = j + 1)
    <3>1. k > n - i \/ (k = n - i /\ k <= j)
      BY <2>2, <1>1
    <3> QED
      BY <3>1, <1>9
  <2> QED
    BY <2>1, <2>2
<1>11. Settled(g, 0)
  BY <1>1, <1>5 DEF Settled
(* The invariant of the sort, and what it has come to when it ends. *)
<1>12. /\ i' # n => /\ i' < n /\ j' < n /\ Settled(g, j')
                    /\ \A k \in 0 .. n : k > n - i' \/ (k = n - i' /\ k <= j')
                         => Settled(g, k)
       /\ i' = n => \A k \in 0 .. n : Settled(g, k)
  <2>1. CASE j + 1 = n
    <3>1. j' = 0 /\ i' = i + 1
      BY <1>3, <2>1
    <3>2. ASSUME NEW k \in 0 .. n, k > n - i' \/ (k = n - i' /\ k <= j')
          PROVE  Settled(g, k)
      <4>1. k = 0 \/ (k >= n - i /\ (k = n - i => j + 1 >= k))
        BY <1>1, <2>1, <3>1, <3>2
      <4> QED
        BY <4>1, <1>10, <1>11
    <3>3. i' = n => \A k \in 0 .. n : k > n - i' \/ (k = n - i' /\ k <= j')
      BY <1>1, <3>1
    <3>4. i' # n => i' < n /\ j' < n
      BY <1>1, <3>1
    <3> QED
      BY <3>1, <3>2, <3>3, <3>4, <1>11
  <2>2. CASE j + 1 # n
    <3>1. j' = j + 1 /\ i' = i /\ i' < n /\ j' < n /\ i' # n
      BY <1>1, <1>3, <2>2
    <3>2. ASSUME NEW k \in 0 .. n, k > n - i' \/ (k = n - i' /\ k <= j')
          PROVE  Settled(g, k)
      <4>1. k >= n - i /\ (k = n - i => j + 1 >= k)
        BY <1>1, <3>1, <3>2
      <4> QED
        BY <4>1, <1>10
    <3>3. Settled(g, j')
      BY <3>1, <1>8
    <3> QED
      BY <3>1, <3>2, <3>3
  <2> QED
    BY <2>1, <2>2
<1>13. Sorting'
  BY <1>1, <1>3, <1>12 DEF Sorting, Reach
<1>14. pc' \in {"bound", "admitted"} => \A k \in 0 .. n : Settled(g, k)
  BY <1>3, <1>12
(* The element after the array has the longest period and stays there.     *)
<1>15. ASSUME \A k \in 0 .. n - 1 : submitted[k].T <= submitted[n].T
       PROVE  /\ SamePlaces(0 .. n - 1, g, submitted)
              /\ g[n] = submitted[n]
              /\ \A k \in 0 .. n - 1 : /\ StackOK(g[k]) /\ TimesOK(g[k])
                                       /\ g[k].T <= g[n].T
  <2>1. /\ SamePlaces(0 .. n - 1, f, submitted)
        /\ f[n] = submitted[n]
        /\ \A k \in 0 .. n - 1 : /\ StackOK(f[k]) /\ TimesOK(f[k])
                                 /\ f[k].T <= f[n].T
    BY <1>15 DEF Inv, SortStep, Own, n, f
  <2>2. /\ \A k \in (0 .. n) \ {j, j + 1} : g[k] = f[k]
        /\ \/ f[j].T > f[j + 1].T /\ g[j] = f[j + 1] /\ g[j + 1] = f[j]
           \/ f[j].T <= f[j + 1].T /\ g = f
    BY <1>1, BubbleFacts DEF g
  <2>3. CASE j = n - 1
    <3>1. j + 1 = n /\ n \in 0 .. n /\ j \in 0 .. n - 1 /\ j \in 0 .. n
      BY <1>1, <2>3
    <3>2. f[j].T <= f[j + 1].T /\ f[j].T \in Nat /\ f[j + 1].T \in Nat
      BY <2>1, <3>1, <1>5
    <3>3. g = f
      BY <2>2, <3>2
    <3> QED
      BY <2>1, <3>3
  <2>4. CASE j # n - 1
    <3>1. /\ j \in 0 .. (n - 1) - 1 /\ n - 1 \in 0 .. n
          /\ n \in (0 .. n) \ {j, j + 1}
          /\ j \in 0 .. n - 1 /\ j + 1 \in 0 .. n - 1
          /\ \A k \in 0 .. n - 1 : k \in 0 .. n
      BY <1>1, <2>4
    <3>2. SamePlaces(0 .. n - 1, g, f)
      BY <1>1, <3>1, BubbleKeepsPlaces DEF g
    <3>3. SamePlaces(0 .. n - 1, g, submitted)
      BY <2>1, <3>2, SamePlacesFacts
    <3>4. g[n] = f[n]
      BY <2>2, <3>1
    <3>5. \A k \in 0 .. n - 1 : \E l \in 0 .. n - 1 : g[k] = f[l]
      BY <2>2, <3>1
    <3> QED
      BY <2>1, <3>3, <3>4, <3>5
  <2> QED
    BY <2>3, <2>4
<1>16. (\A k \in Own' : submitted'[k].T <= submitted'[num_tasks'].T) =>
         /\ SamePlaces(Own, tasks, submitted)'
         /\ tasks'[num_tasks'] = submitted'[num_tasks']
         /\ \A k \in Own' : /\ StackOK(tasks'[k]) /\ TimesOK(tasks'[k])
                            /\ tasks'[k].T <= tasks'[num_tasks'].T
  BY <1>3, <1>15 DEF Own, SamePlaces
<1>17. num_tasks' \in NumTasks /\ pc' \in {"sort", "bound"}
  BY <1>3 DEF Inv, n
<1> QED
  BY <1>1, <1>3, <1>6, <1>7, <1>13, <1>14, <1>16, <1>17 DEF Inv, Reach

LEMMA CheckBoundKeeps == Inv /\ CheckBound => Inv'
<1> SUFFICES ASSUME Inv, CheckBound PROVE Inv'
  OBVIOUS
<1>1. UNCHANGED <<tasks, num_tasks, i, j, submitted>> /\ pc = "bound"
  BY DEF CheckBound, Goto
<1>2. pc' \in {"raise", "admitted", "ESCHED"}
  BY DEF CheckBound, Goto
<1>3. TypeOK' /\ NothingLost'
  BY <1>1, <1>2 DEF Inv, TypeOK, NothingLost, Reach, SamePlaces, Label, Ended
<1>4. Sorting'
  BY <1>2 DEF Sorting
<1>5. num_tasks' \in {0, 1} \/ \A k \in Reach' : Settled(tasks', k)
  BY <1>1 DEF Inv, Reach
<1>6. (\A k \in Own' : submitted'[k].T <= submitted'[num_tasks'].T) =>
        /\ SamePlaces(Own, tasks, submitted)'
        /\ tasks'[num_tasks'] = submitted'[num_tasks']
        /\ \A k \in Own' : /\ StackOK(tasks'[k]) /\ TimesOK(tasks'[k])
                           /\ tasks'[k].T <= tasks'[num_tasks'].T
  BY <1>1 DEF Inv, Own, SamePlaces
<1> QED
  BY <1>1, <1>2, <1>3, <1>4, <1>5, <1>6 DEF Inv

LEMMA StutterKeeps == Inv /\ UNCHANGED vars => Inv'
BY DEF Inv, vars, TypeOK, NothingLost, Sorting, Own, Reach, SamePlaces

(* The invariant holds of every check, every round and every outcome. *)
THEOREM Invariant == Spec => []Inv
<1>1. Inv /\ [Next]_vars => Inv'
  BY CheckNumTasksKeeps, CheckStacksKeeps, CheckTimesKeeps,
     AssignScheduleKeeps, SortStepKeeps, CheckBoundKeeps, StutterKeeps
  DEF Next
<1> QED
  BY InvInit, <1>1, PTL DEF Spec
----------------------------------------------------------------------------
(* Descriptors are moved as a whole, and the loop counters of              *)
(* assign_schedule stay within the array and the element after it.         *)
THEOREM TypeCorrect == Spec => []TypeOK
<1>1. Inv => TypeOK
  BY DEF Inv
<1> QED
  BY <1>1, Invariant, PTL

(* The sort of assign_schedule, stopped after any round, has each          *)
(* descriptor as often as the caller's memory had it.                      *)
THEOREM SortLosesNothing == Spec => []NothingLost
<1>1. Inv => NothingLost
  BY DEF Inv
<1> QED
  BY <1>1, Invariant, PTL

(* When assign_schedule comes to the bound the periods are in order: the   *)
(* num_tasks passes are enough for the num_tasks + 1 elements they go over.*)
THEOREM SortSorts == Spec => []Sorted
<1>1. Inv => Sorted
  <2> SUFFICES ASSUME Inv, pc \in {"bound", "admitted"},
                      NEW k \in Own, NEW l \in Own, k <= l
               PROVE  tasks[k].T <= tasks[l].T
    BY DEF Sorted
  <2>1. num_tasks \in Nat /\ k \in 0 .. l /\ l \in Reach /\ k \in Reach
    BY NumTasksAssumption DEF Inv, Own, Reach
  <2>2. CASE num_tasks \in {0, 1}
    <3>1. k = l
      BY <2>2 DEF Own
    <3>2. tasks[k].T \in Nat
      BY <2>1, Periods DEF Inv, TypeOK
    <3> QED
      BY <3>1, <3>2
  <2>3. CASE \A m \in Reach : Settled(tasks, m)
    BY <2>1, <2>3 DEF Settled
  <2> QED
    BY <2>2, <2>3 DEF Inv
<1> QED
  BY <1>1, Invariant, PTL

(* With nothing shorter after the array, the tasks that the kernel gives   *)
(* priorities are the ones that task_create has checked.                   *)
THEOREM OutsiderIsNotAdmitted == Spec => []OutsiderStaysOut
<1>1. Inv => OutsiderStaysOut
  BY DEF Inv, OutsiderStaysOut, StackOK, TimesOK
<1> QED
  BY <1>1, Invariant, PTL
----------------------------------------------------------------------------
(* The utilisation test. *)

(* What Sums computes, round by round. *)
LEMMA SumsFacts ==
    ASSUME num_tasks \in Nat, NEW f \in [Own -> Nat]
    PROVE  /\ Sums(f) \in [0 .. num_tasks -> Nat]
           /\ Sums(f)[0] = 0
           /\ \A k \in Own : Sums(f)[k + 1] = Sums(f)[k] + f[k]
<1> DEFINE step == [p \in (0 .. num_tasks - 1) \X Nat |-> p[2] + f[p[1]]]
<1>1. step \in [(0 .. num_tasks - 1) \X Nat -> Nat]
  BY DEF Own
<1>2. PICK g \in [0 .. num_tasks -> Nat] : Run(0, step, g, num_tasks)
  <2>1. 0 \in Nat /\ num_tasks \in 0 .. num_tasks
    OBVIOUS
  <2> HIDE DEF step
  <2> QED
    BY <1>1, <2>1, RunExists
<1>3. /\ g[0] = 0
      /\ \A k \in 0 .. num_tasks - 1 : g[k + 1] = g[k] + f[k]
  <2>1. ASSUME NEW k \in 0 .. num_tasks - 1
        PROVE  step[<<k, g[k]>>] = g[k] + f[k]
    <3>1. <<k, g[k]>> \in (0 .. num_tasks - 1) \X Nat
      OBVIOUS
    <3> QED
      BY <3>1
  <2> QED
    BY <1>2, <2>1 DEF Run
<1> HIDE DEF step
<1>4. g = [k \in 0 .. num_tasks |-> IF k = 0 THEN 0 ELSE g[k - 1] + f[k - 1]]
  <2>1. ASSUME NEW k \in 0 .. num_tasks
        PROVE  g[k] = IF k = 0 THEN 0 ELSE g[k - 1] + f[k - 1]
    <3>1. k = 0 \/ (k - 1 \in 0 .. num_tasks - 1 /\ (k - 1) + 1 = k)
      OBVIOUS
    <3> QED
      BY <1>3, <3>1
  <2> QED
    BY <2>1
<1>5. Sums(f) = [k \in 0 .. num_tasks |->
                   IF k = 0 THEN 0 ELSE Sums(f)[k - 1] + f[k - 1]]
  BY <1>4 DEF Sums
<1> DEFINE h == Sums(f)
<1>6. h = [k \in 0 .. num_tasks |-> IF k = 0 THEN 0 ELSE h[k - 1] + f[k - 1]]
  BY <1>5
<1> HIDE DEF h
<1>7. h[0] = 0 /\ \A k \in Own : h[k + 1] = h[k] + f[k]
  BY <1>6 DEF Own
<1>8. h \in [0 .. num_tasks -> Nat]
  <2> DEFINE P == {k \in Nat : k <= num_tasks => h[k] \in Nat}
  <2>1. 0 \in P
    BY <1>7
  <2>2. \A k \in P : k + 1 \in P
    <3> SUFFICES ASSUME NEW k \in P, k + 1 <= num_tasks PROVE h[k + 1] \in Nat
      OBVIOUS
    <3>1. k \in Own /\ k \in 0 .. num_tasks /\ h[k] \in Nat
      BY DEF Own
    <3>2. h[k + 1] = h[k] + f[k] /\ f[k] \in Nat
      BY <1>7, <3>1
    <3> QED
      BY <3>1, <3>2
  <2> HIDE DEF P
  <2>3. P = Nat
    BY <2>1, <2>2, SetInduction DEF P
  <2>4. \A k \in 0 .. num_tasks : h[k] \in Nat
    BY <2>3 DEF P
  <2> QED
    BY <1>6, <2>4
<1> QED
  BY <1>7, <1>8 DEF h

(* A sum whose terms are at least p times those of another one.            *)
LEMMA SumsScale ==
    ASSUME num_tasks \in Nat, NEW p \in Nat,
           NEW f \in [Own -> Nat], NEW g \in [Own -> Nat],
           \A k \in Own : g[k] >= p * f[k]
    PROVE  Total(g) >= p * Total(f)
<1> DEFINE F == Sums(f)
           G == Sums(g)
           P == {k \in Nat : k <= num_tasks => G[k] >= p * F[k]}
<1>1. /\ F \in [0 .. num_tasks -> Nat] /\ F[0] = 0
      /\ G \in [0 .. num_tasks -> Nat] /\ G[0] = 0
      /\ \A k \in Own : F[k + 1] = F[k] + f[k] /\ G[k + 1] = G[k] + g[k]
  BY SumsFacts
<1> HIDE DEF F, G
<1>2. 0 \in P
  BY <1>1
<1>3. \A k \in P : k + 1 \in P
  <2> SUFFICES ASSUME NEW k \in P, k + 1 <= num_tasks
               PROVE  G[k + 1] >= p * F[k + 1]
    OBVIOUS
  <2>1. k \in Own /\ k \in 0 .. num_tasks /\ G[k] >= p * F[k]
    BY DEF Own
  <2>2. F[k + 1] = F[k] + f[k] /\ G[k + 1] = G[k] + g[k] /\ g[k] >= p * f[k]
    BY <1>1, <2>1
  <2>3. /\ F[k] \in Nat /\ G[k] \in Nat /\ f[k] \in Nat /\ g[k] \in Nat
    BY <1>1, <2>1
  <2>4. p * (F[k] + f[k]) = p * F[k] + p * f[k]
    BY <2>3
  <2>5. p * F[k] \in Nat /\ p * f[k] \in Nat
    BY <2>3
  <2> QED
    BY <2>1, <2>2, <2>3, <2>4, <2>5
<1> HIDE DEF P
<1>4. P = Nat
  BY <1>2, <1>3, SetInduction DEF P
<1> QED
  BY <1>4 DEF P, Total, F, G

(* The product of the periods, round by round. *)
LEMMA ProductsFacts ==
    ASSUME num_tasks \in Nat, \A k \in Own : tasks[k].T \in Nat \ {0}
    PROVE  /\ Products \in [0 .. num_tasks -> Nat \ {0}]
           /\ Products[0] = 1
           /\ \A k \in Own : Products[k + 1] = Products[k] * tasks[k].T
<1> DEFINE N == Nat \ {0}
           step == [p \in (0 .. num_tasks - 1) \X N |-> p[2] * tasks[p[1]].T]
<1>1. step \in [(0 .. num_tasks - 1) \X N -> N]
  <2>1. \A a, b \in N : a * b \in N
    OBVIOUS
  <2>2. \A k \in 0 .. num_tasks - 1 : tasks[k].T \in N
    BY DEF Own
  <2> HIDE DEF N
  <2> QED
    BY <2>1, <2>2
<1>2. PICK g \in [0 .. num_tasks -> N] : Run(1, step, g, num_tasks)
  <2>1. 1 \in N /\ num_tasks \in 0 .. num_tasks
    OBVIOUS
  <2> HIDE DEF step, N
  <2> QED
    BY <1>1, <2>1, RunExists
<1>3. /\ g[0] = 1
      /\ \A k \in 0 .. num_tasks - 1 : g[k + 1] = g[k] * tasks[k].T
  <2>1. ASSUME NEW k \in 0 .. num_tasks - 1
        PROVE  step[<<k, g[k]>>] = g[k] * tasks[k].T
    <3>1. <<k, g[k]>> \in (0 .. num_tasks - 1) \X N
      OBVIOUS
    <3> QED
      BY <3>1
  <2> QED
    BY <1>2, <2>1 DEF Run
<1> HIDE DEF step
<1>4. g = [k \in 0 .. num_tasks |->
             IF k = 0 THEN 1 ELSE g[k - 1] * tasks[k - 1].T]
  <2>1. ASSUME NEW k \in 0 .. num_tasks
        PROVE  g[k] = IF k = 0 THEN 1 ELSE g[k - 1] * tasks[k - 1].T
    <3>1. k = 0 \/ (k - 1 \in 0 .. num_tasks - 1 /\ (k - 1) + 1 = k)
      OBVIOUS
    <3> QED
      BY <1>3, <3>1
  <2> QED
    BY <2>1
<1>5. Products = [k \in 0 .. num_tasks |->
                    IF k = 0 THEN 1 ELSE Products[k - 1] * tasks[k - 1].T]
  BY <1>4 DEF Products
<1>6. Products[0] = 1 /\ \A k \in Own : Products[k + 1] = Products[k] * tasks[k].T
  BY <1>5 DEF Own
<1>7. Products \in [0 .. num_tasks -> N]
  <2> DEFINE P == {k \in Nat : k <= num_tasks => Products[k] \in N}
  <2>1. 0 \in P
    BY <1>6
  <2>2. \A k \in Own : k + 1 <= num_tasks /\ tasks[k].T \in N
    BY DEF Own
  <2>3. \A a, b \in N : a * b \in N
    OBVIOUS
  <2> HIDE DEF N
  <2>4. \A k \in P : k + 1 \in P
    <3> SUFFICES ASSUME NEW k \in P, k + 1 <= num_tasks PROVE k + 1 \in P
      OBVIOUS
    <3>1. k \in Own /\ Products[k] \in N
      BY DEF Own
    <3>2. Products[k + 1] \in N
      BY <1>6, <2>2, <2>3, <3>1
    <3> QED
      BY <3>2
  <2> HIDE DEF P
  <2>5. P = Nat
    BY <2>1, <2>4, SetInduction DEF P
  <2>6. \A k \in 0 .. num_tasks : Products[k] \in N
    BY <2>5 DEF P
  <2> QED
    BY <1>5, <2>6
<1> QED
  BY <1>6, <1>7

(* Each period divides the product. *)
LEMMA PeriodsDivide ==
    ASSUME num_tasks \in Nat, \A k \in Own : tasks[k].T \in Nat \ {0},
           NEW l \in Own
    PROVE  \E q \in Nat : PeriodProduct = tasks[l].T * q
<1> DEFINE P == {k \in Nat : l < k /\ k <= num_tasks =>
                   \E q \in Nat : Products[k] = tasks[l].T * q}
<1>1. 0 \in P
  BY DEF Own
<1>2. \A k \in P : k + 1 \in P
  <2> SUFFICES ASSUME NEW k \in P, l < k + 1, k + 1 <= num_tasks
               PROVE  \E q \in Nat : Products[k + 1] = tasks[l].T * q
    OBVIOUS
  <2>1. /\ k \in Own /\ k \in 0 .. num_tasks /\ tasks[k].T \in Nat /\ tasks[l].T \in Nat
        /\ Products[k] \in Nat
        /\ Products[k + 1] = Products[k] * tasks[k].T
    <3>1. k \in Own /\ k \in 0 .. num_tasks
      BY DEF Own
    <3>2. tasks[k].T \in Nat /\ tasks[l].T \in Nat
      BY <3>1
    <3> QED
      BY <3>1, <3>2, ProductsFacts
  <2>2. CASE l = k
    BY <2>1, <2>2
  <2>3. CASE l # k
    <3>1. l < k /\ k <= num_tasks
      BY <2>3 DEF Own
    <3>2. PICK q \in Nat : Products[k] = tasks[l].T * q
      BY <3>1
    <3>3. Products[k + 1] = tasks[l].T * (q * tasks[k].T)
      BY <2>1, <3>2
    <3>4. q * tasks[k].T \in Nat
      BY <2>1
    <3> QED
      BY <3>3, <3>4
  <2> QED
    BY <2>2, <2>3
<1> HIDE DEF P
<1>3. P = Nat
  BY <1>1, <1>2, SetInduction DEF P
<1>4. num_tasks \in P /\ l < num_tasks
  BY <1>3 DEF Own
<1> QED
  BY <1>4 DEF P, PeriodProduct

LEMMA ExactQuotient ==
    ASSUME NEW a \in Nat \ {0}, NEW q \in Nat
    PROVE  (a * q) \div a = q
OBVIOUS

(* A time, in units of one over the product of the periods.                *)
LEMMA ShareFacts ==
    ASSUME num_tasks \in Nat, \A k \in Own : tasks[k].T \in Nat \ {0},
           NEW k \in Own, NEW c \in Nat
    PROVE  /\ Share(k) \in Nat
           /\ c \div tasks[k].T \in Nat
           /\ c * Share(k) \in Nat
           /\ c * Share(k) >= PeriodProduct * (c \div tasks[k].T)
<1> DEFINE T == tasks[k].T
           x == c \div T
<1>1. PICK q \in Nat : PeriodProduct = T * q
  BY PeriodsDivide
<1>2. T \in Nat \ {0}
  OBVIOUS
<1> HIDE DEF T
<1>3. Share(k) = q
  BY <1>1, <1>2, ExactQuotient DEF Share, T
<1>4. x \in Nat /\ c >= T * x
  BY <1>2
<1> HIDE DEF x
<1>5. T * x \in Nat
  BY <1>2, <1>4
<1>6. c * q >= (T * x) * q
  BY <1>4, <1>5
<1>7. (T * x) * q = (T * q) * x
  BY <1>2, <1>4
<1> QED
  BY <1>1, <1>3, <1>4, <1>6, <1>7 DEF x, T

(* When assign_schedule refuses for the bound, the caller's tasks do ask   *)
(* for more than the processor has: its whole numbers are rounded down.    *)
THEOREM RefusalJustified == Spec => RefusedOverloaded
<1> DEFINE Overloads == Load + Blocking > PeriodProduct
           Refuses == pc = "bound" /\ pc' = "ESCHED"
<1>1. ASSUME Inv, [Next]_vars, Refuses PROVE Overloads
  <2> DEFINE n == num_tasks
             p == PeriodProduct
             f == [k \in Own |-> Quotient(k)]
             g == [k \in Own |-> tasks[k].C * Share(k)]
  <2>1. CheckBound
    BY <1>1 DEF Next, vars, CheckNumTasks, CheckStacks, CheckTimes,
                AssignSchedule, SortStep
  <2>2. ~(\E k \in Own : tasks[k].T = 0) /\ ~(u_n <= u_max)
    BY <1>1, <2>1 DEF CheckBound, Goto
  <2>3. n \in Nat /\ n >= 2 /\ n - 1 \in Own
    BY <1>1, NumTasksAssumption DEF Inv, Own
  <2>4. \A k \in Own : /\ tasks[k].T \in Nat \ {0}
                       /\ tasks[k].C \in Nat /\ tasks[k].B \in Nat
    <3> TAKE k \in Own
    <3>1. k \in Reach /\ tasks[k] \in Descriptor
      BY <1>1, <2>3 DEF Inv, TypeOK, Own, Reach
    <3>2. tasks[k].T \in Nat /\ tasks[k].C \in Nat /\ tasks[k].B \in Nat
      BY <3>1, DescriptorAssumption
    <3> QED
      BY <2>2, <3>2
  <2>5. p \in Nat \ {0}
    BY <2>3, <2>4, ProductsFacts DEF PeriodProduct
  <2>6. f \in [Own -> Nat] /\ g \in [Own -> Nat]
    BY <2>3, <2>4, ShareFacts DEF Quotient
  <2>7. \A k \in Own : g[k] >= p * f[k]
    BY <2>3, <2>4, ShareFacts DEF Quotient
  <2>8. Load >= p * Total(f)
    <3>1. p \in Nat /\ Load = Total(g)
      BY <2>5 DEF Load
    <3> HIDE DEF f, g, p
    <3> QED
      BY <2>3, <2>6, <2>7, <3>1, SumsScale
  <2>9. Load \in Nat /\ Total(f) \in Nat
    <3>1. Load = Total(g)
      BY DEF Load
    <3> HIDE DEF f, g
    <3> QED
      BY SMTT(30), <2>3, <2>6, <3>1, SumsFacts DEF Total
  <2> DEFINE b == tasks[n - 1].B \div tasks[n - 1].T
  <2>10. /\ b \in Nat /\ Blocking \in Nat /\ Blocking >= p * b
    BY <2>3, <2>4, ShareFacts DEF Blocking
  <2>11. ~(Total(f) + b <= n)
    BY <2>2 DEF u_n, u_max
  <2> HIDE DEF n, p, f, g, b
  <2>12. Total(f) + b >= 2
    BY <2>3, <2>9, <2>10, <2>11
  <2>13. p * (Total(f) + b) >= p * 2 /\ p * 2 > p
    BY <2>5, <2>9, <2>10, <2>12
  <2>14. p * (Total(f) + b) = p * Total(f) + p * b
    BY <2>5, <2>9, <2>10
  <2>15. p * Total(f) \in Nat /\ p * b \in Nat
    BY <2>5, <2>9, <2>10
  <2>16. Load + Blocking >= p * Total(f) + p * b
    BY <2>8, <2>9, <2>10, <2>15
  <2>17. Load + Blocking > p
    BY <2>5, <2>9, <2>10, <2>13, <2>14, <2>15, <2>16
  <2> QED
    BY <2>17 DEF p
<1>2. Inv /\ [Next]_vars => [Refuses => Overloads]_vars
  BY <1>1
<1> QED
  BY <1>2, Invariant, PTL DEF Spec, RefusedOverloaded
=============================================================================
