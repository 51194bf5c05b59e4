--------------------------- MODULE RunQueueProofs ---------------------------
(***************************************************************************)
(* Theorems about the bitmaps of the run queue, for any number of groups   *)
(* of eight priorities up to eight and any tasks that are added.           *)
(***************************************************************************)
EXTENDS RunQueue, TLAPS

Bit == 0 .. 7
HasBit(b, x) == (b \div 2^x) % 2 = 1
Lowest(b, x) == x \in Bit /\ HasBit(b, x) /\ \A y \in 0 .. x - 1 : ~HasBit(b, y)

(* BitsAgree, and no bit for a group that the arrays do not have: with     *)
(* fewer than eight groups highest_prio would look behind run_bits.        *)
Inv ==
    /\ TypeOK
    /\ \A g \in Group, x \in Bit :
         HasBit(run_bits[g], x) <=> run_list[8 * g + x] # NULL
    /\ \A g \in Bit :
         HasBit(group_run_bits, g) <=> g \in Group /\ run_bits[g] # 0
----------------------------------------------------------------------------
(* A priority is the number of a group and that of a bit in it. *)
LEMMA PrioParts ==
    /\ \A p \in Prio : /\ p \div 8 \in Group /\ p % 8 \in Bit
                       /\ p = 8 * (p \div 8) + (p % 8)
    /\ \A g \in Group, x \in Bit : /\ 8 * g + x \in Prio
                                   /\ (8 * g + x) \div 8 = g
                                   /\ (8 * g + x) % 8 = x
    /\ Group \subseteq Bit /\ 0 \in Group /\ Prio \subseteq Nat
<1>1. PICK m \in 1 .. 8 : OS_MAX_TASKS = 8 * m
  <2>1. /\ OS_MAX_TASKS \div 8 \in 1 .. 8
        /\ OS_MAX_TASKS = 8 * (OS_MAX_TASKS \div 8)
    BY OsMaxTasksAssumption
  <2> QED
    BY <2>1
<1>2. Group = 0 .. m - 1 /\ Prio = 0 .. 8 * m - 1
  BY <1>1 DEF Group, Prio
<1>3. ASSUME NEW p \in Prio
      PROVE  p \div 8 \in Group /\ p % 8 \in Bit /\ p = 8 * (p \div 8) + (p % 8)
  <2>1. m \in 1 .. 8 /\ p \in 0 .. 8 * m - 1
    BY <1>2
  <2>2. p \div 8 \in 0 .. m - 1
    BY <2>1
  <2>3. p % 8 \in 0 .. 7 /\ p = 8 * (p \div 8) + (p % 8)
    BY <2>1
  <2> QED
    BY <1>2, <2>2, <2>3 DEF Bit
<1>4. ASSUME NEW g \in Group, NEW x \in Bit
      PROVE  /\ 8 * g + x \in Prio
             /\ (8 * g + x) \div 8 = g /\ (8 * g + x) % 8 = x
  <2>1. m \in 1 .. 8 /\ g \in 0 .. m - 1 /\ x \in 0 .. 7
    BY <1>2 DEF Bit
  <2>2. 8 * g + x \in Prio
    BY <1>2, <2>1
  <2>3. \A a \in Nat, b \in 0 .. 7 : (8 * a + b) \div 8 = a /\ (8 * a + b) % 8 = b
    OBVIOUS
  <2> QED
    BY <2>1, <2>2, <2>3
<1>5. Group \subseteq Bit /\ 0 \in Group /\ Prio \subseteq Nat
  BY <1>2 DEF Bit
<1> QED
  BY <1>3, <1>4, <1>5

(* `b | (1 << x)' sets the bit x of a byte and no other. *)
LEMMA SetBitFacts ==
    ASSUME NEW b \in Byte, NEW x \in Bit
    PROVE  /\ SetBit(b, x) \in Byte
           /\ \A y \in Bit : HasBit(SetBit(b, x), y) <=> y = x \/ HasBit(b, y)
<1> DEFINE P(z, y) == HasBit(SetBit(b, z), y) <=> y = z \/ HasBit(b, y)
           All(z) == /\ SetBit(b, z) \in Byte
                     /\ P(z, 0) /\ P(z, 1) /\ P(z, 2) /\ P(z, 3)
                     /\ P(z, 4) /\ P(z, 5) /\ P(z, 6) /\ P(z, 7)
<1>1. All(0)
  BY SMTT(60) DEF HasBit, SetBit, Byte
<1>2. All(1)
  BY SMTT(60) DEF HasBit, SetBit, Byte
<1>3. All(2)
  BY SMTT(60) DEF HasBit, SetBit, Byte
<1>4. All(3)
  BY SMTT(60) DEF HasBit, SetBit, Byte
<1>5. All(4)
  BY SMTT(60) DEF HasBit, SetBit, Byte
<1>6. All(5)
  BY SMTT(60) DEF HasBit, SetBit, Byte
<1>7. All(6)
  BY SMTT(60) DEF HasBit, SetBit, Byte
<1>8. All(7)
  BY SMTT(60) DEF HasBit, SetBit, Byte
<1>9. SetBit(b, x) \in Byte /\ \A y \in Bit : P(x, y)
  <2> HIDE DEF P
  <2> QED
    BY <1>1, <1>2, <1>3, <1>4, <1>5, <1>6, <1>7, <1>8 DEF Bit
<1> QED
  BY <1>9

(* `b & ~(1 << x)' clears the bit x of a byte and no other. *)
LEMMA ClearBitFacts ==
    ASSUME NEW b \in Byte, NEW x \in Bit
    PROVE  /\ ClearBit(b, x) \in Byte
           /\ \A y \in Bit : HasBit(ClearBit(b, x), y) <=> y # x /\ HasBit(b, y)
<1> DEFINE P(z, y) == HasBit(ClearBit(b, z), y) <=> y # z /\ HasBit(b, y)
           All(z) == /\ ClearBit(b, z) \in Byte
                     /\ P(z, 0) /\ P(z, 1) /\ P(z, 2) /\ P(z, 3)
                     /\ P(z, 4) /\ P(z, 5) /\ P(z, 6) /\ P(z, 7)
<1>1. All(0)
  BY SMTT(60) DEF HasBit, ClearBit, Byte
<1>2. All(1)
  BY SMTT(60) DEF HasBit, ClearBit, Byte
<1>3. All(2)
  BY SMTT(60) DEF HasBit, ClearBit, Byte
<1>4. All(3)
  BY SMTT(60) DEF HasBit, ClearBit, Byte
<1>5. All(4)
  BY SMTT(60) DEF HasBit, ClearBit, Byte
<1>6. All(5)
  BY SMTT(60) DEF HasBit, ClearBit, Byte
<1>7. All(6)
  BY SMTT(60) DEF HasBit, ClearBit, Byte
<1>8. All(7)
  BY SMTT(60) DEF HasBit, ClearBit, Byte
<1>9. ClearBit(b, x) \in Byte /\ \A y \in Bit : P(x, y)
  <2> HIDE DEF P
  <2> QED
    BY <1>1, <1>2, <1>3, <1>4, <1>5, <1>6, <1>7, <1>8 DEF Bit
<1> QED
  BY <1>9

(* A byte without bits is 0. *)
LEMMA ZeroByte ==
    ASSUME NEW b \in Byte
    PROVE  b = 0 <=> \A x \in Bit : ~HasBit(b, x)
<1>1. b = 0 => ~HasBit(b, 0) /\ ~HasBit(b, 1) /\ ~HasBit(b, 2)
               /\ ~HasBit(b, 3) /\ ~HasBit(b, 4) /\ ~HasBit(b, 5)
               /\ ~HasBit(b, 6) /\ ~HasBit(b, 7)
  BY DEF HasBit, Byte
<1>2. ~HasBit(b, 0) /\ ~HasBit(b, 1) /\ ~HasBit(b, 2) /\ ~HasBit(b, 3)
      /\ ~HasBit(b, 4) /\ ~HasBit(b, 5) /\ ~HasBit(b, 6) /\ ~HasBit(b, 7)
        => b = 0
  BY DEF HasBit, Byte
<1> QED
  BY <1>1, <1>2 DEF Bit

(* prio_unmap_table, 256 entries, finds the lowest bit that is set.        *)
LEMMA UnmapFindsLowest ==
    /\ Unmap(0) = 0
    /\ \A b \in Byte \ {0} : Lowest(b, Unmap(b))
<1>1. Unmap(0) = 0
  BY DEF Unmap, prio_unmap_table
<1>2. ASSUME NEW b \in Byte \ {0}
      PROVE  Lowest(b, Unmap(b))
  <2> DEFINE bit(x) == (b \div 2^x) % 2
             low == IF bit(0) = 1 THEN 0 ELSE IF bit(1) = 1 THEN 1
                    ELSE IF bit(2) = 1 THEN 2 ELSE IF bit(3) = 1 THEN 3
                    ELSE IF bit(4) = 1 THEN 4 ELSE IF bit(5) = 1 THEN 5
                    ELSE IF bit(6) = 1 THEN 6 ELSE 7
  <2>1. Unmap(b) = low
    BY SMTT(60) DEF Unmap, prio_unmap_table, Byte
  <2>2. bit(7) = 1 \/ low # 7
    BY DEF Byte
  <2>3. Lowest(b, low)
    <3>1. \A x \in Bit : HasBit(b, x) <=> bit(x) = 1
      BY DEF HasBit
    <3>2. low \in Bit /\ bit(low) = 1
      BY <2>2 DEF Bit
    <3>3. \A y \in 0 .. low - 1 : bit(y) # 1
      <4>1. /\ low > 0 => bit(0) # 1
            /\ low > 1 => bit(1) # 1
            /\ low > 2 => bit(2) # 1
            /\ low > 3 => bit(3) # 1
            /\ low > 4 => bit(4) # 1
            /\ low > 5 => bit(5) # 1
            /\ low > 6 => bit(6) # 1
        OBVIOUS
      <4>2. \A y \in 0 .. low - 1 : y \in 0 .. 6 /\ low > y
        BY <3>2 DEF Bit
      <4> HIDE DEF bit, low
      <4> QED
        BY <4>1, <4>2
    <3> QED
      BY <3>1, <3>2, <3>3 DEF Lowest, Bit
  <2> QED
    BY <2>1, <2>3
<1> QED
  BY <1>1, <1>2
----------------------------------------------------------------------------
(* The invariant holds the agreement of the bits with the array. *)
LEMMA BitsByParts ==
    ASSUME Inv
    PROVE  /\ BitsAgree
           /\ \A p \in Prio : HasBit(run_bits[p \div 8], p % 8)
                                <=> run_list[p] # NULL
<1>1. ASSUME NEW p \in Prio
      PROVE  HasBit(run_bits[p \div 8], p % 8) <=> run_list[p] # NULL
  <2>1. p \div 8 \in Group /\ p % 8 \in Bit /\ p = 8 * (p \div 8) + (p % 8)
    BY PrioParts
  <2> DEFINE g == p \div 8
             x == p % 8
  <2>2. g \in Group /\ x \in Bit /\ p = 8 * g + x
    BY <2>1
  <2> HIDE DEF g, x
  <2>3. HasBit(run_bits[g], x) <=> run_list[p] # NULL
    BY <2>2 DEF Inv
  <2> QED
    BY <2>3 DEF g, x
<1>2. ASSUME NEW g \in Group
      PROVE  HasBit(group_run_bits, g) <=> run_bits[g] # 0
  BY PrioParts DEF Inv
<1> QED
  BY <1>1, <1>2 DEF BitsAgree, HasBit

(* The table lookups compute the minimum, and 0 on an empty queue. *)
LEMMA HighestIsMinimum ==
    ASSUME Inv
    PROVE  /\ highest_prio \in Prio
           /\ highest_prio = ReadyQueue!HighestPrio(run_list)
<1> DEFINE O == {p \in Prio : run_list[p] # NULL}
<1>1. ReadyQueue!Occupied(run_list) = O /\ ReadyQueue!Prio = Prio
  BY OsMaxTasksAssumption
  DEF ReadyQueue!Occupied, ReadyQueue!Prio, ReadyQueue!IDLE_PRIO, Prio
<1>2. /\ group_run_bits \in Byte
      /\ \A g \in Group : run_bits[g] \in Byte
  BY DEF Inv, TypeOK
<1>3. CASE group_run_bits = 0
  <2>1. \A g \in Bit : ~HasBit(group_run_bits, g)
    BY <1>2, <1>3, ZeroByte
  <2>2. \A g \in Group : run_bits[g] = 0
    BY <2>1, PrioParts DEF Inv
  <2>3. highest_prio = 8 * 0 + 0
    BY <1>3, <2>2, UnmapFindsLowest, PrioParts DEF highest_prio
  <2>4. O = {}
    <3> SUFFICES ASSUME NEW p \in Prio PROVE run_list[p] = NULL
      OBVIOUS
    <3>1. p \div 8 \in Group /\ p % 8 \in Bit
      BY PrioParts
    <3>2. ~HasBit(run_bits[p \div 8], p % 8)
      BY <1>2, <2>2, <3>1, ZeroByte
    <3> QED
      BY <3>2, BitsByParts
  <2>5. 0 \in Prio
    BY OsMaxTasksAssumption DEF Prio
  <2> QED
    BY <1>1, <2>3, <2>4, <2>5 DEF ReadyQueue!HighestPrio
<1>4. CASE group_run_bits # 0
  <2> DEFINE y == Unmap(group_run_bits)
             x == Unmap(run_bits[y])
             h == 8 * y + x
  <2>1. Lowest(group_run_bits, y)
    BY <1>2, <1>4, UnmapFindsLowest
  <2>2. y \in Group /\ run_bits[y] # 0 /\ run_bits[y] \in Byte
    BY <1>2, <2>1 DEF Lowest, Inv
  <2>3. Lowest(run_bits[y], x)
    BY <2>2, UnmapFindsLowest
  <2>4. highest_prio = h
    BY DEF highest_prio
  <2> HIDE DEF x, y
  <2>5. x \in Bit /\ h \in Prio /\ run_list[h] # NULL
    BY <2>2, <2>3, PrioParts DEF Lowest, Inv
  <2>6. ASSUME NEW p \in Prio, run_list[p] # NULL
        PROVE  h <= p
    <3>1. /\ p \div 8 \in Group /\ p % 8 \in Bit
          /\ p \div 8 \in Bit /\ p = 8 * (p \div 8) + (p % 8)
          /\ HasBit(run_bits[p \div 8], p % 8)
      BY <2>6, PrioParts, BitsByParts
    <3>2. run_bits[p \div 8] # 0
      BY <1>2, <3>1, ZeroByte
    <3>3. HasBit(group_run_bits, p \div 8)
      BY <3>1, <3>2 DEF Inv
    <3>4. \A a, b \in Bit : ~(a < b) \/ a \in 0 .. b - 1
      BY DEF Bit
    <3>5. y \in Bit /\ ~(p \div 8 < y)
      BY <2>1, <3>1, <3>3, <3>4 DEF Lowest
    <3>6. p \div 8 = y => ~(p % 8 < x)
      BY <2>3, <2>5, <3>1, <3>4 DEF Lowest
    <3>7. \A a, b, c, d \in Bit :
            ~(a < b) /\ (a = b => ~(c < d)) => 8 * b + d <= 8 * a + c
      BY DEF Bit
    <3> QED
      <4> DEFINE a == p \div 8
                 c == p % 8
      <4>1. /\ a \in Bit /\ c \in Bit /\ p = 8 * a + c
            /\ ~(a < y) /\ (a = y => ~(c < x))
            /\ y \in Bit /\ x \in Bit
        BY <2>5, <3>1, <3>5, <3>6
      <4> HIDE DEF a, c
      <4> QED
        BY <3>7, <4>1
  <2>7. h \in O /\ \A p \in O : h <= p
    BY <2>5, <2>6
  <2>8. \A q \in O : (\A p \in O : q <= p) => q = h
    <3>1. \A q \in O : q \in Nat
      BY PrioParts
    <3> HIDE DEF O, h
    <3> QED
      BY <2>7, <3>1
  <2>9. ReadyQueue!Min(O) = h
    <3> DEFINE c == CHOOSE q \in O : \A p \in O : q <= p
    <3>1. c \in O /\ \A p \in O : c <= p
      BY <2>7
    <3>2. ReadyQueue!Min(O) = c
      BY DEF ReadyQueue!Min
    <3> HIDE DEF c
    <3> QED
      BY <2>8, <3>1, <3>2
  <2>10. O # {}
    BY <2>7
  <2> HIDE DEF O
  <2> QED
    BY <1>1, <2>4, <2>5, <2>9, <2>10 DEF ReadyQueue!HighestPrio
<1> QED
  BY <1>3, <1>4
----------------------------------------------------------------------------
LEMMA InvInit ==
    ASSUME run_list = Empty.list, run_bits = Empty.bits, group_run_bits = 0
    PROVE  Inv
<1>1. /\ \A p \in Prio : run_list[p] = NULL
      /\ \A g \in Group : run_bits[g] = 0
      /\ run_list \in [Prio -> {a[1] : a \in Adds} \cup {NULL}]
      /\ 0 \in Byte
  BY DEF Empty, Byte
<1>2. run_bits \in [Group -> Byte]
  BY <1>1 DEF Empty
<1>3. \A x \in Bit : ~HasBit(0, x)
  BY <1>1, ZeroByte
<1> QED
  BY <1>1, <1>2, <1>3, PrioParts DEF Inv, TypeOK

LEMMA AddKeeps ==
    ASSUME Inv, NEW a \in Adds, runqueue_add(a[1], a[2])
    PROVE  Inv'
<1> DEFINE tcb == a[1]
           prio == a[2]
           y == prio \div 8
           x == prio % 8
<1>1. tcb # NULL /\ prio \in Prio
  BY AddsAssumption DEF Prio
<1>2. y \in Group /\ x \in Bit /\ prio = 8 * y + x
  <2> HIDE DEF prio
  <2> QED
    BY <1>1, PrioParts
<1>3. /\ group_run_bits' = SetBit(group_run_bits, y)
      /\ run_bits' = [run_bits EXCEPT ![y] = SetBit(@, x)]
      /\ run_list' = [run_list EXCEPT ![prio] = IF @ = NULL THEN tcb ELSE @]
  BY DEF runqueue_add
<1>0. tcb \in {b[1] : b \in Adds}
  OBVIOUS
<1> HIDE DEF tcb, prio, x, y
<1>4. /\ run_list \in [Prio -> {b[1] : b \in Adds} \cup {NULL}]
      /\ run_bits \in [Group -> Byte] /\ group_run_bits \in Byte
      /\ y \in Bit /\ run_bits[y] \in Byte
  BY <1>2, PrioParts DEF Inv, TypeOK
<1>5. /\ SetBit(run_bits[y], x) \in Byte
      /\ \A z \in Bit : HasBit(SetBit(run_bits[y], x), z)
                          <=> z = x \/ HasBit(run_bits[y], z)
  BY <1>2, <1>4, SetBitFacts
<1>6. /\ group_run_bits' \in Byte
      /\ \A g \in Bit : HasBit(group_run_bits', g)
                          <=> g = y \/ HasBit(group_run_bits, g)
  BY <1>3, <1>4, SetBitFacts
<1>7. TypeOK'
  <2>1. run_list' \in [Prio -> {b[1] : b \in Adds} \cup {NULL}]
    BY <1>0, <1>1, <1>3, <1>4
  <2>2. run_bits' \in [Group -> Byte]
    BY <1>3, <1>4, <1>5
  <2> QED
    BY <1>6, <2>1, <2>2 DEF TypeOK
<1>8. ASSUME NEW g \in Group, NEW z \in Bit
      PROVE  HasBit(run_bits'[g], z) <=> run_list'[8 * g + z] # NULL
  <2>1. /\ 8 * g + z \in Prio
        /\ 8 * g + z = prio <=> g = y /\ z = x
    <3>1. \A c, d \in Bit, e, h \in Bit :
            8 * c + e = 8 * d + h <=> c = d /\ e = h
      BY DEF Bit
    <3>2. 8 * g + z \in Prio /\ g \in Bit /\ y \in Bit
      BY <1>2, PrioParts
    <3> QED
      BY <1>2, <3>1, <3>2
  <2>2. /\ run_bits'[g] = IF g = y THEN SetBit(run_bits[y], x) ELSE run_bits[g]
        /\ run_list'[8 * g + z] # NULL
             <=> 8 * g + z = prio \/ run_list[8 * g + z] # NULL
    BY <1>1, <1>3, <1>4, <2>1
  <2>3. HasBit(run_bits[g], z) <=> run_list[8 * g + z] # NULL
    BY DEF Inv
  <2> QED
    BY <1>5, <2>1, <2>2, <2>3
<1>9. ASSUME NEW g \in Bit
      PROVE  HasBit(group_run_bits', g) <=> g \in Group /\ run_bits'[g] # 0
  <2>1. HasBit(group_run_bits, g) <=> g \in Group /\ run_bits[g] # 0
    BY DEF Inv
  <2>2. CASE g # y
    <3>1. g \in Group => run_bits'[g] = run_bits[g]
      BY <1>3, <1>4, <2>2
    <3> QED
      BY <1>6, <2>1, <2>2, <3>1
  <2>3. CASE g = y
    <3>1. run_bits'[y] = SetBit(run_bits[y], x)
      BY <1>2, <1>3, <1>4
    <3>2. HasBit(run_bits'[y], x) /\ run_bits'[y] \in Byte
      BY <1>2, <1>5, <3>1
    <3>3. run_bits'[y] # 0
      BY <1>2, <3>2, ZeroByte
    <3> QED
      BY <1>2, <1>6, <2>3, <3>3
  <2> QED
    BY <2>2, <2>3
<1> QED
  BY <1>7, <1>8, <1>9 DEF Inv

LEMMA RemoveKeeps ==
    ASSUME Inv, NEW prio \in Prio, runqueue_remove(prio)
    PROVE  Inv'
<1> DEFINE y == prio \div 8
           x == prio % 8
           left == ClearBit(run_bits[y], x)
<1>2. y \in Group /\ x \in Bit /\ prio = 8 * y + x
  BY PrioParts
<1>3. /\ run_list' = [run_list EXCEPT ![prio] = NULL]
      /\ run_bits' = [run_bits EXCEPT ![y] = left]
      /\ group_run_bits' = IF left = 0 THEN ClearBit(group_run_bits, y)
                           ELSE group_run_bits
  BY DEF runqueue_remove
<1> HIDE DEF x, y
<1>4. /\ run_list \in [Prio -> {b[1] : b \in Adds} \cup {NULL}]
      /\ run_bits \in [Group -> Byte] /\ group_run_bits \in Byte
      /\ y \in Bit /\ run_bits[y] \in Byte
  BY <1>2, PrioParts DEF Inv, TypeOK
<1>5. /\ left \in Byte
      /\ \A z \in Bit : HasBit(left, z) <=> z # x /\ HasBit(run_bits[y], z)
  BY <1>2, <1>4, ClearBitFacts
<1> HIDE DEF left
<1>6. /\ group_run_bits' \in Byte
      /\ \A g \in Bit : HasBit(group_run_bits', g)
                          <=> ~(g = y /\ left = 0) /\ HasBit(group_run_bits, g)
  <2>1. CASE left = 0
    BY <1>3, <1>4, <2>1, ClearBitFacts
  <2>2. CASE left # 0
    BY <1>3, <1>4, <2>2
  <2> QED
    BY <2>1, <2>2
<1>7. TypeOK'
  <2>1. run_list' \in [Prio -> {b[1] : b \in Adds} \cup {NULL}]
    BY <1>3, <1>4
  <2>2. run_bits' \in [Group -> Byte]
    BY <1>3, <1>4, <1>5
  <2> QED
    BY <1>6, <2>1, <2>2 DEF TypeOK
<1>8. ASSUME NEW g \in Group, NEW z \in Bit
      PROVE  HasBit(run_bits'[g], z) <=> run_list'[8 * g + z] # NULL
  <2>1. /\ 8 * g + z \in Prio
        /\ 8 * g + z = prio <=> g = y /\ z = x
    <3>1. \A c, d \in Bit, e, h \in Bit :
            8 * c + e = 8 * d + h <=> c = d /\ e = h
      BY DEF Bit
    <3>2. 8 * g + z \in Prio /\ g \in Bit /\ y \in Bit
      BY <1>2, PrioParts
    <3> QED
      BY <1>2, <3>1, <3>2
  <2>2. /\ run_bits'[g] = IF g = y THEN left ELSE run_bits[g]
        /\ run_list'[8 * g + z] # NULL
             <=> 8 * g + z # prio /\ run_list[8 * g + z] # NULL
    BY <1>3, <1>4, <2>1
  <2>3. HasBit(run_bits[g], z) <=> run_list[8 * g + z] # NULL
    BY DEF Inv
  <2> QED
    BY <1>5, <2>1, <2>2, <2>3
<1>9. ASSUME NEW g \in Bit
      PROVE  HasBit(group_run_bits', g) <=> g \in Group /\ run_bits'[g] # 0
  <2>1. HasBit(group_run_bits, g) <=> g \in Group /\ run_bits[g] # 0
    BY DEF Inv
  <2>2. CASE g # y
    <3>1. g \in Group => run_bits'[g] = run_bits[g]
      BY <1>3, <1>4, <2>2
    <3> QED
      BY <1>6, <2>1, <2>2, <3>1
  <2>3. CASE g = y
    <3>1. run_bits'[y] = left
      BY <1>2, <1>3, <1>4
    <3>2. left # 0 => run_bits[y] # 0
      <4>1. run_bits[y] = 0 => \A z \in Bit : ~HasBit(run_bits[y], z)
        BY <1>4, ZeroByte
      <4>2. (\A z \in Bit : ~HasBit(left, z)) => left = 0
        BY <1>5, ZeroByte
      <4> QED
        BY <1>5, <4>1, <4>2
    <3> QED
      BY <1>2, <1>6, <2>1, <2>3, <3>1, <3>2
  <2> QED
    BY <2>2, <2>3
<1> QED
  BY <1>7, <1>8, <1>9 DEF Inv

(* Adds, dispatches and resets, in any order, keep the bits right. *)
THEOREM Invariant == Spec => []Inv
<1>1. Init => Inv
  BY InvInit DEF Init
<1>2. ASSUME Inv, [Next]_vars PROVE Inv'
  <2>1. CASE \E a \in Adds : runqueue_add(a[1], a[2])
    BY <1>2, <2>1, AddKeeps
  <2>2. CASE runqueue_remove(highest_prio)
    BY <1>2, <2>2, HighestIsMinimum, RemoveKeeps
  <2>3. CASE runqueue_init
    <3>1. /\ \A p \in Prio : run_list'[p] = NULL
          /\ \A g \in Group : run_bits'[g] = 0
          /\ run_list' \in [Prio -> {a[1] : a \in Adds} \cup {NULL}]
          /\ 0 \in Byte /\ group_run_bits' = 0
      BY <2>3 DEF runqueue_init, Empty, Byte
    <3>2. run_bits' \in [Group -> Byte]
      BY <2>3, <3>1 DEF runqueue_init, Empty
    <3>3. \A x \in Bit : ~HasBit(0, x)
      BY <3>1, ZeroByte
    <3> QED
      BY <3>1, <3>2, <3>3, PrioParts DEF Inv, TypeOK
  <2>4. CASE UNCHANGED vars
    BY <1>2, <2>4 DEF vars, Inv, TypeOK
  <2> QED
    BY <1>2, <2>1, <2>2, <2>3, <2>4 DEF Next
<1> QED
  BY <1>1, <1>2, PTL DEF Spec
----------------------------------------------------------------------------
(* run_bits and group_run_bits stay bytes, and run_list has what was added.*)
THEOREM TypeCorrect == Spec => []TypeOK
<1>1. Inv => TypeOK
  BY DEF Inv
<1> QED
  BY <1>1, Invariant, PTL

(* A bit is set exactly when its slot, or its group, is not empty.         *)
THEOREM BitsAlwaysAgree == Spec => []BitsAgree
<1>1. Inv => BitsAgree
  BY BitsByParts
<1> QED
  BY <1>1, Invariant, PTL

(* run_queue.c, with its bitmaps and its table, implements the ready queue *)
(* that the kernel's model is built on: a map and the minimum of its keys. *)
THEOREM QueueImplemented == Spec => ImplementsReadyQueue
<1>1. ReadyQueue!Prio = Prio
  BY OsMaxTasksAssumption DEF ReadyQueue!Prio, ReadyQueue!IDLE_PRIO, Prio
<1>2. Init => ReadyQueue!Init
  BY <1>1 DEF Init, Empty, ReadyQueue!Init, ReadyQueue!EmptyRunList
<1>3. ASSUME Inv, [Next]_vars
      PROVE  [ReadyQueue!Next]_(ReadyQueue!vars)
  <2>1. ASSUME NEW a \in Adds, runqueue_add(a[1], a[2])
        PROVE  ReadyQueue!Add(a[1], a[2])
    <3>1. a[2] \in Prio /\ run_list \in [Prio -> {b[1] : b \in Adds} \cup {NULL}]
      BY <1>3, AddsAssumption DEF Prio, Inv, TypeOK
    <3>2. /\ run_list' = [run_list EXCEPT ![a[2]] = IF @ = NULL THEN a[1] ELSE @]
          /\ result' = result
      BY <2>1 DEF runqueue_add
    <3>3. run_list' = ReadyQueue!RunqueueAdd(run_list, a[1], a[2])
      <4>1. CASE run_list[a[2]] = NULL
        BY <3>1, <3>2, <4>1 DEF ReadyQueue!RunqueueAdd
      <4>2. CASE run_list[a[2]] # NULL
        <5>1. run_list' = run_list
          BY <3>1, <3>2, <4>2
        <5> QED
          BY <4>2, <5>1 DEF ReadyQueue!RunqueueAdd
      <4> QED
        BY <4>1, <4>2
    <3> QED
      BY <3>2, <3>3 DEF ReadyQueue!Add
  <2>2. CASE runqueue_remove(highest_prio)
    BY <1>3, <2>2, HighestIsMinimum
    DEF runqueue_remove, ReadyQueue!Dispatch, ReadyQueue!RunqueueRemove,
        ReadyQueue!Next
  <2>3. CASE runqueue_init
    BY <1>1, <2>3 DEF runqueue_init, Empty, ReadyQueue!Reset,
                      ReadyQueue!EmptyRunList, ReadyQueue!Next
  <2>4. CASE UNCHANGED vars
    BY <2>4 DEF vars, ReadyQueue!vars
  <2>5. CASE \E a \in Adds : runqueue_add(a[1], a[2])
    BY <2>1, <2>5 DEF ReadyQueue!Next
  <2> QED
    BY <1>3, <2>2, <2>3, <2>4, <2>5 DEF Next
<1> QED
  BY <1>2, <1>3, Invariant, PTL
  DEF Spec, ImplementsReadyQueue, ReadyQueue!Spec
=============================================================================
