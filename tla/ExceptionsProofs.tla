-------------------------- MODULE ExceptionsProofs --------------------------
(***************************************************************************)
(* Theorems about the entry code of the kernel, for any number of tasks    *)
(* and any depth of nesting.                                               *)
(***************************************************************************)
EXTENDS Exceptions, SequenceTheorems, TLAPS

(* Where an interrupt can come, apart from a task's own code. *)
Interruptible == {"mrs_spsr", "C_SWI_Handler", "ldr_spsr", "movs",
                  "ldm_spsr", "ldm_pc"}
(* Where interrupts are off in any case. *)
Masked == {"critical", "swi_back", "irqHandler", "irq_back", "launch_task"}
(* Where SPSR_svc, not the stack, has what the exception came from. *)
Live == {"mrs_spsr", "movs", "ldm_pc"}
NoFrame == {"gone", "launch_task", "task"}

(* A thread at label a with the exceptions s: the outermost one, the last  *)
(* of s, came from the task, the others from interruptible kernel code.    *)
Shape(a, s) ==
    /\ Len(s) = 0 <=> a \in NoFrame
    /\ a \in SwiLabel => Len(s) = 1
    /\ \A k \in 1 .. Len(s) :
         /\ k = Len(s) => s[k].back = "task" /\ s[k].psr.irq
         /\ k # Len(s) => /\ s[k].back \in Interruptible
                          /\ s[k].psr = Supervisor(TRUE)
         /\ s[k].back \in SwiLabel => k = Len(s) - 1

(* Where the thread is, or will be again, in its outermost exception. *)
Base(a, s) == IF Len(s) = 1 THEN a ELSE s[Len(s) - 1].back

(* The status word of the task is on the stack, or it is lost already if   *)
(* it was in SPSR_svc and the thread was interrupted.                      *)
Fate(a, s, x) ==
    Len(s) > 0 =>
        /\ Base(a, s) \notin Live => (s[Len(s)].psr.mode = "svc" <=> x)
        /\ Base(a, s) \in Live /\ Len(s) > 1 => x

(* The running thread: the CPSR and, where it is live, SPSR_svc. *)
Here(a, s, x, c, p) ==
    /\ a # "gone"
    /\ a = "task" => c.irq /\ (c.mode = "svc" <=> x)
    /\ a # "task" => c.mode = "svc"
    /\ a \in Masked => ~c.irq
    /\ a \in Live => /\ p.irq
                     /\ Len(s) = 1 => (p.mode = "svc" <=> x)
                     /\ Len(s) > 1 => p.mode = "svc"

Inv ==
    /\ TypeOK
    /\ \A t \in Thread : /\ Shape(at[t], stack[t])
                         /\ Fate(at[t], stack[t], struck[t])
                         /\ t # cur => at[t] \in SwitchedOut \cup {"gone"}
                         /\ at[t] = "launch_task" => ~struck[t]
    /\ Here(at[cur], stack[cur], struck[cur], cpsr, spsr)
----------------------------------------------------------------------------
(* An exception is pushed. *)
LEMMA PushFacts ==
    ASSUME NEW s \in Seq(Frame), NEW f \in Frame
    PROVE  /\ <<f>> \o s \in Seq(Frame)
           /\ Len(<<f>> \o s) = Len(s) + 1
           /\ (<<f>> \o s)[1] = f
           /\ \A k \in 1 .. Len(s) + 1 :
                (<<f>> \o s)[k] = IF k = 1 THEN f ELSE s[k - 1]
           /\ Len(s) \in Nat
<1>1. <<f>> \in Seq(Frame) /\ Len(<<f>>) = 1 /\ <<f>>[1] = f
  OBVIOUS
<1>2. Len(s) \in Nat
  BY LenProperties
<1>3. /\ <<f>> \o s \in Seq(Frame)
      /\ Len(<<f>> \o s) = Len(<<f>>) + Len(s)
      /\ \A k \in 1 .. Len(<<f>>) + Len(s) : (<<f>> \o s)[k] =
           IF k <= Len(<<f>>) THEN <<f>>[k] ELSE s[k - Len(<<f>>)]
  BY <1>1, ConcatProperties
<1> HIDE DEF Frame
<1> QED
  BY <1>1, <1>2, <1>3

(* An exception is taken off the stack. *)
LEMMA PopFacts ==
    ASSUME NEW s \in Seq(Frame), Len(s) > 0
    PROVE  /\ Tail(s) \in Seq(Frame)
           /\ Len(Tail(s)) = Len(s) - 1
           /\ \A k \in 1 .. Len(s) - 1 : Tail(s)[k] = s[k + 1]
           /\ Head(s) = s[1]
           /\ Len(s) \in Nat
<1>1. Len(s) \in Nat /\ s # <<>>
  BY LenProperties
<1> QED
  BY <1>1, HeadTailProperties

(* How deep the exceptions can be nested. *)
LEMMA Depths == \A n \in Nat : (n = 0 \/ n = 1 \/ n > 1) /\ (n > 1 => n # 1)
OBVIOUS

(* An interrupt keeps the form of the stack and the fate of the task. *)
LEMMA PushKeeps ==
    ASSUME NEW s \in Seq(Frame), NEW a \in Label, NEW x \in BOOLEAN,
           NEW c \in Psr, NEW p \in Psr, c.irq,
           Shape(a, s), Fate(a, s, x), Here(a, s, x, c, p),
           NEW y \in BOOLEAN,
           y = (x \/ a \in {"mrs_spsr", "movs"}
                  \/ (a = "ldm_pc" /\ Head(s).back = "task"))
    PROVE  LET q == <<[psr |-> c, back |-> a]>> \o s
           IN  /\ q \in Seq(Frame)
               /\ Len(q) = Len(s) + 1
               /\ Shape("irqHandler", q)
               /\ Fate("irqHandler", q, y)
<1> DEFINE f == [psr |-> c, back |-> a]
           q == <<f>> \o s
<1>1. f \in Frame
  BY DEF Frame
<1>0. Len(s) \in Nat
  BY LenProperties
<1>2. /\ q \in Seq(Frame)
      /\ Len(q) = Len(s) + 1
      /\ q[1] = f
      /\ \A k \in 1 .. Len(s) + 1 : q[k] = IF k = 1 THEN f ELSE s[k - 1]
      /\ Len(s) \in Nat
  BY <1>1, PushFacts
<1>3. f.psr = c /\ f.back = a
  OBVIOUS
<1> HIDE DEF f, q
<1>4. a \in {"task"} \cup Interruptible
  BY DEF Here, Masked, Label, SwiLabel, IrqLabel, Interruptible
<1>5. Len(s) > 0 => Head(s) = s[1]
  BY PopFacts
<1>6. c = [mode |-> c.mode, irq |-> TRUE]
  BY DEF Psr
<1>7. Shape("irqHandler", q)
  <2>1. Len(q) # 0 /\ "irqHandler" \notin NoFrame /\ "irqHandler" \notin SwiLabel
    BY <1>2 DEF NoFrame, SwiLabel
  <2>2. ASSUME NEW k \in 1 .. Len(q)
        PROVE  /\ k = Len(q) => q[k].back = "task" /\ q[k].psr.irq
               /\ k # Len(q) => /\ q[k].back \in Interruptible
                                /\ q[k].psr = Supervisor(TRUE)
               /\ q[k].back \in SwiLabel => k = Len(q) - 1
    <3>1. CASE k = 1
      <4>1. q[k] = f
        BY <1>2, <3>1
      <4>2. CASE Len(s) = 0
        BY <1>2, <1>3, <1>4, <3>1, <4>1, <4>2
        DEF Shape, NoFrame, Interruptible, SwiLabel
      <4>3. CASE Len(s) > 0
        <5>1. a \in Interruptible
          BY <1>4, <4>3 DEF Shape, NoFrame
        <5>2. c = Supervisor(TRUE)
          BY <1>6, <5>1 DEF Here, Interruptible, Supervisor
        <5>3. k # Len(q)
          BY <1>2, <3>1, <4>3
        <5>4. a \in SwiLabel => k = Len(q) - 1
          BY <1>2, <3>1 DEF Shape
        <5> QED
          BY <1>3, <4>1, <5>1, <5>2, <5>3, <5>4
      <4>4. Len(s) = 0 \/ Len(s) > 0
        BY <1>0
      <4> QED
        BY <4>2, <4>3, <4>4, Zenon
    <3>2. CASE k > 1
      <4>1. q[k] = s[k - 1] /\ k - 1 \in 1 .. Len(s)
        BY <1>2, <3>2
      <4>2. /\ k - 1 = Len(s) <=> k = Len(q)
            /\ k - 1 = Len(s) - 1 <=> k = Len(q) - 1
        BY <1>2, <3>2
      <4> QED
        BY <4>1, <4>2 DEF Shape
    <3>3. k = 1 \/ k > 1
      BY <1>0, <1>2
    <3> QED
      BY <3>1, <3>2, <3>3, Zenon
  <2> QED
    BY <2>1, <2>2 DEF Shape
<1>8. Fate("irqHandler", q, y)
  <2>1. CASE Len(s) = 0
    <3>1. a = "task"
      BY <1>4, <2>1 DEF Shape, NoFrame, Interruptible
    <3>2. Base("irqHandler", q) = "irqHandler" /\ q[Len(q)] = f
      BY <1>2, <2>1 DEF Base
    <3>3. y = x
      BY <3>1
    <3> QED
      BY <1>3, <3>1, <3>2, <3>3 DEF Fate, Here, Live
  <2>2. CASE Len(s) = 1
    <3>1. Base("irqHandler", q) = a /\ q[Len(q)] = s[Len(s)]
      BY <1>2, <1>3, <2>2 DEF Base
    <3>2. Base(a, s) = a
      BY <2>2 DEF Base
    <3>3. s[1].back = "task"
      BY <2>2 DEF Shape
    <3>4. y = (x \/ a \in Live)
      BY <1>5, <2>2, <3>3 DEF Live
    <3>5. CASE a \in Live
      BY <3>1, <3>4, <3>5 DEF Fate
    <3>6. CASE a \notin Live
      <4>1. s[Len(s)].psr.mode = "svc" <=> x
        BY <2>2, <3>2, <3>6 DEF Fate
      <4>2. y = x
        BY <3>4, <3>6
      <4> QED
        BY <3>1, <3>6, <4>1, <4>2, Zenon DEF Fate
    <3> QED
      BY <3>5, <3>6
  <2>3. CASE Len(s) > 1
    <3>1. Base("irqHandler", q) = Base(a, s) /\ q[Len(q)] = s[Len(s)]
      BY <1>2, <2>3 DEF Base
    <3>2. a \notin SwiLabel
      BY <1>2, <2>3 DEF Shape
    <3>3. 1 \in 1 .. Len(s) /\ 1 # Len(s)
      BY <1>2, <2>3
    <3>4. s[1].back \in Interruptible
      BY <3>3 DEF Shape
    <3>5. s[1].back # "task"
      BY <3>4 DEF Interruptible
    <3>6. Head(s).back # "task" /\ a \notin {"mrs_spsr", "movs"}
      BY <1>5, <2>3, <3>2, <3>5 DEF SwiLabel
    <3>7. y <=> x
      BY <3>6, Zenon
    <3>8. Len(s) > 0 /\ Len(q) > 1
      BY <1>2, <2>3
    <3>9. /\ Base(a, s) \notin Live => (s[Len(s)].psr.mode = "svc" <=> y)
          /\ Base(a, s) \in Live => y
      BY <2>3, <3>7, <3>8, Zenon DEF Fate
    <3> QED
      BY <3>1, <3>9, Zenon DEF Fate
  <2>4. Len(s) = 0 \/ Len(s) = 1 \/ Len(s) > 1
    BY <1>0, Depths, Zenon
  <2> QED
    BY <2>1, <2>2, <2>3, <2>4
<1> QED
  BY <1>2, <1>7, <1>8 DEF f, q

(* A return takes the status word from SPSR_svc, and keeps them as well. *)
LEMMA PopKeeps ==
    ASSUME NEW s \in Seq(Frame), NEW a \in {"movs", "ldm_pc"},
           NEW x \in BOOLEAN, NEW c \in Psr, NEW p \in Psr,
           Shape(a, s), Fate(a, s, x), Here(a, s, x, c, p)
    PROVE  /\ Len(s) > 0
           /\ a = "movs" => Head(s).back = "task"
           /\ Tail(s) \in Seq(Frame)
           /\ Len(Tail(s)) = Len(s) - 1
           /\ Head(s).back \in Label \ {"launch_task"}
           /\ Shape(Head(s).back, Tail(s))
           /\ Fate(Head(s).back, Tail(s), x)
           /\ Here(Head(s).back, Tail(s), x, p, p)
<1> DEFINE r == Tail(s)
           b == s[1].back
<1>0. Len(s) \in Nat /\ Len(s) > 0
  <2>1. Len(s) \in Nat
    BY LenProperties
  <2>2. Len(s) # 0
    BY DEF Shape, NoFrame
  <2> QED
    BY <2>1, <2>2
<1>1. /\ r \in Seq(Frame)
      /\ Len(r) = Len(s) - 1
      /\ \A k \in 1 .. Len(s) - 1 : r[k] = s[k + 1]
      /\ Head(s) = s[1]
  BY <1>0, PopFacts
<1>2. 1 \in 1 .. Len(s)
  BY <1>0
<1> HIDE DEF r
<1>3. a \in Live
  BY DEF Live
<1>4. p.irq /\ (Len(s) = 1 => (p.mode = "svc" <=> x))
            /\ (Len(s) > 1 => p.mode = "svc")
  BY <1>3, Zenon DEF Here
<1>5. CASE Len(s) = 1
  <2>1. b = "task"
    BY <1>2, <1>5 DEF Shape
  <2>2. Len(r) = 0
    BY <1>1, <1>5
  <2>3. Shape("task", r)
    BY <2>2 DEF Shape, NoFrame, SwiLabel
  <2>4. Fate("task", r, x)
    BY <2>2 DEF Fate
  <2>5. p.mode = "svc" <=> x
    BY <1>4, <1>5, Zenon
  <2>6. "task" \notin Masked /\ "task" \notin Live
    BY DEF Masked, Live
  <2>7. Here("task", r, x, p, p)
    BY <1>4, <2>5, <2>6, Zenon DEF Here
  <2>8. "task" \in Label \ {"launch_task"}
    BY DEF Label
  <2> QED
    BY <1>0, <1>1, <2>1, <2>2, <2>3, <2>4, <2>7, <2>8 DEF r
<1>6. CASE Len(s) > 1
  <2>0. Len(s) # 1 /\ Len(s) - 1 \in Nat
    BY <1>0, <1>6
  <2>1. a = "ldm_pc"
    BY <2>0 DEF Shape, SwiLabel
  <2>2. b \in Interruptible
    BY <1>2, <2>0 DEF Shape
  <2>3. /\ b \in Label /\ b \notin NoFrame /\ b \notin Masked
        /\ b # "gone" /\ b # "task" /\ b # "launch_task"
    BY <2>2
    DEF Interruptible, Label, SwiLabel, IrqLabel, NoFrame, Masked
  <2>4. /\ r[Len(r)] = s[Len(s)] /\ Len(r) > 0
        /\ Base(a, s) = s[Len(s) - 1].back
        /\ Base(b, r) = Base(a, s)
        /\ Len(r) = 1 => b = Base(a, s)
    <3>1. Len(s) \in Nat /\ Len(s) > 1 /\ Len(r) = Len(s) - 1
      BY <1>0, <1>1, <1>6
    <3>2. Len(r) \in 1 .. Len(s) - 1 /\ Len(r) + 1 = Len(s) /\ Len(r) > 0
      BY <3>1
    <3>3. r[Len(r)] = s[Len(s)]
      BY <1>1, <3>2
    <3>4. Base(a, s) = s[Len(s) - 1].back
      BY <2>0, Zenon DEF Base
    <3>5. CASE Len(r) = 1
      <4>1. Base(b, r) = b /\ Len(s) - 1 = 1
        BY <3>2, <3>1, <3>5 DEF Base
      <4> QED
        BY <3>2, <3>3, <3>4, <4>1
    <3>6. CASE Len(r) # 1
      <4>1. Len(r) - 1 \in 1 .. Len(s) - 1 /\ Len(r) - 1 + 1 = Len(s) - 1
        BY <3>1, <3>6
      <4>2. r[Len(r) - 1] = s[Len(s) - 1]
        BY <1>1, <4>1
      <4> QED
        BY <3>2, <3>3, <3>4, <3>6, <4>2 DEF Base
    <3> QED
      BY <3>5, <3>6
  <2>6. Shape(b, r)
    <3>1. Len(r) # 0
      BY <1>0, <1>1, <1>6
    <3>2. b \in SwiLabel => Len(r) = 1
      BY <1>0, <1>1, <1>2 DEF Shape
    <3>3. ASSUME NEW k \in 1 .. Len(r)
          PROVE  /\ k = Len(r) => r[k].back = "task" /\ r[k].psr.irq
                 /\ k # Len(r) => /\ r[k].back \in Interruptible
                                  /\ r[k].psr = Supervisor(TRUE)
                 /\ r[k].back \in SwiLabel => k = Len(r) - 1
      <4>1. r[k] = s[k + 1] /\ k + 1 \in 1 .. Len(s)
        BY <1>0, <1>1
      <4>2. /\ k + 1 = Len(s) <=> k = Len(r)
            /\ k + 1 = Len(s) - 1 <=> k = Len(r) - 1
        BY <1>0, <1>1
      <4> QED
        BY <4>1, <4>2 DEF Shape
    <3> QED
      BY <2>3, <3>1, <3>2, <3>3 DEF Shape
  <2>7. /\ Base(a, s) \notin Live => (s[Len(s)].psr.mode = "svc" <=> x)
        /\ Base(a, s) \in Live => x
    BY <1>0, <1>6, Zenon DEF Fate
  <2>8. Fate(b, r, x)
    BY <2>4, <2>7, Zenon DEF Fate
  <2>9. p.mode = "svc"
    BY <1>4, <1>6
  <2>10. b \in Live /\ Len(r) = 1 => (p.mode = "svc" <=> x)
    BY <2>4, <2>7, <2>9, Zenon
  <2>11. Here(b, r, x, p, p)
    BY <1>4, <2>3, <2>9, <2>10, Zenon DEF Here
  <2> QED
    BY <1>0, <1>1, <2>1, <2>3, <2>6, <2>8, <2>11 DEF r
<1>7. Len(s) = 1 \/ Len(s) > 1
  BY <1>0
<1> QED
  BY <1>5, <1>6, <1>7, Zenon

(* The thread goes on inside the exception that it is in. *)
LEMMA LabelKeeps ==
    ASSUME NEW s \in Seq(Frame), NEW x \in BOOLEAN,
           NEW a \in Label, NEW b \in Label,
           (a \in SwiLabel /\ b \in SwiLabel) \/ (a \in IrqLabel /\ b \in IrqLabel),
           a \notin Live, Shape(a, s), Fate(a, s, x)
    PROVE  Shape(b, s) /\ Fate(b, s, x)
<1>0. Len(s) \in Nat
  BY LenProperties
<1>1. a \notin NoFrame /\ b \notin NoFrame /\ (b \in SwiLabel => a \in SwiLabel)
  BY DEF SwiLabel, IrqLabel, NoFrame
<1>2. Len(s) # 0
  BY <1>1 DEF Shape
<1>3. Shape(b, s)
  BY <1>1 DEF Shape
<1>4. CASE Len(s) = 1
  <2>1. Base(a, s) = a /\ Base(b, s) = b
    BY <1>4 DEF Base
  <2>2. s[Len(s)].psr.mode = "svc" <=> x
    BY <1>4, <2>1 DEF Fate
  <2>3. ~(Len(s) > 1)
    BY <1>4
  <2> QED
    BY <1>3, <2>2, <2>3, Zenon DEF Fate
<1>5. CASE Len(s) > 1
  <2>0. Len(s) # 1
    BY <1>0, <1>5, Depths, Zenon
  <2>1. Base(b, s) = Base(a, s)
    BY <2>0 DEF Base
  <2> QED
    BY <1>3, <2>1, Zenon DEF Fate
<1> QED
  BY <1>0, <1>2, <1>4, <1>5, Depths, Zenon
----------------------------------------------------------------------------
(* A step of the running thread that touches its own state only. *)
LEMMA OwnStep ==
    ASSUME Inv, cur' = cur,
           NEW b \in Label, at' = [at EXCEPT ![cur] = b],
           NEW q \in Seq(Frame), Len(q) <= MaxFrames,
           stack' = [stack EXCEPT ![cur] = q],
           NEW y \in BOOLEAN, struck' = [struck EXCEPT ![cur] = y],
           cpsr' \in Psr, spsr' \in Psr,
           Shape(b, q), Fate(b, q, y), b = "launch_task" => ~y,
           Here(b, q, y, cpsr', spsr')
    PROVE  Inv'
<1>1. /\ cur \in Thread
      /\ at \in [Thread -> Label]
      /\ stack \in [Thread -> Seq(Frame)]
      /\ struck \in [Thread -> BOOLEAN]
  BY DEF Inv, TypeOK
<1>2. at'[cur] = b /\ stack'[cur] = q /\ struck'[cur] = y
  BY <1>1
<1>3. \A t \in Thread \ {cur} :
        at'[t] = at[t] /\ stack'[t] = stack[t] /\ struck'[t] = struck[t]
  BY <1>1
<1>4. TypeOK'
  <2>1. /\ at' \in [Thread -> Label] /\ struck' \in [Thread -> BOOLEAN]
        /\ cur' \in Thread
    BY <1>1
  <2>2. stack' \in [Thread -> Seq(Frame)]
    BY <1>1
  <2>3. \A t \in Thread : Len(stack'[t]) <= MaxFrames
    BY <1>2, <1>3 DEF Inv, TypeOK
  <2> QED
    BY <2>1, <2>2, <2>3 DEF TypeOK
<1>5. ASSUME NEW t \in Thread
      PROVE  /\ Shape(at'[t], stack'[t])
             /\ Fate(at'[t], stack'[t], struck'[t])
             /\ t # cur => at'[t] \in SwitchedOut \cup {"gone"}
             /\ at'[t] = "launch_task" => ~struck'[t]
  <2>1. CASE t = cur
    BY <1>2, <2>1
  <2>2. CASE t # cur
    BY <1>3, <2>2 DEF Inv
  <2> QED
    BY <2>1, <2>2
<1>6. Here(at'[cur'], stack'[cur'], struck'[cur'], cpsr', spsr')
  BY <1>2
<1> QED
  BY <1>4, <1>5, <1>6 DEF Inv

(* What the invariant says of the running thread. *)
LEMMA Running ==
    ASSUME Inv
    PROVE  /\ cur \in Thread /\ cpsr \in Psr /\ spsr \in Psr
           /\ at[cur] \in Label
           /\ stack[cur] \in Seq(Frame) /\ Len(stack[cur]) \in Nat
           /\ Len(stack[cur]) <= MaxFrames
           /\ struck[cur] \in BOOLEAN
           /\ Shape(at[cur], stack[cur])
           /\ Fate(at[cur], stack[cur], struck[cur])
           /\ Here(at[cur], stack[cur], struck[cur], cpsr, spsr)
           /\ stack = [stack EXCEPT ![cur] = stack[cur]]
           /\ struck = [struck EXCEPT ![cur] = struck[cur]]
<1>1. /\ cur \in Thread /\ cpsr \in Psr /\ spsr \in Psr
      /\ at \in [Thread -> Label]
      /\ stack \in [Thread -> Seq(Frame)]
      /\ struck \in [Thread -> BOOLEAN]
      /\ Len(stack[cur]) <= MaxFrames
  BY DEF Inv, TypeOK
<1>2. at[cur] \in Label /\ stack[cur] \in Seq(Frame) /\ struck[cur] \in BOOLEAN
  BY <1>1
<1>3. Len(stack[cur]) \in Nat
  BY <1>2, LenProperties
<1>4. /\ stack = [stack EXCEPT ![cur] = stack[cur]]
      /\ struck = [struck EXCEPT ![cur] = struck[cur]]
  BY <1>1
<1>5. /\ Shape(at[cur], stack[cur])
      /\ Fate(at[cur], stack[cur], struck[cur])
      /\ Here(at[cur], stack[cur], struck[cur], cpsr, spsr)
  BY <1>1, Zenon DEF Inv
<1> QED
  BY <1>1, <1>2, <1>3, <1>4, <1>5, Zenon

(* A step inside an exception that moves the program counter only, from    *)
(* one place where SPSR_svc does not matter to another.                    *)
LEMMA Goes ==
    ASSUME Inv, NEW b \in Label, Goto(b),
           (at[cur] \in SwiLabel /\ b \in SwiLabel)
           \/ (at[cur] \in IrqLabel /\ b \in IrqLabel),
           at[cur] \notin Live, b \notin Live,
           cpsr' \in Psr, cpsr'.mode = "svc", b \in Masked => ~cpsr'.irq,
           UNCHANGED <<spsr, cur, stack, struck>>
    PROVE  Inv'
<1>1. Shape(b, stack[cur]) /\ Fate(b, stack[cur], struck[cur])
  BY Running, LabelKeeps
<1>2. b # "gone" /\ b # "task" /\ b # "launch_task"
  BY DEF SwiLabel, IrqLabel
<1>3. Here(b, stack[cur], struck[cur], cpsr', spsr')
  BY <1>2, Zenon DEF Here
<1> QED
  BY Running, OwnStep, <1>1, <1>2, <1>3 DEF Goto
----------------------------------------------------------------------------
(* One lemma for every group of actions. *)

LEMMA SwiKeeps == ASSUME Inv, Swi PROVE Inv'
<1> DEFINE s == stack[cur]
           f == [psr |-> cpsr, back |-> "task"]
           q == <<f>> \o s
<1>1. /\ at[cur] = "task" /\ cpsr.mode = "usr"
      /\ spsr' = cpsr /\ cpsr' = Supervisor(TRUE)
      /\ stack' = [stack EXCEPT ![cur] = q]
      /\ at' = [at EXCEPT ![cur] = "mrs_spsr"]
      /\ cur' = cur /\ struck' = struck
  BY DEF Swi, Goto
<1>2. cpsr.irq /\ ~struck[cur]
  BY <1>1, Running DEF Here
<1>3. Len(s) = 0
  BY <1>1, Running DEF Shape, NoFrame
<1>4. f \in Frame
  BY Running DEF Frame, Label
<1>5. q \in Seq(Frame) /\ Len(q) = 1 /\ q[1] = f
  <2> HIDE DEF f
  <2> QED
    BY Running, <1>3, <1>4, PushFacts
<1>6. f.psr = cpsr /\ f.back = "task"
  OBVIOUS
<1> HIDE DEF f, q
<1>7. Shape("mrs_spsr", q)
  BY <1>2, <1>5, <1>6 DEF Shape, NoFrame, SwiLabel
<1>8. Fate("mrs_spsr", q, struck[cur])
  BY <1>5 DEF Fate, Base, Live
<1>9. /\ cpsr' \in Psr /\ cpsr'.mode = "svc"
      /\ "mrs_spsr" \notin Masked /\ "mrs_spsr" \in Label
  BY <1>1 DEF Supervisor, Psr, Masked, Label, SwiLabel
<1>10. Here("mrs_spsr", q, struck[cur], cpsr', spsr')
  <2>1. spsr'.irq /\ spsr'.mode # "svc" /\ ~struck[cur] /\ ~(Len(q) > 1)
    BY <1>1, <1>2, <1>5
  <2> QED
    BY <1>9, <2>1, Zenon DEF Here
<1>11. Len(q) <= MaxFrames
  BY <1>5, MaxFramesAssumption
<1> QED
  BY Running, OwnStep, <1>1, <1>5, <1>7, <1>8, <1>9, <1>10, <1>11

LEMMA SaveSpsrKeeps == ASSUME Inv, SaveSpsr PROVE Inv'
<1> DEFINE s == stack[cur]
           q == [s EXCEPT ![1].psr = spsr]
           b == "C_SWI_Handler"
<1>1. /\ at[cur] = "mrs_spsr"
      /\ stack' = [stack EXCEPT ![cur] = q]
      /\ at' = [at EXCEPT ![cur] = b]
      /\ cur' = cur /\ struck' = struck /\ cpsr' = cpsr /\ spsr' = spsr
  BY Running DEF SaveSpsr, Goto
<1>2. Len(s) = 1 /\ s[1].back = "task" /\ s[1] \in Frame
  <2>1. Len(s) = 1
    BY <1>1, Running DEF Shape, SwiLabel
  <2>2. 1 \in 1 .. Len(s)
    BY <2>1
  <2>3. s[1].back = "task"
    BY <2>1, <2>2, Running DEF Shape
  <2>4. s[1] \in Frame
    BY <2>2, Running, ElementOfSeq
  <2> QED
    BY <2>1, <2>3, <2>4
<1>3. spsr.irq /\ (spsr.mode = "svc" <=> struck[cur])
  BY <1>1, <1>2, Running DEF Here, Live
<1>4. /\ q \in Seq(Frame) /\ Len(q) = 1
      /\ q[1].psr = spsr /\ q[1].back = "task"
  <2>1. q = [s EXCEPT ![1] = [psr |-> spsr, back |-> "task"]]
    BY <1>2 DEF Frame
  <2>2. [psr |-> spsr, back |-> "task"] \in Frame
    BY Running DEF Frame, Label
  <2>3. 1 \in 1 .. Len(s)
    BY <1>2
  <2>4. q \in Seq(Frame) /\ Len(q) = Len(s)
    BY <2>1, <2>2, <2>3, Running, ExceptSeq
  <2>5. q[1] = [psr |-> spsr, back |-> "task"]
    BY <2>1, <2>2, <2>3, Running, ExceptSeq
  <2> HIDE DEF q
  <2> QED
    BY <1>2, <2>4, <2>5
<1> HIDE DEF q
<1>5. Shape(b, q)
  BY <1>3, <1>4 DEF Shape, NoFrame, SwiLabel
<1>6. Fate(b, q, struck[cur])
  <2>1. Base(b, q) = b /\ b \notin Live /\ q[Len(q)] = q[1]
    BY <1>4 DEF Base, Live
  <2> QED
    BY <1>3, <1>4, <2>1 DEF Fate
<1>7. cpsr.mode = "svc"
  BY <1>1, Running DEF Here
<1>8. /\ b \notin Live /\ b \notin Masked /\ b \in Label
      /\ b # "gone" /\ b # "task"
  BY DEF Live, Masked, Label, SwiLabel
<1>9. Here(b, q, struck[cur], cpsr', spsr')
  BY <1>1, <1>7, <1>8 DEF Here
<1>10. Len(q) <= MaxFrames
  BY <1>4, MaxFramesAssumption
<1>11. b # "launch_task" /\ cpsr' \in Psr /\ spsr' \in Psr
  BY <1>1, Running
<1> QED
  BY Running, OwnStep, <1>1, <1>4, <1>5, <1>6, <1>8, <1>9, <1>10, <1>11

(* The calls and interrupts that do not touch SPSR_svc. *)
LEMMA HandlerKeeps ==
    ASSUME Inv, HandlerReturn \/ HandlerDisable \/ CriticalReturn
                \/ IrqHandlerReturn
    PROVE  Inv'
<1>1. PICK b \in {"ldr_spsr", "critical", "ldm_spsr"} :
        /\ Goto(b)
        /\ \/ /\ at[cur] \in {"C_SWI_Handler", "critical", "swi_back"}
              /\ b \in {"ldr_spsr", "critical"}
           \/ at[cur] \in {"irqHandler", "irq_back"} /\ b = "ldm_spsr"
        /\ \/ cpsr' = cpsr /\ b # "critical"
           \/ cpsr' = Supervisor(TRUE) /\ b # "critical"
           \/ cpsr' = Supervisor(FALSE)
        /\ UNCHANGED <<spsr, cur, stack, struck>>
  <2>1. CASE HandlerReturn
    BY <2>1 DEF HandlerReturn
  <2>2. CASE HandlerDisable
    BY <2>2 DEF HandlerDisable
  <2>3. CASE CriticalReturn
    BY <2>3 DEF CriticalReturn
  <2>4. CASE IrqHandlerReturn
    BY <2>4 DEF IrqHandlerReturn
  <2> QED
    BY <2>1, <2>2, <2>3, <2>4
<1>2. /\ b \in Label /\ b \notin Live /\ at[cur] \notin Live
      /\ (at[cur] \in SwiLabel /\ b \in SwiLabel)
         \/ (at[cur] \in IrqLabel /\ b \in IrqLabel)
      /\ at[cur] # "task"
  BY <1>1 DEF Label, SwiLabel, IrqLabel, Live
<1>3. cpsr.mode = "svc" /\ cpsr \in Psr
  BY <1>2, Running DEF Here
<1>4. cpsr'.mode = "svc" /\ cpsr' \in Psr
  <2>1. CASE cpsr' = cpsr
    BY <1>3, <2>1
  <2>2. ASSUME NEW i \in BOOLEAN, cpsr' = Supervisor(i)
        PROVE  cpsr'.mode = "svc" /\ cpsr' \in Psr
    BY <2>2 DEF Supervisor, Psr
  <2> QED
    BY <1>1, <2>1, <2>2
<1>5. b \in Masked => ~cpsr'.irq
  BY <1>1 DEF Masked, Supervisor
<1> QED
  BY <1>1, <1>2, <1>4, <1>5, Goes

(* SPSR_svc is loaded from the stack. *)
LEMMA RestoreKeeps == ASSUME Inv, RestoreSpsr \/ IrqRestore PROVE Inv'
<1> DEFINE s == stack[cur]
<1>1. PICK b \in {"movs", "ldm_pc"} :
        /\ \/ at[cur] = "ldr_spsr" /\ b = "movs"
           \/ at[cur] = "ldm_spsr" /\ b = "ldm_pc"
        /\ spsr' = Head(s).psr
        /\ at' = [at EXCEPT ![cur] = b]
        /\ UNCHANGED <<cpsr, cur, stack, struck>>
  BY DEF RestoreSpsr, IrqRestore, Goto, top
<1>2. /\ b \in Label /\ b \notin Masked
      /\ b # "gone" /\ b # "task" /\ b # "launch_task"
      /\ at[cur] \notin Live /\ at[cur] \notin NoFrame /\ at[cur] # "task"
      /\ (at[cur] \in SwiLabel /\ b \in SwiLabel)
         \/ (at[cur] \in IrqLabel /\ b \in IrqLabel)
  BY <1>1 DEF Label, SwiLabel, IrqLabel, Masked, Live, NoFrame
<1>3. Len(s) \in Nat /\ Len(s) # 0
  BY <1>2, Running DEF Shape
<1>4. Len(s) > 0 /\ 1 \in 1 .. Len(s)
  BY <1>3
<1>5. Head(s) = s[1] /\ s[1] \in Frame
  BY <1>4, Running, PopFacts, ElementOfSeq
<1>6. Shape(b, s) /\ Fate(b, s, struck[cur])
  BY <1>2, Running, LabelKeeps
<1>7. Len(s) = 1 => spsr'.irq /\ (spsr'.mode = "svc" <=> struck[cur])
  <2> HAVE Len(s) = 1
  <2>1. s[1].psr.irq
    BY <1>4, Running DEF Shape
  <2>2. Base(at[cur], s) = at[cur]
    BY DEF Base
  <2>3. s[1].psr.mode = "svc" <=> struck[cur]
    BY <1>2, <1>4, <2>2, Running DEF Fate
  <2> QED
    BY <1>1, <1>5, <2>1, <2>3
<1>8. Len(s) > 1 => spsr'.irq /\ spsr'.mode = "svc"
  <2> HAVE Len(s) > 1
  <2>1. Len(s) # 1
    BY <1>3, Depths, Zenon
  <2>2. s[1].psr = Supervisor(TRUE)
    BY <1>4, <2>1, Running DEF Shape
  <2> QED
    BY <1>1, <1>5, <2>2 DEF Supervisor
<1>9. cpsr.mode = "svc"
  BY <1>2, Running DEF Here
<1>10. Len(s) = 1 \/ Len(s) > 1
  BY <1>3, Depths
<1>11. Here(b, s, struck[cur], cpsr', spsr')
  BY <1>1, <1>2, <1>7, <1>8, <1>9, <1>10, Zenon DEF Here
<1>12. cpsr' \in Psr /\ spsr' \in Psr
  BY <1>1, <1>5, Running DEF Frame
<1> QED
  BY Running, OwnStep, <1>1, <1>2, <1>6, <1>11, <1>12

(* The two returns. *)
LEMMA ReturnKeeps == ASSUME Inv, Movs \/ IrqReturn PROVE Inv'
<1> DEFINE s == stack[cur]
           b == Head(s).back
<1>1. /\ at[cur] \in {"movs", "ldm_pc"}
      /\ at' = [at EXCEPT ![cur] = IF at[cur] = "movs" THEN "task" ELSE b]
      /\ cpsr' = spsr /\ spsr' = spsr /\ cur' = cur /\ struck' = struck
      /\ stack' = [stack EXCEPT ![cur] = Tail(s)]
  <2>1. CASE Movs
    BY <2>1, Running DEF Movs, Goto
  <2>2. CASE IrqReturn
    BY <2>2, Running DEF IrqReturn, Goto, top
  <2> QED
    BY <2>1, <2>2
<1>2. /\ Len(s) > 0
      /\ at[cur] = "movs" => b = "task"
      /\ Tail(s) \in Seq(Frame)
      /\ Len(Tail(s)) = Len(s) - 1
      /\ b \in Label \ {"launch_task"}
      /\ Shape(b, Tail(s))
      /\ Fate(b, Tail(s), struck[cur])
      /\ Here(b, Tail(s), struck[cur], spsr, spsr)
  BY <1>1, Running, PopKeeps
<1>3. Len(Tail(s)) <= MaxFrames
  BY <1>2, Running, MaxFramesAssumption
<1>4. at' = [at EXCEPT ![cur] = b]
  BY <1>1, <1>2
<1> HIDE DEF b
<1>5. struck' = [struck EXCEPT ![cur] = struck[cur]] /\ spsr \in Psr
  BY <1>1, Running
<1>6. struck[cur] \in BOOLEAN
  BY Running
<1> QED
  BY OwnStep, <1>1, <1>2, <1>3, <1>4, <1>5, <1>6

LEMMA LaunchKeeps == ASSUME Inv, LaunchTask PROVE Inv'
<1>1. /\ at[cur] = "launch_task" /\ cpsr' = User
      /\ at' = [at EXCEPT ![cur] = "task"]
      /\ UNCHANGED <<spsr, cur, stack, struck>>
  BY DEF LaunchTask, Goto
<1>2. ~struck[cur]
  BY <1>1, Running DEF Inv
<1>3. Len(stack[cur]) = 0
  BY <1>1, Running DEF Shape, NoFrame
<1>4. /\ "task" \in Label /\ "task" \notin Masked /\ "task" \notin Live
      /\ User \in Psr /\ User.irq /\ User.mode # "svc"
  BY DEF Label, Masked, Live, User, Psr
<1>5. Shape("task", stack[cur]) /\ Fate("task", stack[cur], struck[cur])
  BY <1>3 DEF Shape, Fate, NoFrame, SwiLabel
<1>6. Here("task", stack[cur], struck[cur], cpsr', spsr')
  BY <1>1, <1>2, <1>4, Zenon DEF Here
<1> QED
  BY Running, OwnStep, <1>1, <1>4, <1>5, <1>6

LEMMA IrqKeeps == ASSUME Inv, Irq PROVE Inv'
<1> DEFINE s == stack[cur]
           q == <<[psr |-> cpsr, back |-> at[cur]]>> \o s
           y == struck[cur] \/ SpsrLive
<1>1. /\ cpsr.irq /\ Len(s) < MaxFrames
      /\ spsr' = cpsr /\ cpsr' = Supervisor(FALSE)
      /\ stack' = [stack EXCEPT ![cur] = q]
      /\ struck' = [struck EXCEPT ![cur] = y]
      /\ at' = [at EXCEPT ![cur] = "irqHandler"]
      /\ cur' = cur
  BY DEF Irq, Goto
<1>2. y \in BOOLEAN
  BY Running DEF SpsrLive
<1>3. y = (struck[cur] \/ at[cur] \in {"mrs_spsr", "movs"}
                      \/ (at[cur] = "ldm_pc" /\ Head(s).back = "task"))
  BY DEF SpsrLive, top
<1> HIDE DEF y
<1>4. /\ q \in Seq(Frame)
      /\ Len(q) = Len(s) + 1
      /\ Shape("irqHandler", q)
      /\ Fate("irqHandler", q, y)
  <2>1. /\ s \in Seq(Frame) /\ at[cur] \in Label /\ struck[cur] \in BOOLEAN
        /\ cpsr \in Psr /\ spsr \in Psr
        /\ Shape(at[cur], s) /\ Fate(at[cur], s, struck[cur])
        /\ Here(at[cur], s, struck[cur], cpsr, spsr)
    BY Running
  <2> QED
    BY <1>1, <1>2, <1>3, <2>1, PushKeeps, Zenon
<1>5. Len(q) <= MaxFrames
  BY <1>1, <1>4, Running, MaxFramesAssumption
<1>6. /\ "irqHandler" \in Label /\ "irqHandler" \notin Live
      /\ cpsr' \in Psr /\ spsr' \in Psr
      /\ cpsr'.mode = "svc" /\ ~cpsr'.irq
  BY <1>1, Running DEF Label, IrqLabel, Live, Supervisor, Psr
<1> HIDE DEF q
<1>7. Here("irqHandler", q, y, cpsr', spsr')
  BY <1>6, Zenon DEF Here
<1> QED
  BY OwnStep, <1>1, <1>2, <1>4, <1>5, <1>6, <1>7

(* The switch is made with interrupts off, to a thread that was switched   *)
(* away from in the same way or was never started.                         *)
LEMMA SwitchKeeps == ASSUME Inv, SwiSwitch \/ IrqSwitch PROVE Inv'
<1> DEFINE s == stack[cur]
<1>1. PICK b \in {"swi_back", "irq_back"} :
        /\ \/ at[cur] = "critical" /\ b = "swi_back"
           \/ at[cur] = "irqHandler" /\ b = "irq_back"
        /\ cur' = cur \/ (cur' \in Thread /\ at[cur'] \in SwitchedOut)
        /\ at' = [at EXCEPT ![cur] = b]
        /\ UNCHANGED <<cpsr, spsr, stack, struck>>
  BY DEF SwiSwitch, IrqSwitch, CtxSwitchFull, Goto
<1>2. /\ b \in Label /\ b \in SwitchedOut /\ b # "launch_task"
      /\ at[cur] \notin Live /\ at[cur] \in Masked /\ at[cur] # "task"
      /\ (at[cur] \in SwiLabel /\ b \in SwiLabel)
         \/ (at[cur] \in IrqLabel /\ b \in IrqLabel)
  BY <1>1 DEF Label, SwiLabel, IrqLabel, SwitchedOut, Live, Masked
<1>3. Shape(b, s) /\ Fate(b, s, struck[cur])
  BY <1>2, Running, LabelKeeps
<1>4. cpsr.mode = "svc" /\ ~cpsr.irq
  BY <1>2, Running, Zenon DEF Here
<1>5. at \in [Thread -> Label] /\ cur \in Thread /\ cur' \in Thread
  BY <1>1 DEF Inv, TypeOK
<1>6. TypeOK'
  BY <1>1, <1>2, <1>5 DEF Inv, TypeOK
<1>7. ASSUME NEW t \in Thread
      PROVE  /\ Shape(at'[t], stack'[t])
             /\ Fate(at'[t], stack'[t], struck'[t])
             /\ t # cur' => at'[t] \in SwitchedOut \cup {"gone"}
             /\ at'[t] = "launch_task" => ~struck'[t]
  <2>1. CASE t = cur
    <3>1. at'[t] = b /\ stack'[t] = s /\ struck'[t] = struck[cur]
      BY <1>1, <1>5, <2>1
    <3> QED
      BY <1>2, <1>3, <3>1
  <2>2. CASE t # cur
    <3>1. at'[t] = at[t] /\ stack'[t] = stack[t] /\ struck'[t] = struck[t]
      BY <1>1, <1>5, <2>2
    <3> QED
      BY <2>2, <3>1 DEF Inv
  <2> QED
    BY <2>1, <2>2
<1>8. at'[cur'] \in SwitchedOut
  BY <1>1, <1>2, <1>5
<1>9. at'[cur'] \notin Live /\ at'[cur'] # "gone" /\ at'[cur'] # "task"
  BY <1>8 DEF SwitchedOut, Live
<1>10. Here(at'[cur'], stack'[cur'], struck'[cur'], cpsr', spsr')
  <2>1. cpsr'.mode = "svc" /\ ~cpsr'.irq
    BY <1>1, <1>4
  <2> QED
    BY <1>9, <2>1, Zenon DEF Here
<1> QED
  BY <1>6, <1>7, <1>10 DEF Inv

LEMMA TaskCreateKeeps == ASSUME Inv, TaskCreate PROVE Inv'
<1>1. /\ at[cur] = "critical" /\ cur' \in Task
      /\ at' = [t \in Thread |-> IF t = Main THEN "gone" ELSE "launch_task"]
      /\ stack' = [t \in Thread |-> <<>>]
      /\ struck' = [t \in Thread |-> FALSE]
      /\ UNCHANGED <<cpsr, spsr>>
  BY DEF TaskCreate
<1>2. cpsr.mode = "svc" /\ ~cpsr.irq
  <2>1. at[cur] \in Masked /\ at[cur] # "task"
    BY <1>1 DEF Masked
  <2> QED
    BY <2>1, Running, Zenon DEF Here
<1>3. /\ "gone" \in NoFrame /\ "launch_task" \in NoFrame
      /\ "gone" \notin SwiLabel /\ "launch_task" \notin SwiLabel
      /\ "gone" \in Label /\ "launch_task" \in Label
      /\ "launch_task" \in SwitchedOut /\ "launch_task" \notin Live
  BY DEF NoFrame, SwiLabel, Label, SwitchedOut, Live
<1>4. /\ <<>> \in Seq(Frame) /\ Len(<<>>) = 0
      /\ \A k \in 1 .. Len(<<>>) : FALSE
  BY EmptySeq
<1>5. cur' \in Thread /\ cur' # Main
  BY <1>1, MainAssumption DEF Thread
<1>6. TypeOK'
  <2>1. cpsr' \in Psr /\ spsr' \in Psr
    BY <1>1, Running
  <2>2. at' \in [Thread -> Label] /\ struck' \in [Thread -> BOOLEAN]
    BY <1>1, <1>3
  <2>3. stack' \in [Thread -> Seq(Frame)]
    BY <1>1, <1>4
  <2>4. \A t \in Thread : Len(stack'[t]) <= MaxFrames
    BY <1>1, <1>4, MaxFramesAssumption
  <2> QED
    BY <1>5, <2>1, <2>2, <2>3, <2>4 DEF TypeOK
<1>7. ASSUME NEW t \in Thread
      PROVE  /\ Shape(at'[t], stack'[t])
             /\ Fate(at'[t], stack'[t], struck'[t])
             /\ t # cur' => at'[t] \in SwitchedOut \cup {"gone"}
             /\ at'[t] = "launch_task" => ~struck'[t]
  <2>1. /\ at'[t] \in {"gone", "launch_task"}
        /\ stack'[t] = <<>> /\ ~struck'[t]
    BY <1>1
  <2>2. /\ at'[t] \in NoFrame /\ at'[t] \notin SwiLabel
        /\ at'[t] \in SwitchedOut \cup {"gone"}
    BY <1>3, <2>1
  <2>3. Shape(at'[t], stack'[t])
    BY <1>4, <2>1, <2>2 DEF Shape
  <2>4. Fate(at'[t], stack'[t], struck'[t])
    BY <1>4, <2>1 DEF Fate
  <2> QED
    BY <2>1, <2>2, <2>3, <2>4
<1>8. Here(at'[cur'], stack'[cur'], struck'[cur'], cpsr', spsr')
  <2>1. at'[cur'] = "launch_task" /\ cpsr' = cpsr
    BY <1>1, <1>5
  <2>2. "launch_task" # "gone" /\ "launch_task" # "task"
    OBVIOUS
  <2> QED
    BY <1>2, <1>3, <2>1, <2>2, Zenon DEF Here
<1> QED
  BY <1>6, <1>7, <1>8 DEF Inv
----------------------------------------------------------------------------
LEMMA InitInv == Init => Inv
<1> SUFFICES ASSUME Init PROVE Inv
  OBVIOUS
<1>1. /\ cpsr = User /\ spsr \in Psr /\ cur = Main
      /\ at = [t \in Thread |-> IF t = Main THEN "task" ELSE "gone"]
      /\ stack = [t \in Thread |-> <<>>]
      /\ struck = [t \in Thread |-> FALSE]
  BY DEF Init
<1>2. /\ User \in Psr /\ User.irq /\ User.mode # "svc"
      /\ "gone" \in NoFrame /\ "task" \in NoFrame
      /\ "gone" \notin SwiLabel /\ "task" \notin SwiLabel
      /\ "gone" \in Label /\ "task" \in Label
      /\ "task" \notin Live /\ "task" \notin Masked
      /\ "task" # "gone" /\ "task" # "launch_task" /\ "gone" # "launch_task"
  BY DEF User, Psr, NoFrame, SwiLabel, Label, Live, Masked
<1>3. /\ <<>> \in Seq(Frame) /\ Len(<<>>) = 0
      /\ \A k \in 1 .. Len(<<>>) : FALSE
  BY EmptySeq
<1>4. TypeOK
  <2>1. at \in [Thread -> Label] /\ struck \in [Thread -> BOOLEAN] /\ cur \in Thread
    BY <1>1, <1>2 DEF Thread
  <2>2. stack \in [Thread -> Seq(Frame)]
    BY <1>1, <1>3
  <2>3. \A t \in Thread : Len(stack[t]) <= MaxFrames
    BY <1>1, <1>3, MaxFramesAssumption
  <2> QED
    BY <1>1, <1>2, <2>1, <2>2, <2>3 DEF TypeOK
<1>5. ASSUME NEW t \in Thread
      PROVE  /\ Shape(at[t], stack[t])
             /\ Fate(at[t], stack[t], struck[t])
             /\ t # cur => at[t] \in SwitchedOut \cup {"gone"}
             /\ at[t] = "launch_task" => ~struck[t]
  <2>1. /\ at[t] \in {"gone", "task"} /\ (t # cur => at[t] = "gone")
        /\ stack[t] = <<>> /\ ~struck[t]
    BY <1>1
  <2>2. at[t] \in NoFrame /\ at[t] \notin SwiLabel
    BY <1>2, <2>1
  <2>3. Shape(at[t], stack[t])
    BY <1>3, <2>1, <2>2 DEF Shape
  <2>4. Fate(at[t], stack[t], struck[t])
    BY <1>3, <2>1 DEF Fate
  <2> QED
    BY <2>1, <2>3, <2>4
<1>6. Here(at[cur], stack[cur], struck[cur], cpsr, spsr)
  <2>1. at[cur] = "task" /\ ~struck[cur]
    BY <1>1 DEF Thread
  <2> QED
    BY <1>1, <1>2, <2>1, Zenon DEF Here
<1> QED
  BY <1>4, <1>5, <1>6 DEF Inv

LEMMA NextInv == Inv /\ [Next]_vars => Inv'
<1> SUFFICES ASSUME Inv, [Next]_vars PROVE Inv'
  OBVIOUS
<1>1. CASE Next
  BY <1>1, SwiKeeps, SaveSpsrKeeps, HandlerKeeps, RestoreKeeps, ReturnKeeps,
     SwitchKeeps, TaskCreateKeeps, LaunchKeeps, IrqKeeps DEF Next
<1>2. CASE UNCHANGED vars
  BY <1>2 DEF vars, Inv, TypeOK
<1> QED
  BY <1>1, <1>2

LEMMA Invariance == Spec => []Inv
<1> QED
  BY InitInv, NextInv, PTL DEF Spec

(* The variables keep their types, and the kernel stacks their bound.      *)
THEOREM TypeCorrect == Spec => []TypeOK
<1>1. Inv => TypeOK
  BY DEF Inv
<1> QED
  BY Invariance, <1>1, PTL

(* A thread has something on its kernel stack exactly when it is in the    *)
(* kernel: S_Handler and irqHandlerAsm take off what they put there,       *)
(* however deep they are nested.                                           *)
THEOREM Balanced == Spec => []StackBalanced
<1>1. Inv => StackBalanced
  <2> SUFFICES ASSUME Inv, NEW t \in Thread
               PROVE  stack[t] = <<>> <=> at[t] \in NoFrame
    BY DEF StackBalanced, NoFrame
  <2>1. stack[t] \in Seq(Frame)
    BY DEF Inv, TypeOK
  <2>2. stack[t] = <<>> <=> Len(stack[t]) = 0
    BY <2>1, EmptySeq
  <2> QED
    BY <2>2 DEF Inv, Shape
<1> QED
  BY Invariance, <1>1, PTL

(* No way out of the kernel, not even the one on which dev_wait forgets    *)
(* enable_interrupts, leaves a task with its interrupts off.               *)
THEOREM TasksInterruptible == Spec => []InterruptsOnInTask
<1>1. Inv => InterruptsOnInTask
  BY DEF Inv, Here, InterruptsOnInTask
<1> QED
  BY Invariance, <1>1, PTL

(* Interrupted kernel code goes on in supervisor mode, and ctx_switch_full *)
(* always arrives with interrupts off, whatever ran in between.            *)
THEOREM Resumption == Spec => []KernelResumed
<1>1. SwitchedOut \subseteq Masked
  BY DEF SwitchedOut, Masked
<1>2. Inv => KernelResumed
  BY <1>1, Zenon DEF Inv, Here, KernelResumed
<1> QED
  BY Invariance, <1>2, PTL

(* The mode of a task changes in one way only: an interrupt comes while    *)
(* SPSR_svc is live between the task and its exception.                    *)
THEOREM ModeLoss == Spec => []ModeLostIfStruck
<1>1. Inv => ModeLostIfStruck
  BY Zenon DEF Inv, Here, ModeLostIfStruck
<1> QED
  BY Invariance, <1>1, PTL
=============================================================================
