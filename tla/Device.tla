------------------------------- MODULE Device -------------------------------
(***************************************************************************)
(* kernel/device.c, kernel/irqHandler_c.c and event_wait: the simulated    *)
(* devices that release periodic tasks, driven by the timer interrupt.     *)
(*                                                                         *)
(* A device's sleep queue is kept as a set: dev_update empties it whole    *)
(* and puts each task in the run-queue slot of its own native priority, so *)
(* the order of the list never shows.                                      *)
(***************************************************************************)
EXTENDS Sched

CONSTANTS
    NUM_DEVICES,    \* device.h
    dev_freq,       \* device.c: period of each device, in timer ticks
    OSTMR_COUNT,    \* arm/timer.h: OSCR counts per timer tick
    Oscr,           \* the counts the OSCR may show when its interrupt is served
    WORD,           \* 2^w for the width w of unsigned long
    WaitArg         \* the device numbers clients pass to event_wait

ASSUME NumDevicesAssumption == NUM_DEVICES \in Nat \ {0}
ASSUME DevFreqAssumption == dev_freq \in [0 .. NUM_DEVICES - 1 -> Nat]
ASSUME TimerAssumption ==
    OSTMR_COUNT \in Nat \ {0} /\ WORD \in Nat \ {0} /\ Oscr \subseteq Nat
ASSUME WaitArgAssumption == WaitArg \subseteq Nat

VARIABLES
    sleep_q,        \* devices[].sleep_q; sleep_q[NUM_DEVICES] is the word
                    \* after the array, which event_wait lets clients reach
    next_match,     \* devices[].next_match
    system_time,    \* timer ticks since boot
    time_drift      \* OSCR counts not yet in system_time

deviceVars == <<sleep_q, next_match, system_time, time_drift>>

Device == 0 .. NUM_DEVICES - 1
QueueWord == 0 .. NUM_DEVICES

DeviceTypeOK ==
    /\ sleep_q \in [QueueWord -> SUBSET Tcb]
    /\ next_match \in [Device -> 0 .. WORD - 1]
    /\ system_time \in 0 .. WORD - 1
    /\ time_drift \in 0 .. OSTMR_COUNT - 1

(* Zero-initialised memory; the word after devices[] is taken to be zero. *)
DeviceInit ==
    /\ sleep_q = [q \in QueueWord |-> {}]
    /\ next_match = [d \in Device |-> 0]
    /\ system_time = 0
    /\ time_drift = 0

DevInitKeeping ==           \* mutant: next_match is not set
    /\ sleep_q' = [q \in QueueWord |-> IF q \in Device THEN {} ELSE sleep_q[q]]
    /\ UNCHANGED <<next_match, system_time, time_drift>>

(* dev_init: the match values do not take system_time into account. *)
DevInit ==
    /\ sleep_q' = [q \in QueueWord |-> IF q \in Device THEN {} ELSE sleep_q[q]]
    /\ next_match' = [d \in Device |-> dev_freq[d] % WORD]
    /\ UNCHANGED <<system_time, time_drift>>
----------------------------------------------------------------------------
(* event_wait: EINVAL, and EHOLDSLOCK of dev_wait. *)
EventWaitFails(dev) ==
    /\ Calling
    /\ dev > NUM_DEVICES \/ holds_lock[cur_tcb] # 0
    /\ UNCHANGED <<deviceVars, schedVars>>

(* event_wait and dev_wait; the test is `dev > NUM_DEVICES'. *)
EventWait(dev) ==
    /\ Calling
    /\ dev <= NUM_DEVICES
    /\ holds_lock[cur_tcb] = 0
    /\ sleep_q' = [sleep_q EXCEPT ![dev] = @ \cup {cur_tcb}]
    /\ DispatchSleep("dev_wait")
    /\ UNCHANGED <<next_match, system_time, time_drift, num_tasks, cur_prio,
                   holds_lock, pending>>

(* The rest of dev_wait after dispatch_sleep. *)
DevWaitReturn ==
    /\ Resume("dev_wait")
    /\ UNCHANGED <<deviceVars, num_tasks, run_list, cur_tcb, cur_prio,
                   holds_lock, pending>>

(* irqHandler on the counter: whole ticks go to system_time, the rest to   *)
(* time_drift, which carries.                                              *)
Carry(oscr) == IF time_drift + (oscr % OSTMR_COUNT) >= OSTMR_COUNT THEN 1 ELSE 0
Now(oscr) == (system_time + oscr \div OSTMR_COUNT + Carry(oscr)) % WORD
DriftKept(oscr) == time_drift + (oscr % OSTMR_COUNT)    \* mutant: no carry out
Drift(oscr) == time_drift + (oscr % OSTMR_COUNT) - Carry(oscr) * OSTMR_COUNT

DueLate(now) == {d \in Device : next_match[d] < now}     \* mutant: < for <=
Due(now) == {d \in Device : next_match[d] <= now}

(* dev_update(now): every device that is due advances by one period and    *)
(* gives up its sleepers; if there were any, the scheduler runs.           *)
DevUpdate(now) ==
    LET due   == Due(now)
        woken == UNION {sleep_q[d] : d \in due}
    IN  /\ next_match' = [d \in Device |->
                            IF d \in due THEN (next_match[d] + dev_freq[d]) % WORD
                            ELSE next_match[d]]
        /\ sleep_q' = [q \in QueueWord |-> IF q \in due THEN {} ELSE sleep_q[q]]
        /\ IF woken = {}
           THEN UNCHANGED schedVars
           ELSE /\ DispatchSave(RunqueueAddAll(run_list, woken),
                                cur_prio[cur_tcb], "dev_update")
                /\ UNCHANGED <<num_tasks, cur_prio, holds_lock, pending>>

(* irqHandler for the timer interrupt; any other interrupt changes nothing. *)
TimerIrq ==
    /\ irq_on
    /\ \E oscr \in Oscr :
         /\ system_time' = Now(oscr)
         /\ time_drift' = Drift(oscr)
         /\ DevUpdate(Now(oscr))

(* The rest of dev_update after dispatch_save, and of irqHandler. *)
DevUpdateReturn ==
    /\ Resume("dev_update")
    /\ UNCHANGED <<deviceVars, num_tasks, run_list, cur_tcb, cur_prio,
                   holds_lock, pending>>
=============================================================================
