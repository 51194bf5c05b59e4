----------------------------- MODULE Exceptions -----------------------------
(***************************************************************************)
(* How the kernel is entered and left: S_Handler (system calls), the       *)
(* assembly around irqHandler, and the context switch in between, down to  *)
(* the processor status registers.  What the handlers do in C is reduced   *)
(* to whether interrupts are off and whether another task is switched to.  *)
(*                                                                         *)
(* The supervisor mode has a single banked SPSR.  It is live from the      *)
(* exception to the instruction that saves it, and from the instruction    *)
(* that restores it to the return; ctx_switch_full does not save it.       *)
(***************************************************************************)
EXTENDS Integers, Sequences

CONSTANTS
    Task,           \* the tasks that task_create makes
    Main,           \* the program that runs before there are tasks
    MaxFrames       \* bound on the exceptions on one kernel stack

ASSUME MainAssumption == Main \notin Task
ASSUME MaxFramesAssumption == MaxFrames \in Nat \ {0}

VARIABLES
    cpsr,           \* mode, and whether interrupts are enabled
    spsr,           \* SPSR_svc
    cur,            \* the thread that has the processor
    at,             \* per thread: its next instruction, see Label
    stack,          \* per thread: the exceptions on its kernel stack
    struck          \* history: an interrupt came while SPSR_svc was live for
                    \* the way between this task and its exception

vars == <<cpsr, spsr, cur, at, stack, struck>>

Thread == Task \cup {Main}
Psr == [mode : {"usr", "svc"}, irq : BOOLEAN]
User == [mode |-> "usr", irq |-> TRUE]
Supervisor(irq) == [mode |-> "svc", irq |-> irq]

SwiLabel == {"mrs_spsr", "C_SWI_Handler", "critical", "swi_back", "ldr_spsr",
             "movs"}
IrqLabel == {"irqHandler", "irq_back", "ldm_spsr", "ldm_pc"}
Label == {"gone", "launch_task", "task"} \cup SwiLabel \cup IrqLabel

(* psr is the status word on the stack, back where the exception came from. *)
Frame == [psr : Psr, back : Label]

(* Threads that ctx_switch can switch to. *)
SwitchedOut == {"launch_task", "swi_back", "irq_back"}

top == Head(stack[cur])
Goto(label) == at' = [at EXCEPT ![cur] = label]

(* user_mode.S: main runs in user mode with interrupts enabled. *)
Init ==
    /\ cpsr = User
    /\ spsr \in Psr
    /\ cur = Main
    /\ at = [t \in Thread |-> IF t = Main THEN "task" ELSE "gone"]
    /\ stack = [t \in Thread |-> <<>>]
    /\ struck = [t \in Thread |-> FALSE]
----------------------------------------------------------------------------
(* System calls. *)

(* The SWI exception and S_Handler up to the msr that enables interrupts.  *)
(* What a task does that has come back in supervisor mode is not modelled: *)
(* it runs on the kernel's stack pointer.                                  *)
Swi ==
    /\ at[cur] = "task"
    /\ cpsr.mode = "usr"
    /\ spsr' = cpsr
    /\ cpsr' = Supervisor(TRUE)
    /\ stack' = [stack EXCEPT ![cur] = <<[psr |-> cpsr, back |-> "task"]>> \o @]
    /\ Goto("mrs_spsr")
    /\ UNCHANGED <<cur, struck>>

(* "get SPSR into gp registers" and onto the stack, over the space that    *)
(* was left for it.                                                        *)
SaveSpsr ==
    /\ at[cur] = "mrs_spsr"
    /\ stack' = [stack EXCEPT ![cur][1].psr = spsr]
    /\ Goto("C_SWI_Handler")
    /\ UNCHANGED <<cpsr, spsr, cur, struck>>

(* A call that leaves interrupts enabled. *)
HandlerReturn ==
    /\ at[cur] = "C_SWI_Handler"
    /\ Goto("ldr_spsr")
    /\ UNCHANGED <<cpsr, spsr, cur, stack, struck>>

HandlerDisable ==
    /\ at[cur] = "C_SWI_Handler"
    /\ cpsr' = Supervisor(FALSE)
    /\ Goto("critical")
    /\ UNCHANGED <<spsr, cur, stack, struck>>

(* Back from a critical section, before or after a switch; one path of     *)
(* dev_wait (EHOLDSLOCK) does not enable interrupts.                       *)
CriticalReturn ==
    /\ at[cur] \in {"critical", "swi_back"}
    /\ \/ cpsr' = Supervisor(TRUE)
       \/ at[cur] = "critical" /\ UNCHANGED cpsr
    /\ Goto("ldr_spsr")
    /\ UNCHANGED <<spsr, cur, stack, struck>>

RestoreSpsrMissing ==       \* mutant: no msr spsr before the return
    /\ at[cur] = "ldr_spsr"
    /\ Goto("movs")
    /\ UNCHANGED <<cpsr, spsr, cur, stack, struck>>

RestoreSpsr ==
    /\ at[cur] = "ldr_spsr"
    /\ spsr' = top.psr
    /\ Goto("movs")
    /\ UNCHANGED <<cpsr, cur, stack, struck>>

MovsKeeping ==              \* mutant: the space for the SPSR is not given back
    /\ at[cur] = "movs"
    /\ cpsr' = spsr
    /\ Goto("task")
    /\ UNCHANGED <<spsr, cur, stack, struck>>

MovPlain ==                 \* mutant: mov for movs
    /\ at[cur] = "movs"
    /\ stack' = [stack EXCEPT ![cur] = Tail(@)]
    /\ Goto("task")
    /\ UNCHANGED <<cpsr, spsr, cur, struck>>

(* movs pc, lr *)
Movs ==
    /\ at[cur] = "movs"
    /\ cpsr' = spsr
    /\ stack' = [stack EXCEPT ![cur] = Tail(@)]
    /\ Goto("task")
    /\ UNCHANGED <<spsr, cur, struck>>
----------------------------------------------------------------------------
(* Context switches. *)

(* ctx_switch_full to some thread, the same one included: neither the CPSR *)
(* nor the SPSR is touched.  (Nothing makes main wait.)                    *)
CtxSwitchFull(back) ==
    /\ cur # Main
    /\ \E t \in {u \in Thread : at[u] \in SwitchedOut} \cup {cur} : cur' = t
    /\ Goto(back)
    /\ UNCHANGED <<cpsr, spsr, stack, struck>>

SwiSwitch == at[cur] = "critical" /\ CtxSwitchFull("swi_back")

(* allocate_tasks: every task starts anew on an empty kernel stack. *)
TaskCreate ==
    /\ at[cur] = "critical"
    /\ cur' \in Task
    /\ at' = [t \in Thread |-> IF t = Main THEN "gone" ELSE "launch_task"]
    /\ stack' = [t \in Thread |-> <<>>]
    /\ struck' = [t \in Thread |-> FALSE]
    /\ UNCHANGED <<cpsr, spsr>>

(* launch_task: msr cpsr_c, #(PSR_MODE_USR) *)
LaunchTask ==
    /\ at[cur] = "launch_task"
    /\ cpsr' = User
    /\ Goto("task")
    /\ UNCHANGED <<spsr, cur, stack, struck>>
----------------------------------------------------------------------------
(* Interrupts. *)

(* SPSR_svc holds what decides the mode that the task will run in. *)
SpsrLive ==
    \/ at[cur] \in {"mrs_spsr", "movs"}
    \/ at[cur] = "ldm_pc" /\ top.back = "task"

(* The IRQ exception and irqHandlerAsm up to irqHandler, all with          *)
(* interrupts off: SPSR_irq goes to SPSR_svc and onto the stack.           *)
Irq ==
    /\ cpsr.irq
    /\ Len(stack[cur]) < MaxFrames
    /\ spsr' = cpsr
    /\ stack' = [stack EXCEPT ![cur] = <<[psr |-> cpsr, back |-> at[cur]]>> \o @]
    /\ cpsr' = Supervisor(FALSE)
    /\ struck' = [struck EXCEPT ![cur] = @ \/ SpsrLive]
    /\ Goto("irqHandler")
    /\ UNCHANGED cur

(* irqHandler: dev_update ends with enable_interrupts, also after a        *)
(* dispatch; an interrupt that is not the timer's changes nothing.         *)
IrqHandlerReturn ==
    /\ at[cur] \in {"irqHandler", "irq_back"}
    /\ \/ cpsr' = Supervisor(TRUE)
       \/ at[cur] = "irqHandler" /\ UNCHANGED cpsr
    /\ Goto("ldm_spsr")
    /\ UNCHANGED <<spsr, cur, stack, struck>>

IrqSwitch == at[cur] = "irqHandler" /\ CtxSwitchFull("irq_back")

IrqRestoreMissing ==        \* mutant: the spsr is not restored
    /\ at[cur] = "ldm_spsr"
    /\ Goto("ldm_pc")
    /\ UNCHANGED <<cpsr, spsr, cur, stack, struck>>

(* "Restore registers.  Also restore CPSR": to SPSR_svc first ... *)
IrqRestore ==
    /\ at[cur] = "ldm_spsr"
    /\ spsr' = top.psr
    /\ Goto("ldm_pc")
    /\ UNCHANGED <<cpsr, cur, stack, struck>>

IrqReturnKeeping ==         \* mutant: the frame stays on the stack
    /\ at[cur] = "ldm_pc"
    /\ cpsr' = spsr
    /\ Goto(top.back)
    /\ UNCHANGED <<spsr, cur, stack, struck>>

(* ... and with the program counter to the CPSR: ldmfd sp!, {..., pc}^ *)
IrqReturn ==
    /\ at[cur] = "ldm_pc"
    /\ cpsr' = spsr
    /\ stack' = [stack EXCEPT ![cur] = Tail(@)]
    /\ Goto(top.back)
    /\ UNCHANGED <<spsr, cur, struck>>
----------------------------------------------------------------------------
Next ==
    \/ Swi \/ SaveSpsr \/ HandlerReturn \/ HandlerDisable \/ CriticalReturn
    \/ RestoreSpsr \/ Movs
    \/ SwiSwitch \/ TaskCreate \/ LaunchTask
    \/ Irq \/ IrqHandlerReturn \/ IrqSwitch \/ IrqRestore \/ IrqReturn

Spec == Init /\ [][Next]_vars
----------------------------------------------------------------------------
TypeOK ==
    /\ cpsr \in Psr /\ spsr \in Psr
    /\ cur \in Thread
    /\ at \in [Thread -> Label]
    /\ stack \in [Thread -> Seq(Frame)]
    /\ \A t \in Thread : Len(stack[t]) <= MaxFrames
    /\ struck \in [Thread -> BOOLEAN]

(* A thread in its own code has nothing left on its kernel stack, and one  *)
(* in the kernel has what brought it there: entries and returns match      *)
(* through every nesting and switch.                                       *)
StackBalanced ==
    \A t \in Thread :
        stack[t] = <<>> <=> at[t] \in {"gone", "launch_task", "task"}

(* A task's own code always runs with interrupts enabled: none of the ways *)
(* back leaves the timer locked out, not even the one on which dev_wait    *)
(* forgets enable_interrupts.                                              *)
InterruptsOnInTask == at[cur] = "task" => cpsr.irq

(* Kernel code that was interrupted goes on in supervisor mode, though     *)
(* other tasks ran in between and overwrote SPSR_svc; and a thread is      *)
(* switched to with interrupts off (ctx_switch.c:40: "needs to be          *)
(* externally synchronized").                                              *)
KernelResumed ==
    /\ at[cur] # "task" => cpsr.mode = "svc"
    /\ at[cur] \in SwitchedOut => ~cpsr.irq

(* A task comes back in supervisor mode exactly if an interrupt came where *)
(* SPSR_svc was live: nothing else that happens in between, no nesting and *)
(* no switch, changes the mode of a task.                                  *)
ModeLostIfStruck ==
    at[cur] = "task" => (cpsr.mode = "svc" <=> struck[cur])

(* irqHandler.S:34 overwrites SPSR_svc "because svc-mode (SWI) entry code  *)
(* saves it with IRQ disabled", so that a task interrupted on its way into *)
(* the kernel is still returned to in user mode (irqHandler.S:36).         *)
TasksInUserMode == at[cur] = "task" => cpsr.mode = "usr"
=============================================================================
