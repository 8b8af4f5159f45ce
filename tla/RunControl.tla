------------------------------ MODULE RunControl ------------------------------
(***************************************************************************)
(* The run gate of the emulated CPU and its one-slot interrupt mailbox.    *)
(*                                                                         *)
(* Threads: the CPU thread (run_cpu, run_op, op_prologue, stop_impl), the  *)
(* main thread (the polling loop at the end of main), the device threads   *)
(* that raise interrupts (the SDL timer threads, the audio thread, and the *)
(* CPU thread when it writes a device register: members of Devices)        *)
(* and the detached threads run_op starts for a ROM function.              *)
(*                                                                         *)
(* The threads share two atomics, cpu.run.stopping and cpu.inturrupt, and  *)
(* every access to one of them is a step of its own: do_irq is two steps   *)
(* (resume, then store), the test of the slot in op_prologue is two steps  *)
(* (load, then store -1) and the poll of main is two (load, then resume).  *)
(* ThreadController::wait is a guard on stopping: its loop re-reads the    *)
(* flag after each notification.                                           *)
(***************************************************************************)
EXTENDS Integers

CONSTANTS
  Devices,    \* threads that call do_irq
  Level,      \* Level[d]: the level device d passes to do_irq
  Masks,      \* the interrupt masks the guest program writes to SR
  Addrs,      \* abstract program counters
  RomStops,   \* the program counters in rom_stops
  RomFuncs,   \* the program counters in rom_funcs
  MainPolls,  \* TRUE: main runs its loop; FALSE: main serves the debugger (-d)
  MaxPosts,   \* bound: do_irq calls explored
  MaxRom      \* bound: ROM-function threads explored

ASSUME RunControlAssumption ==
  /\ Level \in [Devices -> 1..7]
  /\ Masks \subseteq 0..7
  /\ Addrs # {}
  /\ RomStops \subseteq Addrs
  /\ RomFuncs \subseteq Addrs
  /\ MainPolls \in BOOLEAN
  /\ MaxPosts \in Nat
  /\ MaxRom \in Nat

VARIABLES
  stopping,   \* cpu.run.stopping
  inturrupt,  \* cpu.inturrupt: 0 before the first do_irq, -1 once consumed
  I,          \* cpu.I, the interrupt mask
  PC,         \* cpu.PC
  cpu,        \* where the CPU thread is
  i,          \* op_prologue's local: the level it loaded
  main,       \* where the main thread is
  dev,        \* where each device thread is in do_irq
  rom,        \* number of ROM-function threads alive
  posted,     \* history: do_irq calls that have reached their store
  accepted    \* history: interrupt exceptions taken

vars == <<stopping, inturrupt, I, PC, cpu, i, main, dev, rom, posted, accepted>>
cpuVars == <<I, PC, cpu, i, accepted>>

CpuPlaces == {"gate", "check", "claim", "execute", "stop", "stopwait"}

Init ==
  /\ stopping = FALSE
  /\ inturrupt = 0
  /\ I = 7                     \* RESET
  /\ PC \in Addrs
  /\ cpu = "gate"
  /\ i = 0
  /\ main = "poll"
  /\ dev = [d \in Devices |-> "idle"]
  /\ rom = 0
  /\ posted = 0
  /\ accepted = 0

-----------------------------------------------------------------------------
(* Defects the properties below must catch: each is an action of this      *)
(* module as a slip in the code would change it.                           *)

\* handle_exception forgets "- 24" and stores the vector number as the mask.
MutClaimVectorAsMask ==
  /\ cpu = "claim"
  /\ inturrupt' = -1
  /\ I' = i + 24
  /\ PC' \in Addrs
  /\ accepted' = accepted + 1
  /\ cpu' = "gate"
  /\ UNCHANGED <<stopping, i, main, dev, rom, posted>>

\* op_prologue forgets to store -1.
MutClaimKeepsSlot ==
  /\ cpu = "claim"
  /\ I' = i
  /\ PC' \in Addrs
  /\ accepted' = accepted + 1
  /\ cpu' = "gate"
  /\ UNCHANGED <<stopping, inturrupt, i, main, dev, rom, posted>>

\* IRQ re-reads the slot instead of the local.
MutClaimReloads ==
  /\ cpu = "claim"
  /\ inturrupt' = -1
  /\ I' = IF inturrupt > 0 THEN inturrupt ELSE i
  /\ PC' \in Addrs
  /\ accepted' = accepted + 1
  /\ cpu' = "gate"
  /\ UNCHANGED <<stopping, i, main, dev, rom, posted>>

\* op_prologue compares with >= ...
MutWantedEqual(l) == l = 7 \/ l >= I

\* ... or one level too high.
MutWantedTooHigh(l) == l = 7 \/ l > I + 1

\* run_op starts the ROM function without cpu.run.stop().
MutStartRomFuncGateOpen ==
  /\ cpu = "check"
  /\ PC \notin RomStops
  /\ PC \in RomFuncs
  /\ rom < MaxRom
  /\ rom' = rom + 1
  /\ cpu' = "gate"
  /\ UNCHANGED <<stopping, inturrupt, I, PC, i, main, dev, posted, accepted>>

\* main resumes the CPU on every turn of its loop ...
MutMainPollAlways ==
  /\ MainPolls
  /\ main = "poll"
  /\ main' = "resume"
  /\ UNCHANGED <<stopping, inturrupt, dev, rom, posted>> /\ UNCHANGED cpuVars

\* ... or leaves the gate as it is.
MutMainResumeNothing ==
  /\ main = "resume"
  /\ main' = "poll"
  /\ UNCHANGED <<stopping, inturrupt, dev, rom, posted>> /\ UNCHANGED cpuVars

-----------------------------------------------------------------------------
(* The CPU thread.                                                         *)

\* cpu.run.wait() at the head of run_cpu's inner loop.
Gate ==
  /\ cpu = "gate"
  /\ ~stopping
  /\ cpu' = "check"
  /\ UNCHANGED <<stopping, inturrupt, I, PC, i, main, dev, rom, posted, accepted>>

\* The program counter is in rom_stops: close the gate, wait again.
HitRomStop ==
  /\ cpu = "check"
  /\ PC \in RomStops
  /\ stopping' = TRUE
  /\ cpu' = "gate"
  /\ UNCHANGED <<inturrupt, I, PC, i, main, dev, rom, posted, accepted>>

\* run_op at a ROM function: close the gate and start a thread that runs it.
StartRomFunc ==
  /\ cpu = "check"
  /\ PC \notin RomStops
  /\ PC \in RomFuncs
  /\ rom < MaxRom
  /\ stopping' = TRUE
  /\ rom' = rom + 1
  /\ cpu' = "gate"
  /\ UNCHANGED <<inturrupt, I, PC, i, main, dev, posted, accepted>>

Wanted(l) == l = 7 \/ l > I

\* op_prologue: load the slot once and decide from the value loaded.
LoadSlot ==
  /\ cpu = "check"
  /\ PC \notin RomStops \cup RomFuncs
  /\ i' = inturrupt
  /\ cpu' = IF Wanted(inturrupt) THEN "claim" ELSE "execute"
  /\ UNCHANGED <<stopping, inturrupt, I, PC, main, dev, rom, posted, accepted>>

\* op_prologue: store -1 whatever the slot holds by now, throw IRQ(i);
\* run_cpu catches it and handle_exception raises the mask and jumps.
ClaimSlot ==
  /\ cpu = "claim"
  /\ inturrupt' = -1
  /\ I' = i
  /\ PC' \in Addrs
  /\ accepted' = accepted + 1
  /\ cpu' = "gate"
  /\ UNCHANGED <<stopping, i, main, dev, rom, posted>>

\* Any instruction but STOP: it may load SR, it moves the program counter
\* (to a vector when it raises an exception).
Execute ==
  /\ cpu = "execute"
  /\ I' \in Masks \cup {I}
  /\ PC' \in Addrs
  /\ cpu' = "gate"
  /\ UNCHANGED <<stopping, inturrupt, i, main, dev, rom, posted, accepted>>

\* STOP #sr: the new SR is in force before the gate is closed.
StopLoadSR ==
  /\ cpu = "execute"
  /\ I' \in Masks
  /\ cpu' = "stop"
  /\ UNCHANGED <<stopping, inturrupt, PC, i, main, dev, rom, posted, accepted>>

StopCloseGate ==
  /\ cpu = "stop"
  /\ stopping' = TRUE
  /\ cpu' = "stopwait"
  /\ UNCHANGED <<inturrupt, I, PC, i, main, dev, rom, posted, accepted>>

StopWake ==
  /\ cpu = "stopwait"
  /\ ~stopping
  /\ PC' \in Addrs
  /\ cpu' = "gate"
  /\ UNCHANGED <<stopping, inturrupt, I, i, main, dev, rom, posted, accepted>>

CpuStep ==
  \/ Gate \/ HitRomStop \/ StartRomFunc \/ LoadSlot \/ ClaimSlot
  \/ Execute \/ StopLoadSR \/ StopCloseGate \/ StopWake

-----------------------------------------------------------------------------
(* The other threads.                                                      *)

\* do_irq, first statement: cpu.run.resume().
IrqResume(d) ==
  /\ dev[d] = "idle"
  /\ posted < MaxPosts
  /\ dev' = [dev EXCEPT ![d] = "resumed"]
  /\ stopping' = FALSE
  /\ UNCHANGED <<inturrupt, main, rom, posted>> /\ UNCHANGED cpuVars

\* do_irq, second statement: cpu.inturrupt.store(level).
IrqStore(d) ==
  /\ dev[d] = "resumed"
  /\ dev' = [dev EXCEPT ![d] = "idle"]
  /\ inturrupt' = Level[d]
  /\ posted' = posted + 1
  /\ UNCHANGED <<stopping, main, rom>> /\ UNCHANGED cpuVars

\* main: if(cpu.inturrupt.load()) -- 0 is the only value that is false.
MainPoll ==
  /\ MainPolls
  /\ main = "poll"
  /\ inturrupt # 0
  /\ main' = "resume"
  /\ UNCHANGED <<stopping, inturrupt, dev, rom, posted>> /\ UNCHANGED cpuVars

MainResume ==
  /\ main = "resume"
  /\ main' = "poll"
  /\ stopping' = FALSE
  /\ UNCHANGED <<inturrupt, dev, rom, posted>> /\ UNCHANGED cpuVars

\* A ROM function ends: it has set the program counter and lets the CPU run.
RomReturn ==
  /\ rom > 0
  /\ rom' = rom - 1
  /\ PC' \in Addrs
  /\ stopping' = FALSE
  /\ UNCHANGED <<inturrupt, I, cpu, i, main, dev, posted, accepted>>

Next ==
  \/ CpuStep
  \/ \E d \in Devices : IrqResume(d) \/ IrqStore(d)
  \/ MainPoll \/ MainResume \/ RomReturn

\* Each thread is scheduled by the OS: a thread that can run does run. A
\* device decides by itself whether to raise an interrupt (no fairness on
\* IrqResume), a do_irq that has begun ends.
Fairness ==
  /\ WF_vars(CpuStep)
  /\ WF_vars(MainPoll) /\ WF_vars(MainResume)
  /\ WF_vars(RomReturn)
  /\ \A d \in Devices : WF_vars(IrqStore(d))

Spec == Init /\ [][Next]_vars /\ Fairness

-----------------------------------------------------------------------------
(* Correctness.                                                            *)

TypeOK ==
  /\ stopping \in BOOLEAN
  /\ inturrupt \in -1..7
  /\ I \in 0..7
  /\ PC \in Addrs
  /\ cpu \in CpuPlaces
  /\ i \in -1..7
  /\ main \in {"poll", "resume"}
  /\ dev \in [Devices -> {"idle", "resumed"}]
  /\ rom \in Nat
  /\ posted \in Nat
  /\ accepted \in Nat

\* A level the 68040 delivers under mask m.
Deliverable(l, m) == l > 0 /\ (l = 7 \/ l > m)

\* The request the CPU thread is committed to, or else the one in the slot.
Pending ==
  IF cpu = "claim" THEN i
  ELSE IF inturrupt > 0 THEN inturrupt ELSE 0

PendingCount == IF Pending > 0 THEN 1 ELSE 0

\* No do_irq has reached either of its two statements.
Quiet == posted = 0 /\ \A d \in Devices : dev[d] = "idle"

\* Every interrupt exception consumes a do_irq of its own, although the slot
\* is loaded and reset in two steps that other stores may separate: no
\* request is delivered twice, none is made up (op_prologue's store(-1)).
AtMostOncePerPost == accepted + PendingCount <= posted

\* What the CPU thread is about to raise is a level some device asked for and
\* it still passes the mask when it is raised, although the slot and the mask
\* were examined in an earlier step (op_prologue's load, IRQ, handle_exception).
ClaimIsDeliverable ==
  cpu = "claim" => Deliverable(i, I) /\ \E d \in Devices : i = Level[d]

\* Until a first device calls do_irq, STOP is not left: neither the poll of
\* main nor a leftover resume opens the gate (main's loop, stop_impl).
StopHoldsUntilIrq == Quiet /\ cpu = "stopwait" => stopping

\* Until a first device calls do_irq, a ROM function has the machine to
\* itself: one thread, the CPU behind the gate (run_op's run.stop()).
RomFuncExclusive == Quiet /\ rom > 0 => rom = 1 /\ stopping /\ cpu = "gate"

\* A stopped CPU with a deliverable request in the slot runs again, although
\* do_irq opens the gate before it stores the level, so that STOP may close
\* the gate behind the resume: the poll in main makes up for the lost wake-up.
StopWakes ==
  (cpu = "stopwait" /\ Deliverable(inturrupt, I)) ~> cpu # "stopwait"

\* A deliverable request does not stay in the slot: it is taken, replaced by a
\* later do_irq, or the program masks it (op_prologue before every instruction),
\* unless the program goes through ROM stops and ROM functions without end:
\* run_op and run_cpu come to those without a look at the slot.
PendingIsServed ==
  \A l \in 1..7 :
    (inturrupt = l /\ Deliverable(l, I))
      ~> ~(inturrupt = l /\ Deliverable(l, I)) \/ PC \in RomStops \cup RomFuncs

\* The gate and the slot together implement a lossy one-place mailbox: a
\* request is lost only when a later one replaces it or when it arrives while
\* another deliverable one is being taken.
Mailbox == INSTANCE IrqMailbox WITH
             Levels <- {Level[d] : d \in Devices},
             pend <- Pending, mask <- I,
             lost <- posted - accepted - PendingCount

ImplementsMailbox == Mailbox!Spec
===============================================================================
