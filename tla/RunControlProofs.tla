---------------------------- MODULE RunControlProofs ----------------------------
(* Proofs about RunControl, for every set of devices, levels and addresses.  *)
EXTENDS RunControl, TLAPS

\* TypeOK is not inductive: handle_exception stores the loaded level in cpu.I,
\* and only the test in op_prologue keeps the -1 of an empty slot out of there.
TypeInv == TypeOK /\ (cpu = "claim" => i \in 1..7)

\* The gate flag is a Boolean (stop stores true, resume stores false).
LEMMA GateFlagStep == stopping \in BOOLEAN /\ [Next]_vars => stopping' \in BOOLEAN
<1> SUFFICES ASSUME stopping \in BOOLEAN, [Next]_vars PROVE stopping' \in BOOLEAN
  OBVIOUS
<1>1. CASE UNCHANGED stopping
  BY <1>1
<1>2. CASE stopping' = TRUE
  BY <1>2
<1>3. CASE stopping' = FALSE
  BY <1>3
<1>4. \/ UNCHANGED stopping
      \/ stopping' = TRUE
      \/ stopping' = FALSE
  BY Zenon DEF Next, vars, CpuStep, Gate, HitRomStop, StartRomFunc, LoadSlot,
     ClaimSlot, Execute, StopLoadSR, StopCloseGate, StopWake, IrqResume,
     IrqStore, MainPoll, MainResume, RomReturn
<1> QED
  BY <1>1, <1>2, <1>3, <1>4

\* The other variables.
OthersTyped ==
  /\ inturrupt \in -1..7
  /\ I \in 0..7
  /\ PC \in Addrs
  /\ cpu \in CpuPlaces
  /\ i \in -1..7
  /\ main \in {"poll", "resume"}
  /\ dev \in [Devices -> {"idle", "resumed"}]
  /\ rom \in Nat
  /\ posted \in Nat
  /\ accepted \in Nat
  /\ cpu = "claim" => i \in 1..7

\* The gate flag and the other variables make up the typing invariant.
LEMMA TypeInvParts == TypeInv <=> stopping \in BOOLEAN /\ OthersTyped
  BY DEF TypeInv, TypeOK, OthersTyped

\* No step of any thread stores a value of another type (op_prologue, do_irq).
LEMMA OthersTypedStep == OthersTyped /\ [Next]_vars => OthersTyped'
<1> SUFFICES ASSUME OthersTyped, [Next]_vars PROVE OthersTyped'
  OBVIOUS
<1> USE RunControlAssumption DEF OthersTyped, CpuPlaces, cpuVars
<1>1. CASE CpuStep
  <2>1. CASE Gate \/ HitRomStop \/ StartRomFunc
    BY <2>1 DEF Gate, HitRomStop, StartRomFunc
  <2>2. CASE LoadSlot
    BY <2>2 DEF LoadSlot, Wanted
  <2>3. CASE ClaimSlot
    BY <2>3 DEF ClaimSlot
  <2>4. CASE Execute \/ StopLoadSR
    BY <2>4 DEF Execute, StopLoadSR
  <2>5. CASE StopCloseGate \/ StopWake
    BY <2>5 DEF StopCloseGate, StopWake
  <2> QED
    BY <1>1, <2>1, <2>2, <2>3, <2>4, <2>5 DEF CpuStep
<1>2. ASSUME NEW d \in Devices, IrqResume(d) PROVE OthersTyped'
  BY <1>2 DEF IrqResume
<1>3. ASSUME NEW d \in Devices, IrqStore(d) PROVE OthersTyped'
  BY <1>3 DEF IrqStore
<1>4. CASE MainPoll \/ MainResume \/ RomReturn
  BY <1>4 DEF MainPoll, MainResume, RomReturn
<1>5. CASE UNCHANGED vars
  BY <1>5 DEF vars
<1> QED
  BY <1>1, <1>2, <1>3, <1>4, <1>5 DEF Next

\* The typing invariant is kept by every step of every thread.
LEMMA TypeStep == TypeInv /\ [Next]_vars => TypeInv'
<1>1. TypeInv' <=> stopping' \in BOOLEAN /\ OthersTyped'
  BY DEF TypeInv, TypeOK, OthersTyped
<1> QED
  BY <1>1, TypeInvParts, GateFlagStep, OthersTypedStep

\* The machine starts well typed (main, RESET).
LEMMA TypeInit == Init => TypeInv
<1> SUFFICES ASSUME Init PROVE TypeInv
  OBVIOUS
<1>1. stopping \in BOOLEAN
  BY Zenon DEF Init
<1>2. OthersTyped
  BY RunControlAssumption DEF Init, OthersTyped, CpuPlaces
<1> QED
  BY <1>1, <1>2, TypeInvParts

\* The gate, the slot, the mask and the places of the threads are always well
\* typed: in particular the mask stays a level, although the slot holds -1 once
\* a request was consumed (op_prologue, IRQ, handle_exception).
THEOREM TypeCorrect == Spec => []TypeOK
<1>1. TypeInv => TypeOK
  BY DEF TypeInv
<1> QED
  BY <1>1, TypeInit, TypeStep, PTL DEF Spec

-----------------------------------------------------------------------------
(* The inductive invariant.                                                *)

\* A nonzero slot was stored by a do_irq, a positive one holds a device's level.
SlotProvenance ==
  /\ inturrupt # 0 => posted > 0
  /\ inturrupt > 0 => \E d \in Devices : inturrupt = Level[d]

\* The poll of main only decides to resume once a do_irq has stored a level.
PollProvenance == main = "resume" => posted > 0

IInv ==
  /\ TypeInv
  /\ AtMostOncePerPost
  /\ ClaimIsDeliverable
  /\ SlotProvenance
  /\ PollProvenance
  /\ StopHoldsUntilIrq
  /\ RomFuncExclusive

\* The machine starts with the invariant (main, RESET).
LEMMA IInvInit == Init => IInv
  BY RunControlAssumption, TypeInit
     DEF Init, IInv, AtMostOncePerPost, Pending,
         PendingCount, ClaimIsDeliverable, SlotProvenance, PollProvenance,
         StopHoldsUntilIrq, RomFuncExclusive

\* Delivery: accepted requests never outnumber the posted ones, and the level
\* being raised is a device's and passes the mask.
Delivery == AtMostOncePerPost /\ ClaimIsDeliverable /\ SlotProvenance

\* No step delivers a request twice, or one that is masked (op_prologue).
LEMMA DeliveryStep == IInv /\ [Next]_vars => Delivery'
<1> SUFFICES ASSUME IInv, [Next]_vars PROVE Delivery'
  OBVIOUS
<1> USE RunControlAssumption
    DEF IInv, TypeInv, TypeOK, CpuPlaces, Delivery, AtMostOncePerPost, Pending,
        PendingCount, ClaimIsDeliverable, Deliverable, SlotProvenance, cpuVars
<1>1. CASE CpuStep
  <2>1. CASE Gate \/ HitRomStop \/ StartRomFunc
    BY <2>1 DEF Gate, HitRomStop, StartRomFunc
  <2>2. CASE LoadSlot
    BY <2>2 DEF LoadSlot, Wanted
  <2>3. CASE ClaimSlot
    BY <2>3 DEF ClaimSlot
  <2>4. CASE Execute \/ StopLoadSR
    BY <2>4 DEF Execute, StopLoadSR
  <2>5. CASE StopCloseGate \/ StopWake
    BY <2>5 DEF StopCloseGate, StopWake
  <2> QED
    BY <1>1, <2>1, <2>2, <2>3, <2>4, <2>5 DEF CpuStep
<1>2. ASSUME NEW d \in Devices, IrqResume(d) PROVE Delivery'
  BY <1>2 DEF IrqResume
<1>3. ASSUME NEW d \in Devices, IrqStore(d) PROVE Delivery'
  <2>1. Level[d] \in 1..7
    OBVIOUS
  <2> QED
    BY <1>3, <2>1 DEF IrqStore
<1>4. CASE MainPoll \/ MainResume \/ RomReturn
  BY <1>4 DEF MainPoll, MainResume, RomReturn
<1>5. CASE UNCHANGED vars
  BY <1>5 DEF vars
<1> QED
  BY <1>1, <1>2, <1>3, <1>4, <1>5 DEF Next

\* The gate before the first do_irq: only RomReturn may open it, and not under
\* a STOP, because main polls a slot that is still 0.
GateQuiet == PollProvenance /\ StopHoldsUntilIrq /\ RomFuncExclusive

\* Before the first do_irq no step opens the gate (stop_impl, run_op, main).
LEMMA GateQuietStep == IInv /\ [Next]_vars => GateQuiet'
<1> SUFFICES ASSUME IInv, [Next]_vars PROVE GateQuiet'
  OBVIOUS
<1> USE RunControlAssumption
    DEF IInv, TypeInv, TypeOK, CpuPlaces, GateQuiet, SlotProvenance,
        PollProvenance, StopHoldsUntilIrq, RomFuncExclusive, Quiet, cpuVars
<1>1. CASE CpuStep
  <2>1. CASE Gate \/ HitRomStop \/ StartRomFunc
    BY <2>1 DEF Gate, HitRomStop, StartRomFunc
  <2>2. CASE LoadSlot
    BY <2>2 DEF LoadSlot
  <2>3. CASE ClaimSlot
    BY <2>3 DEF ClaimSlot
  <2>4. CASE Execute \/ StopLoadSR
    BY <2>4 DEF Execute, StopLoadSR
  <2>5. CASE StopCloseGate \/ StopWake
    BY <2>5 DEF StopCloseGate, StopWake
  <2> QED
    BY <1>1, <2>1, <2>2, <2>3, <2>4, <2>5 DEF CpuStep
<1>2. ASSUME NEW d \in Devices, IrqResume(d) PROVE GateQuiet'
  <2>1. dev'[d] = "resumed"
    BY <1>2 DEF IrqResume
  <2>2. ~Quiet'
    BY <2>1
  <2> QED
    BY <1>2, <2>2 DEF IrqResume
<1>3. ASSUME NEW d \in Devices, IrqStore(d) PROVE GateQuiet'
  <2>1. posted' > 0
    BY <1>3 DEF IrqStore
  <2> QED
    BY <1>3, <2>1 DEF IrqStore
<1>4. CASE MainPoll
  BY <1>4 DEF MainPoll
<1>5. CASE MainResume
  BY <1>5 DEF MainResume
<1>6. CASE RomReturn
  BY <1>6 DEF RomReturn
<1>7. CASE UNCHANGED vars
  BY <1>7 DEF vars
<1> QED
  BY <1>1, <1>2, <1>3, <1>4, <1>5, <1>6, <1>7 DEF Next

\* The invariant holds throughout (run_cpu, main, do_irq).
LEMMA Invariance == Spec => []IInv
<1>1. IInv /\ [Next]_vars => IInv'
  BY TypeStep, DeliveryStep, GateQuietStep DEF IInv, Delivery, GateQuiet
<1> QED
  BY <1>1, IInvInit, PTL DEF Spec

\* No request is delivered twice and none is made up, for every set of devices
\* and every interleaving of their do_irq with op_prologue's load and store.
THEOREM DeliveredAtMostOnce == Spec => []AtMostOncePerPost
<1>1. IInv => AtMostOncePerPost
  BY DEF IInv
<1> QED
  BY <1>1, Invariance, PTL

\* The level the CPU raises was asked for by a device and passes the mask.
THEOREM ClaimsDeliverable == Spec => []ClaimIsDeliverable
<1>1. IInv => ClaimIsDeliverable
  BY DEF IInv
<1> QED
  BY <1>1, Invariance, PTL

\* Until a device calls do_irq nothing opens the gate under STOP (stop_impl, main).
THEOREM GateHoldsUntilIrq == Spec => []StopHoldsUntilIrq
<1>1. IInv => StopHoldsUntilIrq
  BY DEF IInv
<1> QED
  BY <1>1, Invariance, PTL

\* Until a device calls do_irq a ROM function runs alone, the CPU at the gate
\* (run_op).
THEOREM RomFuncAlone == Spec => []RomFuncExclusive
<1>1. IInv => RomFuncExclusive
  BY DEF IInv
<1> QED
  BY <1>1, Invariance, PTL

-----------------------------------------------------------------------------
(* Refinement: the run gate and the slot implement IrqMailbox.             *)

\* The empty slot is the empty mailbox (main).
LEMMA MailboxInit == Init => Mailbox!Init
  BY DEF Init, Mailbox!Init, Pending, PendingCount

\* Every step of a thread is a step of the mailbox or leaves it alone
\* (op_prologue, do_irq).
LEMMA MailboxStep == IInv /\ [Next]_vars => [Mailbox!Next]_(Mailbox!vars)
<1> SUFFICES ASSUME IInv, [Next]_vars PROVE [Mailbox!Next]_(Mailbox!vars)
  OBVIOUS
<1> USE RunControlAssumption
    DEF IInv, TypeInv, TypeOK, CpuPlaces, Pending, PendingCount, cpuVars
<1> DEFINE Same == UNCHANGED Mailbox!vars
<1>1. CASE Gate \/ HitRomStop \/ StartRomFunc
  <2>1. Same
    BY <1>1 DEF Gate, HitRomStop, StartRomFunc, Mailbox!vars
  <2> QED
    BY <2>1
<1>2. CASE LoadSlot
  <2>1. Same
    BY <1>2 DEF LoadSlot, Wanted, Mailbox!vars
  <2> QED
    BY <2>1
<1>3. CASE ClaimSlot
  <2>1. Mailbox!Accept
    BY <1>3 DEF ClaimSlot, ClaimIsDeliverable, Deliverable, Mailbox!Accept,
                Mailbox!Acceptable
  <2> QED
    BY <2>1 DEF Mailbox!Next
<1>4. CASE Execute \/ StopLoadSR
  <2>1. Mailbox!SetMask
    BY <1>4 DEF Execute, StopLoadSR, Mailbox!SetMask
  <2> QED
    BY <2>1 DEF Mailbox!Next
<1>5. CASE StopCloseGate \/ StopWake
  <2>1. Same
    BY <1>5 DEF StopCloseGate, StopWake, Mailbox!vars
  <2> QED
    BY <2>1
<1>6. ASSUME NEW d \in Devices, IrqResume(d)
      PROVE  [Mailbox!Next]_(Mailbox!vars)
  <2>1. Same
    BY <1>6 DEF IrqResume, Mailbox!vars
  <2> QED
    BY <2>1
<1>7. ASSUME NEW d \in Devices, IrqStore(d)
      PROVE  [Mailbox!Next]_(Mailbox!vars)
  <2>1. Level[d] \in 1..7 /\ Level[d] \in {Level[e] : e \in Devices}
    OBVIOUS
  <2>2. CASE cpu = "claim"
    <3>1. Mailbox!Drop
      BY <1>7, <2>2 DEF IrqStore, ClaimIsDeliverable, Deliverable,
                        Mailbox!Drop, Mailbox!Acceptable
    <3> QED
      BY <3>1 DEF Mailbox!Next
  <2>3. CASE cpu # "claim"
    <3>1. Mailbox!Post(Level[d])
      BY <1>7, <2>1, <2>3 DEF IrqStore, Mailbox!Post
    <3> QED
      BY <2>1, <3>1 DEF Mailbox!Next
  <2> QED
    BY <2>2, <2>3
<1>8. CASE MainPoll \/ MainResume \/ RomReturn
  <2>1. Same
    BY <1>8 DEF MainPoll, MainResume, RomReturn, Mailbox!vars
  <2> QED
    BY <2>1
<1>9. CASE UNCHANGED vars
  <2>1. Same
    BY <1>9 DEF vars, Mailbox!vars
  <2> QED
    BY <2>1
<1> QED
  BY <1>1, <1>2, <1>3, <1>4, <1>5, <1>6, <1>7, <1>8, <1>9 DEF Next, CpuStep

\* A request is lost only by replacement or while another is being taken, and
\* posted = accepted + lost + pending throughout: do_irq, op_prologue, the gate
\* and main together implement the one-place mailbox.
THEOREM RefinesMailbox == Spec => ImplementsMailbox
  BY MailboxInit, MailboxStep, Invariance, PTL
     DEF Spec, ImplementsMailbox, Mailbox!Spec
===============================================================================
