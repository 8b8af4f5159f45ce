------------------------------- MODULE Movem -------------------------------
(***************************************************************************)
(* MOVEM under demand paging. A MOVEM that meets a page it may not use     *)
(* raises an access fault in the middle of its transfers. The flag         *)
(* movem_run and the address EA then say where it began: ACCESS_FAULT and  *)
(* handle_exception put them in the frame, do_rte takes them out, and the  *)
(* handler of the opcode, run again, starts from EA, not from its operand. *)
(*                                                                         *)
(* An instruction is one step. What interleaves is the guest: the pager,   *)
(* the handlers' own instructions, which share EA and movem_run with the   *)
(* MOVEM they interrupted, faults inside handlers, and interrupts.         *)
(*                                                                         *)
(* Handlers give the program its registers and memory back, and the frames *)
(* of exceptions lie apart (Exceptions says when). Addresses are even and  *)
(* below 64K; the operand register is not A7.                              *)
(***************************************************************************)
EXTENDS Integers, Sequences, FiniteSets

CONSTANTS
  Regs,         \* registers, 0 to 7 for D0 to D7, 8 to 14 for A0 to A6
  Addr,         \* the words of memory, at even addresses
  PageOf,       \* the page of each word
  CodePage,     \* the page the program runs in
  Instrs,       \* the MOVEM instructions of the program
  Perms,        \* what the pager may allow: "none", "ro", "rw"
  InitR,        \* the registers and the memory of the program
  InitMem,
  HandlerEAs,   \* the addresses of the operands of the handlers
  Traced,       \* the program is traced (T = 2)
  IrqAtRestart, \* an interrupt may come between RTE and the MOVEM it restarts
  MovemInside,  \* handlers use MOVEM also while one of the program is unfinished
  MaxInstrs,    \* bound: MOVEM instructions of the program
  MaxDepth      \* bound: exceptions not yet returned from

Ops == {"store_decr", "store_base", "load_incr", "load_base"}
Instr == [op : Ops, size : {2, 4}, list : SUBSET Regs, reg : Regs]
Word == 0..65535
Long == Word \X Word          \* <<high word, low word>>
Pages == {PageOf[a] : a \in Addr}
Perm == {"none", "ro", "rw"}

ASSUME MovemAssumption ==
  /\ Regs \subseteq 0..14
  /\ Addr \subseteq {a \in Word : a % 2 = 0}
  /\ PageOf \in [Addr -> Pages]
  /\ Instrs \subseteq Instr
  /\ \A i \in Instrs : i.reg >= 8 /\ (i.op = "load_incr" => i.reg \notin i.list)
  /\ Perms \subseteq Perm
  /\ InitR \in [Regs -> Long] /\ InitMem \in [Addr -> Word]
  /\ HandlerEAs \subseteq Word
  /\ Traced \in BOOLEAN /\ IrqAtRestart \in BOOLEAN /\ MovemInside \in BOOLEAN
  /\ MaxInstrs \in Nat /\ MaxDepth \in Nat

NoInstr == [op |-> "none"]

VARIABLES
  R,      \* the registers of the program
  EA, movem_run,
  mem,
  perm,   \* what the page tables allow, page by page
  stack,  \* the frames of the exceptions not yet returned from, newest first
  job,    \* the MOVEM at the program counter of the program, or NoInstr
  before, \* history: registers and memory when job was reached
  count   \* MOVEM instructions reached

vars == <<R, EA, movem_run, mem, perm, stack, job, before, count>>

-----------------------------------------------------------------------------
(* The transfers of a MOVEM.                                               *)

Stores(i) == i.op \in {"store_decr", "store_base"}

\* -(An) takes the registers from A7 down to D0, the others from D0 up.
Rank(i, r) ==
  Cardinality({q \in i.list : IF i.op = "store_decr" THEN q > r ELSE q < r})
At(i, ea, r) ==
  IF i.op = "store_decr" THEN ea - i.size * Rank(i, r) ELSE ea + i.size * Rank(i, r)

Words(i, a) == IF i.size = 2 THEN {a} ELSE {a, a + 2}

Allowed(i, a) ==
  a \in Addr /\ perm[PageOf[a]] \in (IF Stores(i) THEN {"rw"} ELSE {"ro", "rw"})

\* The registers whose transfer is done before the first that faults.
Moved(i, ea) ==
  {r \in i.list : \A q \in i.list : Rank(i, q) <= Rank(i, r) =>
                    \A a \in Words(i, At(i, ea, q)) : Allowed(i, a)}

\* WriteL cut in two at an odd word: the half of it that is written when the
\* other faults.
Half(i, ea) ==
  LET f == Cardinality(Moved(i, ea)) IN
  {a \in {At(i, ea, r) : r \in {q \in i.list : Rank(i, q) = f}} : Allowed(i, a)}

\* What the word a receives from register r, whose transfer is at address b.
Stored(i, v, a, b) == IF i.size = 4 /\ a = b THEN v[1] ELSE v[2]

\* STORE_W for a data register, sign extension for an address register.
Loaded(i, r, old, a) ==
  IF i.size = 4 THEN <<mem[a], mem[a + 2]>>
  ELSE IF r < 8 THEN <<old[1], mem[a]>>
  ELSE <<IF mem[a] >= 32768 THEN 65535 ELSE 0, mem[a]>>

\* Where a MOVEM met with registers rs moves its first register.
First(i, rs) == rs[i.reg][2] - (IF i.op = "store_decr" THEN i.size ELSE 0)

\* The handler of the opcode, up to its loop: EA and the registers.
Start(i) == IF movem_run THEN EA ELSE First(i, R)

Begun(i) ==
  IF i.op = "load_incr" THEN [R EXCEPT ![i.reg] = <<0, Start(i)>>]
  ELSE IF i.op = "store_decr" /\ ~movem_run
  THEN [R EXCEPT ![i.reg] = <<0, First(i, R)>>]
  ELSE R

\* Defect: -(An) is left one transfer too low.
MutRegsAfter(i, ea, rs) ==
  LET moved == Moved(i, ea) IN
  [r \in Regs |->
     IF ~Stores(i) /\ r \in moved THEN Loaded(i, r, rs[r], At(i, ea, r))
     ELSE IF r = i.reg /\ i.op = "load_incr"
     THEN <<0, ea + Cardinality(moved) * i.size>>
     ELSE IF r = i.reg /\ i.op = "store_decr" /\ moved = i.list
     THEN <<0, ea - Cardinality(moved) * i.size>>
     ELSE rs[r]]

\* The registers after the transfers that could be done, from rs.
RegsAfter(i, ea, rs) ==
  LET moved == Moved(i, ea) IN
  [r \in Regs |->
     IF ~Stores(i) /\ r \in moved THEN Loaded(i, r, rs[r], At(i, ea, r))
     ELSE IF r = i.reg /\ i.op = "load_incr"
     THEN <<0, ea + Cardinality(moved) * i.size>>
     ELSE IF r = i.reg /\ i.op = "store_decr" /\ moved = i.list
     THEN <<0, ea - (Cardinality(moved) - 1) * i.size>>
     ELSE rs[r]]

MemAfter(i, ea, rs) ==
  LET from(a) == {r \in i.list : a \in Words(i, At(i, ea, r))
                                 /\ (r \in Moved(i, ea) \/ a \in Half(i, ea))}
  IN [a \in Addr |->
        IF Stores(i) /\ from(a) # {}
        THEN LET r == CHOOSE q \in from(a) : TRUE
             IN Stored(i, rs[r], a, At(i, ea, r))
        ELSE mem[a]]

-----------------------------------------------------------------------------
(* Exceptions.                                                             *)

\* op_prologue: EA is cleared unless a MOVEM is unfinished.
Prologue == IF movem_run THEN EA ELSE 0

\* What a frame holds for do_rte beside the program counter and the status: a
\* fault frame the bits CM and CT of the special status word and EA.
Frame(CM, CT, ea) == [CM |-> CM, CT |-> CT, EA |-> ea]
PlainFrame == Frame(FALSE, FALSE, 0)

\* Defect: handle_exception also forgets that a MOVEM is unfinished.
MutAccessFault(ea, run, ct) ==
  /\ Len(stack) < MaxDepth
  /\ stack' = <<Frame(FALSE, ct, ea)>> \o stack
  /\ EA' = ea /\ movem_run' = FALSE

\* ACCESS_FAULT and handle_exception, EA being ea and movem_run being run.
AccessFault(ea, run, ct) ==
  /\ Len(stack) < MaxDepth
  /\ stack' = <<Frame(run, ct, ea)>> \o stack
  /\ EA' = ea /\ movem_run' = run

\* Defect: the effective address is not taken from the frame.
MutReturned(f) == EA' = Prologue /\ movem_run' = (f.CM \/ movem_run)

\* do_rte, no trace being pending.
Returned(f) ==
  /\ EA' = IF f.CM THEN f.EA ELSE Prologue
  /\ movem_run' = (f.CM \/ movem_run)

-----------------------------------------------------------------------------
(* The guest.                                                              *)

Init ==
  /\ R = InitR /\ EA = 0 /\ movem_run = FALSE
  /\ mem = InitMem
  /\ perm \in [Pages -> Perms]
  /\ stack = <<>> /\ job = NoInstr
  /\ before = [R |-> InitR, mem |-> InitMem]
  /\ count = 0

InProgram == stack = <<>>

\* The program comes to a MOVEM all of whose transfers lie in memory.
Reach(i) ==
  /\ InProgram /\ job = NoInstr /\ count < MaxInstrs
  /\ \A r \in i.list : Words(i, At(i, First(i, R), r)) \subseteq Addr
  /\ job' = i /\ count' = count + 1
  /\ before' = [R |-> R, mem |-> mem]
  /\ UNCHANGED <<R, EA, movem_run, mem, perm, stack>>

\* FETCH of the MOVEM faults.
FetchFault ==
  /\ InProgram /\ job # NoInstr /\ perm[CodePage] = "none"
  /\ AccessFault(Prologue, movem_run, Traced)
  /\ UNCHANGED <<R, mem, perm, job, before, count>>

Fetched == InProgram /\ job # NoInstr /\ perm[CodePage] # "none"

\* The MOVEM runs and one of its transfers faults.
MovemFault ==
  /\ Fetched /\ Moved(job, Start(job)) # job.list
  /\ R' = RegsAfter(job, Start(job), Begun(job))
  /\ mem' = MemAfter(job, Start(job), Begun(job))
  /\ AccessFault(Start(job), TRUE, Traced)
  /\ UNCHANGED <<perm, job, before, count>>

\* The MOVEM runs to its end.
MovemEnds ==
  /\ Fetched /\ Moved(job, Start(job)) = job.list
  /\ R' = RegsAfter(job, Start(job), Begun(job))
  /\ mem' = MemAfter(job, Start(job), Begun(job))
  /\ EA' = Start(job) /\ movem_run' = FALSE
  /\ job' = NoInstr
  /\ IF Traced THEN Len(stack) < MaxDepth /\ stack' = <<PlainFrame>> \o stack
     ELSE UNCHANGED stack
  /\ UNCHANGED <<perm, before, count>>

\* An interrupt between two instructions.
Interrupt ==
  /\ Len(stack) < MaxDepth
  /\ IrqAtRestart \/ ~(InProgram /\ movem_run)
  /\ stack' = <<PlainFrame>> \o stack
  /\ UNCHANGED <<R, EA, movem_run, mem, perm, job, before, count>>

\* An instruction of a handler that is not MOVEM and has a memory operand, and
\* the same on a page it may not use.
HandlerOp(ea) ==
  /\ ~InProgram
  /\ EA' = ea
  /\ UNCHANGED <<R, movem_run, mem, perm, stack, job, before, count>>
HandlerFault(ea) ==
  /\ ~InProgram
  /\ AccessFault(ea, movem_run, FALSE)
  /\ UNCHANGED <<R, mem, perm, job, before, count>>

\* A handler stores one of its registers at ea, on its own stack, with MOVEM;
\* while movem_run is set the word goes to EA.
HandlerMovem(ea) ==
  /\ ~InProgram
  /\ IF movem_run
     THEN /\ MovemInside /\ EA \in Addr /\ perm[PageOf[EA]] = "rw"
          /\ mem' = [mem EXCEPT ![EA] = 0] /\ UNCHANGED EA
     ELSE EA' = ea /\ UNCHANGED mem
  /\ movem_run' = FALSE
  /\ UNCHANGED <<R, perm, stack, job, before, count>>

\* The pager, in a handler: it allows or withdraws a page.
SetPage(p, x) ==
  /\ ~InProgram /\ perm[p] # x
  /\ perm' = [perm EXCEPT ![p] = x]
  /\ EA' = Prologue
  /\ UNCHANGED <<R, movem_run, mem, stack, job, before, count>>

\* RTE. A pending trace is raised at once, and what else the frame holds is
\* dropped.
Rte ==
  /\ ~InProgram
  /\ IF Head(stack).CT
     THEN /\ stack' = <<PlainFrame>> \o Tail(stack)
          /\ EA' = Prologue /\ UNCHANGED movem_run
     ELSE stack' = Tail(stack) /\ Returned(Head(stack))
  /\ UNCHANGED <<R, mem, perm, job, before, count>>

Next ==
  \/ \E i \in Instrs : Reach(i)
  \/ FetchFault \/ MovemFault \/ MovemEnds \/ Interrupt \/ Rte
  \/ \E ea \in HandlerEAs : HandlerOp(ea) \/ HandlerFault(ea) \/ HandlerMovem(ea)
  \/ \E p \in Pages, x \in Perms : SetPage(p, x)

Spec == Init /\ [][Next]_vars

-----------------------------------------------------------------------------
(* Correctness.                                                            *)

\* The word a has its value of before the MOVEM, or the value the MOVEM stores
\* there.
OldOrStored(a) ==
  \/ mem[a] = before.mem[a]
  \/ \E r \in job.list :
       LET b == At(job, First(job, before.R), r)
           v == IF job.op = "store_decr" /\ r = job.reg
                THEN <<0, First(job, before.R)>> ELSE before.R[r]
       IN Stores(job) /\ a \in Words(job, b) /\ mem[a] = Stored(job, v, a, b)

\* Whatever handlers ran since it began, an unfinished MOVEM has written its own
\* registers at its own addresses and nothing else: what another program or
\* device sees in memory is old or final (movem_*_store_*, do_rte).
OnlyItsOwn == job # NoInstr => \A a \in Addr : OldOrStored(a)

\* Back in the program, an unfinished MOVEM will start from where it started
\* first: EA is the address of its first transfer (handle_exception, do_rte,
\* op_prologue).
RestartsAtFirst ==
  InProgram /\ job # NoInstr /\ movem_run => EA = First(job, before.R)

\* A MOVEM that has ended, however often it was interrupted, restarted and
\* denied a page, has done what it does without interruption: all registers
\* moved once, the operand register moved once (movem_*, do_rte). With n
\* registers, the last two lines are the updated operand registers.
EndsWhole ==
  [][job # NoInstr /\ job' = NoInstr =>
       LET a == First(job, before.R)  n == Cardinality(job.list) IN
       IF Stores(job)
       THEN /\ \A r \in job.list : LET b == At(job, a, r)
                 v == IF job.op = "store_decr" /\ r = job.reg THEN <<0, a>> ELSE before.R[r]
               IN \A w \in Words(job, b) : mem'[w] = Stored(job, v, w, b)
            /\ \A r \in Regs : R'[r] =
                 IF job.op = "store_decr" /\ r = job.reg
                 THEN <<0, a - (n - 1) * job.size>> ELSE before.R[r]
       ELSE /\ mem' = before.mem
            /\ \A r \in Regs : R'[r] =
                 IF r \in job.list
                 THEN Loaded(job, r, before.R[r], At(job, a, r))
                 ELSE IF job.op = "load_incr" /\ r = job.reg
                 THEN <<0, a + n * job.size>> ELSE before.R[r]]_vars
=============================================================================
