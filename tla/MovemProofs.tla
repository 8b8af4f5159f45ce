---------------------------- MODULE MovemProofs ----------------------------
(***************************************************************************)
(* A restarted MOVEM starts where it started first, writes nothing but its *)
(* own words, and ends as if nothing had happened, for every program,      *)
(* memory, pager and depth of exceptions, if the program is not traced, no *)
(* interrupt comes between RTE and the MOVEM it restarts and (but for the  *)
(* first) no handler uses MOVEM meanwhile.                                 *)
(*                                                                         *)
(* The argument is about the oldest frame, the one by which the handlers   *)
(* return to the program. If it has CM its EA is the address of the first  *)
(* transfer, and nothing else that handlers do to EA matters. If it has    *)
(* not, no MOVEM is unfinished, no frame above it has CM, and the program  *)
(* still has the registers it had when it came to the instruction. On that *)
(* rests Partly: the words written are final, the registers loaded are old *)
(* or final, and the loop may therefore run again from its first transfer. *)
(***************************************************************************)
EXTENDS Movem, SequenceTheorems, FiniteSetTheorems, TLAPS

FrameSet == [CM : BOOLEAN, CT : BOOLEAN, EA : Int]

Typed ==
  /\ R \in [Regs -> Int \X Int] /\ EA \in Int /\ movem_run \in BOOLEAN
  /\ mem \in [Addr -> Int]
  /\ stack \in Seq(FrameSet)
  /\ job \in Instrs \cup {NoInstr}

Oldest == stack[Len(stack)]

\* The handlers will return to a MOVEM, unfinished or still to begin.
ReturnsRight ==
  stack # <<>> =>
    /\ \A k \in 1..Len(stack) : ~stack[k].CT
    /\ Oldest.CM => job # NoInstr /\ Oldest.EA = First(job, before.R)
    /\ ~Oldest.CM => /\ ~movem_run
                     /\ \A k \in 1..Len(stack) : ~stack[k].CM
                     /\ job # NoInstr => R = before.R

\* The program is at a MOVEM, unfinished or still to begin.
StartsRight ==
  stack = <<>> =>
    /\ movem_run => job # NoInstr /\ EA = First(job, before.R)
    /\ job # NoInstr /\ ~movem_run => R = before.R

IInv == Typed /\ ReturnsRight /\ StartsRight

-----------------------------------------------------------------------------
(* Frames.                                                                 *)

\* A frame put on the stack is the newest; the others keep their order.
LEMMA Pushed ==
  ASSUME NEW S, NEW s \in Seq(S), NEW f \in S
  PROVE  /\ <<f>> \o s \in Seq(S)
         /\ Len(<<f>> \o s) = Len(s) + 1
         /\ Len(s) \in Nat
         /\ (<<f>> \o s)[1] = f
         /\ \A k \in 2..Len(s) + 1 : (<<f>> \o s)[k] = s[k - 1]
         /\ <<f>> \o s # <<>>
<1>1. <<f>> \in Seq(S) /\ Len(<<f>>) = 1 /\ <<f>>[1] = f
  OBVIOUS
<1>2. Len(s) \in Nat
  BY LenProperties
<1>3. /\ <<f>> \o s \in Seq(S)
      /\ Len(<<f>> \o s) = 1 + Len(s)
      /\ \A k \in 1..1 + Len(s) :
           (<<f>> \o s)[k] = IF k <= 1 THEN <<f>>[k] ELSE s[k - 1]
  BY <1>1, ConcatProperties
<1>4. <<f>> \o s # <<>>
  BY <1>2, <1>3, EmptySeq
<1> QED
  BY <1>1, <1>2, <1>3, <1>4

\* RTE takes the newest frame away.
LEMMA Popped ==
  ASSUME NEW S, NEW s \in Seq(S), s # <<>>
  PROVE  /\ Tail(s) \in Seq(S)
         /\ Len(Tail(s)) = Len(s) - 1
         /\ \A k \in 1..Len(s) - 1 : Tail(s)[k] = s[k + 1]
         /\ Len(s) \in Nat \ {0}
         /\ Head(s) = s[1]
         /\ Head(s) \in S
         /\ Tail(s) # <<>> => Len(s) > 1
         /\ Tail(s) = <<>> => Len(s) = 1
<1>1. Len(s) \in Nat \ {0}
  BY EmptySeq
<1>2. /\ Tail(s) \in Seq(S) /\ Len(Tail(s)) = Len(s) - 1 /\ Head(s) \in S
      /\ \A k \in 1..Len(Tail(s)) : Tail(s)[k] = s[k + 1]
  BY HeadTailProperties
<1>3. Head(s) = s[1]
  OBVIOUS
<1>4. Tail(s) # <<>> => Len(s) > 1
  BY <1>1, <1>2, EmptySeq
<1>5. Tail(s) = <<>> => Len(s) = 1
  BY <1>1, <1>2, EmptySeq
<1> QED
  BY <1>1, <1>2, <1>3, <1>4, <1>5

\* The fields of a frame (ACCESS_FAULT, handle_exception).
LEMMA FrameFields ==
  ASSUME NEW CM \in BOOLEAN, NEW CT \in BOOLEAN, NEW ea \in Int
  PROVE  /\ Frame(CM, CT, ea) \in FrameSet
         /\ Frame(CM, CT, ea).CM = CM
         /\ Frame(CM, CT, ea).CT = CT
         /\ Frame(CM, CT, ea).EA = ea
  BY DEF Frame, FrameSet

-----------------------------------------------------------------------------
(* Types.                                                                  *)

\* A MOVEM of the program (movem_* of op_move.cc).
LEMMA InstrType ==
  ASSUME NEW i \in Instrs
  PROVE  /\ i.op \in Ops /\ i.size \in {2, 4}
         /\ i.list \subseteq Regs /\ i.reg \in Regs
         /\ IsFiniteSet(i.list)
<1>1. i \in Instr
  <2>1. Instrs \subseteq Instr
    BY MovemAssumption, Zenon
  <2> QED
    BY <2>1
<1>2. IsFiniteSet(0..14)
  <2>1. 0 \in Int /\ 14 \in Int
    OBVIOUS
  <2> QED
    BY <2>1, FS_Interval
<1>3. i.list \subseteq 0..14
  <2>1. i.list \subseteq Regs
    BY <1>1, Zenon DEF Instr
  <2> QED
    BY <2>1, MovemAssumption
<1>4. IsFiniteSet(i.list)
  BY <1>2, <1>3, FS_Subset
<1>5. /\ i.op \in Ops /\ i.size \in {2, 4}
      /\ i.list \in SUBSET Regs /\ i.reg \in Regs
  BY <1>1 DEF Instr
<1> QED
  BY <1>4, <1>5

\* A transfer is of 2 or 4 bytes (movem_w_*, movem_l_*).
LEMMA SizeType ==
  ASSUME NEW i \in Instrs
  PROVE  i.size \in Int
BY InstrType

\* The number of registers moved is a number (movem_*).
LEMMA MovedType ==
  ASSUME NEW i \in Instrs, NEW ea
  PROVE  Moved(i, ea) \subseteq i.list /\ Cardinality(Moved(i, ea)) \in Nat
<1>1. Moved(i, ea) \subseteq i.list
  BY DEF Moved
<1> QED
  BY <1>1, InstrType, FS_Subset, FS_CardinalityType

\* The address of the first transfer is a number (movem_*).
LEMMA FirstType ==
  ASSUME NEW i \in Instrs, NEW rs \in [Regs -> Int \X Int]
  PROVE  First(i, rs) \in Int
<1>1. i.reg \in Regs /\ i.size \in Int
  BY InstrType
<1>2. rs[i.reg] \in Int \X Int
  BY <1>1
<1>3. rs[i.reg][2] \in Int
  BY <1>2
<1> QED
  BY <1>1, <1>3 DEF First

\* A register loaded is a pair of words (movem_*_load_*).
LEMMA LoadedType ==
  ASSUME NEW i \in Instrs, NEW ea, NEW r \in Moved(i, ea),
         NEW old \in Int \X Int, mem \in [Addr -> Int]
  PROVE  Loaded(i, r, old, At(i, ea, r)) \in Int \X Int
<1> DEFINE a == At(i, ea, r)
<1>0. i.size \in {2, 4}
  BY InstrType
<1>1. \A x \in Words(i, a) : Allowed(i, x)
  <2>1. r \in i.list /\ Rank(i, r) <= Rank(i, r)
    <3>1. r \in i.list
      BY DEF Moved
    <3>2. {q \in i.list : IF i.op = "store_decr" THEN q > r ELSE q < r} \subseteq i.list
      OBVIOUS
    <3>3. Rank(i, r) \in Nat
      BY <3>2, InstrType, FS_Subset, FS_CardinalityType DEF Rank
    <3> QED
      BY <3>1, <3>3
  <2> QED
    BY <2>1 DEF Moved
<1>2. \A x \in Words(i, a) : x \in Addr
  BY <1>1 DEF Allowed
<1> HIDE DEF a
<1>3. CASE i.size = 4
  <2>1. mem[a] \in Int /\ mem[a + 2] \in Int
    BY <1>2, <1>3 DEF Words
  <2> QED
    BY <2>1, <1>3 DEF Loaded, a
<1>4. CASE i.size = 2
  <2>1. mem[a] \in Int
    BY <1>2, <1>4 DEF Words
  <2>2. old[1] \in Int
    OBVIOUS
  <2> QED
    BY <2>1, <2>2, <1>4 DEF Loaded, a
<1> QED
  BY <1>0, <1>3, <1>4

\* The registers after the transfers are pairs of words (movem_*).
LEMMA RegsAfterType ==
  ASSUME NEW i \in Instrs, NEW ea \in Int, NEW rs \in [Regs -> Int \X Int],
         mem \in [Addr -> Int]
  PROVE  RegsAfter(i, ea, rs) \in [Regs -> Int \X Int]
<1>1. Cardinality(Moved(i, ea)) \in Int /\ i.size \in Int
  BY MovedType, SizeType
<1>2. ea + Cardinality(Moved(i, ea)) * i.size \in Int
  BY <1>1
<1>3. ea - (Cardinality(Moved(i, ea)) - 1) * i.size \in Int
  BY <1>1
<1>4. ASSUME NEW r \in Moved(i, ea)
      PROVE  Loaded(i, r, rs[r], At(i, ea, r)) \in Int \X Int
  <2>1. rs[r] \in Int \X Int
    BY MovedType, InstrType
  <2> QED
    BY <2>1, LoadedType
<1> QED
  BY <1>2, <1>3, <1>4 DEF RegsAfter

\* Memory after the transfers is words (movem_*_store_*).
LEMMA MemAfterType ==
  ASSUME NEW i \in Instrs, NEW ea, NEW rs \in [Regs -> Int \X Int],
         mem \in [Addr -> Int]
  PROVE  MemAfter(i, ea, rs) \in [Addr -> Int]
<1> DEFINE from(a) == {r \in i.list : a \in Words(i, At(i, ea, r))
                                     /\ (r \in Moved(i, ea) \/ a \in Half(i, ea))}
<1>1. ASSUME NEW r \in i.list, NEW a, NEW b
      PROVE  Stored(i, rs[r], a, b) \in Int
  <2>1. rs[r] \in Int \X Int
    BY InstrType
  <2> QED
    BY <2>1 DEF Stored
<1>2. ASSUME NEW a \in Addr, from(a) # {}
      PROVE  (CHOOSE q \in from(a) : TRUE) \in i.list
  BY <1>2
<1> QED
  BY <1>1, <1>2 DEF MemAfter

-----------------------------------------------------------------------------
(* The invariant.                                                          *)

\* A job is a MOVEM of the program or none.
LEMMA JobType ==
  ASSUME job \in Instrs \cup {NoInstr}, job # NoInstr
  PROVE  job \in Instrs
  OBVIOUS

\* The operand of the MOVEM at hand, computed or restored (movem_*).
LEMMA StartIsFirst ==
  ASSUME IInv, InProgram, job # NoInstr
  PROVE  Start(job) = First(job, before.R) /\ Start(job) \in Int
<1>1. job \in Instrs
  BY JobType DEF IInv, Typed
<1>2. Start(job) = First(job, before.R)
  BY DEF Start, IInv, StartsRight, InProgram
<1>3. Start(job) \in Int
  BY <1>1, FirstType DEF Start, IInv, Typed
<1> QED
  BY <1>2, <1>3

\* The registers on entry to the loop are pairs of words (movem_*).
LEMMA BegunType ==
  ASSUME NEW i \in Instrs, R \in [Regs -> Int \X Int], Start(i) \in Int
  PROVE  Begun(i) \in [Regs -> Int \X Int]
<1>1. i.reg \in Regs /\ First(i, R) \in Int
  BY InstrType, FirstType
<1> QED
  BY <1>1 DEF Begun

\* The program starts with the invariant.
LEMMA InitIInv ==
  ASSUME Init
  PROVE  IInv
<1>1. R \in [Regs -> Int \X Int] /\ mem \in [Addr -> Int]
  <2>1. Word \subseteq Int
    BY DEF Word
  <2>2. Long \subseteq Int \X Int
    BY <2>1, Zenon DEF Long
  <2>3. InitR \in [Regs -> Long] /\ InitMem \in [Addr -> Word]
    BY MovemAssumption
  <2>4. \A r \in Regs : InitR[r] \in Int \X Int
    BY <2>2, <2>3
  <2>5. InitR \in [Regs -> Int \X Int] /\ InitMem \in [Addr -> Int]
    BY <2>1, <2>3, <2>4
  <2> QED
    BY <2>5 DEF Init
<1>2. EA = 0 /\ movem_run = FALSE /\ stack = <<>> /\ job = NoInstr
  BY DEF Init
<1>3. Typed
  <2>1. stack \in Seq(FrameSet)
    BY <1>2, EmptySeq
  <2>2. EA \in Int
    BY <1>2
  <2>3. movem_run \in BOOLEAN /\ job \in Instrs \cup {NoInstr}
    BY <1>2, Zenon
  <2> QED
    BY <1>1, <2>1, <2>2, <2>3 DEF Typed
<1> QED
  BY <1>2, <1>3 DEF IInv, ReturnsRight, StartsRight

\* A frame put on the frames of handlers leaves the oldest where it is
\* (handle_exception).
LEMMA PushInHandler ==
  ASSUME IInv, ~InProgram, NEW f \in FrameSet, ~f.CT, f.CM => movem_run,
         stack' = <<f>> \o stack,
         movem_run' = movem_run, UNCHANGED <<job, before, R>>
  PROVE  stack' \in Seq(FrameSet) /\ ReturnsRight' /\ StartsRight'
<1>1. /\ stack \in Seq(FrameSet) /\ stack # <<>>
      /\ Len(stack) \in Nat \ {0}
  BY EmptySeq DEF IInv, Typed, InProgram
<1>2. /\ stack' \in Seq(FrameSet)
      /\ Len(stack') = Len(stack) + 1
      /\ stack'[1] = f
      /\ \A k \in 2..Len(stack) + 1 : stack'[k] = stack[k - 1]
      /\ stack' # <<>>
  BY <1>1, Pushed
<1>3. Oldest' = Oldest
  BY <1>1, <1>2 DEF Oldest
<1>4. \A k \in 1..Len(stack') : k = 1 \/ (k \in 2..Len(stack) + 1 /\ k - 1 \in 1..Len(stack))
  BY <1>1, <1>2
<1>5. ReturnsRight
  BY DEF IInv
<1>6. \A k \in 1..Len(stack') : ~stack'[k].CT
  BY <1>1, <1>2, <1>4, <1>5 DEF ReturnsRight
<1>7. Oldest'.CM => job' # NoInstr /\ Oldest'.EA = First(job', before'.R)
  BY <1>1, <1>3, <1>5 DEF ReturnsRight
<1>8. ASSUME ~Oldest'.CM
      PROVE  /\ ~movem_run' /\ \A k \in 1..Len(stack') : ~stack'[k].CM
             /\ job' # NoInstr => R' = before'.R
  <2>1. ~movem_run /\ (job # NoInstr => R = before.R) /\ \A k \in 1..Len(stack) : ~stack[k].CM
    BY <1>1, <1>3, <1>5, <1>8 DEF ReturnsRight
  <2> QED
    BY <1>2, <1>4, <2>1
<1>9. ReturnsRight'
  BY <1>6, <1>7, <1>8 DEF ReturnsRight
<1>10. StartsRight'
  BY <1>2 DEF StartsRight
<1> QED
  BY <1>2, <1>9, <1>10

\* A frame that returns to the program (handle_exception).
LEMMA PushInProgram ==
  ASSUME IInv, InProgram, NEW f \in FrameSet, ~f.CT, stack' = <<f>> \o stack,
         f.CM => job' # NoInstr /\ f.EA = First(job', before'.R),
         ~f.CM => ~movem_run' /\ (job' # NoInstr => R' = before'.R)
  PROVE  stack' \in Seq(FrameSet) /\ ReturnsRight' /\ StartsRight'
<1>1. stack \in Seq(FrameSet) /\ Len(stack) = 0
  BY EmptySeq DEF IInv, Typed, InProgram
<1>2. stack' \in Seq(FrameSet) /\ Len(stack') = 1 /\ stack'[1] = f /\ stack' # <<>>
  BY <1>1, Pushed
<1>3. Oldest' = f /\ \A k \in 1..Len(stack') : stack'[k] = f
  BY <1>2 DEF Oldest
<1>4. ReturnsRight'
  BY <1>3 DEF ReturnsRight
<1>5. StartsRight'
  BY <1>2 DEF StartsRight
<1> QED
  BY <1>2, <1>4, <1>5

-----------------------------------------------------------------------------
(* The steps. The program is not traced and interrupts keep off restarts.  *)

\* Reach preserves the invariant.
LEMMA ReachStep ==
  ASSUME IInv, NEW i \in Instrs, Reach(i)
  PROVE  IInv'
<1>1. /\ stack = <<>> /\ job = NoInstr
      /\ job' = i /\ before'.R = R
      /\ UNCHANGED <<R, EA, movem_run, mem, stack>>
  BY DEF Reach, InProgram
<1>2. ~movem_run
  BY <1>1 DEF IInv, StartsRight
<1>3. Typed'
  BY <1>1 DEF IInv, Typed
<1> QED
  BY <1>1, <1>2, <1>3 DEF IInv, ReturnsRight, StartsRight

\* A frame of a fault in an untraced program (ACCESS_FAULT, handle_exception).
LEMMA FaultFrame ==
  ASSUME NEW run \in BOOLEAN, NEW ea \in Int, NEW ct, ct = FALSE, AccessFault(ea, run, ct)
  PROVE  \E f \in FrameSet : /\ stack' = <<f>> \o stack
                              /\ f.CM = run /\ ~f.CT /\ f.EA = ea
                              /\ EA' = ea /\ movem_run' = run
<1> DEFINE f == Frame(run, ct, ea)
<1>1. f \in FrameSet /\ f.CM = run /\ f.CT = FALSE /\ f.EA = ea
  BY FrameFields
<1>2. stack' = <<f>> \o stack /\ EA' = ea /\ movem_run' = run
  BY DEF AccessFault
<1> HIDE DEF f
<1> QED
  BY <1>1, <1>2

\* FetchFault preserves the invariant.
LEMMA FetchFaultStep ==
  ASSUME IInv, FetchFault, ~Traced
  PROVE  IInv'
<1>1. InProgram /\ job # NoInstr /\ UNCHANGED <<R, mem, job, before>>
  BY DEF FetchFault
<1>2. movem_run \in BOOLEAN /\ Prologue \in Int
  BY DEF IInv, Typed, Prologue
<1>3. Traced = FALSE
  BY MovemAssumption
<1>4. PICK f \in FrameSet : /\ stack' = <<f>> \o stack
                            /\ f.CM = movem_run /\ ~f.CT /\ f.EA = Prologue
                            /\ EA' = Prologue /\ movem_run' = movem_run
  BY <1>2, <1>3, FaultFrame DEF FetchFault
<1>5. f.CM => job' # NoInstr /\ f.EA = First(job', before'.R)
  BY <1>1, <1>4 DEF IInv, StartsRight, InProgram, Prologue
<1>6. ~f.CM => ~movem_run' /\ (job' # NoInstr => R' = before'.R)
  BY <1>1, <1>4 DEF IInv, StartsRight, InProgram
<1>7. stack' \in Seq(FrameSet) /\ ReturnsRight' /\ StartsRight'
  BY <1>1, <1>4, <1>5, <1>6, PushInProgram
<1>8. Typed'
  BY <1>1, <1>2, <1>4, <1>7 DEF IInv, Typed
<1> QED
  BY <1>7, <1>8 DEF IInv

\* The registers and the memory a MOVEM leaves, whole or not (movem_*).
LEMMA LoopTypes ==
  ASSUME IInv, InProgram, job # NoInstr,
         R' = RegsAfter(job, Start(job), Begun(job)),
         mem' = MemAfter(job, Start(job), Begun(job))
  PROVE  R' \in [Regs -> Int \X Int] /\ mem' \in [Addr -> Int]
<1>1. job \in Instrs /\ R \in [Regs -> Int \X Int] /\ mem \in [Addr -> Int]
  BY JobType DEF IInv, Typed
<1>2. Start(job) \in Int
  BY StartIsFirst
<1>3. Begun(job) \in [Regs -> Int \X Int]
  BY <1>1, <1>2, BegunType
<1> QED
  BY <1>1, <1>2, <1>3, RegsAfterType, MemAfterType

\* MovemFault preserves the invariant.
LEMMA MovemFaultStep ==
  ASSUME IInv, MovemFault, ~Traced
  PROVE  IInv'
<1>1. InProgram /\ job # NoInstr /\ UNCHANGED <<job, before>>
  BY DEF MovemFault, Fetched
<1>2. Start(job) = First(job, before.R) /\ Start(job) \in Int
  BY <1>1, StartIsFirst
<1>3. R' \in [Regs -> Int \X Int] /\ mem' \in [Addr -> Int]
  BY <1>1, LoopTypes DEF MovemFault
<1>4. Traced = FALSE
  BY MovemAssumption
<1>5. PICK f \in FrameSet : /\ stack' = <<f>> \o stack
                            /\ f.CM = TRUE /\ ~f.CT /\ f.EA = Start(job)
                            /\ EA' = Start(job) /\ movem_run' = TRUE
  BY <1>2, <1>4, FaultFrame DEF MovemFault
<1>6. stack' \in Seq(FrameSet) /\ ReturnsRight' /\ StartsRight'
  BY <1>1, <1>2, <1>5, PushInProgram
<1>7. Typed'
  BY <1>1, <1>2, <1>3, <1>5, <1>6 DEF IInv, Typed
<1> QED
  BY <1>6, <1>7 DEF IInv

\* MovemEnds preserves the invariant.
LEMMA MovemEndsStep ==
  ASSUME IInv, MovemEnds, ~Traced
  PROVE  IInv'
<1>1. InProgram /\ job # NoInstr /\ job' = NoInstr /\ stack' = stack
      /\ EA' = Start(job) /\ movem_run' = FALSE
  BY DEF MovemEnds, Fetched
<1>2. Start(job) \in Int
  BY <1>1, StartIsFirst
<1>3. R' \in [Regs -> Int \X Int] /\ mem' \in [Addr -> Int]
  BY <1>1, LoopTypes DEF MovemEnds
<1>4. Typed'
  BY <1>1, <1>2, <1>3 DEF IInv, Typed
<1> QED
  BY <1>1, <1>4 DEF IInv, ReturnsRight, StartsRight, InProgram

\* Interrupt preserves the invariant.
LEMMA InterruptStep ==
  ASSUME IInv, Interrupt, ~IrqAtRestart
  PROVE  IInv'
<1> DEFINE f == PlainFrame
<1>1. f \in FrameSet /\ f.CM = FALSE /\ f.CT = FALSE
  BY DEF PlainFrame, Frame, FrameSet
<1>2. /\ stack' = <<f>> \o stack
      /\ UNCHANGED <<R, EA, movem_run, mem, job, before>>
      /\ ~(InProgram /\ movem_run)
  BY DEF Interrupt
<1> HIDE DEF f
<1>3. stack' \in Seq(FrameSet) /\ ReturnsRight' /\ StartsRight'
  <2>1. CASE ~InProgram
    BY <1>1, <1>2, <2>1, PushInHandler
  <2>2. CASE InProgram
    <3>1. ~movem_run' /\ (job' # NoInstr => R' = before'.R)
      BY <1>2, <2>2 DEF IInv, StartsRight, InProgram
    <3> QED
      BY <1>1, <1>2, <2>2, <3>1, PushInProgram
  <2> QED
    BY <2>1, <2>2
<1>4. Typed'
  BY <1>2, <1>3 DEF IInv, Typed
<1> QED
  BY <1>3, <1>4 DEF IInv

\* HandlerOp preserves the invariant.
LEMMA HandlerOpStep ==
  ASSUME IInv, NEW ea \in HandlerEAs, HandlerOp(ea)
  PROVE  IInv'
<1>1. ea \in Int
  <2>1. HandlerEAs \subseteq Word
    BY MovemAssumption, Zenon
  <2> QED
    BY <2>1 DEF Word
<1>2. /\ stack # <<>> /\ EA' = ea
      /\ UNCHANGED <<R, movem_run, mem, stack, job, before>>
  BY DEF HandlerOp, InProgram
<1>3. Typed'
  BY <1>1, <1>2 DEF IInv, Typed
<1>4. ReturnsRight'
  BY <1>2 DEF IInv, ReturnsRight, Oldest
<1> QED
  BY <1>2, <1>3, <1>4 DEF IInv, StartsRight

\* HandlerFault preserves the invariant.
LEMMA HandlerFaultStep ==
  ASSUME IInv, NEW ea \in HandlerEAs, HandlerFault(ea)
  PROVE  IInv'
<1>1. ea \in Int
  <2>1. HandlerEAs \subseteq Word
    BY MovemAssumption, Zenon
  <2> QED
    BY <2>1 DEF Word
<1>2. movem_run \in BOOLEAN
  BY DEF IInv, Typed
<1>3. ~InProgram /\ UNCHANGED <<R, mem, job, before>>
  BY DEF HandlerFault
<1>4. PICK f \in FrameSet : /\ stack' = <<f>> \o stack
                            /\ f.CM = movem_run /\ ~f.CT /\ f.EA = ea
                            /\ EA' = ea /\ movem_run' = movem_run
  BY <1>1, <1>2, FaultFrame DEF HandlerFault
<1>5. stack' \in Seq(FrameSet) /\ ReturnsRight' /\ StartsRight'
  BY <1>3, <1>4, PushInHandler
<1>6. Typed'
  BY <1>1, <1>2, <1>3, <1>4, <1>5 DEF IInv, Typed
<1> QED
  BY <1>5, <1>6 DEF IInv

\* HandlerMovem preserves the invariant.
LEMMA HandlerMovemStep ==
  ASSUME IInv, NEW ea \in HandlerEAs, HandlerMovem(ea)
  PROVE  IInv'
<1>1. ea \in Int
  <2>1. HandlerEAs \subseteq Word
    BY MovemAssumption, Zenon
  <2> QED
    BY <2>1 DEF Word
<1>2. /\ stack # <<>> /\ movem_run' = FALSE
      /\ EA' = EA \/ EA' = ea
      /\ mem' = [mem EXCEPT ![EA] = 0] \/ mem' = mem
      /\ UNCHANGED <<R, stack, job, before>>
  BY DEF HandlerMovem, InProgram
<1>3. Typed'
  <2>1. mem \in [Addr -> Int]
    BY DEF IInv, Typed
  <2>2. mem' \in [Addr -> Int]
    BY <1>2, <2>1
  <2>3. EA' \in Int
    BY <1>1, <1>2 DEF IInv, Typed
  <2> QED
    BY <1>2, <2>2, <2>3 DEF IInv, Typed
<1>4. ReturnsRight'
  BY <1>2 DEF IInv, ReturnsRight, Oldest
<1> QED
  BY <1>2, <1>3, <1>4 DEF IInv, StartsRight

\* SetPage preserves the invariant.
LEMMA SetPageStep ==
  ASSUME IInv, NEW p \in Pages, NEW x \in Perms, SetPage(p, x)
  PROVE  IInv'
<1>1. /\ stack # <<>> /\ EA' = Prologue
      /\ UNCHANGED <<R, movem_run, mem, stack, job, before>>
  BY DEF SetPage, InProgram
<1>2. Typed'
  BY <1>1 DEF IInv, Typed, Prologue
<1>3. ReturnsRight'
  BY <1>1 DEF IInv, ReturnsRight, Oldest
<1> QED
  BY <1>1, <1>2, <1>3 DEF IInv, StartsRight

\* Rte preserves the invariant: the frames that are left keep the oldest, and
\* when that one is taken the program restarts with its EA.
LEMMA RteStep ==
  ASSUME IInv, Rte
  PROVE  IInv'
<1>1. stack \in Seq(FrameSet) /\ stack # <<>> /\ ReturnsRight
  BY DEF IInv, Typed, Rte, InProgram
<1>2. /\ Tail(stack) \in Seq(FrameSet)
      /\ Len(Tail(stack)) = Len(stack) - 1
      /\ \A k \in 1..Len(stack) - 1 : Tail(stack)[k] = stack[k + 1]
      /\ Len(stack) \in Nat \ {0}
      /\ Head(stack) = stack[1] /\ Head(stack) \in FrameSet
      /\ Tail(stack) # <<>> => Len(stack) > 1
      /\ Tail(stack) = <<>> => Len(stack) = 1
  BY <1>1, Popped
<1>3. ~Head(stack).CT
  BY <1>1, <1>2 DEF ReturnsRight
<1>4. /\ stack' = Tail(stack) /\ Returned(Head(stack))
      /\ UNCHANGED <<R, mem, job, before>>
  BY <1>3 DEF Rte
<1>5. /\ EA' = IF Head(stack).CM THEN Head(stack).EA ELSE Prologue
      /\ movem_run' = (Head(stack).CM \/ movem_run)
  BY <1>4 DEF Returned
<1>6. Head(stack).CM \in BOOLEAN /\ Head(stack).EA \in Int
  BY <1>2 DEF FrameSet
<1>7. Typed'
  <2>1. EA' \in Int
    BY <1>5, <1>6 DEF IInv, Typed, Prologue
  <2>2. movem_run' \in BOOLEAN
    BY <1>5, Zenon
  <2> QED
    BY <1>2, <1>4, <2>1, <2>2 DEF IInv, Typed
<1>8. CASE Tail(stack) = <<>>
  <2>1. Oldest = Head(stack)
    BY <1>2, <1>8 DEF Oldest
  <2>2. StartsRight'
    <3>1. CASE Head(stack).CM
      <4>1. job' # NoInstr /\ EA' = First(job', before'.R) /\ movem_run'
        BY <1>1, <1>4, <1>5, <2>1, <3>1 DEF ReturnsRight
      <4> QED
        BY <4>1 DEF StartsRight
    <3>2. CASE ~Head(stack).CM
      <4>1. ~movem_run' /\ (job' # NoInstr => R' = before'.R)
        BY <1>1, <1>4, <1>5, <2>1, <3>2 DEF ReturnsRight
      <4> QED
        BY <4>1 DEF StartsRight
    <3> QED
      BY <3>1, <3>2
  <2> QED
    BY <1>4, <1>7, <1>8, <2>2 DEF IInv, ReturnsRight
<1>9. CASE Tail(stack) # <<>>
  <2>1. Oldest' = Oldest
    BY <1>2, <1>4, <1>9 DEF Oldest
  <2>2. \A k \in 1..Len(stack') : k + 1 \in 1..Len(stack) /\ stack'[k] = stack[k + 1]
    BY <1>2, <1>4
  <2>3. \A k \in 1..Len(stack') : ~stack'[k].CT
    BY <1>1, <2>2 DEF ReturnsRight
  <2>4. Oldest'.CM => job' # NoInstr /\ Oldest'.EA = First(job', before'.R)
    BY <1>1, <1>4, <2>1 DEF ReturnsRight
  <2>5. ASSUME ~Oldest'.CM
        PROVE  /\ ~movem_run' /\ \A k \in 1..Len(stack') : ~stack'[k].CM
               /\ job' # NoInstr => R' = before'.R
    <3>1. /\ ~movem_run /\ (job # NoInstr => R = before.R)
          /\ \A k \in 1..Len(stack) : ~stack[k].CM
      BY <1>1, <2>1, <2>5 DEF ReturnsRight
    <3>2. ~Head(stack).CM
      BY <1>2, <3>1
    <3> QED
      BY <1>4, <1>5, <2>2, <3>1, <3>2
  <2>6. ReturnsRight'
    BY <2>3, <2>4, <2>5 DEF ReturnsRight
  <2> QED
    BY <1>4, <1>7, <1>9, <2>6 DEF IInv, StartsRight
<1> QED
  BY <1>8, <1>9

\* Every step of an untraced program in which interrupts keep off restarts
\* preserves the invariant.
LEMMA NextIInv ==
  ASSUME IInv, [Next]_vars, ~Traced, ~IrqAtRestart
  PROVE  IInv'
<1>1. CASE UNCHANGED vars
  BY <1>1 DEF vars, IInv, Typed, ReturnsRight, StartsRight, Oldest
<1>2. CASE \E i \in Instrs : Reach(i)
  BY <1>2, ReachStep
<1>3. CASE FetchFault
  BY <1>3, FetchFaultStep
<1>4. CASE MovemFault
  BY <1>4, MovemFaultStep
<1>5. CASE MovemEnds
  BY <1>5, MovemEndsStep
<1>6. CASE Interrupt
  BY <1>6, InterruptStep
<1>7. CASE Rte
  BY <1>7, RteStep
<1>8. CASE \E ea \in HandlerEAs : HandlerOp(ea) \/ HandlerFault(ea) \/ HandlerMovem(ea)
  BY <1>8, HandlerOpStep, HandlerFaultStep, HandlerMovemStep
<1>9. CASE \E p \in Pages, x \in Perms : SetPage(p, x)
  BY <1>9, SetPageStep
<1> QED
  BY <1>1, <1>2, <1>3, <1>4, <1>5, <1>6, <1>7, <1>8, <1>9, Zenon DEF Next

-----------------------------------------------------------------------------
(* The theorem.                                                            *)

\* In an untraced program, no interrupt coming between RTE and the MOVEM it
\* restarts, an unfinished MOVEM always starts again at the address of its
\* first transfer (movem_*, ACCESS_FAULT, handle_exception, do_rte).
THEOREM RestartsAlwaysAtFirst ==
  ASSUME ~Traced, ~IrqAtRestart
  PROVE  Spec => []RestartsAtFirst
<1>1. Init => IInv
  BY InitIInv
<1>2. IInv /\ [Next]_vars => IInv'
  BY NextIInv
<1>3. IInv => RestartsAtFirst
  BY DEF IInv, StartsRight, RestartsAtFirst, InProgram
<1> QED
  BY <1>1, <1>2, <1>3, PTL DEF Spec
-----------------------------------------------------------------------------
(* What an unfinished MOVEM has done. The words of memory it did not write   *)
(* are old, those it wrote are final; a register it loads is old or loaded,  *)
(* the others are as its handler left them on entry to the loop.             *)

\* The handlers will return to an unfinished MOVEM, or the program is at one.
Unfinished == IF stack = <<>> THEN movem_run ELSE Oldest.CM

\* The address of its first transfer.
Origin == First(job, before.R)

\* What a store moves from register r: the decremented address if r is An of -(An).
Held(r) == IF job.op = "store_decr" /\ r = job.reg THEN <<0, Origin>> ELSE before.R[r]

\* What a load moves to register r.
Arrived(r) == Loaded(job, r, before.R[r], At(job, Origin, r))

RightIn(rs) ==
  \A r \in Regs :
    IF Stores(job) THEN rs[r] = Held(r)
    ELSE IF r \in job.list THEN rs[r] \in {before.R[r], Arrived(r)}
    ELSE rs[r] = before.R[r] \/ (job.op = "load_incr" /\ r = job.reg)

Partly ==
  job # NoInstr =>
    /\ before.R \in [Regs -> Int \X Int] /\ before.mem \in [Addr -> Int]
    /\ \A a \in Addr : OldOrStored(a)
    /\ Unfinished => RightIn(R)

-----------------------------------------------------------------------------
(* The words of the transfers.                                             *)

\* Registers are numbered (op_move.cc).
LEMMA RegsAreNumbers ==
  Regs \subseteq Int
<1>1. Regs \subseteq 0..14
  BY MovemAssumption, Zenon
<1> QED
  BY <1>1

\* A register has a place among the transfers (movem_*).
LEMMA RankType ==
  ASSUME NEW i \in Instrs, NEW r
  PROVE  Rank(i, r) \in Nat
<1>1. {q \in i.list : IF i.op = "store_decr" THEN q > r ELSE q < r} \subseteq i.list
  OBVIOUS
<1> QED
  BY <1>1, InstrType, FS_Subset, FS_CardinalityType DEF Rank

\* Two registers are not transferred at the same place (movem_*).
LEMMA RankOrder ==
  ASSUME NEW i \in Instrs, NEW r \in i.list, NEW q \in i.list, r < q
  PROVE  Rank(i, r) # Rank(i, q)
<1> DEFINE S(x) == {y \in i.list : IF i.op = "store_decr" THEN y > x ELSE y < x}
<1>1. i.list \subseteq Int /\ IsFiniteSet(i.list)
  BY InstrType, RegsAreNumbers
<1>2. IsFiniteSet(S(r)) /\ IsFiniteSet(S(q))
  <2>1. S(r) \subseteq i.list /\ S(q) \subseteq i.list
    OBVIOUS
  <2> QED
    BY <1>1, <2>1, FS_Subset
<1>3. S(r) # S(q)
  BY <1>1
<1>4. S(r) \subseteq S(q) \/ S(q) \subseteq S(r)
  BY <1>1
<1>5. Rank(i, r) = Cardinality(S(r)) /\ Rank(i, q) = Cardinality(S(q))
  BY DEF Rank
<1> HIDE DEF S
<1> QED
  BY <1>2, <1>3, <1>4, <1>5, FS_Subset

\* No word belongs to two transfers (movem_*_store_*).
LEMMA WordsApart ==
  ASSUME NEW i \in Instrs, NEW ea \in Int, NEW r \in i.list, NEW q \in i.list, NEW a,
         a \in Words(i, At(i, ea, r)), a \in Words(i, At(i, ea, q))
  PROVE  r = q
<1>1. i.size \in {2, 4} /\ Rank(i, r) \in Nat /\ Rank(i, q) \in Nat
  BY InstrType, RankType
<1>2. Rank(i, r) = Rank(i, q)
  BY <1>1 DEF Words, At
<1>3. r \in Int /\ q \in Int
  BY InstrType, RegsAreNumbers
<1> QED
  BY <1>2, <1>3, RankOrder

\* A word that a transfer reaches holds what that transfer stores, the others
\* what they held (movem_*_store_*).
LEMMA MemAfterWord ==
  ASSUME NEW i \in Instrs, NEW ea \in Int, NEW rs, NEW a \in Addr
  PROVE  /\ ~Stores(i) => MemAfter(i, ea, rs)[a] = mem[a]
         /\ \/ MemAfter(i, ea, rs)[a] = mem[a]
            \/ \E r \in i.list :
                 /\ a \in Words(i, At(i, ea, r))
                 /\ MemAfter(i, ea, rs)[a] = Stored(i, rs[r], a, At(i, ea, r))
         /\ \A r \in Moved(i, ea) :
              Stores(i) /\ a \in Words(i, At(i, ea, r))
                => MemAfter(i, ea, rs)[a] = Stored(i, rs[r], a, At(i, ea, r))
<1> DEFINE from == {r \in i.list : a \in Words(i, At(i, ea, r))
                                   /\ (r \in Moved(i, ea) \/ a \in Half(i, ea))}
           c == CHOOSE q \in from : TRUE
<1>1. MemAfter(i, ea, rs)[a] =
        IF Stores(i) /\ from # {} THEN Stored(i, rs[c], a, At(i, ea, c)) ELSE mem[a]
  BY DEF MemAfter
<1>2. from # {} => c \in from
  OBVIOUS
<1>3. \A r \in from : r \in i.list /\ a \in Words(i, At(i, ea, r))
  OBVIOUS
<1>4. \A r \in Moved(i, ea) : a \in Words(i, At(i, ea, r)) => r \in from
  BY DEF Moved
<1> HIDE DEF from, c
<1>5. \A r \in Moved(i, ea) : a \in Words(i, At(i, ea, r)) => c = r
  BY <1>2, <1>3, <1>4, WordsApart
<1> QED
  BY <1>1, <1>2, <1>3, <1>4, <1>5

\* The words of a transfer that is done lie in memory (memory.cc).
LEMMA MovedInMemory ==
  ASSUME NEW i \in Instrs, NEW ea, NEW r \in Moved(i, ea)
  PROVE  Words(i, At(i, ea, r)) \subseteq Addr
<1>1. r \in i.list /\ Rank(i, r) <= Rank(i, r)
  BY RankType DEF Moved
<1> QED
  BY <1>1 DEF Moved, Allowed

-----------------------------------------------------------------------------
(* The loop of a MOVEM.                                                    *)

\* The loop is entered with the registers of a MOVEM partly done (movem_*).
LEMMA BegunRight ==
  ASSUME IInv, Partly, InProgram, job # NoInstr
  PROVE  RightIn(Begun(job))
<1>1. job \in Instrs /\ R \in [Regs -> Int \X Int] /\ job.reg \in Regs
  BY JobType, InstrType DEF IInv, Typed
<1>2. job.op = "load_incr" => job.reg \notin job.list
  BY <1>1, MovemAssumption
<1>3. Start(job) = Origin
  BY StartIsFirst DEF Origin
<1>4. CASE movem_run
  <2>1. RightIn(R)
    BY <1>4 DEF Partly, Unfinished, InProgram
  <2>2. Begun(job) = IF job.op = "load_incr" THEN [R EXCEPT ![job.reg] = <<0, Origin>>] ELSE R
    BY <1>3, <1>4 DEF Begun
  <2> QED
    BY <1>1, <1>2, <2>1, <2>2 DEF RightIn, Stores
<1>5. CASE ~movem_run
  <2>1. R = before.R
    BY <1>5 DEF IInv, StartsRight, InProgram
  <2>2. First(job, R) = Origin
    BY <2>1 DEF Origin
  <2>3. Begun(job) = IF job.op \in {"load_incr", "store_decr"}
                     THEN [R EXCEPT ![job.reg] = <<0, Origin>>] ELSE R
    BY <1>3, <1>5, <2>2 DEF Begun
  <2> QED
    BY <1>1, <1>2, <2>1, <2>3 DEF RightIn, Stores, Held
<1> QED
  BY <1>4, <1>5

\* A register loaded a second time is loaded with the same (movem_*_load_*).
LEMMA LoadedAgain ==
  ASSUME Typed, Partly, job # NoInstr, NEW rs, RightIn(rs), ~Stores(job), NEW r \in job.list
  PROVE  Loaded(job, r, rs[r], At(job, Origin, r)) = Arrived(r)
<1>1. job \in Instrs /\ r \in Regs /\ job.size \in {2, 4}
  BY JobType, InstrType DEF Typed
<1>2. rs[r] \in {before.R[r], Arrived(r)}
  BY <1>1 DEF RightIn
<1> QED
  BY <1>1, <1>2 DEF Arrived, Loaded

\* What the transfers leave in the registers and in memory, whether all of them
\* could be done or not (movem_*).
LEMMA LoopRight ==
  ASSUME IInv, Partly, InProgram, job # NoInstr,
         R' = RegsAfter(job, Start(job), Begun(job)),
         mem' = MemAfter(job, Start(job), Begun(job))
  PROVE  /\ ~Stores(job) => mem' = before.mem /\ mem = before.mem
         /\ \A a \in Addr :
              \/ mem'[a] = before.mem[a]
              \/ \E r \in job.list :
                   /\ Stores(job) /\ a \in Words(job, At(job, Origin, r))
                   /\ mem'[a] = Stored(job, Held(r), a, At(job, Origin, r))
         /\ \A r \in Moved(job, Origin), a \in Addr :
              Stores(job) /\ a \in Words(job, At(job, Origin, r))
                => mem'[a] = Stored(job, Held(r), a, At(job, Origin, r))
         /\ \A r \in Regs :
              R'[r] = IF ~Stores(job) /\ r \in Moved(job, Origin) THEN Arrived(r)
                      ELSE IF r = job.reg /\ job.op = "load_incr"
                      THEN <<0, Origin + Cardinality(Moved(job, Origin)) * job.size>>
                      ELSE IF r = job.reg /\ job.op = "store_decr"
                                /\ Moved(job, Origin) = job.list
                      THEN <<0, Origin - (Cardinality(Moved(job, Origin)) - 1) * job.size>>
                      ELSE Begun(job)[r]
<1>1. job \in Instrs /\ mem \in [Addr -> Int] /\ before.mem \in [Addr -> Int] /\ Typed
  BY JobType DEF IInv, Typed, Partly
<1>2. Start(job) = Origin /\ Origin \in Int
  BY StartIsFirst DEF Origin
<1> DEFINE rs == Begun(job)
<1>3. RightIn(rs)
  BY BegunRight
<1>4. R' = RegsAfter(job, Origin, rs) /\ mem' = MemAfter(job, Origin, rs)
  BY <1>2
<1>5. job.list \subseteq Regs
  BY <1>1, InstrType
<1> HIDE DEF rs
<1>6. \A r \in job.list : Stores(job) => rs[r] = Held(r)
  BY <1>3, <1>5 DEF RightIn
<1>7. \A a \in Addr : OldOrStored(a)
  BY DEF Partly
<1>8. \A a \in Addr :
        \/ mem[a] = before.mem[a]
        \/ \E r \in job.list :
             /\ Stores(job) /\ a \in Words(job, At(job, Origin, r))
             /\ mem[a] = Stored(job, Held(r), a, At(job, Origin, r))
  BY <1>7 DEF OldOrStored, Held, Origin
<1>9. ASSUME ~Stores(job)
      PROVE  mem' = before.mem /\ mem = before.mem
  <2>1. \A a \in Addr : mem[a] = before.mem[a]
    BY <1>8, <1>9
  <2>2. \A a \in Addr : mem'[a] = mem[a]
    BY <1>1, <1>2, <1>4, <1>9, MemAfterWord
  <2>3. mem' = [a \in Addr |-> mem'[a]]
    BY <1>4 DEF MemAfter
  <2> QED
    BY <1>1, <2>1, <2>2, <2>3
<1>10. ASSUME NEW a \in Addr, Stores(job)
       PROVE  \/ mem'[a] = before.mem[a]
              \/ \E r \in job.list :
                   /\ Stores(job) /\ a \in Words(job, At(job, Origin, r))
                   /\ mem'[a] = Stored(job, Held(r), a, At(job, Origin, r))
  <2>1. \/ mem'[a] = mem[a]
        \/ \E r \in job.list :
             /\ a \in Words(job, At(job, Origin, r))
             /\ mem'[a] = Stored(job, rs[r], a, At(job, Origin, r))
    BY <1>1, <1>2, <1>4, MemAfterWord
  <2> QED
    BY <1>6, <1>8, <1>10, <2>1
<1>11. ASSUME NEW r \in Moved(job, Origin), NEW a \in Addr, Stores(job),
              a \in Words(job, At(job, Origin, r))
       PROVE  mem'[a] = Stored(job, Held(r), a, At(job, Origin, r))
  <2>1. r \in job.list
    BY DEF Moved
  <2>2. mem'[a] = Stored(job, rs[r], a, At(job, Origin, r))
    BY <1>1, <1>2, <1>4, <1>11, MemAfterWord
  <2> QED
    BY <1>6, <1>11, <2>1, <2>2
<1>12. ASSUME NEW r \in Regs, ~Stores(job), r \in Moved(job, Origin)
       PROVE  Loaded(job, r, rs[r], At(job, Origin, r)) = Arrived(r)
  <2>1. r \in job.list
    BY <1>12 DEF Moved
  <2> QED
    BY <1>1, <1>3, <1>12, <2>1, LoadedAgain
<1>13. \A r \in Regs :
         R'[r] = IF ~Stores(job) /\ r \in Moved(job, Origin)
                 THEN Loaded(job, r, rs[r], At(job, Origin, r))
                 ELSE IF r = job.reg /\ job.op = "load_incr"
                 THEN <<0, Origin + Cardinality(Moved(job, Origin)) * job.size>>
                 ELSE IF r = job.reg /\ job.op = "store_decr"
                           /\ Moved(job, Origin) = job.list
                 THEN <<0, Origin - (Cardinality(Moved(job, Origin)) - 1) * job.size>>
                 ELSE rs[r]
  BY <1>4 DEF RegsAfter
<1> QED
  BY <1>9, <1>10, <1>11, <1>12, <1>13 DEF rs

-----------------------------------------------------------------------------
(* Steps that keep, or end, a MOVEM.                                       *)

\* A transfer that faults leaves a MOVEM partly done (movem_*, ACCESS_FAULT).
LEMMA MovemFaultPartly ==
  ASSUME IInv, Partly, MovemFault, ~Traced
  PROVE  Partly'
<1>1. /\ InProgram /\ job # NoInstr /\ UNCHANGED <<job, before>>
      /\ R' = RegsAfter(job, Start(job), Begun(job))
      /\ mem' = MemAfter(job, Start(job), Begun(job))
      /\ Moved(job, Start(job)) # job.list
  BY DEF MovemFault, Fetched
<1>2. job \in Instrs /\ Start(job) = Origin
  BY <1>1, StartIsFirst, JobType DEF IInv, Typed, Origin
<1>3. RightIn(Begun(job))
  BY <1>1, BegunRight
<1>4. before'.R \in [Regs -> Int \X Int] /\ before'.mem \in [Addr -> Int]
  BY <1>1 DEF Partly
<1>5. \A a \in Addr : OldOrStored(a)'
  <2>1. \A a \in Addr :
          \/ mem'[a] = before.mem[a]
          \/ \E r \in job.list :
               /\ Stores(job) /\ a \in Words(job, At(job, Origin, r))
               /\ mem'[a] = Stored(job, Held(r), a, At(job, Origin, r))
    BY <1>1, LoopRight
  <2> QED
    BY <1>1, <2>1 DEF OldOrStored, Held, Origin, Stores
<1>6. \A r \in Regs : R'[r] = Begun(job)[r] \/ (~Stores(job) /\ r \in job.list /\ R'[r] = Arrived(r))
                        \/ (job.op = "load_incr" /\ r = job.reg)
  BY <1>1, <1>2, LoopRight DEF Moved
<1>7. job.op = "load_incr" => job.reg \notin job.list
  BY <1>2, MovemAssumption
<1>8. RightIn(R')
  BY <1>3, <1>6, <1>7 DEF RightIn, Stores
<1>9. RightIn(R)'
  <2>1. CASE Stores(job)
    BY <1>1, <1>8, <2>1 DEF RightIn, Held, Origin, Stores
  <2>2. CASE ~Stores(job)
    <3>1. mem' = mem
      BY <1>1, <2>2, LoopRight
    <3> QED
      BY <1>1, <1>8, <2>2, <3>1 DEF RightIn, Held, Arrived, Loaded, Origin, Stores
  <2> QED
    BY <2>1, <2>2
<1> QED
  BY <1>4, <1>5, <1>9 DEF Partly

\* A MOVEM that ends has done what one without interruption does (movem_*).
LEMMA MovemEndsWhole ==
  ASSUME IInv, Partly, MovemEnds
  PROVE  LET a == First(job, before.R)  n == Cardinality(job.list) IN
         IF Stores(job)
         THEN /\ \A r \in job.list : LET b == At(job, a, r)
                   v == IF job.op = "store_decr" /\ r = job.reg THEN <<0, a>> ELSE before.R[r]
                 IN \A w \in Words(job, b) : mem'[w] = Stored(job, v, w, b)
              /\ \A r \in Regs : R'[r] =
                   IF job.op = "store_decr" /\ r = job.reg
                   THEN <<0, a - (n - 1) * job.size>> ELSE before.R[r]
         ELSE /\ mem' = before.mem
              /\ \A r \in Regs : R'[r] =
                   IF r \in job.list
                   THEN Loaded(job, r, before.R[r], At(job, a, r))
                   ELSE IF job.op = "load_incr" /\ r = job.reg
                   THEN <<0, a + n * job.size>> ELSE before.R[r]
<1>1. /\ InProgram /\ job # NoInstr
      /\ R' = RegsAfter(job, Start(job), Begun(job))
      /\ mem' = MemAfter(job, Start(job), Begun(job))
      /\ Moved(job, Start(job)) = job.list
  BY DEF MovemEnds, Fetched
<1>2. job \in Instrs /\ Start(job) = Origin
  BY <1>1, StartIsFirst, JobType DEF IInv, Typed, Origin
<1>3. RightIn(Begun(job))
  BY <1>1, BegunRight
<1>4. job.list \subseteq Regs /\ (job.op = "load_incr" => job.reg \notin job.list)
  BY <1>2, InstrType, MovemAssumption
<1>5. Moved(job, Origin) = job.list
  BY <1>1, <1>2
<1>6. CASE Stores(job)
  <2>1. \A r \in job.list : \A w \in Words(job, At(job, Origin, r)) :
          mem'[w] = Stored(job, Held(r), w, At(job, Origin, r))
    BY <1>1, <1>2, <1>5, <1>6, MovedInMemory, LoopRight
  <2>2. \A r \in Regs : R'[r] =
          IF job.op = "store_decr" /\ r = job.reg
          THEN <<0, Origin - (Cardinality(job.list) - 1) * job.size>> ELSE Begun(job)[r]
    BY <1>1, <1>5, <1>6, LoopRight DEF Stores
  <2>3. \A r \in Regs : R'[r] =
          IF job.op = "store_decr" /\ r = job.reg
          THEN <<0, Origin - (Cardinality(job.list) - 1) * job.size>> ELSE before.R[r]
    BY <1>3, <1>6, <2>2 DEF RightIn, Held
  <2> QED
    BY <1>6, <2>1, <2>3 DEF Origin, Held
<1>7. CASE ~Stores(job)
  <2>1. mem' = before.mem
    BY <1>1, <1>7, LoopRight
  <2>2. \A r \in Regs : R'[r] =
          IF r \in job.list THEN Arrived(r)
          ELSE IF job.op = "load_incr" /\ r = job.reg
          THEN <<0, Origin + Cardinality(job.list) * job.size>> ELSE Begun(job)[r]
    BY <1>1, <1>5, <1>7, LoopRight DEF Stores
  <2>3. \A r \in Regs : R'[r] =
          IF r \in job.list THEN Arrived(r)
          ELSE IF job.op = "load_incr" /\ r = job.reg
          THEN <<0, Origin + Cardinality(job.list) * job.size>> ELSE before.R[r]
    BY <1>3, <1>7, <2>2 DEF RightIn
  <2> QED
    BY <1>7, <2>1, <2>3 DEF Origin, Arrived
<1> QED
  BY <1>6, <1>7
\* A step that keeps the registers, the memory and the MOVEM at hand, and whether
\* it is unfinished.
LEMMA KeepsPartly ==
  ASSUME Partly, UNCHANGED <<R, mem, job, before>>, Unfinished' = Unfinished
  PROVE  Partly'
BY DEF Partly, OldOrStored, RightIn, Held, Arrived, Origin, Loaded, Stores

\* A frame put on the frames of handlers changes nothing for the program; a first
\* frame remembers whether a MOVEM is unfinished (handle_exception).
LEMMA PushUnfinished ==
  ASSUME IInv, NEW f \in FrameSet, stack' = <<f>> \o stack,
         InProgram => f.CM = movem_run
  PROVE  Unfinished' = Unfinished
<1>1. stack \in Seq(FrameSet)
  BY DEF IInv, Typed
<1>2. /\ Len(stack) \in Nat /\ Len(stack') = Len(stack) + 1 /\ stack'[1] = f
      /\ \A k \in 2..Len(stack) + 1 : stack'[k] = stack[k - 1]
      /\ stack' # <<>>
  BY <1>1, Pushed
<1>3. CASE InProgram
  <2>1. Len(stack) = 0
    BY <1>3 DEF InProgram
  <2>2. Oldest' = f
    BY <1>2, <2>1 DEF Oldest
  <2> QED
    BY <1>2, <1>3, <2>2 DEF Unfinished, InProgram
<1>4. CASE ~InProgram
  <2>1. Len(stack) > 0
    BY <1>1, <1>2, <1>4, EmptySeq DEF InProgram
  <2>2. Oldest' = Oldest
    BY <1>2, <2>1 DEF Oldest
  <2> QED
    BY <1>2, <1>4, <2>2 DEF Unfinished, InProgram
<1> QED
  BY <1>3, <1>4

\* RTE to a handler changes nothing for the program, RTE to the program says
\* whether the MOVEM is unfinished (do_rte).
LEMMA RteUnfinished ==
  ASSUME IInv, Rte
  PROVE  Unfinished' = Unfinished /\ UNCHANGED <<R, mem, job, before>>
<1>1. stack \in Seq(FrameSet) /\ stack # <<>> /\ ReturnsRight
  BY DEF IInv, Typed, Rte, InProgram
<1>2. /\ Tail(stack) \in Seq(FrameSet)
      /\ Len(Tail(stack)) = Len(stack) - 1
      /\ \A k \in 1..Len(stack) - 1 : Tail(stack)[k] = stack[k + 1]
      /\ Len(stack) \in Nat \ {0}
      /\ Head(stack) = stack[1] /\ Head(stack) \in FrameSet
      /\ Tail(stack) # <<>> => Len(stack) > 1
      /\ Tail(stack) = <<>> => Len(stack) = 1
  BY <1>1, Popped
<1>3. ~Head(stack).CT
  BY <1>1, <1>2 DEF ReturnsRight
<1>4. /\ stack' = Tail(stack) /\ UNCHANGED <<R, mem, job, before>>
      /\ movem_run' = (Head(stack).CM \/ movem_run)
  BY <1>3 DEF Rte, Returned
<1>5. CASE Tail(stack) = <<>>
  <2>1. Oldest = Head(stack)
    BY <1>2, <1>5 DEF Oldest
  <2>2. ~Oldest.CM => ~movem_run
    BY <1>1 DEF ReturnsRight
  <2>3. Oldest.CM \in BOOLEAN
    BY <1>2, <2>1 DEF FrameSet
  <2>4. movem_run' = Oldest.CM
    BY <1>4, <2>1, <2>2, <2>3, Zenon
  <2> QED
    BY <1>1, <1>4, <1>5, <2>4 DEF Unfinished
<1>6. CASE Tail(stack) # <<>>
  <2>1. Oldest' = Oldest
    BY <1>2, <1>4, <1>6 DEF Oldest
  <2> QED
    BY <1>1, <1>4, <1>6, <2>1 DEF Unfinished
<1> QED
  BY <1>4, <1>5, <1>6

\* A MOVEM met by the program has done nothing yet (op_prologue).
LEMMA ReachPartly ==
  ASSUME IInv, NEW i \in Instrs, Reach(i)
  PROVE  Partly'
<1>1. /\ stack = <<>> /\ stack' = stack /\ movem_run' = movem_run
      /\ before' = [R |-> R, mem |-> mem] /\ R' = R /\ mem' = mem /\ job = NoInstr
  BY DEF Reach, InProgram
<1>2. ~movem_run
  BY <1>1 DEF IInv, StartsRight
<1>3. ~Unfinished'
  BY <1>1, <1>2 DEF Unfinished
<1>4. before'.R = R /\ before'.mem = mem
  BY <1>1
<1>5. before'.R \in [Regs -> Int \X Int] /\ before'.mem \in [Addr -> Int]
  BY <1>4 DEF IInv, Typed
<1>6. \A a \in Addr : OldOrStored(a)'
  BY <1>1, <1>4 DEF OldOrStored
<1> QED
  BY <1>3, <1>5, <1>6 DEF Partly

\* Every other step of an untraced program keeps what a MOVEM has done.
LEMMA NextPartly ==
  ASSUME IInv, Partly, [Next]_vars, ~Traced, ~IrqAtRestart, ~MovemInside
  PROVE  Partly'
<1>1. CASE UNCHANGED vars
  BY <1>1, KeepsPartly DEF vars, Unfinished, Oldest
<1>2. CASE \E i \in Instrs : Reach(i)
  BY <1>2, ReachPartly
<1>3. CASE FetchFault
  <2>1. InProgram /\ UNCHANGED <<R, mem, job, before>>
    BY <1>3 DEF FetchFault
  <2>2. movem_run \in BOOLEAN /\ Prologue \in Int /\ Traced = FALSE
    BY MovemAssumption DEF IInv, Typed, Prologue
  <2>3. PICK f \in FrameSet : stack' = <<f>> \o stack /\ f.CM = movem_run
    BY <1>3, <2>2, FaultFrame DEF FetchFault
  <2> QED
    BY <2>1, <2>3, PushUnfinished, KeepsPartly
<1>4. CASE MovemFault
  BY <1>4, MovemFaultPartly
<1>5. CASE MovemEnds
  <2>1. job' = NoInstr
    BY <1>5 DEF MovemEnds
  <2> QED
    BY <2>1 DEF Partly
<1>6. CASE Interrupt
  <2>1. PlainFrame \in FrameSet /\ PlainFrame.CM = FALSE
    BY DEF PlainFrame, Frame, FrameSet
  <2>2. /\ stack' = <<PlainFrame>> \o stack /\ UNCHANGED <<R, mem, job, before>>
        /\ ~(InProgram /\ movem_run)
    BY <1>6 DEF Interrupt
  <2>3. InProgram => PlainFrame.CM = movem_run
    BY <2>1, <2>2 DEF IInv, Typed
  <2> QED
    BY <2>1, <2>2, <2>3, PushUnfinished, KeepsPartly
<1>7. CASE Rte
  BY <1>7, RteUnfinished, KeepsPartly
<1>8. CASE \E ea \in HandlerEAs : HandlerOp(ea) \/ HandlerFault(ea) \/ HandlerMovem(ea)
  <2>1. PICK ea \in HandlerEAs : HandlerOp(ea) \/ HandlerFault(ea) \/ HandlerMovem(ea)
    BY <1>8
  <2>2. ~InProgram /\ UNCHANGED <<R, job, before>>
    BY <2>1 DEF HandlerOp, HandlerFault, HandlerMovem
  <2>3. CASE HandlerOp(ea) \/ HandlerMovem(ea)
    <3>1. stack' = stack
      BY <2>3 DEF HandlerOp, HandlerMovem
    <3>2. mem' = mem
      BY <2>3 DEF HandlerOp, HandlerMovem
    <3>3. Unfinished' = Unfinished
      BY <2>2, <3>1 DEF Unfinished, Oldest, InProgram
    <3> QED
      BY <2>2, <3>2, <3>3, KeepsPartly
  <2>4. CASE HandlerFault(ea)
    <3>1. HandlerEAs \subseteq Word
      BY MovemAssumption, Zenon
    <3>2. ea \in Int /\ movem_run \in BOOLEAN
      BY <3>1 DEF Word, IInv, Typed
    <3>3. PICK f \in FrameSet : stack' = <<f>> \o stack
      BY <2>4, <3>2, FaultFrame DEF HandlerFault
    <3>4. mem' = mem
      BY <2>4 DEF HandlerFault
    <3> QED
      BY <2>2, <3>3, <3>4, PushUnfinished, KeepsPartly
  <2> QED
    BY <2>1, <2>3, <2>4
<1>9. CASE \E p \in Pages, x \in Perms : SetPage(p, x)
  <2>1. ~InProgram /\ UNCHANGED <<R, mem, stack, job, before>>
    BY <1>9 DEF SetPage
  <2>2. Unfinished' = Unfinished
    BY <2>1 DEF Unfinished, Oldest, InProgram
  <2> QED
    BY <2>1, <2>2, KeepsPartly
<1> QED
  BY <1>1, <1>2, <1>3, <1>4, <1>5, <1>6, <1>7, <1>8, <1>9, Zenon DEF Next

\* Only its end takes a MOVEM away (movem_*).
LEMMA OnlyEndsEnd ==
  ASSUME [Next]_vars, job # NoInstr, job' = NoInstr
  PROVE  MovemEnds
BY DEF Next, vars, Reach, FetchFault, MovemFault, Interrupt, Rte, HandlerOp,
       HandlerFault, HandlerMovem, SetPage

-----------------------------------------------------------------------------
(* The theorems. Besides, no handler uses MOVEM while one is unfinished.   *)

\* What other programs and devices see in memory while a MOVEM is unfinished,
\* however often it faults, is the old word or the one the MOVEM stores there
\* (movem_*_store_*, ACCESS_FAULT, do_rte).
THEOREM AlwaysOnlyItsOwn ==
  ASSUME ~Traced, ~IrqAtRestart, ~MovemInside
  PROVE  Spec => []OnlyItsOwn
<1>1. Init => IInv /\ Partly
  BY InitIInv DEF Init, Partly
<1>2. IInv /\ Partly /\ [Next]_vars => IInv' /\ Partly'
  BY NextIInv, NextPartly
<1>3. Partly => OnlyItsOwn
  BY DEF Partly, OnlyItsOwn
<1> QED
  BY <1>1, <1>2, <1>3, PTL DEF Spec

\* However often it faulted and whatever the handlers did, a MOVEM that ends has
\* moved each register once and left its operand register as an undisturbed one
\* does (movem_*, ACCESS_FAULT, handle_exception, do_rte).
THEOREM AlwaysEndsWhole ==
  ASSUME ~Traced, ~IrqAtRestart, ~MovemInside
  PROVE  Spec => EndsWhole
<1> DEFINE Ends ==
      job # NoInstr /\ job' = NoInstr =>
       LET a == First(job, before.R)  n == Cardinality(job.list) IN
       IF Stores(job)
       THEN /\ \A r \in job.list : LET b == At(job, a, r)
                 v == IF job.op = "store_decr" /\ r = job.reg THEN <<0, a>> ELSE before.R[r]
               IN \A w \in Words(job, b) : mem'[w] = Stored(job, v, w, b)
            /\ \A r \in Regs : R'[r] =
                 IF job.op = "store_decr" /\ r = job.reg
                 THEN <<0, a - (n - 1) * job.size>> ELSE before.R[r]
       ELSE /\ mem' = before.mem
            /\ \A r \in Regs : R'[r] =
                 IF r \in job.list
                 THEN Loaded(job, r, before.R[r], At(job, a, r))
                 ELSE IF job.op = "load_incr" /\ r = job.reg
                 THEN <<0, a + n * job.size>> ELSE before.R[r]
<1>1. Init => IInv /\ Partly
  BY InitIInv DEF Init, Partly
<1>2. IInv /\ Partly /\ [Next]_vars => IInv' /\ Partly'
  BY NextIInv, NextPartly
<1>3. IInv /\ Partly /\ [Next]_vars => [Ends]_vars
  BY OnlyEndsEnd, MovemEndsWhole
<1> HIDE DEF Ends
<1>4. Spec => [][Ends]_vars
  BY <1>1, <1>2, <1>3, PTL DEF Spec
<1> QED
  BY <1>4 DEF Ends, EndsWhole
=============================================================================
