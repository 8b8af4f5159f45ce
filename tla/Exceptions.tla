----------------------------- MODULE Exceptions -----------------------------
(***************************************************************************)
(* Exceptions of the 68040: handle_exception builds a stack frame, do_rte  *)
(* takes it down, and SaveSP and LoadSP move A7 between the live register  *)
(* and its three shadows USP, ISP and MSP.                                 *)
(*                                                                         *)
(* An instruction is one step: op_prologue, the handler of the opcode, and *)
(* the trace exception run_op may raise at the end; handle_exception runs  *)
(* on the same thread before the next instruction. The memory is words of  *)
(* 16 bits; a word says what was pushed, not its bits. A program counter   *)
(* is <<high word, low word>>. What interleaves is the guest: instructions *)
(* that push, pop, change the status register and fail in every way, and   *)
(* interrupts between any two of them.                                     *)
(***************************************************************************)
EXTENDS Integers, Sequences

CONSTANTS
  Pcs,        \* program counters of the interrupted program
  Handler,    \* the program counter of every handler
  Raisers,    \* the exceptions the guest's instructions raise
  Levels,     \* the interrupt levels
  SrLoads,    \* <<T, I>>: what the guest loads in the status register
  Programs,   \* the status registers the program may be started with
  StackWords, \* the words of each stack
  MaxPush,    \* bound: the words pushed by the program or a handler
  MaxDepth    \* bound: exceptions not yet returned from

Sr == [S : BOOLEAN, M : BOOLEAN, T : 0..2, I : 0..7]

UserBase == MaxPush
MasterBase == UserBase + StackWords
InterruptBase == MasterBase + StackWords
Addr == 0..(InterruptBase - 1)

\* The exceptions by the frame handle_exception builds.
Kinds == {"illegal", "trap", "addr", "chk", "trace", "fp", "afault"}

ASSUME ExceptionsAssumption ==
  /\ Pcs \subseteq Nat \X Nat /\ Handler \in Nat \X Nat
  /\ Raisers \subseteq Kinds \ {"trace"}
  /\ Levels \subseteq 1..7
  /\ SrLoads \subseteq (0..2) \X (0..7)
  /\ Programs \subseteq Sr
  /\ MaxPush \in Nat /\ MaxDepth \in Nat
  /\ StackWords \in Nat /\ StackWords >= MaxDepth * (30 + MaxPush)

VARIABLES
  cpu,     \* the registers and the memory of the stacks
  ctx,     \* history: what each exception interrupted, newest first
  derailed \* history: an exception was taken of which the code is known not to
           \* return (see Orderly); the runs stop there

vars == <<cpu, ctx, derailed>>

-----------------------------------------------------------------------------
(* The registers.                                                          *)

GetSR(c) == [S |-> c.S, M |-> c.M, T |-> c.T, I |-> c.I]

SaveSP(c) ==
  IF ~c.S THEN [c EXCEPT !.USP = c.A7]
  ELSE IF c.M THEN [c EXCEPT !.MSP = c.A7] ELSE [c EXCEPT !.ISP = c.A7]

\* The shadow of A7 in the current mode.
Shadow(c) == IF ~c.S THEN c.USP ELSE IF c.M THEN c.MSP ELSE c.ISP
LoadSP(c) == [c EXCEPT !.A7 = Shadow(c)]

SetSR(c, v) ==
  LoadSP([SaveSP(c) EXCEPT !.S = v.S, !.M = v.M, !.T = v.T, !.I = v.I])

\* PUSH16 of the words, the first one first.
Push(c, words) ==
  [c EXCEPT !.A7 = c.A7 - Len(words),
            !.mem = [a \in Addr |->
                       IF a \in (c.A7 - Len(words))..(c.A7 - 1)
                       THEN words[c.A7 - a] ELSE c.mem[a]]]

\* n words are popped. What they were is forgotten: nothing reads below A7.
Pop(c, n) ==
  [c EXCEPT !.A7 = @ + n,
            !.mem = [a \in Addr |-> IF a \in c.A7..(c.A7 + n - 1)
                                    THEN <<"data">> ELSE c.mem[a]]]

Pc(pc) == <<<<"lo", pc[2]>>, <<"hi", pc[1]>>>>
Long == <<<<"data">>, <<"data">>>>
Format(f) == <<<<"fmt", f>>>>
Status(sr) == <<<<"sr", sr>>>>

-----------------------------------------------------------------------------
(* handle_exception.                                                       *)

\* A format 0 frame; a format 2 or 3 frame holds an address below it.
Frame0(pc, sr) == Format(0) \o Pc(pc) \o Status(sr)
FrameOf(f, pc, word) == Long \o Format(f) \o Pc(pc) \o <<word>>

\* The access fault frame: 9 longs, the address, 3 words, the special status
\* word (CT: a trace was pending), the effective address.
FrameFault(pc, sr, ct) ==
  [i \in 1..18 |-> <<"data">>] \o Long \o [i \in 1..3 |-> <<"data">>]
  \o <<<<"ssw", ct>>>> \o Long \o Format(7) \o Pc(pc) \o Status(sr)

\* The supervisor's stack pointer is loaded, the current one not saved.
Enter(c) == [LoadSP([c EXCEPT !.S = TRUE]) EXCEPT !.T = 0]

Vector(c) == [c EXCEPT !.PC = Handler]

\* The frame of exception n of the instruction at c.oldpc, the next one being at
\* c.PC; ct: must_trace is set.
Frame(c, n, ct) ==
  LET sr == GetSR(c) IN
  IF n = "illegal" THEN Frame0(c.oldpc, sr)
  ELSE IF n = "trap" THEN Frame0(c.PC, sr)
  ELSE IF n = "addr" THEN FrameOf(2, c.oldpc, <<"sr", sr>>)
  ELSE IF n \in {"chk", "trace"} THEN FrameOf(2, c.PC, <<"sr", sr>>)
  ELSE IF n = "fp"
       THEN FrameOf(3, c.PC, <<"lo", c.oldpc[2]>>)      \* EXCEPTION3(n, oldpc)
  ELSE FrameFault(c.oldpc, sr, ct)

Raise(c, n, ct) == Vector(Push(Enter(c), Frame(c, n, ct)))

\* ex_PUSH32 of the throwaway frame's format: the word the format is read from
\* is the upper half, which is 0.
Throwaway(pc, sr) == Format(1) \o Format(0) \o Pc(pc) \o Status(sr)

Irq(c, l) ==
  LET sr == GetSR(c)
      d == Push([Enter(c) EXCEPT !.I = l], Frame0(c.PC, sr))
  IN Vector(IF c.M THEN Push(LoadSP([d EXCEPT !.M = FALSE]), Throwaway(c.PC, sr))
            ELSE d)

-----------------------------------------------------------------------------
(* do_rte.                                                                 *)

Field(c, i) == c.mem[c.A7 + i][2]      \* the word i of the frame at A7

\* Defect: the address of a format 2 or 3 frame is left on the stack.
MutTakeDown(c) ==
  [SetSR(Pop(c, IF Field(c, 3) = 7 THEN 30 ELSE 4), Field(c, 0))
     EXCEPT !.PC = <<0, Field(c, 2)>>]

\* The frame at A7, not a throwaway, is taken down; POP32 keeps 16 bits.
TakeDown(c) ==
  LET f == Field(c, 3)
      words == IF f = 7 THEN 4 + 26 ELSE IF f \in {2, 3} THEN 4 + 2 ELSE 4
  IN [SetSR(Pop(c, words), Field(c, 0))
        EXCEPT !.PC = <<0, Field(c, 2)>>]

\* A throwaway frame sets the status register and so the stack of the next. The
\* frame under a throwaway is never another one: Irq pushes a format 0 there.
Returned(c) ==
  IF Field(c, 3) = 1
  THEN TakeDown(SetSR(Pop(c, 4), Field(c, 0)))
  ELSE TakeDown(c)

\* The access fault frame at A7 says that a trace was pending.
RestartsTrace(c) == Field(c, 3) = 7 /\ Field(c, 6)

-----------------------------------------------------------------------------
(* The guest.                                                              *)

Init ==
  \E sr \in Programs, pc \in Pcs :
    /\ cpu = LoadSP([A7 |-> 0, USP |-> UserBase, MSP |-> MasterBase,
                     ISP |-> InterruptBase, S |-> sr.S, M |-> sr.M, T |-> sr.T,
                     I |-> sr.I, PC |-> pc, oldpc |-> pc,
                     mem |-> [a \in Addr |-> <<"data">>]])
    /\ ctx = <<>>
    /\ derailed = FALSE

\* Words on the stack of the program, or of the handler, that runs now.
Own ==
  (IF ctx # <<>> THEN Head(ctx).at
   ELSE IF ~cpu.S THEN UserBase ELSE IF cpu.M THEN MasterBase ELSE InterruptBase)
  - cpu.A7

\* The instruction at PC, the next one being at pc.
Fetched(pc) == [cpu EXCEPT !.oldpc = cpu.PC, !.PC = pc]

\* The exceptions after which RTE finds its way back: A7 is what LoadSP will
\* load again, the frame is whole, and the program counter is below 64K.
Orderly(c, n, pc) ==
  /\ c.A7 = Shadow(c)
  /\ n # "fp"
  /\ ~(n = "irq" /\ c.M)
  /\ pc[1] = 0

\* Where the frame says to resume.
Resume(c, n) == IF n \in {"illegal", "addr", "afault"} THEN c.oldpc ELSE c.PC

\* Exception n takes the processor from c to d; the frames below are known.
Took(c, d, n, below) ==
  /\ Len(below) < MaxDepth
  /\ cpu' = d
  /\ ctx' = <<[kind |-> n, sr |-> GetSR(c), pc |-> Resume(c, n), A7 |-> c.A7,
               USP |-> c.USP, MSP |-> c.MSP, ISP |-> c.ISP, at |-> d.A7]>> \o below
  /\ derailed' = ~Orderly(c, n, Resume(c, n))

\* An instruction ends in c; must_trace raises the trace exception.
Ends(c, must_trace, below) ==
  IF must_trace THEN Took(c, Raise(c, "trace", FALSE), "trace", below)
  ELSE cpu' = c /\ ctx' = below /\ UNCHANGED derailed

\* TRACE_BRANCH: T = 1 traces a change of flow, T = 2 every instruction.
Traced(c) == c.T = 2

NextPcs == IF ctx = <<>> THEN Pcs ELSE {Handler}

\* An instruction that only changes flow (Bcc, JMP, JSR ...).
Branch(pc) ==
  /\ ~derailed
  /\ Ends(Fetched(pc), Traced(cpu) \/ cpu.T = 1, ctx)

\* Defect: PUSH16 stores, then decrements.
MutPushWord(pc) ==
  /\ ~derailed /\ Own < MaxPush
  /\ LET m == [a \in Addr |-> IF a = cpu.A7 THEN <<"data">> ELSE cpu.mem[a]]
     IN Ends([Fetched(pc) EXCEPT !.A7 = @ - 1, !.mem = m], Traced(cpu), ctx)

\* PUSH16 and POP16.
PushWord(pc) ==
  /\ ~derailed /\ Own < MaxPush
  /\ Ends(Push(Fetched(pc), <<<<"data">>>>), Traced(cpu), ctx)
PopWord(pc) ==
  /\ ~derailed /\ Own > 0
  /\ Ends(Pop(Fetched(pc), 1), Traced(cpu), ctx)

\* MOVE, ANDI, ORI or EORI to SR, keeping S and M.
LoadSr(t, i, pc) ==
  /\ ~derailed /\ cpu.S
  /\ LET c == SetSR(Fetched(pc), [S |-> TRUE, M |-> cpu.M, T |-> t, I |-> i]) IN
     Ends(c, Traced(cpu) \/ c.T = 1, ctx)

\* An instruction of the program or of a handler raises exception n.
Fail(n, pc) ==
  /\ ~derailed
  /\ Took(Fetched(pc), Raise(Fetched(pc), n, Traced(cpu)), n, ctx)

\* op_prologue delivers an interrupt.
Interrupt(l) ==
  /\ ~derailed
  /\ l = 7 \/ l > cpu.I
  /\ Took(cpu, Irq(cpu, l), "irq", ctx)

\* RTE, by a handler that has popped what it pushed.
Rte ==
  /\ ~derailed /\ cpu.S /\ ctx # <<>> /\ Own = 0
  /\ LET c == Returned(Fetched(Handler)) IN
     IF RestartsTrace(cpu)
     THEN Took(c, Raise(c, "trace", FALSE), "trace", Tail(ctx))
     ELSE Ends(c, Traced(cpu) \/ c.T = 1, Tail(ctx))

Next ==
  \/ \E pc \in NextPcs : Branch(pc) \/ PushWord(pc) \/ PopWord(pc)
  \/ \E x \in SrLoads, pc \in NextPcs : LoadSr(x[1], x[2], pc)
  \/ \E n \in Raisers, pc \in NextPcs : Fail(n, pc)
  \/ \E l \in Levels : Interrupt(l)
  \/ Rte

Spec == Init /\ [][Next]_vars

-----------------------------------------------------------------------------
(* Correctness.                                                            *)

MayReturn == cpu.S /\ ctx # <<>> /\ Own = 0

\* RTE gives back what the exception interrupted: the status register, the
\* program counter and all the stack pointers, however the handlers nested,
\* masked, traced and used their stacks in between (handle_exception, do_rte).
ReturnsToInterrupted ==
  ~derailed /\ MayReturn =>
    LET c == Returned(cpu)  x == Head(ctx) IN
    /\ GetSR(c) = x.sr /\ c.PC = x.pc
    /\ <<c.A7, c.USP, c.MSP, c.ISP>> = <<x.A7, x.USP, x.MSP, x.ISP>>

FramesApart ==
  \A i \in 1..Len(ctx) :
    LET x == ctx[i] IN
    /\ cpu.mem[x.at] = <<"sr", x.sr>>
    /\ cpu.mem[x.at + 2] = <<"lo", x.pc[2]>>
    /\ cpu.A7 <= x.at /\ (i > 1 => ctx[i - 1].at < x.at)

\* No frame is damaged before its handler returns, by frames of later
\* exceptions or by what the handlers push, and no two lie on each other, as
\* long as no exception was taken with A7 unsaved (handle_exception, PUSH16).
FramesIntact == ~derailed => FramesApart

\* In supervisor mode A7 is the stack pointer, MSP or ISP (what
\* test/cpu/movec.cc reads), so an exception in a handler pushes its frame
\* below the handler's.
NestedFramesApart ==
  (\A i \in 1..Len(ctx) : ctx[i].kind = "trap") => FramesApart
=============================================================================
