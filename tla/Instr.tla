-------------------------------- MODULE Instr --------------------------------
(***************************************************************************)
(* The integer instructions and their memory operands under demand paging. *)
(* A handler of op.cc runs through its accesses in order. An access the    *)
(* page tables do not allow throws out of it; what the handler has done by *)
(* then stays done. The pager of the guest reads the record of the fault   *)
(* (ex_addr and fault_SSW), allows the page and returns; the handler of    *)
(* the instruction runs again from its start.                              *)
(*                                                                         *)
(* A handler is a chain of operations on the state of the processor, one   *)
(* for each call of the source, and does nothing more after a fault. The   *)
(* arithmetic is an arbitrary function of the operands (Alu has it). MOVEM *)
(* is in Movem; handlers of exceptions give the program its registers back *)
(* (Exceptions says when).                                                 *)
(***************************************************************************)
EXTENDS Integers, Sequences, FiniteSets

CONSTANTS
  Pages,      \* number of pages of data
  Regs,       \* the address registers of operands, of 0 and 7
  Operands,   \* the addresses in register 0
  Second,     \* the address in register 1
  StackTop,   \* the address in register 7
  Perms,      \* what the page tables may allow: "none", "ro", "rw"
  InitMem,    \* the bytes of memory
  Calc(_, _)  \* a byte of a result, from a byte of each operand

PageSize == 4
Size == Pages * PageSize          \* addresses wrap at Size
Memory == 0..(Size - 1)
ExtWord == Size                   \* the extension words, on a page of their own
PageOf(a) == a \div PageSize
Sizes == {1, 2, 4}
Byte == 0..255

ASSUME InstrAssumption ==
  /\ Pages \in Nat \ {0} /\ Regs \subseteq {0, 7}
  /\ Size <= 256    \* an address is the last byte of its long
  /\ Operands \subseteq Memory /\ Second \in Memory /\ StackTop \in Memory
  /\ Perms \subseteq {"none", "ro", "rw"} /\ "rw" \in Perms
  /\ InitMem \in [Memory -> Byte]
  /\ \A a, b \in Byte : Calc(a, b) \in Byte

VARIABLES
  job,    \* the instruction
  s,      \* the processor, memory and page tables (StateOf)
  first,  \* history: s before the instruction
  begun,  \* history: s when its handler was last entered
  phase,  \* "run", "fault", "done"
  torn    \* history: a run that faulted had written over what it had read

vars == <<job, s, first, begun, phase, torn>>

-----------------------------------------------------------------------------
(* Accesses (memory.cc).                                                   *)

Wrap(a) == a % Size

\* Defect: no operand is cut.
MutParts(a, n) == <<<<a, n>>>>

\* Each part of an operand is translated by itself: <<address, length>>.
Half(a) == IF a % 2 = 1 THEN <<<<a, 1>>, <<a + 1, 1>>>> ELSE <<<<a, 2>>>>
Parts(a, n) ==
  CASE n = 1 -> <<<<a, 1>>>>
    [] n = 2 -> Half(a)
    [] n = 4 -> IF a % 4 >= 2 THEN Half(a) \o Half(a + 2) ELSE <<<<a, 4>>>>
    [] n = 16 -> <<<<a, 16>>>>

\* ptest_and_check.
Allowed(t, a, w) == t.perm[PageOf(a)] \in (IF w THEN {"rw"} ELSE {"ro", "rw"})
Denied(t, parts, w) == {k \in DOMAIN parts : ~Allowed(t, Wrap(parts[k][1]), w)}
First(S) == CHOOSE k \in S : \A j \in S : k <= j

Range16(a, n) == {Wrap(a + k) : k \in 0..(n - 1)}
Bytes(t, a, n) == [k \in 1..n |-> t.mem[Wrap(a + k - 1)]]
Put(mem, a, v) ==
  [b \in Memory |-> LET k == (b - a) % Size IN IF k < Len(v) THEN v[k + 1] ELSE mem[b]]

\* Defect: the record does not say that it is the second part.
MutRecord(t, a, n, read, k, tt, other) ==
  [addr |-> a, n |-> n, read |-> read, MA |-> FALSE, LK |-> t.lock, tt |-> tt,
   other |-> other]

\* ACCESS_FAULT: what it records of an access of n bytes at a. k is the part
\* that was denied, tt the kind of transfer, other that the record names
\* another address space than the one that was checked.
Record(t, a, n, read, k, tt, other) ==
  [addr |-> a, n |-> n, read |-> read, MA |-> k > 1, LK |-> t.lock, tt |-> tt,
   other |-> other]
Raise(t, r) == [t EXCEPT !.fault = TRUE, !.ssw = r]

\* What follows a fault is not done.
Go(t, next) == IF t.fault THEN t ELSE next

\* ReadB, ReadW, ReadL, ReadSB, ReadSW, ReadSL: the value goes to v, the one
\* read before to u. w: the page must be writable too.
ReadIn(t, a, n, w, tt, other) ==
  LET ps == Parts(a, n)  bad == Denied(t, ps, w) IN
  Go(t, IF bad # {} THEN Raise(t, Record(t, Wrap(a), n, TRUE, First(bad), tt, other))
        ELSE [t EXCEPT !.u = t.v, !.v = Bytes(t, a, n), !.rd = @ \cup Range16(a, n)])
Read(t, a, n) == ReadIn(t, a, n, t.lock, 0, FALSE)

\* WriteB, WriteW, WriteL, WriteSB, WriteSW, WriteSL: the parts before the one
\* denied are written.
WriteIn(t, a, v, tt, other) ==
  LET ps == Parts(a, Len(v))
      bad == Denied(t, ps, TRUE)
      n == IF bad = {} THEN Len(v) ELSE (ps[First(bad)][1] - a)
      w == [t EXCEPT !.mem = Put(@, Wrap(a), SubSeq(v, 1, n)),
                     !.wr = @ \cup Range16(a, n)]
  IN Go(t, IF bad = {} THEN w
           ELSE Raise(w, Record(t, Wrap(a), Len(v), FALSE, First(bad), tt, other)))
Write(t, a, v) == WriteIn(t, a, v, 0, FALSE)

\* FETCH of an extension word, FETCH32.
Fetch(t) ==
  Go(t, IF Allowed(t, ExtWord, FALSE) THEN t
        ELSE Raise(t, Record(t, ExtWord, 2, TRUE, 1, 0, FALSE)))

\* Transfer16. The record of the write is added to the one of an earlier fault.
Read16(t, a, other) ==
  Go(t, IF Allowed(t, Wrap(a), FALSE)
        THEN [t EXCEPT !.v = Bytes(t, a, 4), !.rd = @ \cup Range16(a, 4)]
        ELSE Raise(t, Record(t, a, 4, TRUE, 1, 1, other)))
Added(tt, old) == IF old \in {0, tt} THEN tt ELSE 3
Write16(t, a, other) ==
  LET r == Record(t, a, 4, FALSE, 1, 1, other) IN
  Go(t, IF Allowed(t, Wrap(a), TRUE)
        THEN [t EXCEPT !.mem = Put(@, Wrap(a), t.v), !.wr = @ \cup Range16(a, 4)]
        ELSE Raise(t, [r EXCEPT !.read = t.ssw.read, !.MA = t.ssw.MA,
                                !.LK = @ \/ t.ssw.LK, !.tt = Added(1, t.ssw.tt)]))
Line(a) == a - (a % 4)            \* a line of 16 bytes is one page here
Transfer16(t, from, to, other) ==
  Write16(Read16(t, Line(Wrap(from)), other), Line(Wrap(to)), other)

-----------------------------------------------------------------------------
(* Effective addresses (m68k_ea.cc).                                       *)

Step(e, n) == IF e.reg = 7 /\ n = 1 THEN 2 ELSE n

\* ea_getaddr and parseExt: the address goes to a.
GetAddr(t, e, n) ==
  LET an == t.A[e.reg]
      moved(d) == [t EXCEPT !.A[e.reg] = Wrap(@ + d)]
      f == Fetch(t)
      p == Read(f, an, 4)
  IN CASE e.mode = "base" -> Go(t, [t EXCEPT !.a = an])
       [] e.mode = "incr" -> Go(t, [moved(Step(e, n)) EXCEPT !.a = an])
       [] e.mode = "decr" -> LET d == moved(0 - Step(e, n)) IN Go(t, [d EXCEPT !.a = d.A[e.reg]])
       [] e.mode = "disp" -> Go(f, [f EXCEPT !.a = Wrap(an + 1)])
       [] e.mode = "indirect" ->
            Go(p, [p EXCEPT !.a = Wrap(p.v[4]), !.v = t.v, !.u = t.u])

InReg(t, v) == [t EXCEPT !.D = SubSeq(@, 1, 4 - Len(v)) \o v]

\* Defect: the operand is read before the bus is locked.
MutEaRead(t, e, n, lk) ==
  IF e.mode = "reg" THEN Go(t, [t EXCEPT !.u = t.v, !.v = SubSeq(t.D, 5 - n, 4)])
  ELSE IF e.mode = "imm"
  THEN LET f == Fetch(t) IN Go(f, [f EXCEPT !.u = t.v, !.v = [k \in 1..n |-> 9]])
  ELSE LET g == GetAddr(t, e, n)  r == Read([g EXCEPT !.EA = g.a], g.a, n) IN
       Go(g, Go(r, [r EXCEPT !.lock = lk]))

\* ea_readB, ea_readW, ea_readL.
EaRead(t, e, n, lk) ==
  IF e.mode = "reg" THEN Go(t, [t EXCEPT !.u = t.v, !.v = SubSeq(t.D, 5 - n, 4)])
  ELSE IF e.mode = "imm"
  THEN LET f == Fetch(t) IN Go(f, [f EXCEPT !.u = t.v, !.v = [k \in 1..n |-> 9]])
  ELSE LET g == GetAddr(t, e, n) IN
       Go(g, Read([g EXCEPT !.EA = g.a, !.lock = lk], g.a, n))

\* ea_writeB, ea_writeW, ea_writeL of v: under the lock at the address read from.
EaWrite(t, e) ==
  IF e.mode = "reg" THEN Go(t, InReg(t, t.v))
  ELSE LET g == GetAddr(t, e, Len(t.v))
           at == IF t.lock THEN t ELSE Go(g, [g EXCEPT !.EA = g.a])
           w == Write(at, at.EA, at.v)
       IN Go(t, Go(w, [w EXCEPT !.lock = FALSE]))

-----------------------------------------------------------------------------
(* Arithmetic: result and flags are functions of the operands. Only the    *)
(* operations that carry use and change X.                                 *)

Res(v, w) == [k \in DOMAIN v |-> Calc(v[k], w[k])]
Flags(t, v) == Go(t, [t EXCEPT !.NZVC = v])
\* v := v op w.
Alu2(t, w) == LET r == Res(t.v, w) IN Go(t, [t EXCEPT !.v = r, !.NZVC = r])
AluX(t, w) ==
  LET r == Res(Res(t.v, w), [k \in DOMAIN t.v |-> t.X]) IN
  Go(t, [t EXCEPT !.v = r, !.NZVC = r, !.X = r[1]])
Quick(t) == [k \in DOMAIN t.v |-> 8]
Dn(t, n) == SubSeq(t.D, 5 - n, 4)
New(i) == [k \in 1..i.sz |-> 77]

-----------------------------------------------------------------------------
(* The handlers (op.cc), by the order of their accesses.                   *)

\* Read, compute, write under the lock: addq, neg, tas, shifts of memory, ... and,
\* with a word fetched first, ori ... addi.
Rmw(t, i) == LET r == EaRead(t, i.e, i.sz, TRUE) IN EaWrite(AluX(r, Quick(r)), i.e)
Immediate(t, i) == Rmw(Fetch(t), i)

\* or_b_to_dn ... adda_l, tst, chk: read, then registers and flags only.
ToDn(t, i) == LET r == EaRead(t, i.e, i.sz, FALSE)
                  c == Alu2(r, Dn(t, i.sz)) IN Go(c, InReg(c, c.v))
\* cmpi, mul_l, div_l: the same after a fetch.
FetchToDn(t, i) == ToDn(Fetch(t), i)

\* cmp2_chk2: the two bounds.
Cmp2(t, i) ==
  LET g == GetAddr(Fetch(t), i.e, i.sz)
      l == Read(Go(g, [g EXCEPT !.EA = g.a]), g.a, i.sz)
      u == Read(l, g.a + i.sz, i.sz)
  IN Flags(u, Res(u.u, u.v))

\* btst, bchg, bclr, bset of a byte, read and written without the lock.
Bit(t, i) ==
  LET g == GetAddr(Fetch(t), i.e, 1)
      r == Read(Go(g, [g EXCEPT !.EA = g.a]), g.a, 1)
      c == Go(r, [r EXCEPT !.NZVC = r.v, !.v = Res(@, <<1>>)])
  IN IF i.h = "btst" THEN c ELSE Write(c, c.EA, c.v)

\* movep: every second byte.
MovepLoad(t, i) ==
  LET f == Fetch(t)
      b(k) == f.A[0] + 2 * (k - 1)
      r1 == Read(f, b(1), 1)  r2 == Read(r1, b(2), 1)
      r3 == Read(r2, b(3), 1)  r4 == Read(r3, b(4), 1)
  IN IF i.sz = 2 THEN Go(r2, InReg(r2, r1.v \o r2.v))
     ELSE Go(r4, InReg(r4, r1.v \o r2.v \o r3.v \o r4.v))
MovepStore(t, i) ==
  LET f == Fetch(t)
      put(x, k) == Write(x, f.A[0] + 2 * (k - 1), <<Dn(t, i.sz)[k]>>)
      two == put(put(f, 1), 2)
  IN IF i.sz = 2 THEN two ELSE put(put(two, 3), 4)

\* cas_b, cas_w, cas_l. No lock; dc is what the operands are compared with.
Cas(t, i) ==
  LET g == GetAddr(Fetch(t), i.e, i.sz)
      r == Read(Go(g, [g EXCEPT !.EA = g.a]), g.a, i.sz)
      c == Flags(r, Res(r.v, t.dc[1]))
  IN IF r.v = t.dc[1] THEN Write(c, c.EA, New(i))
     ELSE Go(c, [c EXCEPT !.dc[1] = r.v])

\* cas2_w, cas2_l.
Cas2(t, i) ==
  LET r == Read(Read(Fetch(t), t.A[0], i.sz), t.A[1], i.sz)
      c == Flags(r, IF r.u = t.dc[1] THEN Res(r.v, t.dc[2]) ELSE Res(r.u, t.dc[1]))
  IN IF <<r.u, r.v>> = t.dc THEN Write(Write(c, t.A[0], New(i)), t.A[1], New(i))
     ELSE Go(c, [c EXCEPT !.dc = <<r.u, r.v>>])

\* moves_b, moves_w, moves_l.
Moves(t, i) ==
  LET g == GetAddr(Fetch(t), i.e, i.sz)
      a == Go(g, [g EXCEPT !.EA = g.a])
      r == ReadIn(a, a.EA, i.sz, FALSE, 2, i.other)
  IN IF i.h = "moves_load" THEN Go(r, InReg(r, r.v))
     ELSE WriteIn(a, a.EA, Dn(a, i.sz), 2, i.other)

\* move_b, move_w, move_l: the flags are set before the address of the
\* destination is computed.
Move(t, i) ==
  LET r == EaRead(t, i.e, i.sz, FALSE) IN EaWrite(Flags(r, r.v), i.f)

\* clr, scc, move_from_sr, move_from_ccr.
WriteOnly(t, i) ==
  LET z == [k \in 1..i.sz |-> 0] IN
  EaWrite(Go(t, [t EXCEPT !.v = z, !.NZVC = IF i.h = "clr" THEN z ELSE @]), i.e)

\* Defect: PUSH16 twice.
MutPush32(t, v) ==
  LET h == [t EXCEPT !.A[7] = Wrap(@ - 2)]
      x == Write(h, h.A[7], SubSeq(v, 3, 4))
      y == [x EXCEPT !.A[7] = Wrap(@ - 2)] IN
  Go(t, Go(x, Write(y, y.A[7], SubSeq(v, 1, 2))))

\* PUSH32, POP16, POP32 of the long in v.
Push32(t, v) ==
  LET w == Write(Write(t, t.A[7] - 2, SubSeq(v, 3, 4)), t.A[7] - 4, SubSeq(v, 1, 2)) IN
  Go(w, [w EXCEPT !.A[7] = Wrap(@ - 4)])
Pop16(t) == LET r == Read(t, t.A[7], 2) IN Go(r, [r EXCEPT !.A[7] = Wrap(@ + 2)])
Pop32(t) ==
  LET r == Read(Read(t, t.A[7], 2), t.A[7] + 2, 2) IN
  Go(r, [r EXCEPT !.A[7] = Wrap(@ + 4), !.v = r.u \o r.v])

\* link_w, link_l (the displacement is -2), unlk.
Link(t, i) ==
  LET p == Push32(Fetch(t), <<0, 0, 0, t.A[0]>>) IN
  Go(p, [p EXCEPT !.A[0] = p.A[7], !.A[7] = Wrap(@ - 2)])
Unlk(t, i) ==
  LET p == Pop32([t EXCEPT !.A[7] = t.A[0]]) IN Go(p, [p EXCEPT !.A[0] = Wrap(p.v[4])])

\* pea; jsr and bsr push the program counter instead.
Pea(t, i) == LET g == GetAddr(t, i.e, 0) IN Push32(g, <<0, 0, 0, g.a>>)
Jsr(t, i) ==
  LET g == GetAddr(t, i.e, 0)  p == Push32(g, <<0, 0, 0, 1>>) IN
  Go(p, [p EXCEPT !.PC = g.a])

\* rts, rtd and rtr, which sets the condition codes before it pops the address.
Rts(t, i) == LET p == Pop32(t) IN Go(p, [p EXCEPT !.PC = p.v[4]])
Rtr(t, i) ==
  LET c == Pop16(t) IN Rts(Go(c, [c EXCEPT !.NZVC = c.v, !.X = c.v[2]]), i)

\* abcd_m, sbcd_m: each register is decremented just before its read.
Dec(t, r) == Go(t, [t EXCEPT !.A[r] = Wrap(@ - 1)])
Bcd(t, i) ==
  LET d1 == Dec(t, 0)  r1 == Read(d1, d1.A[0], 1)
      d2 == Dec(r1, 1)  r2 == Read(d2, d2.A[1], 1)
      c == AluX(r2, r2.u)
  IN Write(c, c.A[1], c.v)

\* addx_m, subx_m: both registers first.
Addx(t, i) ==
  LET d == [t EXCEPT !.A[0] = Wrap(@ - i.sz), !.A[1] = Wrap(@ - i.sz)]
      r == Read(Read(d, d.A[1], i.sz), d.A[0], i.sz)
      c == AluX(r, r.u)
  IN Write(c, d.A[1], c.v)

\* cmpm.
Cmpm(t, i) ==
  LET d == [t EXCEPT !.A[0] = Wrap(@ + i.sz), !.A[1] = Wrap(@ + i.sz)]
      r == Read(Read(d, t.A[1], i.sz), t.A[0], i.sz)
  IN Flags(r, Res(r.u, r.v))

\* pack_m: two reads, one write; unpk_m: one read, two writes.
PackIn(t) == LET d == Dec(t, 0) IN Read(d, d.A[0], 1)
PackOut(t, b) == LET d == Dec(t, 1) IN Write(d, d.A[1], <<b>>)
Pack(t, i) == LET r == PackIn(PackIn(Fetch(t))) IN Go(r, PackOut(r, Calc(r.u[1], r.v[1])))
Unpk(t, i) ==
  LET r == PackIn(Fetch(t)) IN
  Go(r, PackOut(PackOut(r, Calc(r.v[1], 1)), Calc(r.v[1], 2)))

\* BFxxx_M of a field in sz bytes: all of it is read and tested, BFINS_M only
\* takes the flags of the new value; then each byte is read again and written.
Changed(h, b) == IF h = "bfchg" THEN 255 - b ELSE 0
FieldByte(t, i, k) ==
  LET r == Read(t, t.a + k, 1) IN Go(r, Write(r, r.a + k, <<Changed(i.h, r.v[1])>>))
Field(t, i) ==
  LET g == GetAddr(Fetch(t), i.e, 0)
      one == Read(g, g.a, 1)
      all == IF i.sz = 1 THEN one ELSE Read(one, g.a + 1, 1)
      c == IF i.h = "bfins" THEN Flags(g, <<9>>) ELSE Flags(all, Res(all.v, all.v))
  IN IF i.h = "bftst" THEN c
     ELSE IF i.sz = 1 THEN FieldByte(c, i, 0) ELSE FieldByte(FieldByte(c, i, 0), i, 1)

\* move16 with one or two postincrements.
Move16(t, i) ==
  LET m == Transfer16(Fetch(t), t.A[0], t.A[1], i.other) IN
  Go(m, [m EXCEPT !.A[0] = Wrap(@ + 4),
                  !.A[1] = IF i.f.mode = "incr" THEN Wrap(@ + 4) ELSE @])

Handler(t, i) ==
  CASE i.h = "rmw" -> Rmw(t, i)
    [] i.h = "immediate" -> Immediate(t, i)
    [] i.h = "to_dn" -> ToDn(t, i)
    [] i.h = "fetch_to_dn" -> FetchToDn(t, i)
    [] i.h = "cmp2" -> Cmp2(t, i)
    [] i.h \in {"btst", "bchg"} -> Bit(t, i)
    [] i.h = "movep_load" -> MovepLoad(t, i)
    [] i.h = "movep_store" -> MovepStore(t, i)
    [] i.h = "cas" -> Cas(t, i)
    [] i.h = "cas2" -> Cas2(t, i)
    [] i.h \in {"moves_load", "moves_store"} -> Moves(t, i)
    [] i.h = "move" -> Move(t, i)
    [] i.h \in {"clr", "scc"} -> WriteOnly(t, i)
    [] i.h = "link" -> Link(t, i)
    [] i.h = "unlk" -> Unlk(t, i)
    [] i.h = "pea" -> Pea(t, i)
    [] i.h = "jsr" -> Jsr(t, i)
    [] i.h = "rts" -> Rts(t, i)
    [] i.h = "rtr" -> Rtr(t, i)
    [] i.h = "bcd" -> Bcd(t, i)
    [] i.h = "addx" -> Addx(t, i)
    [] i.h = "cmpm" -> Cmpm(t, i)
    [] i.h = "pack" -> Pack(t, i)
    [] i.h = "unpk" -> Unpk(t, i)
    [] i.h \in {"bftst", "bfchg", "bfset", "bfins"} -> Field(t, i)
    [] i.h = "move16" -> Move16(t, i)

-----------------------------------------------------------------------------
(* The instructions: the handlers of op.cc in their order, each with the    *)
(* operands init_run_table gives it.                                        *)

Control == {"base", "disp", "indirect"}
InMemory == Control \cup {"incr", "decr"}
NoEa == [mode |-> "none", reg |-> 0]
Eas(modes) ==
  [mode : modes \cap InMemory, reg : Regs] \cup [mode : modes \ InMemory, reg : {0}]
Ins(hs, szs, modes) == [h : hs, sz : szs, e : Eas(modes), f : {NoEa}, other : {FALSE}]
Fixed(hs, szs) == [h : hs, sz : szs, e : {NoEa}, f : {NoEa}, other : {FALSE}]

OpImmediate == Ins({"immediate", "fetch_to_dn"}, Sizes, InMemory \cup {"reg"})
OpCmp2 == Ins({"cmp2"}, Sizes, Control)
OpBits == Ins({"btst", "bchg"}, {1}, InMemory)
OpMovep == Fixed({"movep_load", "movep_store"}, {2, 4})
OpCas == Ins({"cas"}, Sizes, InMemory) \cup Fixed({"cas2"}, {2, 4})
OpMoves ==
  [h : {"moves_load", "moves_store"}, sz : Sizes, e : Eas(InMemory), f : {NoEa},
   other : BOOLEAN]
OpMove ==
  [h : {"move"}, sz : Sizes, e : Eas(InMemory \cup {"reg", "imm"}),
   f : [mode : InMemory, reg : {1}] \cup {[mode |-> "reg", reg |-> 0]}, other : {FALSE}]
OpMoveSr == Ins({"scc"}, {2}, InMemory) \cup Ins({"to_dn"}, {2}, InMemory \cup {"imm"})
OpUnary == Ins({"rmw", "clr"}, Sizes, InMemory \cup {"reg"})
OpStack == Fixed({"link", "unlk"}, {4}) \cup Ins({"pea"}, {4}, Control)
OpTest ==
  Ins({"to_dn"}, Sizes, InMemory \cup {"reg", "imm"}) \cup Ins({"rmw"}, {1}, InMemory)
  \cup Ins({"fetch_to_dn"}, {4}, InMemory \cup {"imm"})
OpReturn == Fixed({"rts", "rtr"}, {4}) \cup Ins({"jsr"}, {4}, Control)
OpQuick == Ins({"rmw"}, Sizes, InMemory \cup {"reg"}) \cup Ins({"scc"}, {1}, InMemory \cup {"reg"})
ToAndFrom ==
  Ins({"to_dn"}, Sizes, InMemory \cup {"reg", "imm"}) \cup Ins({"rmw"}, Sizes, InMemory)
OpOr == ToAndFrom \cup Fixed({"bcd", "pack", "unpk"}, {1})
OpSub == ToAndFrom \cup Fixed({"addx"}, Sizes)
OpCmp == ToAndFrom \cup Fixed({"cmpm"}, Sizes)
OpAnd == ToAndFrom \cup Fixed({"bcd"}, {1})
OpAdd == ToAndFrom \cup Fixed({"addx"}, Sizes)
OpShift == Ins({"rmw"}, {2}, InMemory)
OpField == Ins({"bftst", "bfchg", "bfset", "bfins"}, {1, 2}, Control)
OpMove16 ==
  [h : {"move16"}, sz : {4}, e : {NoEa},
   f : {NoEa, [mode |-> "incr", reg |-> 1]}, other : BOOLEAN]

Instrs ==
  UNION {OpImmediate, OpCmp2, OpBits, OpMovep, OpCas, OpMoves, OpMove, OpMoveSr,
         OpUnary, OpStack, OpTest, OpReturn, OpQuick, OpOr, OpSub, OpCmp, OpAnd,
         OpAdd, OpShift, OpField, OpMove16}

-----------------------------------------------------------------------------
(* The program and its pager.                                              *)

NoFault == [addr |-> 0, n |-> 1, read |-> FALSE, MA |-> FALSE, LK |-> FALSE,
            tt |-> 0, other |-> FALSE]

\* The operands of CAS and CAS2 compare equal.
StateOf(i, a0, perm) ==
  LET old(a) == [k \in 1..i.sz |-> InitMem[(a + k - 1) % Size]] IN
  [A |-> [r \in {0, 1, 7} |-> IF r = 0 THEN a0 ELSE IF r = 1 THEN Second ELSE StackTop],
   D |-> <<101, 102, 103, 104>>, X |-> 1, NZVC |-> <<0>>, PC |-> 0,
   dc |-> <<old(a0), old(Second)>>,
   mem |-> InitMem, perm |-> perm,
   EA |-> 0, lock |-> FALSE, fault |-> FALSE, ssw |-> NoFault,
   a |-> 0, u |-> <<>>, v |-> <<>>, rd |-> {}, wr |-> {}]

\* What an earlier fault left in fault_SSW matters to MOVE16 only.
Old(i) == IF i.h = "move16" THEN 0..2 ELSE {0}

Init ==
  /\ job \in Instrs
  /\ \E a0 \in Operands, perm \in [0..Pages -> Perms], tt \in Old(job) :
       s = [StateOf(job, a0, perm) EXCEPT !.ssw.tt = tt]
  /\ s.perm[PageOf(ExtWord)] # "ro"
  /\ first = s /\ begun = s /\ phase = "run" /\ torn = FALSE

\* op_prologue; a handler has its own variables.
Enter(t) ==
  [t EXCEPT !.EA = 0, !.fault = FALSE, !.a = 0, !.u = <<>>, !.v = <<>>,
            !.rd = {}, !.wr = {}]

\* Defect: the bus stays locked after a fault.
MutCaught(t) == t

\* The catch clause of run_cpu.
Caught(t) == [t EXCEPT !.lock = FALSE]

\* run_op: the handler of the instruction, to its end or to a fault.
RunOp ==
  /\ phase = "run"
  /\ begun' = Enter(s)
  /\ \E t \in {Handler(Enter(s), job)} :
     IF t.fault
     THEN /\ phase' = "fault" /\ s' = Caught(t)
          /\ torn' = (torn \/ t.rd \cap t.wr # {})
     ELSE phase' = "done" /\ s' = t /\ UNCHANGED torn
  /\ UNCHANGED <<job, first>>

\* What the record of a fault asks for.
Named(r) == PageOf(IF r.MA THEN Wrap(r.addr + r.n - 1) ELSE r.addr)
Needed(r) == IF r.read /\ ~r.LK THEN {"ro", "rw"} ELSE {"rw"}

\* The pager allows what the record asks for, more if it likes; a store of its
\* own goes through ea_write.
Pager(x) ==
  /\ phase = "fault"
  /\ LET r == s.ssw  p == Named(r)
         t == IF s.lock THEN Write(Enter(s), s.EA, <<0>>) ELSE s
     IN /\ x \in Needed(r)
        /\ s' = [t EXCEPT !.lock = FALSE, !.ssw = r, !.fault = FALSE,
                          !.perm[p] = IF r.other \/ @ = "rw" THEN @ ELSE x]
  /\ phase' = "run"
  /\ UNCHANGED <<job, first, begun, torn>>

Next == RunOp \/ \E x \in Perms : Pager(x)

Spec == Init /\ [][Next]_vars

-----------------------------------------------------------------------------
(* Correctness.                                                            *)

\* An operand that is stepped.
Steps(e) == e.mode \in {"incr", "decr"}

\* The handlers that change an address register, X, other condition codes or
\* memory before an access that may still fault. Of the others that a guest
\* meets, PUSH32 may leave one of its two words written.
StepsEarly == {"bcd", "addx", "cmpm", "pack", "unpk", "unlk", "rtr"}
CarriesEarly == {"bcd", "addx", "rtr"}
FlagsEarly ==
  CarriesEarly \cup {"move", "clr", "bchg", "cas", "cas2", "bfchg", "bfset", "bfins"}
WritesEarly ==
  {"movep_store", "cas2", "unpk", "bfchg", "bfset", "bfins", "pea", "jsr", "link"}

\* A handler that faults has changed no more than the lists above allow; in
\* particular an instruction under the bus lock faults before it has changed
\* anything but the register it steps, and a write that faults has written
\* nothing unless it was cut in two (op.cc, memory.cc, ea_read and ea_write).
FaultLeaves ==
  phase = "fault" =>
    /\ s.D = begun.D /\ s.dc = begun.dc /\ s.PC = begun.PC
    /\ s.A # begun.A => Steps(job.e) \/ Steps(job.f) \/ job.h \in StepsEarly
    /\ s.X # begun.X => job.h \in CarriesEarly
    /\ s.NZVC # begun.NZVC => job.h \in FlagsEarly
    /\ s.mem # begun.mem => job.h \in WritesEarly \/ (~s.ssw.read /\ s.ssw.MA)

\* An instruction that was denied pages, however often, ends with the registers,
\* the condition codes and the memory of one undisturbed run: unless it steps
\* an address register, which no fault puts back, or is one of the handlers of
\* StepsEarly but UNLK, or wrote over its own sources and then faulted (CAS2,
\* BFCHG, operands that overlap).
RestartsExact ==
  (/\ phase = "done" /\ ~torn
   /\ ~Steps(job.e) /\ ~Steps(job.f) /\ job.h \notin StepsEarly \ {"unlk"})
  => \E once \in {Handler([first EXCEPT !.perm = [p \in 0..Pages |-> "rw"]], job)} :
       /\ s.A = once.A /\ s.D = once.D /\ s.X = once.X /\ s.NZVC = once.NZVC
       /\ s.PC = once.PC /\ s.dc = once.dc /\ s.mem = once.mem

\* No byte is read or written on a page that does not allow it, but for the
\* last byte of a long that starts at 1 modulo 4, which is never cut although
\* it may lie on the next page (ReadLImpl, WriteLImpl).
Spill(S, a) == a % 4 = 0 /\ \A k \in 1..3 : Wrap(a - k) \in S
OnAllowedPages ==
  [][phase = "run" =>
       /\ \A a \in s'.rd : Allowed(s, a, FALSE) \/ Spill(s'.rd, a)
       /\ \A a \in s'.wr : Allowed(s, a, TRUE) \/ Spill(s'.wr, a)]_vars

\* The record of a fault names a page that does lack what it asks for; not so
\* for MOVES with the function code of another space, which checks its own, and
\* for MOVE16, which names user data, and whose write adds to an old record
\* (ACCESS_FAULT, Read*, Write*).
Misnamed == job.other \/ job.h = "move16"
FaultNamesPage ==
  phase = "fault" /\ ~Misnamed => s.perm[Named(s.ssw)] \notin Needed(s.ssw)

\* A store of the pager never reaches the operand of the instruction that
\* faulted: the bus is not locked any more (ea_write, run_cpu).
PagerKeepsOut == [][phase = "fault" => s'.mem = s.mem]_vars
=============================================================================
