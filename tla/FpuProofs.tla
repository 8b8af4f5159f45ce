------------------------------ MODULE FpuProofs ------------------------------
(***************************************************************************)
(* For every set of operands, operations, enables and status words, and    *)
(* whatever MPFR answers: nothing the accrued byte has recorded is lost    *)
(* before FPSR is written or the unit is reset, and the predicates say how *)
(* the operands of the last FCMP compared, as long as nothing else wrote   *)
(* the condition codes. An exception is raised by a cause its handler      *)
(* finds, and FMOVEM brings back what it took away.                        *)
(***************************************************************************)
EXTENDS Fpu, FiniteSetTheorems, TLAPS

Fields == {"FP", "tmp", "cc", "st", "acc", "en", "iar"}

\* Everything the exception byte says is accrued.
Covered(f) == Accrued(f.st) \subseteq f.acc

IInv ==
  /\ DOMAIN fpu = Fields
  /\ phase = "next" /\ ins.op = "tested" => Covered(fpu)

\* g is a unit that has lost nothing of the accrued byte of f ...
Grows(f, g) == DOMAIN g = Fields /\ f.acc \subseteq g.acc

\* ... and has its condition codes, too.
Keeps(f, g) == Grows(f, g) /\ g.cc = f.cc

-----------------------------------------------------------------------------
(* The parts instructions are made of.                                     *)

\* The prologue sets FPIAR (fop).
LEMMA PrologueKeeps ==
  ASSUME NEW f, DOMAIN f = Fields PROVE Keeps(f, Prologue(f))
  BY Zenon DEF Keeps, Grows, Prologue, Fields

\* A step that changes fp_tmp alone.
LEMMA TmpKeeps ==
  ASSUME NEW f, DOMAIN f = Fields, NEW v PROVE Keeps(f, [f EXCEPT !.tmp = v])
  BY Zenon DEF Keeps, Grows, Fields

\* testex adds to the accrued byte all that it puts into the exception byte.
LEMMA TestexKeeps ==
  ASSUME NEW f, DOMAIN f = Fields, NEW m
  PROVE  Keeps(f, testex(f, m)) /\ Covered(testex(f, m))
<1> DEFINE st == (f.st \ {"OPERR", "OVFL", "UNFL", "DZ", "INEX2"}) \cup Flagged(m)
           g == [f EXCEPT !.st = st, !.acc = @ \cup Accrued(st)]
<1>1. testex(f, m) = g
  BY Zenon DEF testex
<1> HIDE DEF st
<1>2. DOMAIN g = Fields /\ g.st = st /\ g.acc = f.acc \cup Accrued(st) /\ g.cc = f.cc
  BY Zenon DEF Fields
<1> QED
  BY <1>1, <1>2, Zenon DEF Keeps, Grows, Covered

\* A result is stored (store_fpr).
LEMMA StoreGrows ==
  ASSUME NEW f, DOMAIN f = Fields, NEW m, NEW dst, NEW r
  PROVE  Grows(f, StoreFpr(f, m, dst, r)) /\ Covered(StoreFpr(f, m, dst, r))
<1> DEFINE nan == Is(f.tmp, "nan")
           signal == nan /\ "b62" \notin f.tmp.pay
           new == IF signal THEN [r[1] EXCEPT !.pay = @ \cup {"b62"}] ELSE r[1]
           old == f.FP[dst]
           m2 == m \cup r[2] \cup Given(Is(old, "nan"), "erange")
           cc == Given(nan, "NAN") \cup Given(Is(old, "inf"), "I")
                   \cup Given(Is(old, "zero"), "Z")
                   \cup Given(old.class \in {"num", "inf"} /\ old.neg, "N")
           f2 == [f EXCEPT !.FP[dst] = new, !.tmp = old, !.cc = cc,
                           !.st = @ \cup Given(signal, "S_NAN")]
<1>1. StoreFpr(f, m, dst, r) = testex(f2, m2)
  BY Zenon DEF StoreFpr
<1> HIDE DEF new, old, m2, cc, signal
<1>2. DOMAIN f2 = Fields /\ f2.acc = f.acc
  BY Zenon DEF Fields
<1> HIDE DEF f2
<1>3. Keeps(f2, testex(f2, m2)) /\ Covered(testex(f2, m2))
  BY <1>2, TestexKeeps, Zenon
<1> QED
  BY <1>1, <1>2, <1>3, Zenon DEF Keeps, Grows

\* An operand is loaded (loadX).
LEMMA LoadKeeps ==
  ASSUME NEW f, DOMAIN f = Fields, NEW v
  PROVE  Keeps(f, LoadX(f, v))
  BY Zenon DEF Keeps, Grows, Fields, LoadX

\* A register is loaded (fload_r).
LEMMA SwapKeeps ==
  ASSUME NEW f, DOMAIN f = Fields, NEW src PROVE Keeps(f, fload_r(f, src))
  BY Zenon DEF Keeps, Grows, Fields, fload_r

\* A packed operand is loaded (loadP).
LEMMA LoadPKeeps ==
  ASSUME NEW f, DOMAIN f = Fields, NEW v, NEW x PROVE Keeps(f, LoadP(f, v, x))
<1> DEFINE l == LoadX(f, v)
<1>1. Keeps(f, l) /\ DOMAIN l = Fields
  BY LoadKeeps, Zenon DEF Keeps, Grows
<1> HIDE DEF l
<1>2. Keeps(l, [l EXCEPT !.st = (@ \ {"INEX1"}) \cup Given(x, "INEX1")])
  BY <1>1, Zenon DEF Keeps, Grows, Fields
<1> QED
  BY <1>1, <1>2, Zenon DEF Keeps, Grows, LoadP, l

\* Whatever operand fop finds (fop's first part).
LEMMA FetchedKeeps ==
  ASSUME NEW f, DOMAIN f = Fields, NEW u \in Fetched(f) PROVE Keeps(f, u[1])
<1>1. CASE \E v : u[1] = LoadX(f, v)
  BY <1>1, LoadKeeps, Zenon
<1>2. CASE \E v, x : u[1] = LoadP(f, v, x)
  BY <1>2, LoadPKeeps, Zenon
<1>3. CASE \E src : u[1] = fload_r(f, src)
  BY <1>3, SwapKeeps, Zenon
<1>4. \/ \E v : u[1] = LoadX(f, v)
      \/ \E v, x : u[1] = LoadP(f, v, x)
      \/ \E src : u[1] = fload_r(f, src)
  BY DEF Fetched
<1> QED
  BY <1>1, <1>2, <1>3, <1>4, Zenon

\* FMOVEM loads registers (fmovem_to_reg).
LEMMA RestoredKeeps ==
  ASSUME NEW f, DOMAIN f = Fields, NEW vals, NEW S PROVE Keeps(f, Restored(f, vals, S))
<1>1. ASSUME NEW a, NEW b PROVE Keeps(f, [f EXCEPT !.FP = a, !.tmp = b])
  BY Zenon DEF Keeps, Grows, Fields
<1> QED
  BY <1>1, Zenon DEF Restored

-----------------------------------------------------------------------------
(* Steps.                                                                  *)

\* What a step has to show: the unit keeps its accrued byte unless FPSR is
\* written, an operation that is done has accrued all, and after an FCMP the
\* condition codes stay as they are or are no longer an order.
Fine ==
  /\ DOMAIN fpu' = Fields
  /\ ins'.op # "status" => fpu.acc \subseteq fpu'.acc
  /\ phase' = "next" /\ ins'.op = "tested" => Covered(fpu')
  /\ Fcmp \/ order' = "none" \/ (order' = order /\ fpu'.cc = fpu.cc)

\* The name of an instruction.
LEMMA InsOp == ASSUME NEW x PROVE Ins(x).op = x
  BY DEF Ins

\* What remains of an instruction's own changes (the copy of fop).
LEMMA MineKeeps ==
  ASSUME IInv, NEW f, Keeps(fpu, f) PROVE Keeps(fpu, Mine(f))
  BY Zenon DEF Mine, Keeps, Grows, IInv

\* An instruction that ends without testex.
LEMMA OtherFine ==
  ASSUME Keeps(fpu, fpu'), ins'.op # "tested", order' = order PROVE Fine
  BY Zenon DEF Fine, Keeps, Grows

\* FMOVECR (fmovecr): the compiled code ends in testex, the interpreter loses
\* what it did.
LEMMA FmovecrFine == ASSUME IInv, Fmovecr PROVE Fine
<1>1. PICK class, exact : fmovecr(class, exact)
  BY Zenon DEF Fmovecr
<1> DEFINE f == [Prologue(fpu) EXCEPT !.tmp = Val(class, FALSE, @.pay)]
<1>2. PICK dst, r :
        LET s == StoreFpr(f, IF exact THEN {} ELSE {"inexact"}, dst, r)
        IN  /\ fpu' = Mine(s)
            /\ ins' = Ins(IF engine = "jit" THEN "tested" ELSE "other")
            /\ order' = IF engine = "jit" THEN "none" ELSE order
  BY <1>1, Zenon DEF fmovecr, Done
<1> DEFINE s == StoreFpr(f, IF exact THEN {} ELSE {"inexact"}, dst, r)
<1>3. Keeps(fpu, f)
  <2>1. Keeps(fpu, Prologue(fpu))
    BY PrologueKeeps DEF IInv
  <2>2. Keeps(Prologue(fpu), f)
    BY <2>1, TmpKeeps, Zenon DEF Keeps, Grows
  <2> QED
    BY <2>1, <2>2, Zenon DEF Keeps, Grows
<1> HIDE DEF f
<1>4. Grows(f, s) /\ Covered(s)
  BY <1>3, StoreGrows, Zenon DEF Keeps, Grows
<1>5. /\ fpu' = Mine(s) /\ ins' = Ins(IF engine = "jit" THEN "tested" ELSE "other")
      /\ order' = IF engine = "jit" THEN "none" ELSE order
  BY <1>2, Zenon
<1> HIDE DEF s
<1>6. CASE engine = "jit"
  BY <1>3, <1>4, <1>5, <1>6, Zenon DEF Fine, Keeps, Grows, Mine
<1>7. CASE engine # "jit"
  <2>1. Keeps(fpu, fpu')
    BY <1>5, <1>7, Zenon DEF Keeps, Grows, Mine, IInv
  <2> QED
    BY <1>5, <1>7, <2>1, InsOp, OtherFine
<1> QED
  BY <1>6, <1>7

\* An operand is fetched (fop's first part); an opcode without operation is done.
LEMMA FetchFine == ASSUME IInv, LoadFP \/ JitLoadFP PROVE Fine
<1>1. PICK table, opc, u : u \in Fetched(Prologue(fpu)) /\ Fetch(table, opc, u)
  BY Zenon DEF LoadFP, JitLoadFP
<1> DEFINE g == Group(table, opc)
<1>2. Keeps(fpu, Prologue(fpu))
  BY PrologueKeeps DEF IInv
<1>3. Keeps(Prologue(fpu), u[1])
  BY <1>1, <1>2, FetchedKeeps, Zenon DEF Keeps, Grows
<1>4. Keeps(fpu, u[1])
  BY <1>2, <1>3, Zenon DEF Keeps, Grows
<1>5. fpu' = Mine(u[1])
  BY <1>1 DEF Fetch, Done
<1>6. Keeps(fpu, fpu')
  BY <1>4, <1>5, MineKeeps
<1>7. ins'.op = g
  BY <1>1 DEF Fetch
<1>8. (phase' = "next" => g = "FLINE") /\ order' = order
  BY <1>1 DEF Fetch, Done
<1> HIDE DEF g
<1> QED
  BY <1>6, <1>7, <1>8 DEF Fine, Keeps, Grows

\* A result is computed, and not yet stored (fint ... fsincos).
LEMMA OperateFine == ASSUME IInv, Operate \/ SinCos PROVE Fine
<1>1. phase' = "store" /\ order' = order
  BY DEF Operate, SinCos
<1>2. Keeps(fpu, fpu')
  <2>1. CASE Operate
    <3>1. PICK o : fpu' = [fpu EXCEPT !.tmp = o[1]]
      BY <2>1, Zenon DEF Operate
    <3> QED
      BY <3>1, TmpKeeps, Zenon DEF IInv
  <2>2. CASE SinCos
    <3>1. PICK s, c :
            fpu' = IF Is(fpu.tmp, "nan") \/ ins.cos = ins.dst THEN [fpu EXCEPT !.tmp = s[1]]
                   ELSE [fpu EXCEPT !.tmp = s[1], !.FP[ins.cos] = c[1]]
      BY <2>2, Zenon DEF SinCos
    <3>2. ASSUME NEW a, NEW b, NEW i
          PROVE  Keeps(fpu, [fpu EXCEPT !.tmp = a, !.FP[i] = b])
      BY Zenon DEF Keeps, Grows, Fields, IInv
    <3>3. CASE Is(fpu.tmp, "nan") \/ ins.cos = ins.dst
      BY <3>1, <3>3, TmpKeeps, Zenon DEF IInv
    <3>4. CASE ~(Is(fpu.tmp, "nan") \/ ins.cos = ins.dst)
      BY <3>1, <3>2, <3>4, Zenon
    <3> QED
      BY <3>3, <3>4
  <2> QED
    BY <2>1, <2>2
<1> QED
  BY <1>1, <1>2 DEF Fine, Keeps, Grows

\* A result is stored, two values compared or one tested (store_fpr, fcmp, ftst):
\* each ends in testex.
LEMMA StoreFine == ASSUME IInv, Store \/ Fcmp \/ Ftst PROVE Fine
<1>1. ASSUME NEW f, NEW m, Grows(fpu, f), fpu' = testex(f, m), Fcmp \/ order' = "none"
      PROVE  Fine
  BY <1>1, TestexKeeps, Zenon DEF Fine, Keeps, Grows
<1>2. CASE Store
  <2>1. (\E r : fpu' = StoreFpr(fpu, mp, ins.dst, r)) /\ order' = "none"
    BY <1>2, Zenon DEF Store, Done, NoOrder
  <2> QED
    BY <2>1, StoreGrows, Zenon DEF Fine, Grows, IInv
<1>3. CASE Fcmp
  <2>1. PICK o : fpu' = testex(fcmp(fpu, ins.dst, o), mp)
    BY <1>3, Zenon DEF Fcmp, Done
  <2>2. ASSUME NEW cc PROVE Grows(fpu, [fpu EXCEPT !.cc = cc])
    BY Zenon DEF Grows, Fields, IInv
  <2>3. Grows(fpu, fcmp(fpu, ins.dst, o))
    BY <2>2, Zenon DEF fcmp
  <2> QED
    BY <1>1, <1>3, <2>1, <2>3, Zenon
<1>4. CASE Ftst
  <2>1. PICK b : fpu' = testex(ftst(fpu, b), mp) /\ order' = "none"
    BY <1>4, Zenon DEF Ftst, Done, NoOrder
  <2>2. ASSUME NEW cc PROVE Grows(fpu, [fpu EXCEPT !.cc = cc])
    BY Zenon DEF Grows, Fields, IInv
  <2>3. Grows(fpu, ftst(fpu, b))
    BY <2>2, Zenon DEF ftst
  <2> QED
    BY <1>1, <2>1, <2>3, Zenon
<1> QED
  BY <1>2, <1>3, <1>4

\* A register is stored (fpu_store): testex, unless the operand's page is not
\* there.
LEMMA FpuStoreFine ==
  ASSUME IInv, fpu_store \/ jit_fpu_store PROVE Fine
<1>1. PICK u : u \in {fpu, Prologue(fpu)} /\ FpuStore(u)
  BY Zenon DEF fpu_store, jit_fpu_store
<1>2. Keeps(fpu, u)
  BY <1>1, PrologueKeeps, Zenon DEF Keeps, Grows, IInv
<1>3. PICK i, r, ok :
        LET f == [u EXCEPT !.tmp = u.FP[i]]
            g == [f EXCEPT !.tmp = r[1]]
            t == testex(g, r[2])
        IN  /\ IF ok THEN Done(t, First(t), FALSE) ELSE Done(g, "ACCESS", FALSE)
            /\ ins' = Ins(IF raised' = "ACCESS" THEN "other" ELSE "tested")
            /\ order' = order
  BY <1>1, Zenon DEF FpuStore
<1> DEFINE f == [u EXCEPT !.tmp = u.FP[i]]
           g == [f EXCEPT !.tmp = r[1]]
           t == testex(g, r[2])
<1>4. Keeps(u, f)
  BY <1>2, TmpKeeps, Zenon DEF Keeps, Grows
<1> HIDE DEF f
<1>5. Keeps(f, g)
  BY <1>4, TmpKeeps, Zenon DEF Keeps, Grows
<1> HIDE DEF g
<1>6. Keeps(g, t) /\ Covered(t)
  BY <1>5, TestexKeeps, Zenon DEF Keeps, Grows
<1>7. \/ fpu' = t
      \/ fpu' = g /\ raised' = "ACCESS"
  BY <1>3, Zenon DEF Done, f, g
<1>8. ins' = Ins(IF raised' = "ACCESS" THEN "other" ELSE "tested") /\ order' = order
  BY <1>3, Zenon
<1> HIDE DEF t
<1>9. Keeps(fpu, fpu')
  BY <1>2, <1>4, <1>5, <1>6, <1>7, Zenon DEF Keeps, Grows
<1>10. CASE fpu' = t
  BY <1>6, <1>8, <1>9, <1>10, Zenon DEF Fine, Keeps, Grows
<1>11. CASE raised' = "ACCESS"
  BY <1>8, <1>9, <1>11, InsOp, OtherFine
<1> QED
  BY <1>7, <1>10, <1>11

\* FMOVEM (fmovem_from_reg, fmovem_to_reg).
LEMMA MovemFine ==
  ASSUME IInv, fmovem_from_reg_rev \/ fmovem_from_reg \/ fmovem_to_reg PROVE Fine
<1>1. Keeps(fpu, Prologue(fpu))
  BY PrologueKeeps DEF IInv
<1>2. CASE fmovem_from_reg_rev \/ fmovem_from_reg
  <2>1. PICK S, base : MovemOut(S, base)
    BY <1>2, Zenon DEF fmovem_from_reg_rev, fmovem_from_reg
  <2>2. PICK v : /\ fpu' = Mine([Prologue(fpu) EXCEPT !.tmp = v])
                 /\ ins' = Ins("other") /\ order' = order
    BY <2>1, Zenon DEF MovemOut, Done
  <2>3. Keeps(fpu, [Prologue(fpu) EXCEPT !.tmp = v])
    BY <1>1, TmpKeeps, Zenon DEF Keeps, Grows
  <2>4. Keeps(fpu, fpu')
    BY <2>2, <2>3, MineKeeps, Zenon
  <2> QED
    BY <2>2, <2>4, InsOp, OtherFine
<1>3. CASE fmovem_to_reg
  <2>1. PICK vals, S, x : /\ fpu' = Mine(Restored(Prologue(fpu), vals, S))
                          /\ x \in {"back", "other"} /\ ins' = Ins(x)
                          /\ order' = order
    BY <1>3, Zenon DEF fmovem_to_reg, MovemIn, Done
  <2>2. Keeps(fpu, Restored(Prologue(fpu), vals, S))
    BY <1>1, RestoredKeeps, Zenon DEF Keeps, Grows
  <2>3. Keeps(fpu, fpu')
    BY <2>1, <2>2, MineKeeps, Zenon
  <2> QED
    BY <2>1, <2>3, InsOp, OtherFine
<1> QED
  BY <1>2, <1>3

\* FPCR, FPSR and FPIAR are written, whole or up to a fault (set_fpcr, set_fpsr,
\* set_fpiar): the accrued byte changes with FPSR only.
LEMMA ToControlFine ==
  ASSUME IInv, fmove_to_fpcc \/ jit_fmove_to_fpcc \/ ToControlFault PROVE Fine
<1> DEFINE p == Prologue(fpu)
<1>1. Keeps(fpu, p)
  BY PrologueKeeps DEF IInv
<1>2. PICK which, en, w :
        /\ fpu' = Mine(Control(p, which, en, w))
        /\ ins' = Ins(IF "FPSR" \in which THEN "status" ELSE "other")
        /\ order' = IF "FPSR" \in which /\ engine = "jit" THEN "none" ELSE order
  BY Zenon DEF fmove_to_fpcc, jit_fmove_to_fpcc, ToControlFault, ToControl, Done
<1> HIDE DEF p
<1> DEFINE f1 == IF "FPCR" \in which THEN [p EXCEPT !.en = en] ELSE p
           f2 == IF "FPSR" \in which
                 THEN [f1 EXCEPT !.cc = w.cc, !.st = w.st, !.acc = w.acc] ELSE f1
           f3 == IF "FPIAR" \in which THEN [f2 EXCEPT !.iar = "other"] ELSE f2
<1>3. DOMAIN f1 = Fields /\ f1.acc = p.acc /\ f1.cc = p.cc
  BY <1>1, Zenon DEF Keeps, Grows, Fields
<1> HIDE DEF f1
<1>4. DOMAIN f2 = Fields /\ ("FPSR" \notin which => f2.acc = p.acc /\ f2.cc = p.cc)
  BY <1>3, Zenon DEF Fields
<1> HIDE DEF f2
<1>5. DOMAIN f3 = Fields /\ f3.acc = f2.acc /\ f3.cc = f2.cc
  BY <1>4, Zenon DEF Fields
<1>6. Control(p, which, en, w) = f3
  BY Zenon DEF Control, f1, f2
<1> HIDE DEF f3
<1>7. fpu' \in {fpu, f3} /\ (engine # "jit" => fpu' = fpu)
  BY <1>2, <1>6, Zenon DEF Mine
<1>8. DOMAIN fpu' = Fields
  BY <1>5, <1>7, Zenon DEF IInv
<1>9. CASE "FPSR" \in which
  <2>1. ins'.op = "status"
    BY <1>2, <1>9, InsOp
  <2> QED
    BY <1>2, <1>7, <1>8, <1>9, <2>1 DEF Fine
<1>10. CASE "FPSR" \notin which
  <2>1. Keeps(fpu, fpu')
    BY <1>1, <1>4, <1>5, <1>7, <1>8, <1>10, Zenon DEF Keeps, Grows
  <2> QED
    BY <1>2, <1>10, <2>1, InsOp, OtherFine
<1> QED
  BY <1>9, <1>10

\* Reads of the control registers, a fault before anything is loaded, FSAVE
\* (fsave): nothing but FPIAR changes.
LEMMA QuietFine ==
  ASSUME IInv, fmove_from_fpcc \/ jit_fmove_from_fpcc \/ FetchFault \/ fsave PROVE Fine
<1>1. Keeps(fpu, Prologue(fpu)) /\ Keeps(fpu, fpu)
  BY PrologueKeeps DEF IInv, Keeps, Grows
<1>2. fpu' \in {fpu, Prologue(fpu)} /\ ins' = Ins("other")
  BY Zenon DEF fmove_from_fpcc, jit_fmove_from_fpcc, FromControl, FetchFault, fsave,
               Done, Mine
<1>3. order' = order
  BY Zenon DEF fmove_from_fpcc, jit_fmove_from_fpcc, FromControl, FetchFault, fsave
<1>4. Keeps(fpu, fpu')
  BY <1>1, <1>2
<1> QED
  BY <1>2, <1>3, <1>4, InsOp, OtherFine

\* A null frame resets the unit; no other frame changes it (frestore).
LEMMA FrestoreFine == ASSUME IInv, frestore PROVE Fine
<1>1. PICK frame \in Frames :
        /\ fpu' = IF frame = "null" THEN Reset ELSE fpu
        /\ ins' = Ins(IF frame = "null" THEN "status" ELSE "other")
        /\ order' = IF frame = "null" THEN "none" ELSE order
  BY DEF frestore, Done, Frames
<1>2. CASE frame = "null"
  <2>1. DOMAIN Reset = Fields
    BY Zenon DEF Reset, Blank, Fields
  <2>2. ins'.op = "status"
    BY <1>1, <1>2, InsOp
  <2> QED
    BY <1>1, <1>2, <2>1, <2>2 DEF Fine
<1>3. CASE frame # "null"
  <2>1. Keeps(fpu, fpu')
    BY <1>1, <1>3 DEF Keeps, Grows, IInv
  <2> QED
    BY <1>1, <1>3, <2>1, InsOp, OtherFine
<1> QED
  BY <1>2, <1>3

\* FScc, FDBcc, FBcc, FTRAPcc: BSUN is not accrued (test_bsun).
LEMMA CondFine == ASSUME IInv, FpCond \/ JitFpCond PROVE Fine
<1> DEFINE end(f) == [f EXCEPT !.iar = "other"]
<1>1. fpu' \in {end(fpu), end(test_bsun(fpu))} /\ ins' = Ins("other") /\ order' = order
  BY DEF FpCond, JitFpCond, Condition, Decided, Done
<1>2. ASSUME NEW f, DOMAIN f = Fields, f.acc = fpu.acc, f.cc = fpu.cc PROVE Keeps(fpu, end(f))
  BY <1>2, Zenon DEF Keeps, Grows, Fields
<1>3. DOMAIN test_bsun(fpu) = Fields /\ test_bsun(fpu).acc = fpu.acc /\ test_bsun(fpu).cc = fpu.cc
  BY Zenon DEF test_bsun, Fields, IInv
<1>4. Keeps(fpu, fpu')
  BY <1>1, <1>2, <1>3, Zenon DEF IInv
<1> QED
  BY <1>1, <1>4, InsOp, OtherFine

\* The debugger's dump changes fp_tmp alone, also after an operation (dumpReg).
LEMMA DumpFine == ASSUME IInv, dumpReg PROVE Fine
<1>1. /\ fpu' = [fpu EXCEPT !.tmp = Scaled(fpu.FP[Top])]
      /\ phase = "next" /\ phase' = phase /\ ins' = ins /\ order' = order
  BY Zenon DEF dumpReg
<1>2. Keeps(fpu, fpu') /\ fpu'.st = fpu.st
  BY <1>1, Zenon DEF Keeps, Grows, Fields, IInv
<1> QED
  BY <1>1, <1>2, Zenon DEF Fine, Keeps, Grows, Covered, IInv

\* Every step of either engine.
LEMMA StepFine == ASSUME IInv, Next PROVE Fine
<1>1. CASE InterpreterNext \/ JitNext
  BY <1>1, FetchFine, FpuStoreFine, MovemFine, ToControlFine, QuietFine, CondFine,
     DumpFine DEF InterpreterNext, JitNext
<1>2. CASE ~(InterpreterNext \/ JitNext)
  BY <1>2, FmovecrFine, QuietFine, OperateFine, StoreFine, MovemFine, ToControlFine,
     FrestoreFine DEF Next
<1> QED
  BY <1>1, <1>2

-----------------------------------------------------------------------------
(* Comparisons.                                                            *)

\* Operands of the same kind, zeros or infinities, compare by their signs
\* alone (mpfr_cmp).
LEMMA AlikeBySign ==
  ASSUME NEW d, NEW t, NEW o \in Compared(d, t), o # "unordered",
         d.class \in {"zero", "inf"}, Is(d, t.class)
  PROVE  o = "equal" \/ (o = "less" /\ d.neg) \/ (o = "greater" /\ ~d.neg)
<1> DEFINE side(v) == IF Is(v, "zero") THEN 0
                      ELSE (IF v.neg THEN -1 ELSE 1) * (IF Is(v, "inf") THEN 2 ELSE 1)
<1>1. o \in IF side(d) < side(t) THEN {"less"}
           ELSE IF side(d) > side(t) THEN {"greater"}
           ELSE IF Is(d, "num") THEN {"less", "equal", "greater"} ELSE {"equal"}
  BY DEF Compared
<1>2. CASE d.class = "zero"
  BY <1>1, <1>2 DEF Is
<1>3. CASE d.class = "inf"
  BY <1>1, <1>3 DEF Is
<1> QED
  BY <1>2, <1>3

\* What the condition codes say of the order the last FCMP found.
Told(o, cc) ==
  /\ o = "unordered" => "NAN" \in cc
  /\ o = "less" => "Z" \notin cc /\ "N" \in cc
  /\ o = "greater" => "Z" \notin cc /\ "N" \notin cc
  /\ o = "equal" => "Z" \in cc

\* FCMP tells the order of its operands, and testex leaves the condition codes
\* alone (fcmp).
LEMMA FcmpTells == ASSUME IInv, Fcmp PROVE Told(order', fpu'.cc)
<1>1. PICK o \in Compared(fpu.FP[ins.dst], fpu.tmp) :
        fpu' = testex(fcmp(fpu, ins.dst, o), mp) /\ order' = o
  BY Zenon DEF Fcmp, Done
<1> DEFINE d == fpu.FP[ins.dst]
           alike == Is(d, fpu.tmp.class) /\ d.class \in {"zero", "inf"}
           N == IF alike THEN d.neg ELSE o = "less"
           cc == IF o = "unordered" THEN fpu.cc \cup {"NAN"}
                 ELSE (fpu.cc \ {"Z", "N"}) \cup Given(o = "equal", "Z") \cup Given(N, "N")
           g == [fpu EXCEPT !.cc = cc]
<1>2. fcmp(fpu, ins.dst, o) = g
  BY Zenon DEF fcmp
<1>3. o # "unordered" /\ alike =>
        o = "equal" \/ (o = "less" /\ d.neg) \/ (o = "greater" /\ ~d.neg)
  BY AlikeBySign
<1> HIDE DEF d, alike
<1>4. Told(o, cc)
  BY <1>3 DEF Told, Given
<1> HIDE DEF cc
<1>5. DOMAIN g = Fields /\ g.cc = cc
  BY Zenon DEF IInv, Fields
<1> HIDE DEF g
<1>6. testex(g, mp).cc = g.cc
  BY <1>5, TestexKeeps, Zenon DEF Keeps
<1> QED
  BY <1>1, <1>2, <1>4, <1>5, <1>6, Zenon

\* The predicates say what the condition codes say (test_Fcc).
LEMMA PredicatesTell ==
  ASSUME NEW cc, NEW o \in Orders \ {"unordered"}, Told(o, cc), "NAN" \notin cc,
         NEW v \in (0..15) \ {10, 11}
  PROVE  test_Fcc(cc, v) <=> Accepts(v, o)
<1> DEFINE z == "Z" \in cc
           m == "N" \in cc
<1>1. \/ o = "less" /\ ~z /\ m
      \/ o = "greater" /\ ~z /\ ~m
      \/ o = "equal" /\ z
  BY DEF Told, Orders
<1>2. v \in {0, 1, 2, 3, 4, 5, 6, 7, 8, 9, 12, 13, 14, 15}
  OBVIOUS
<1> QED
  BY <1>1, <1>2 DEF test_Fcc, Accepts

-----------------------------------------------------------------------------
(* Theorems.                                                               *)

\* The unit starts with all its fields and nothing done (init).
LEMMA InitIInv == Init => IInv
<1> SUFFICES ASSUME Init PROVE IInv
  OBVIOUS
<1>1. DOMAIN fpu = Fields
  BY Zenon DEF Init, Blank, Fields
<1>2. ins.op = "none"
  BY InsOp DEF Init
<1> QED
  BY <1>1, <1>2 DEF IInv

\* The invariant of the accrued byte is inductive (testex, Next).
LEMMA StepIInv == IInv /\ [Next]_vars => IInv'
  BY StepFine, Zenon DEF Fine, IInv, Covered, vars

\* The accrued byte keeps what it has recorded until FPSR is written or the unit
\* reset, and has all that an operation leaves in the exception byte, whatever
\* MPFR answers (testex, store_fpr, test_bsun, FMOVEM, FRESTORE, faults).
THEOREM AccruedAlwaysKept == Spec => AccruedKeeps
<1>1. IInv /\ [Next]_vars =>
        [/\ ins'.op # "status" => fpu.acc \subseteq fpu'.acc
         /\ phase' = "next" /\ ins'.op = "tested" => Accrued(fpu'.st) \subseteq fpu'.acc]_vars
  BY StepFine, Zenon DEF Fine, Covered
<1> QED
  BY <1>1, InitIInv, StepIInv, PTL DEF Spec, AccruedKeeps

\* After FCMP the predicates tell how its operands compared, whatever operands,
\* and however many faults, stores, traps and register moves come before the
\* next instruction that writes the condition codes (fcmp, test_Fcc): but for
\* UGT and UGE, and for a NaN an earlier instruction left in CC_NAN.
THEOREM ComparisonObeyed == Spec => []CompareObeyed
<1> DEFINE J == IInv /\ Told(order, fpu.cc)
<1>1. Init => J
  BY InitIInv DEF Init, Told
<1>2. J /\ [Next]_vars => J'
  <2> SUFFICES ASSUME J, [Next]_vars PROVE J'
    OBVIOUS
  <2>1. IInv'
    BY StepIInv
  <2>2. CASE Fcmp
    BY <2>1, <2>2, FcmpTells
  <2>3. CASE order' = "none"
    BY <2>1, <2>3 DEF Told
  <2>4. CASE order' = order /\ fpu'.cc = fpu.cc
    BY <2>1, <2>4, Zenon DEF Told
  <2> QED
    BY <2>2, <2>3, <2>4, StepFine, Zenon DEF Fine, vars
<1>3. J => CompareObeyed
  BY PredicatesTell DEF Told, CompareObeyed
<1> QED
  BY <1>1, <1>2, <1>3, PTL DEF Spec

-----------------------------------------------------------------------------
(* Exceptions.                                                             *)

\* A set of the numbers from 1 to 7 has a least member.
LEMMA LeastOf ==
  ASSUME NEW S \in SUBSET (1..7), S # {}
  PROVE  \E k \in S : \A j \in S : k <= j
<1>1. CASE 1 \in S
  <2>1. \A j \in S : 1 <= j
    BY <1>1
  <2> QED
    BY <1>1, <2>1
<1>2. CASE 1 \notin S /\ 2 \in S
  <2>1. \A j \in S : 2 <= j
    BY <1>2
  <2> QED
    BY <1>2, <2>1
<1>3. CASE 1 \notin S /\ 2 \notin S /\ 3 \in S
  <2>1. \A j \in S : 3 <= j
    BY <1>3
  <2> QED
    BY <1>3, <2>1
<1>4. CASE 1 \notin S /\ 2 \notin S /\ 3 \notin S /\ 4 \in S
  <2>1. \A j \in S : 4 <= j
    BY <1>4
  <2> QED
    BY <1>4, <2>1
<1>5. CASE 1 \notin S /\ 2 \notin S /\ 3 \notin S /\ 4 \notin S /\ 5 \in S
  <2>1. \A j \in S : 5 <= j
    BY <1>5
  <2> QED
    BY <1>5, <2>1
<1>6. CASE 1 \notin S /\ 2 \notin S /\ 3 \notin S /\ 4 \notin S /\ 5 \notin S /\ 6 \in S
  <2>1. \A j \in S : 6 <= j
    BY <1>6
  <2> QED
    BY <1>6, <2>1
<1>7. CASE 1 \notin S /\ 2 \notin S /\ 3 \notin S /\ 4 \notin S /\ 5 \notin S /\ 6 \notin S /\ 7 \in S
  <2>1. \A j \in S : 7 <= j
    BY <1>7
  <2> QED
    BY <1>7, <2>1
<1>8. \E k \in 1..7 : k \in S
  OBVIOUS
<1> QED
  BY <1>1, <1>2, <1>3, <1>4, <1>5, <1>6, <1>7, <1>8

\* The first of a set of exceptions is in it and before its others (testex).
LEMMA FirstInIs ==
  ASSUME NEW S
  PROVE  LET live == S \cap Range(Tested)
         IN  /\ FirstIn(S) = "none" <=> live = {}
             /\ FirstIn(S) # "none" =>
                  FirstIn(S) \in live /\ \A e \in live : Priority(FirstIn(S)) <= Priority(e)
             /\ FirstIn(S) # "BSUN"
<1> DEFINE hit == {k \in 1..7 : Tested[k] \in S}
           live == S \cap Range(Tested)
           m == Min(hit)
<1>1. Len(Tested) = 7 /\ \A k \in 1..7 : Tested[k] # "none" /\ Tested[k] # "BSUN"
  BY DEF Tested
<1>2. \A k \in 1..7 : Priority(Tested[k]) = k
  <2>1. \A k \in 1..7 : \A j \in 1..7 : Tested[j] = Tested[k] => j = k
    BY DEF Tested
  <2> QED
    BY <1>1, <2>1 DEF Priority
<1>3. Range(Tested) = {Tested[k] : k \in 1..7}
  BY <1>1 DEF Range, Tested
<1>4. FirstIn(S) = IF hit = {} THEN "none" ELSE Tested[m]
  BY <1>1, Zenon DEF FirstIn
<1>5. hit # {} => m \in hit /\ \A k \in hit : m <= k
  <2> SUFFICES ASSUME hit # {} PROVE m \in hit /\ \A k \in hit : m <= k
    OBVIOUS
  <2>1. \E k \in hit : \A j \in hit : k <= j
    <3>1. hit \subseteq 1..7
      OBVIOUS
    <3> HIDE DEF hit
    <3> QED
      BY <3>1, LeastOf
  <2> HIDE DEF hit
  <2> QED
    BY <2>1, Zenon DEF Min
<1> HIDE DEF m
<1>6. hit = {} <=> live = {}
  BY <1>3
<1>7. CASE hit = {}
  BY <1>4, <1>6, <1>7
<1>8. CASE hit # {}
  <2>1. FirstIn(S) = Tested[m] /\ m \in 1..7 /\ Tested[m] \in S
    BY <1>4, <1>5, <1>8
  <2>2. ASSUME NEW e \in live PROVE m <= Priority(e)
    <3>1. PICK k \in 1..7 : e = Tested[k]
      BY <1>3
    <3> QED
      BY <1>2, <1>5, <1>8, <3>1
  <2>3. FirstIn(S) \in live
    BY <1>3, <2>1
  <2>4. Priority(FirstIn(S)) = m /\ FirstIn(S) # "none" /\ FirstIn(S) # "BSUN"
    BY <1>1, <1>2, <2>1
  <2>5. live # {}
    BY <1>6, <1>8
  <2> QED
    BY <2>2, <2>3, <2>4, <2>5
<1> QED
  BY <1>7, <1>8

\* The compiled code's FPIAR names the instruction under way.
Named == engine = "jit" => fpu.iar = "last"

\* What an operation has raised is the first exception that is set and enabled,
\* nothing is raised while one is under way, and BSUN has its cause.
XInv ==
  /\ phase # "next" => raised = "none" /\ Named
  /\ phase = "next" /\ ins.op = "tested" => raised = First(fpu) /\ Named
  /\ raised = "BSUN" => "BSUN" \in fpu.st \cap fpu.en

\* BSUN is none of the exceptions of testex.
LEMMA NotBsun == ASSUME NEW f PROVE First(f) # "BSUN"
  BY FirstInIs, Zenon DEF First

\* The prologue puts the instruction into FPIAR (fop).
LEMMA PrologueNames ==
  ASSUME NEW f, DOMAIN f = Fields PROVE DOMAIN Prologue(f) = Fields /\ Prologue(f).iar = "last"
  BY Zenon DEF Prologue, Fields

\* testex leaves FPIAR alone.
LEMMA TestexNames ==
  ASSUME NEW f, DOMAIN f = Fields, NEW m
  PROVE  DOMAIN testex(f, m) = Fields /\ testex(f, m).iar = f.iar
<1> DEFINE st == (f.st \ {"OPERR", "OVFL", "UNFL", "DZ", "INEX2"}) \cup Flagged(m)
           acc == f.acc \cup Accrued(st)
           g == [f EXCEPT !.st = st, !.acc = acc]
<1>1. testex(f, m) = g
  BY Zenon DEF testex
<1> HIDE DEF st, acc
<1>2. DOMAIN g = Fields /\ g.iar = f.iar
  BY Zenon DEF Fields
<1> QED
  BY <1>1, <1>2, Zenon

\* And so does the store of a result.
LEMMA StoreNames ==
  ASSUME NEW f, DOMAIN f = Fields, NEW m, NEW dst, NEW r
  PROVE  StoreFpr(f, m, dst, r).iar = f.iar
<1> DEFINE nan == Is(f.tmp, "nan")
           signal == nan /\ "b62" \notin f.tmp.pay
           new == IF signal THEN [r[1] EXCEPT !.pay = @ \cup {"b62"}] ELSE r[1]
           old == f.FP[dst]
           m2 == m \cup r[2] \cup Given(Is(old, "nan"), "erange")
           cc == Given(nan, "NAN") \cup Given(Is(old, "inf"), "I")
                   \cup Given(Is(old, "zero"), "Z")
                   \cup Given(old.class \in {"num", "inf"} /\ old.neg, "N")
           f2 == [f EXCEPT !.FP[dst] = new, !.tmp = old, !.cc = cc,
                           !.st = @ \cup Given(signal, "S_NAN")]
<1>1. StoreFpr(f, m, dst, r) = testex(f2, m2)
  BY Zenon DEF StoreFpr
<1> HIDE DEF new, old, m2, cc, signal
<1>2. DOMAIN f2 = Fields /\ f2.iar = f.iar
  BY Zenon DEF Fields
<1> HIDE DEF f2
<1> QED
  BY <1>1, <1>2, TestexNames, Zenon

\* An operand is loaded.
LEMMA LoadNames ==
  ASSUME NEW f, DOMAIN f = Fields, NEW v PROVE DOMAIN LoadX(f, v) = Fields /\ LoadX(f, v).iar = f.iar
  BY Zenon DEF LoadX, Fields

\* An operand of any kind leaves FPIAR alone (loadFP).
LEMMA FetchedNames ==
  ASSUME NEW f, DOMAIN f = Fields, NEW u \in Fetched(f) PROVE u[1].iar = f.iar
<1>1. CASE \E v : u[1] = LoadX(f, v)
  BY <1>1, LoadNames, Zenon
<1>2. CASE \E v, x : u[1] = LoadP(f, v, x)
  <2>1. PICK v, x : u[1] = LoadP(f, v, x)
    BY <1>2
  <2> DEFINE l == LoadX(f, v)
  <2>2. DOMAIN l = Fields /\ l.iar = f.iar
    BY LoadNames
  <2> HIDE DEF l
  <2>3. [l EXCEPT !.st = (@ \ {"INEX1"}) \cup Given(x, "INEX1")].iar = l.iar
    BY <2>2, Zenon DEF Fields
  <2> QED
    BY <2>1, <2>2, <2>3, Zenon DEF LoadP, l
<1>3. CASE \E src : u[1] = fload_r(f, src)
  <2>1. ASSUME NEW src PROVE fload_r(f, src).iar = f.iar
    BY Zenon DEF Fields, fload_r
  <2> QED
    BY <1>3, <2>1, Zenon
<1>4. \/ \E v : u[1] = LoadX(f, v)
      \/ \E v, x : u[1] = LoadP(f, v, x)
      \/ \E src : u[1] = fload_r(f, src)
  BY DEF Fetched
<1> QED
  BY <1>1, <1>2, <1>3, <1>4, Zenon

\* An instruction that ends in testex on the unit.
LEMMA EndTested ==
  ASSUME phase' = "next", raised' = First(fpu'), Named'
  PROVE  XInv'
  BY NotBsun, Zenon DEF XInv

\* One that does not.
LEMMA EndOther ==
  ASSUME phase' = "next", ins'.op # "tested", raised' # "BSUN"
  PROVE  XInv'
  BY DEF XInv

\* FMOVECR ends in testex, of the interpreter's on the copy (fmovecr).
LEMMA FmovecrExact == ASSUME IInv, XInv, Fmovecr PROVE XInv'
<1>1. PICK class, exact : fmovecr(class, exact)
  BY Zenon DEF Fmovecr
<1> DEFINE f == [Prologue(fpu) EXCEPT !.tmp = Val(class, FALSE, @.pay)]
<1>2. PICK dst, r :
        LET s == StoreFpr(f, IF exact THEN {} ELSE {"inexact"}, dst, r)
        IN  /\ fpu' = Mine(s) /\ raised' = First(s) /\ phase' = "next" /\ engine' = engine
            /\ ins' = Ins(IF engine = "jit" THEN "tested" ELSE "other")
  BY <1>1, Zenon DEF fmovecr, Done
<1> DEFINE s == StoreFpr(f, IF exact THEN {} ELSE {"inexact"}, dst, r)
<1>3. DOMAIN f = Fields /\ f.iar = "last"
  <2>1. DOMAIN Prologue(fpu) = Fields /\ Prologue(fpu).iar = "last"
    BY PrologueNames DEF IInv
  <2> QED
    BY <2>1, Zenon DEF Fields
<1> HIDE DEF f
<1>4. s.iar = "last"
  BY <1>3, StoreNames, Zenon
<1>5. /\ fpu' = Mine(s) /\ raised' = First(s) /\ phase' = "next" /\ engine' = engine
      /\ ins' = Ins(IF engine = "jit" THEN "tested" ELSE "other")
  BY <1>2, Zenon
<1> HIDE DEF s
<1>6. CASE engine = "jit"
  BY <1>4, <1>5, <1>6, EndTested, Zenon DEF Mine, Named
<1>7. CASE engine # "jit"
  BY <1>5, <1>7, InsOp, NotBsun, EndOther
<1> QED
  BY <1>6, <1>7

\* fop starts: nothing is raised but for an opcode without operation.
LEMMA FetchExact == ASSUME IInv, XInv, LoadFP \/ JitLoadFP PROVE XInv'
<1>1. PICK table, opc, u : u \in Fetched(Prologue(fpu)) /\ Fetch(table, opc, u)
  BY Zenon DEF LoadFP, JitLoadFP
<1> DEFINE g == Group(table, opc)
<1>2. DOMAIN Prologue(fpu) = Fields /\ Prologue(fpu).iar = "last"
  BY PrologueNames DEF IInv
<1>3. u[1].iar = "last"
  BY <1>1, <1>2, FetchedNames, Zenon
<1>4. fpu' = Mine(u[1]) /\ engine' = engine
  BY <1>1 DEF Fetch, Done
<1>5. Named'
  BY <1>3, <1>4, Zenon DEF Mine, Named
<1>6. ins'.op = g
  BY <1>1 DEF Fetch
<1>7. \/ g = "FLINE" /\ raised' = "FLINE" /\ phase' = "next"
      \/ raised' = "none" /\ phase' # "next"
  BY <1>1 DEF Fetch, Done
<1> HIDE DEF g
<1> QED
  BY <1>5, <1>6, <1>7 DEF XInv

\* An operation up to store_fpr raises nothing (fop_do).
LEMMA OperateExact == ASSUME IInv, XInv, Operate \/ SinCos PROVE XInv'
<1>1. phase = "operate" /\ phase' = "store" /\ engine' = engine /\ raised' = raised
  BY DEF Operate, SinCos
<1>2. fpu'.iar = fpu.iar
  <2>1. CASE Operate
    <3>1. PICK o : fpu' = [fpu EXCEPT !.tmp = o[1]]
      BY <2>1, Zenon DEF Operate
    <3> QED
      BY <3>1, Zenon DEF IInv, Fields
  <2>2. CASE SinCos
    <3>1. PICK a, b :
            fpu' = IF Is(fpu.tmp, "nan") \/ ins.cos = ins.dst THEN [fpu EXCEPT !.tmp = a]
                   ELSE [fpu EXCEPT !.tmp = a, !.FP[ins.cos] = b]
      BY <2>2, Zenon DEF SinCos
    <3>2. ASSUME NEW i PROVE [fpu EXCEPT !.tmp = a, !.FP[i] = b].iar = fpu.iar
      BY Zenon DEF Fields, IInv
    <3>3. [fpu EXCEPT !.tmp = a].iar = fpu.iar
      BY Zenon DEF Fields, IInv
    <3>4. CASE Is(fpu.tmp, "nan") \/ ins.cos = ins.dst
      BY <3>1, <3>3, <3>4, Zenon
    <3>5. CASE ~(Is(fpu.tmp, "nan") \/ ins.cos = ins.dst)
      <4>1. fpu' = [fpu EXCEPT !.tmp = a, !.FP[ins.cos] = b]
        BY <3>1, <3>5, Zenon
      <4> QED
        BY <4>1, <3>2, Zenon
    <3> QED
      BY <3>4, <3>5, Zenon
  <2> QED
    BY <2>1, <2>2
<1> QED
  BY <1>1, <1>2 DEF XInv, Named

\* One that ends in testex raises what is set and enabled (store_fpr, fcmp,
\* ftst).
LEMMA StoreExact == ASSUME IInv, XInv, Store \/ Fcmp \/ Ftst PROVE XInv'
<1>1. phase # "next" /\ phase' = "next" /\ raised' = First(fpu') /\ engine' = engine
  BY Zenon DEF Store, Fcmp, Ftst, Done
<1>2. fpu'.iar = fpu.iar
  <2>0. ASSUME NEW cc, NEW m PROVE testex([fpu EXCEPT !.cc = cc], m).iar = fpu.iar
    <3>1. DOMAIN [fpu EXCEPT !.cc = cc] = Fields /\ [fpu EXCEPT !.cc = cc].iar = fpu.iar
      BY Zenon DEF Fields, IInv
    <3> QED
      BY <3>1, TestexNames, Zenon
  <2>1. CASE Store
    <3>1. PICK r : fpu' = StoreFpr(fpu, mp, ins.dst, r)
      BY <2>1, Zenon DEF Store, Done
    <3>2. StoreFpr(fpu, mp, ins.dst, r).iar = fpu.iar
      BY StoreNames DEF IInv
    <3> QED
      BY <3>1, <3>2, Zenon
  <2>2. CASE Fcmp
    <3>1. PICK o : fpu' = testex(fcmp(fpu, ins.dst, o), mp)
      BY <2>2, Zenon DEF Fcmp, Done
    <3> QED
      BY <2>0, <3>1, Zenon DEF fcmp
  <2>3. CASE Ftst
    <3>1. PICK b : fpu' = testex(ftst(fpu, b), mp)
      BY <2>3, Zenon DEF Ftst, Done
    <3> QED
      BY <2>0, <3>1, Zenon DEF ftst
  <2> QED
    BY <2>1, <2>2, <2>3
<1> QED
  BY <1>1, <1>2, EndTested DEF XInv, Named

\* A store of a register ends in testex unless the page faults (fpu_store).
LEMMA FpuStoreExact == ASSUME IInv, XInv, fpu_store \/ jit_fpu_store PROVE XInv'
<1>1. PICK u : u \in {fpu, Prologue(fpu)} /\ FpuStore(u) /\ (engine = "jit" => u = Prologue(fpu))
  BY Zenon DEF fpu_store, jit_fpu_store
<1>2. DOMAIN u = Fields /\ (engine = "jit" => u.iar = "last")
  BY <1>1, PrologueNames, Zenon DEF IInv
<1>3. PICK i, r, ok :
        LET f == [u EXCEPT !.tmp = u.FP[i]]
            g == [f EXCEPT !.tmp = r[1]]
            t == testex(g, r[2])
        IN  /\ IF ok THEN Done(t, First(t), FALSE) ELSE Done(g, "ACCESS", FALSE)
            /\ ins' = Ins(IF raised' = "ACCESS" THEN "other" ELSE "tested")
  BY <1>1, Zenon DEF FpuStore
<1> DEFINE f == [u EXCEPT !.tmp = u.FP[i]]
           g == [f EXCEPT !.tmp = r[1]]
           t == testex(g, r[2])
<1>4. DOMAIN f = Fields /\ f.iar = u.iar
  BY <1>2, Zenon DEF Fields
<1> HIDE DEF f
<1>5. DOMAIN g = Fields /\ g.iar = u.iar
  BY <1>4, Zenon DEF Fields
<1> HIDE DEF g
<1>6. t.iar = u.iar
  BY <1>5, TestexNames, Zenon
<1>7. /\ phase' = "next" /\ engine' = engine
      /\ \/ fpu' = t /\ raised' = First(t)
         \/ raised' = "ACCESS"
  BY <1>3, Zenon DEF Done, f, g
<1>8. ins' = Ins(IF raised' = "ACCESS" THEN "other" ELSE "tested")
  BY <1>3, Zenon
<1> HIDE DEF t
<1>9. CASE fpu' = t /\ raised' = First(t)
  BY <1>2, <1>6, <1>7, <1>9, EndTested, Zenon DEF Named
<1>10. CASE raised' = "ACCESS"
  <2>1. ins'.op # "tested" /\ raised' # "BSUN"
    BY <1>8, <1>10, InsOp
  <2> QED
    BY <1>7, <2>1, EndOther
<1> QED
  BY <1>7, <1>9, <1>10

\* The instructions that do not end in testex (FMOVEM, control registers, FSAVE,
\* FRESTORE, a fault before the operand).
LEMMA OtherExact ==
  ASSUME \/ fmovem_from_reg_rev \/ fmovem_from_reg \/ fmovem_to_reg
         \/ fmove_to_fpcc \/ jit_fmove_to_fpcc \/ ToControlFault
         \/ fmove_from_fpcc \/ jit_fmove_from_fpcc \/ FetchFault \/ fsave \/ frestore
  PROVE  XInv'
<1>1. CASE fmovem_from_reg_rev \/ fmovem_from_reg
  <2>1. phase' = "next" /\ raised' = "none" /\ ins' = Ins("other")
    BY <1>1, Zenon DEF fmovem_from_reg_rev, fmovem_from_reg, MovemOut, Done
  <2> QED
    BY <2>1, InsOp, EndOther
<1>2. CASE fmovem_to_reg
  <2>1. phase' = "next" /\ raised' = "none" /\ \E x \in {"back", "other"} : ins' = Ins(x)
    BY <1>2, Zenon DEF fmovem_to_reg, MovemIn, Done
  <2> QED
    BY <2>1, InsOp, EndOther
<1>3. CASE fmove_to_fpcc \/ jit_fmove_to_fpcc \/ ToControlFault
  <2>1. phase' = "next" /\ raised' \in {"none", "ACCESS"}
        /\ \E x \in {"status", "other"} : ins' = Ins(x)
    BY <1>3, Zenon DEF fmove_to_fpcc, jit_fmove_to_fpcc, ToControlFault, ToControl, Done
  <2> QED
    BY <2>1, InsOp, EndOther
<1>4. CASE fmove_from_fpcc \/ jit_fmove_from_fpcc \/ FetchFault \/ fsave
  <2>1. phase' = "next" /\ raised' \in {"none", "ACCESS", "PRIV"} /\ ins' = Ins("other")
    BY <1>4, Zenon DEF fmove_from_fpcc, jit_fmove_from_fpcc, FromControl, FetchFault, fsave, Done
  <2> QED
    BY <2>1, InsOp, EndOther
<1>5. CASE frestore
  <2>1. PICK frame \in Frames :
          /\ CASE frame = "null" -> Done(Reset, "none", FALSE)
               [] frame = "frame" -> Done(fpu, "none", TRUE)
               [] frame = "size" -> Done(fpu, "FORMAT", TRUE)
               [] frame = "version" -> Done(fpu, "FORMAT", FALSE)
               [] OTHER -> Done(fpu, frame, FALSE)
          /\ ins' = Ins(IF frame = "null" THEN "status" ELSE "other")
    BY <1>5, Zenon DEF frestore
  <2>2. phase' = "next" /\ raised' \in {"none", "FORMAT", "PRIV", "ACCESS"}
    BY <2>1 DEF Done, Frames
  <2>3. ins'.op \in {"status", "other"}
    BY <2>1, InsOp
  <2> QED
    BY <2>2, <2>3, EndOther
<1> QED
  BY <1>1, <1>2, <1>3, <1>4, <1>5

\* BSUN is raised when it is enabled, and it has been set (test_bsun).
LEMMA CondExact == ASSUME IInv, XInv, FpCond \/ JitFpCond PROVE XInv'
<1> DEFINE end(f) == [f EXCEPT !.iar = "other"]
<1>1. phase' = "next" /\ ins' = Ins("other")
  BY DEF FpCond, JitFpCond, Condition, Decided, Done
<1>2. ASSUME raised' = "BSUN"
      PROVE  fpu' = end(test_bsun(fpu)) /\ "NAN" \in fpu.cc /\ "BSUN" \in fpu'.en
  <2>0. Condition
    BY DEF FpCond, JitFpCond
  <2>1. PICK x, trace : Decided(x[1], x[2], trace)
    BY <2>0 DEF Condition
  <2> DEFINE f == end(IF x[1] THEN test_bsun(fpu) ELSE fpu)
             bsun == x[1] /\ "NAN" \in fpu.cc /\ "BSUN" \in f.en
  <2>2. IF bsun THEN Done(f, "BSUN", FALSE)
        ELSE IF x[2] THEN Done(f, "TRAPX", FALSE) ELSE Done(f, "none", trace)
    BY <2>1, Zenon DEF Decided
  <2>3. CASE bsun
    <3>1. f = end(test_bsun(fpu))
      BY <2>3, Zenon
    <3>2. fpu' = f
      BY <2>2, <2>3, Zenon DEF Done
    <3> QED
      BY <2>3, <3>1, <3>2, Zenon
  <2>4. CASE ~bsun
    <3>1. raised' \in {"TRAPX", "none"}
      <4> HIDE DEF bsun, f
      <4> QED
        BY <2>2, <2>4 DEF Done
    <3> QED
      BY <1>2, <3>1
  <2> QED
    BY <2>3, <2>4
<1>3. /\ DOMAIN test_bsun(fpu) = Fields
      /\ test_bsun(fpu).st = fpu.st \cup Given("NAN" \in fpu.cc, "BSUN")
  BY Zenon DEF test_bsun, Fields, IInv
<1>4. ASSUME NEW f, DOMAIN f = Fields PROVE end(f).st = f.st
  BY <1>4, Zenon DEF Fields
<1>5. raised' = "BSUN" => "BSUN" \in fpu'.st \cap fpu'.en
  <2> SUFFICES ASSUME raised' = "BSUN" PROVE "BSUN" \in fpu'.st \cap fpu'.en
    OBVIOUS
  <2>1. fpu'.st = test_bsun(fpu).st
    BY <1>2, <1>3, <1>4, Zenon
  <2>2. "BSUN" \in Given("NAN" \in fpu.cc, "BSUN")
    BY <1>2 DEF Given
  <2> QED
    BY <1>2, <1>3, <2>1, <2>2, Zenon
<1>6. ins'.op # "tested"
  BY <1>1, InsOp
<1> QED
  BY <1>1, <1>5, <1>6 DEF XInv

\* The debugger's dump leaves cause and exception alone (dumpReg).
LEMMA DumpExact == ASSUME IInv, XInv, dumpReg PROVE XInv'
<1>1. /\ fpu' = [fpu EXCEPT !.tmp = Scaled(fpu.FP[Top])]
      /\ phase = "next" /\ phase' = phase /\ ins' = ins /\ raised' = raised /\ engine' = engine
  BY Zenon DEF dumpReg
<1>2. fpu'.st = fpu.st /\ fpu'.en = fpu.en /\ fpu'.iar = fpu.iar
  BY <1>1, Zenon DEF Fields, IInv
<1>3. First(fpu') = First(fpu)
  BY <1>2, Zenon DEF First
<1> QED
  BY <1>1, <1>2, <1>3 DEF XInv, Named

\* Every step of either engine raises what it has a cause for.
LEMMA StepExact == ASSUME IInv, XInv, [Next]_vars PROVE XInv'
<1>1. CASE InterpreterNext \/ JitNext
  BY <1>1, FetchExact, FpuStoreExact, OtherExact, CondExact, DumpExact DEF InterpreterNext, JitNext
<1>2. CASE Next /\ ~(InterpreterNext \/ JitNext)
  BY <1>2, FmovecrExact, OperateExact, StoreExact, OtherExact DEF Next
<1>3. CASE UNCHANGED vars
  BY <1>3, Zenon DEF vars, XInv, Named
<1> QED
  BY <1>1, <1>2, <1>3

\* The handler of a floating-point exception finds its cause: for all operands,
\* enables and status words, and whatever MPFR answers, an operation raises the
\* first exception of FPSR that FPCR enables, none when nothing enabled is set,
\* and the compiled code's FPIAR names it (testex, test_bsun).
THEOREM ExceptionsAlwaysExact == Spec => []ExceptionsExact
<1>1. Init => XInv
  <2> SUFFICES ASSUME Init PROVE XInv
    OBVIOUS
  <2>1. phase = "next" /\ ins.op = "none" /\ raised = "none"
    BY InsOp DEF Init
  <2> QED
    BY <2>1 DEF XInv
<1>2. XInv => ExceptionsExact
  <2> SUFFICES ASSUME XInv PROVE ExceptionsExact
    OBVIOUS
  <2> DEFINE S == fpu.st \cap fpu.en
             live == S \cap Range(Tested)
  <2>1. First(fpu) = FirstIn(S)
    BY Zenon DEF First
  <2> HIDE DEF S
  <2>2. /\ FirstIn(S) = "none" <=> live = {}
        /\ FirstIn(S) # "none" =>
             FirstIn(S) \in live /\ \A e \in live : Priority(FirstIn(S)) <= Priority(e)
    BY FirstInIs, Zenon
  <2>3. live = fpu.st \cap fpu.en \cap Range(Tested)
    BY DEF S
  <2> HIDE DEF live
  <2>4. ASSUME phase = "next", ins.op = "tested"
        PROVE  /\ raised = "none" <=> live = {}
               /\ raised # "none" =>
                    raised \in live /\ \A e \in live : Priority(raised) <= Priority(e)
               /\ engine = "jit" => fpu.iar = "last"
    <3>1. raised = FirstIn(S) /\ (engine = "jit" => fpu.iar = "last")
      BY <2>1, <2>4, Zenon DEF XInv, Named
    <3> QED
      BY <2>2, <3>1, Zenon
  <2>5. raised = "BSUN" => "BSUN" \in fpu.st \cap fpu.en
    BY DEF XInv
  <2> QED
    BY <2>3, <2>4, <2>5, Zenon DEF ExceptionsExact
<1> QED
  BY <1>1, <1>2, InitIInv, StepIInv, StepExact, PTL DEF Spec

-----------------------------------------------------------------------------
(* FMOVEM.                                                                 *)

\* The registers of a list lie in the save area, each in a slot of its own.
LEMMA SlotsApart ==
  ASSUME NEW S \in SUBSET Regs, NEW base \in Nat, base + Cardinality(S) <= Slots, NEW i \in S
  PROVE  /\ SlotOf(base, S, i) \in 0..(Slots - 1)
         /\ \A j \in S : SlotOf(base, S, j) = SlotOf(base, S, i) => j = i
<1> DEFINE Below(k) == {j \in S : j < k}
<1>1. Regs \subseteq Int /\ Slots \in Int
  BY FpuAssumption DEF Regs
<1>2. IsFiniteSet(S)
  <2>1. IsFiniteSet(Regs)
    BY FS_Interval, FpuAssumption DEF Regs
  <2> QED
    BY <2>1, FS_Subset
<1>3. ASSUME NEW k \in S
      PROVE  IsFiniteSet(Below(k)) /\ Cardinality(Below(k)) \in Nat
             /\ Cardinality(Below(k)) < Cardinality(S)
  <2>1. Below(k) \in SUBSET S /\ k \notin Below(k)
    BY <1>1
  <2>2. Below(k) # S
    BY <2>1
  <2> HIDE DEF Below
  <2>3. IsFiniteSet(Below(k)) /\ Cardinality(Below(k)) <= Cardinality(S)
        /\ Cardinality(Below(k)) # Cardinality(S)
    BY <1>2, <2>1, <2>2, FS_Subset
  <2>4. Cardinality(Below(k)) \in Nat /\ Cardinality(S) \in Nat
    BY <1>2, <2>3, FS_CardinalityType
  <2> QED
    BY <2>3, <2>4
<1>4. ASSUME NEW k \in S, NEW j \in S, j < k
      PROVE  Cardinality(Below(j)) < Cardinality(Below(k))
  <2>0. j \in Int /\ k \in Int /\ \A l \in S : l \in Int
    BY <1>1
  <2>1. Below(j) \in SUBSET Below(k) /\ j \in Below(k) /\ j \notin Below(j)
    <3>1. \A l \in S : l < j => l < k
      BY <1>4, <2>0
    <3>2. j < k /\ ~(j < j)
      BY <1>4, <2>0
    <3> QED
      BY <3>1, <3>2, Zenon
  <2>2. Below(j) # Below(k)
    BY <2>1
  <2> HIDE DEF Below
  <2>3. Cardinality(Below(j)) <= Cardinality(Below(k)) /\ Cardinality(Below(j)) # Cardinality(Below(k))
    BY <1>3, <2>1, <2>2, FS_Subset
  <2> QED
    BY <1>3, <2>3
<1>5. \A k \in S : SlotOf(base, S, k) = base + Cardinality(Below(k))
  BY DEF SlotOf
<1> HIDE DEF Below
<1>6. Cardinality(S) \in Nat
  BY <1>2, FS_CardinalityType
<1>7. SlotOf(base, S, i) \in 0..(Slots - 1)
  <2>1. Cardinality(Below(i)) \in Nat /\ Cardinality(Below(i)) < Cardinality(S)
    BY <1>3
  <2> QED
    BY <1>1, <1>5, <1>6, <2>1
<1>8. ASSUME NEW j \in S, SlotOf(base, S, j) = SlotOf(base, S, i) PROVE j = i
  <2>1. Cardinality(Below(i)) \in Nat /\ Cardinality(Below(j)) \in Nat
    BY <1>3
  <2>2. Cardinality(Below(i)) = Cardinality(Below(j))
    BY <1>5, <1>8, <2>1
  <2>3. ~(i < j) /\ ~(j < i)
    BY <1>4, <2>1, <2>2
  <2> QED
    BY <1>1, <2>3
<1> QED
  BY <1>7, <1>8

\* What FMOVEM stores is found where its register's slot is (fmovem_from_reg).
LEMMA SavedThere ==
  ASSUME NEW f, NEW S \in SUBSET Regs, NEW base \in Nat, base + Cardinality(S) <= Slots,
         NEW i \in S
  PROVE  Saved(f, base, S)[SlotOf(base, S, i)] = f.FP[i]
<1> DEFINE x == SlotOf(base, S, i)
           c == CHOOSE j \in S : SlotOf(base, S, j) = x
<1>1. x \in 0..(Slots - 1) /\ \A j \in S : SlotOf(base, S, j) = x => j = i
  BY SlotsApart
<1>2. Saved(f, base, S)[x] =
        IF \E j \in S : SlotOf(base, S, j) = x THEN f.FP[c] ELSE mem[x]
  BY <1>1, Zenon DEF Saved
<1>3. \E j \in S : SlotOf(base, S, j) = x
  BY Zenon
<1>4. c \in S /\ SlotOf(base, S, c) = x
  BY <1>3, Zenon
<1> QED
  BY <1>1, <1>2, <1>3, <1>4, Zenon

\* b is what FMOVEM makes of a (RestoredExact).
Back(a, b) ==
  IF Is(a, "nan") THEN IF a.pay = {} THEN Is(b, "inf") ELSE Is(b, "nan") /\ b.pay = a.pay
  ELSE b.class = a.class /\ b.neg = a.neg

\* loadX gives that, whatever was in fp_tmp.
LEMMA LoadGives ==
  ASSUME NEW f, DOMAIN f = Fields, NEW v PROVE Back(v, LoadX(f, v).tmp)
<1>1. ASSUME NEW w PROVE [f EXCEPT !.tmp = w].tmp = w
  BY Zenon DEF Fields
<1> DEFINE p == f.tmp.pay
<1>2. /\ Is(v, "nan") /\ v.pay # {} => LoadX(f, v).tmp = v
      /\ Is(v, "nan") /\ v.pay = {} => LoadX(f, v).tmp = Val("inf", v.neg, p)
      /\ ~Is(v, "nan") => LoadX(f, v).tmp = Val(v.class, v.neg, p)
  <2>1. CASE Is(v, "nan") /\ v.pay # {}
    <3>1. LoadX(f, v) = [f EXCEPT !.tmp = v]
      BY <2>1, Zenon DEF LoadX
    <3> QED
      BY <1>1, <2>1, <3>1, Zenon
  <2>2. CASE Is(v, "nan") /\ v.pay = {}
    <3>1. LoadX(f, v) = [f EXCEPT !.tmp = Val("inf", v.neg, p)]
      BY <2>2, Zenon DEF LoadX
    <3> QED
      BY <1>1, <2>2, <3>1, Zenon
  <2>3. CASE ~Is(v, "nan")
    <3>1. LoadX(f, v) = [f EXCEPT !.tmp = Val(v.class, v.neg, p)]
      BY <2>3, Zenon DEF LoadX
    <3> QED
      BY <1>1, <2>3, <3>1, Zenon
  <2> QED
    BY <2>1, <2>2, <2>3
<1> HIDE DEF p
<1> DEFINE r == LoadX(f, v).tmp
<1> HIDE DEF r
<1>3. /\ Is(v, "nan") /\ v.pay # {} => r = v
      /\ Is(v, "nan") /\ v.pay = {} => r = Val("inf", v.neg, p)
      /\ ~Is(v, "nan") => r = Val(v.class, v.neg, p)
  BY <1>2, Zenon DEF r
<1>4. Back(v, r)
  BY <1>3 DEF Back, Is, Val
<1> QED
  BY <1>4, Zenon DEF r

\* And so does the whole FMOVEM, although a register finds in fp_tmp what the
\* one before it held (fmovem_to_reg).
LEMMA RestoredGives ==
  ASSUME NEW f, DOMAIN f = Fields, NEW vals, NEW S \in SUBSET Regs, NEW i \in S
  PROVE  Back(vals[i], Restored(f, vals, S).FP[i])
<1> DEFINE Below(k) == {j \in S : j < k}
           Found(k) == IF Below(k) = {} THEN f ELSE [f EXCEPT !.tmp = f.FP[Max(Below(k))]]
           F == [k \in Regs |-> IF k \in S THEN LoadX(Found(k), vals[k]).tmp ELSE f.FP[k]]
           t == IF S = {} THEN f.tmp ELSE f.FP[Max(S)]
<1>1. Restored(f, vals, S) = [f EXCEPT !.FP = F, !.tmp = t]
  BY Zenon DEF Restored
<1>2. DOMAIN Found(i) = Fields
  BY Zenon DEF Fields
<1>3. F[i] = LoadX(Found(i), vals[i]).tmp
  BY Zenon
<1> HIDE DEF Found, F, t
<1>4. [f EXCEPT !.FP = F, !.tmp = t].FP = F
  BY Zenon DEF Fields
<1> QED
  BY <1>1, <1>2, <1>3, <1>4, LoadGives, Zenon


\* The save area holds what the last FMOVEM stored.
Held ==
  /\ saved.regs \in SUBSET Regs
  /\ \A i \in saved.regs : mem[SlotOf(saved.base, saved.regs, i)] = saved.FP[i]

Came == phase = "next" /\ ins.op = "back" => \A i \in saved.regs : Back(saved.FP[i], fpu.FP[i])

RInv == Held /\ Came

\* A list in the order of the control modes names registers, too.
LEMMA ForwardRegs == ASSUME NEW list \in SUBSET Regs PROVE Forward(list) \in SUBSET Regs
<1> SUFFICES ASSUME NEW b \in list PROVE Top - b \in Regs
  BY DEF Forward
<1> QED
  BY FpuAssumption DEF Regs

\* FMOVEM to memory.
LEMMA MovemOutHeld ==
  ASSUME fmovem_from_reg_rev \/ fmovem_from_reg PROVE RInv'
<1>1. PICK S \in SUBSET Regs, base \in 0..(Slots - 1) : MovemOut(S, base)
  <2>1. CASE fmovem_from_reg_rev
    BY <2>1, Zenon DEF fmovem_from_reg_rev, Backward
  <2>2. CASE fmovem_from_reg
    <3>1. PICK list \in SUBSET Regs, base \in 0..(Slots - 1) : MovemOut(Forward(list), base)
      BY <2>2, Zenon DEF fmovem_from_reg
    <3> QED
      BY <3>1, ForwardRegs, Zenon
  <2> QED
    BY <2>1, <2>2
<1>2. /\ base + Cardinality(S) <= Slots
      /\ mem' = Saved(fpu, base, S) /\ saved' = [FP |-> fpu.FP, regs |-> S, base |-> base]
      /\ ins' = Ins("other")
  BY <1>1, Zenon DEF MovemOut
<1>3. saved'.regs = S /\ saved'.base = base /\ saved'.FP = fpu.FP
  BY <1>2
<1>4. ins'.op # "back"
  BY <1>2, InsOp
<1>5. ASSUME NEW i \in S PROVE mem'[SlotOf(base, S, i)] = fpu.FP[i]
  <2>1. base \in Nat
    BY FpuAssumption
  <2>2. Saved(fpu, base, S)[SlotOf(base, S, i)] = fpu.FP[i]
    BY <1>2, <2>1, SavedThere
  <2> QED
    BY <1>2, <2>2, Zenon
<1>6. Held'
  BY <1>3, <1>5, Zenon DEF Held
<1> QED
  BY <1>4, <1>6, Zenon DEF RInv, Came

\* FMOVEM from memory.
LEMMA MovemInCame == ASSUME IInv, RInv, fmovem_to_reg PROVE RInv'
<1>0. PICK S, base, own : MovemIn(S, base, own)
  BY Zenon DEF fmovem_to_reg
<1>1. PICK other :
        /\ fpu' = Mine(Restored(Prologue(fpu),
                    [k \in S |-> IF own THEN mem[SlotOf(base, S, k)] ELSE other], S))
        /\ ins' = Ins(IF own /\ engine = "jit" /\ saved.regs = S /\ saved.base = base
                      THEN "back" ELSE "other")
  BY <1>0, Zenon DEF MovemIn, Done
<1>2. mem' = mem /\ saved' = saved
  BY <1>0 DEF MovemIn
<1>3. Held'
  BY <1>2, Zenon DEF RInv, Held
<1>4. ASSUME ins'.op = "back", NEW i \in saved.regs PROVE Back(saved.FP[i], fpu'.FP[i])
  <2>1. own /\ engine = "jit" /\ saved.regs = S /\ saved.base = base
    BY <1>1, <1>4, InsOp
  <2> DEFINE vals == [k \in S |-> IF own THEN mem[SlotOf(base, S, k)] ELSE other]
             u == Prologue(fpu)
  <2>2. i \in S /\ S \in SUBSET Regs
    BY <1>4, <2>1, Zenon DEF RInv, Held
  <2>3. vals[i] = mem[SlotOf(base, S, i)]
    BY <2>1, <2>2, Zenon
  <2>4. mem[SlotOf(base, S, i)] = saved.FP[i]
    BY <1>4, <2>1, Zenon DEF RInv, Held
  <2>5. fpu' = Restored(u, vals, S)
    BY <1>1, <2>1, Zenon DEF Mine
  <2>6. DOMAIN u = Fields
    BY PrologueNames DEF IInv
  <2> HIDE DEF vals, u
  <2>7. Back(vals[i], Restored(u, vals, S).FP[i])
    BY <2>2, <2>6, RestoredGives
  <2> QED
    BY <2>3, <2>4, <2>5, <2>7, Zenon
<1> QED
  BY <1>2, <1>3, <1>4, Zenon DEF RInv, Came

\* An instruction that leaves the save area alone and restores nothing.
LEMMA ElseHeld ==
  ASSUME RInv, Kept, phase' = "next" => ins'.op # "back" PROVE RInv'
  BY Zenon DEF RInv, Held, Came, Kept

\* No step disturbs the save area or restores something else.
LEMMA StepHeld == ASSUME IInv, RInv, [Next]_vars PROVE RInv'
<1>1. CASE fmovem_from_reg_rev \/ fmovem_from_reg
  BY <1>1, MovemOutHeld
<1>2. CASE fmovem_to_reg
  BY <1>2, MovemInCame
<1>3. CASE dumpReg
  <2>1. /\ fpu' = [fpu EXCEPT !.tmp = Scaled(fpu.FP[Top])]
        /\ phase' = phase /\ ins' = ins /\ mem' = mem /\ saved' = saved
    BY <1>3, Zenon DEF dumpReg, Kept
  <2>2. fpu'.FP = fpu.FP
    BY <2>1, Zenon DEF Fields, IInv
  <2> QED
    BY <2>1, <2>2, Zenon DEF RInv, Held, Came
<1>4. CASE UNCHANGED vars
  BY <1>4, Zenon DEF vars, RInv, Held, Came
<1>5. CASE Operate \/ SinCos
  <2>1. Kept /\ phase' = "store"
    BY <1>5 DEF Operate, SinCos
  <2> QED
    BY <2>1, ElseHeld
<1>6. CASE Store \/ Fcmp \/ Ftst
  <2>1. Kept /\ ins' = Ins("tested")
    BY <1>6, Zenon DEF Store, Fcmp, Ftst
  <2> QED
    BY <2>1, InsOp, ElseHeld
<1>7. CASE LoadFP \/ JitLoadFP
  <2>1. Kept /\ \E table, opc, u : Fetch(table, opc, u)
    BY <1>7, Zenon DEF LoadFP, JitLoadFP
  <2>2. PICK table, opc, u : Fetch(table, opc, u)
    BY <2>1
  <2> DEFINE g == Group(table, opc)
  <2>3. ins'.op = g
    BY <2>2 DEF Fetch
  <2>4. g # "FLINE" => phase' # "next"
    BY <2>2 DEF Fetch
  <2> HIDE DEF g
  <2> QED
    BY <2>1, <2>3, <2>4, ElseHeld
<1>8. CASE Fmovecr
  <2>1. Kept /\ \E x \in {"tested", "other"} : ins' = Ins(x)
    BY <1>8, Zenon DEF Fmovecr, fmovecr
  <2> QED
    BY <2>1, InsOp, ElseHeld
<1>9. CASE FpCond \/ JitFpCond
  <2>1. Kept /\ ins' = Ins("other")
    BY <1>9 DEF FpCond, JitFpCond, Condition
  <2> QED
    BY <2>1, InsOp, ElseHeld
<1>10. CASE FetchFault \/ fmove_from_fpcc \/ jit_fmove_from_fpcc \/ fsave
  <2>1. Kept /\ ins' = Ins("other")
    BY <1>10, Zenon DEF FetchFault, fmove_from_fpcc, jit_fmove_from_fpcc, FromControl, fsave
  <2> QED
    BY <2>1, InsOp, ElseHeld
<1>11. CASE fpu_store \/ jit_fpu_store
  <2>1. PICK u : FpuStore(u)
    BY <1>11, Zenon DEF fpu_store, jit_fpu_store
  <2>2. Kept /\ ins' = Ins(IF raised' = "ACCESS" THEN "other" ELSE "tested")
    BY <2>1, Zenon DEF FpuStore
  <2> QED
    BY <2>2, InsOp, ElseHeld
<1>12. CASE fmove_to_fpcc \/ jit_fmove_to_fpcc \/ ToControlFault \/ frestore
  <2>1. Kept /\ \E x \in {"status", "other"} : ins' = Ins(x)
    BY <1>12, Zenon DEF fmove_to_fpcc, jit_fmove_to_fpcc, ToControlFault, ToControl, frestore
  <2> QED
    BY <2>1, InsOp, ElseHeld
<1> QED
  BY <1>1, <1>2, <1>3, <1>4, <1>5, <1>6, <1>7, <1>8, <1>9, <1>10, <1>11, <1>12
     DEF Next, InterpreterNext, JitNext

\* What FMOVEM stores and the compiled code's FMOVEM loads from there again is
\* what the registers held, each in its own, for every list, every number of
\* registers and every place in the save area (fmovem_from_reg_rev,
\* fmovem_to_reg): but for a NaN without payload, which comes back an infinity.
THEOREM RestoredAlwaysExact == Spec => []RestoredExact
<1>1. Init => RInv
  <2> SUFFICES ASSUME Init PROVE RInv
    OBVIOUS
  <2>1. saved.regs = {} /\ ins.op = "none"
    BY InsOp DEF Init
  <2> QED
    BY <2>1 DEF RInv, Held, Came
<1>2. RInv => RestoredExact
  BY Zenon DEF RInv, Came, Back, RestoredExact
<1> QED
  BY <1>1, <1>2, InitIInv, StepIInv, StepHeld, PTL DEF Spec
===============================================================================
