--------------------------------- MODULE Fpu ---------------------------------
(***************************************************************************)
(* The floating-point unit (68040_fpu.cc), as the interpreter and as the   *)
(* compiled code (jit_fpu.cc) drive it. A value is its class, its sign and *)
(* what of a NaN's payload the code looks at; mantissas, the rounding mode *)
(* and the quotient byte are left out. What MPFR returns, and which of its *)
(* flags it raises, is any outcome its documentation allows. An            *)
(* instruction is two or three steps (fetch the operand, operate, store)   *)
(* because its parts choose independently; nothing runs between them.      *)
(*                                                                         *)
(* The interpreter's fop works on a copy of the unit that it throws away   *)
(* ("auto fpu = static_cast<M68040FpuFull &>(...)"), and fop_do and        *)
(* fpu_store go back to the original. MPFR's flags are global.             *)
(***************************************************************************)
EXTENDS Integers, FiniteSets, SequencesExt

CONSTANTS
  Top,          \* the registers are 0..Top (0..7)
  Finite,       \* the operands that are no NaN: <<class, sign>>
  Payloads,     \* the payloads of NaN operands
  Signs,        \* the signs of computed results
  Opcodes,      \* the operations tried, of 0..127
  Enables,      \* the exceptions an FMOVE to FPCR may enable
  StatusWrites, \* the values an FMOVE to FPSR may write: [cc, st, acc]
  Slots,        \* the save area has slots 0..Slots - 1 of 12 bytes
  MaxIns        \* bound: instructions of a behaviour

Groups == {"b63", "b62", "mid", "low"}  \* of a payload: bits 63, 62, 61-41, 40-0
Exceptions == {"BSUN", "S_NAN", "OPERR", "OVFL", "UNFL", "DZ", "INEX1", "INEX2"}

ASSUME FpuAssumption ==
  /\ Top \in 0..7 /\ Opcodes \subseteq 0..127 /\ Slots \in Nat /\ MaxIns \in Nat
  /\ Finite \subseteq {"zero", "num", "inf"} \X BOOLEAN
  /\ Signs \subseteq BOOLEAN /\ Signs # {}
  /\ Payloads \subseteq (SUBSET Groups) \ {{}} /\ Enables \subseteq SUBSET Exceptions

Regs == 0..Top
Vectors == Exceptions \cup {"FLINE", "TRAPX", "PRIV", "FORMAT", "ACCESS", "none"}

VARIABLES
  engine,     \* "interpreter" or "jit"
  fpu,        \* the unit
  mp,         \* MPFR's global flags
  phase,      \* "next", "operate", "store"
  ins,        \* the instruction under way, or the last one
  raised,     \* the exception the last instruction raised
  must_trace, \* it asked for a trace of a change of flow (if T = 1)
  mem,        \* the save area of FMOVEM
  order,      \* history: what the FCMP that set the condition codes saw
  saved,      \* history: what the last FMOVEM stored
  n           \* instructions so far

vars == <<engine, fpu, mp, phase, ins, raised, must_trace, mem, order, saved, n>>

-----------------------------------------------------------------------------
(* Values.                                                                 *)

QNAN_DEFAULT == Groups
Val(c, neg, pay) == [class |-> c, neg |-> neg, pay |-> pay]
NanOf(pay) == Val("nan", FALSE, pay)
Is(v, c) == v.class = c

\* What the unit holds after init: MPFR's NaNs, payloads and status zero.
Blank == [FP |-> [i \in Regs |-> NanOf({})], tmp |-> NanOf({}), cc |-> {},
          st |-> {}, acc |-> {}, en |-> {}, iar |-> "other"]

\* reset: quiet NaNs everywhere.
Reset == [Blank EXCEPT !.FP = [i \in Regs |-> NanOf(QNAN_DEFAULT)],
                       !.tmp = NanOf(QNAN_DEFAULT)]

\* normalize_fp: rounding to a format may overflow or underflow. A ternary
\* value left by an earlier operation reports an inexact or overflowed result.
Normalized(v) ==
  CASE Is(v, "num") ->
         {<<v, {}>>, <<v, {"inexact"}>>}
           \cup {<<Val(c, v.neg, v.pay), {"over", "inexact"}>> : c \in {"inf", "num"}}
           \cup {<<Val(c, v.neg, v.pay), {"under", "inexact"}>> : c \in {"zero", "num"}}
    [] Is(v, "inf") -> {<<v, {}>>, <<v, {"over", "inexact"}>>}
    [] OTHER -> {<<v, {}>>, <<v, {"inexact"}>>}

\* A computed result with MPFR's flags for it.
Results(pay) ==
  {<<Val("nan", FALSE, pay), {"nan"}>>}
    \cup {<<Val("zero", b, pay), {}>> : b \in Signs}
    \cup {<<Val("num", b, pay), f>> : b \in Signs, f \in {{}, {"inexact"}}}
    \cup {<<Val("inf", b, pay), f>> : b \in Signs, f \in {{}, {"div0"}, {"over", "inexact"}}}

-----------------------------------------------------------------------------
(* The status register.                                                    *)

Given(b, x) == IF b THEN {x} ELSE {}

Flagged(m) ==
  Given(m \cap {"nan", "erange"} # {}, "OPERR") \cup Given("over" \in m, "OVFL")
    \cup Given("under" \in m, "UNFL") \cup Given("div0" \in m, "DZ")
    \cup Given("inexact" \in m, "INEX2")

Accrued(st) ==
  Given(st \cap {"S_NAN", "OPERR"} # {}, "IOP") \cup Given("OVFL" \in st, "OVFL")
    \cup Given(st \cap {"UNFL", "INEX2"} # {}, "UNFL") \cup Given("DZ" \in st, "DZ")
    \cup Given(st \cap {"INEX1", "INEX2", "OVFL"} # {}, "INEX")

\* Defect: the accrued byte is assigned, not added to.
Muttestex(f, m) ==
  LET st == (f.st \ {"OPERR", "OVFL", "UNFL", "DZ", "INEX2"}) \cup Flagged(m)
  IN  [f EXCEPT !.st = st, !.acc = Accrued(st)]

\* testex assigns five of the exceptions from the flags; S_NAN, INEX1 and
\* BSUN stay as they were.
testex(f, m) ==
  LET st == (f.st \ {"OPERR", "OVFL", "UNFL", "DZ", "INEX2"}) \cup Flagged(m)
  IN  [f EXCEPT !.st = st, !.acc = @ \cup Accrued(st)]

Tested == <<"S_NAN", "OPERR", "OVFL", "UNFL", "DZ", "INEX1", "INEX2">>

\* The first exception of S in the order testex looks.
FirstIn(S) ==
  LET hit == {k \in 1..Len(Tested) : Tested[k] \in S}
  IN  IF hit = {} THEN "none" ELSE Tested[Min(hit)]

\* Defect: the enable bit of INEX2 is not looked at.
MutFirst(f) == FirstIn((f.st \cap f.en) \cup (f.st \cap {"INEX2"}))

\* The exception testex raises: the first one that is set and enabled.
First(f) == FirstIn(f.st \cap f.en)

\* store_fpr: the condition codes but NAN are those of fp_tmp after the swap,
\* that is of the value the register held before. mpfr_sgn of a NaN sets the
\* flag of a range error.
StoreFpr(f, m, dst, r) ==
  LET nan == Is(f.tmp, "nan")
      signal == nan /\ "b62" \notin f.tmp.pay
      new == IF signal THEN [r[1] EXCEPT !.pay = @ \cup {"b62"}] ELSE r[1]
      old == f.FP[dst]
      m2 == m \cup r[2] \cup Given(Is(old, "nan"), "erange")
      f2 == [f EXCEPT !.FP[dst] = new, !.tmp = old,
                      !.cc = Given(nan, "NAN") \cup Given(Is(old, "inf"), "I")
                               \cup Given(Is(old, "zero"), "Z")
                               \cup Given(old.class \in {"num", "inf"} /\ old.neg, "N"),
                      !.st = @ \cup Given(signal, "S_NAN")]
  IN  testex(f2, m2)

-----------------------------------------------------------------------------
(* Operands.                                                               *)

\* What memory, an immediate or a data register gives, by size. The quiet bit
\* of a single or double lands in bit 63 of the payload.
Fractions(size) ==
  IF size \in {"S", "D"} THEN {p \in Payloads : "low" \in p => size = "D"} ELSE Payloads

Operand(size) ==
  LET plain == {Val(x[1], x[2], {}) : x \in Finite}
  IN  IF size = "I" THEN {v \in plain : ~Is(v, "inf") /\ (Is(v, "zero") => ~v.neg)}
      ELSE plain \cup {NanOf(p) : p \in Fractions(size)}

\* loadX: a NaN without payload is an infinity. The payload of fp_tmp stays
\* unless a NaN is loaded.
LoadX(f, v) ==
  IF Is(v, "nan") /\ v.pay # {} THEN [f EXCEPT !.tmp = v]
  ELSE IF Is(v, "nan") THEN [f EXCEPT !.tmp = Val("inf", v.neg, @.pay)]
  ELSE [f EXCEPT !.tmp = Val(v.class, v.neg, @.pay)]

\* loadP: the inexact decimal conversion of a finite number is INEX1's. It is
\* assigned for numbers only; the rest of the packed operands are as loadX's.
LoadP(f, v, inexact) ==
  [LoadX(f, v) EXCEPT !.st = (@ \ {"INEX1"}) \cup Given(inexact, "INEX1")]

\* fload_r swaps: the source register gets what fp_tmp held.
fload_r(f, src) == [f EXCEPT !.tmp = f.FP[src], !.FP[src] = f.tmp]

\* The unit and MPFR's flags after the operand is there.
Fetched(f) ==
  {<<LoadX(f, v), {}>> : v \in Operand("I") \cup Operand("S") \cup Operand("D") \cup Operand("X")}
    \cup {<<LoadX(f, v), {"inexact"}>> : v \in {w \in Operand("I") : Is(w, "num")}}
    \cup {<<LoadP(f, v, x), Given(x, "inexact")>> : v \in {w \in Operand("X") : Is(w, "num")}, x \in BOOLEAN}
    \cup {<<fload_r(f, src), {}>> : src \in Regs}

-----------------------------------------------------------------------------
(* The operations.                                                         *)

FopOpcodes ==
  {0, 1, 2, 3, 4, 6, 8, 9, 10} \cup 12..18 \cup {20, 21, 22, 24, 25, 26}
    \cup 28..40 \cup 48..56 \cup {58, 64, 65, 68, 69, 88, 90, 92, 94, 96, 98, 99, 100}
    \cup {102, 103, 104, 108}

JitOpcodes ==
  {0, 1, 2, 3, 4, 6, 8, 9, 10, 12, 13, 14, 15, 16, 17, 18, 20, 21, 22, 24, 25, 26}
    \cup 28..40 \cup 48..56 \cup {58, 64, 65, 68, 69, 88, 90, 92, 94}
    \cup {96, 98, 99, 100, 102, 103, 104, 108}

\* What the functions of one group do alike; "FLINE" has no function.
Group(table, opc) ==
  CASE opc \notin table -> "FLINE"
    [] opc \in {0, 64, 68} -> "move"
    [] opc \in {1, 3} -> "int"
    [] opc \in {24, 88, 92} -> "abs"
    [] opc \in {26, 90, 94} -> "neg"
    [] opc = 30 -> "getexp"
    [] opc = 31 -> "getman"
    [] opc = 38 -> "scale"
    [] opc \in 48..55 -> "sincos"
    [] opc = 56 -> "cmp"
    [] opc = 58 -> "tst"
    [] opc \in 32..40 \cup 96..108 -> "dyadic"
    [] OTHER -> "monadic"

\* fint ... fcos: test_NAN1's OPERR is overwritten by testex in every one.
Monadic(f, g) ==
  LET v == f.tmp
  IN  IF Is(v, "nan") THEN {<<v, {}>>}
      ELSE CASE g = "abs" -> {<<[v EXCEPT !.neg = FALSE], {}>>}
             [] g = "neg" -> {<<[v EXCEPT !.neg = ~@], {}>>}
             [] g = "int" -> {<<v, {}>>} \cup
                  IF Is(v, "num")
                  THEN {<<Val(c, v.neg, v.pay), {"inexact"}>> : c \in {"zero", "num"}} ELSE {}
             [] OTHER -> Results(v.pay)

\* fgetexp, fgetman.
Parts(f, g) ==
  LET v == f.tmp
  IN  CASE Is(v, "nan") -> {<<v, {}>>}
        [] Is(v, "inf") -> {<<NanOf(QNAN_DEFAULT), {"nan"}>>}
        [] Is(v, "zero") -> {<<v, {}>>}
        [] g = "getexp" -> {<<Val("zero", FALSE, v.pay), {}>>}
                             \cup {<<Val("num", b, v.pay), {}>> : b \in BOOLEAN}
        [] OTHER -> {<<v, {}>>}

\* fdiv ... fsub: test_NAN2 takes the destination's NaN if the source is none.
Dyadic(f, dst, g) ==
  CASE Is(f.tmp, "nan") -> {<<f.tmp, {}>>}
    [] Is(f.FP[dst], "nan") -> {<<NanOf(f.FP[dst].pay), {}>>}
    [] g = "scale" /\ Is(f.tmp, "inf") -> {<<NanOf(QNAN_DEFAULT), {}>>}
    [] g = "scale" -> {<<Val(f.FP[dst].class, f.FP[dst].neg, f.tmp.pay), x>> : x \in {{}, {"inexact"}}}
    [] OTHER -> Results(f.tmp.pay)

Orders == {"less", "equal", "greater", "unordered"}

\* How the destination compares with fp_tmp, as far as the classes tell.
Compared(d, t) ==
  LET side(v) == IF Is(v, "zero") THEN 0
                 ELSE (IF v.neg THEN -1 ELSE 1) * (IF Is(v, "inf") THEN 2 ELSE 1)
  IN  IF Is(d, "nan") \/ Is(t, "nan") THEN {"unordered"}
      ELSE IF side(d) < side(t) THEN {"less"}
      ELSE IF side(d) > side(t) THEN {"greater"}
      ELSE IF Is(d, "num") THEN {"less", "equal", "greater"} ELSE {"equal"}

\* Defect: N is not taken from the destination's sign for equal infinities.
Mutfcmp(f, dst, o) ==
  IF o = "unordered" THEN [f EXCEPT !.cc = @ \cup {"NAN"}]
  ELSE [f EXCEPT !.cc = (@ \ {"Z", "N"}) \cup Given(o = "equal", "Z")
                          \cup Given(f.FP[dst].neg /\ ~Is(f.FP[dst], "zero"), "N")]

\* fcmp: NAN is set by a NaN and cleared by no comparison.
fcmp(f, dst, o) ==
  LET d == f.FP[dst]
      alike == Is(d, f.tmp.class) /\ d.class \in {"zero", "inf"}
  IN  IF o = "unordered" THEN [f EXCEPT !.cc = @ \cup {"NAN"}]
      ELSE [f EXCEPT !.cc = (@ \ {"Z", "N"}) \cup Given(o = "equal", "Z")
                              \cup Given(IF alike THEN d.neg ELSE o = "less", "N")]

\* ftst: the sign bit of a NaN is whatever MPFR keeps there.
ftst(f, sign) ==
  [f EXCEPT !.cc = Given(Is(f.tmp, "nan"), "NAN") \cup Given(Is(f.tmp, "inf"), "I")
                     \cup Given(Is(f.tmp, "zero"), "Z")
                     \cup Given(IF Is(f.tmp, "nan") THEN sign ELSE f.tmp.neg, "N")]

\* The sixteen predicates.
test_Fcc(cc, v) ==
  LET NAN == "NAN" \in cc  Z == "Z" \in cc  N == "N" \in cc
  IN  CASE v = 0 -> FALSE
        [] v = 15 -> TRUE
        [] v = 1 -> Z
        [] v = 14 -> ~Z
        [] v = 2 -> ~(NAN \/ Z \/ N)
        [] v = 13 -> NAN \/ Z \/ N
        [] v = 3 -> Z \/ ~(NAN \/ N)
        [] v = 12 -> NAN \/ (N /\ ~Z)
        [] v = 4 -> N /\ ~(NAN \/ Z)
        [] v \in {10, 11} -> NAN \/ (Z /\ ~N)
        [] v = 5 -> Z \/ (N /\ ~NAN)
        [] v = 6 -> ~(NAN \/ Z)
        [] v = 9 -> NAN \/ Z
        [] v = 7 -> ~NAN
        [] v = 8 -> NAN
        [] OTHER -> FALSE

-----------------------------------------------------------------------------
(* Instructions. Mine(f) is what becomes of an instruction's own changes   *)
(* to the unit: the compiled code has the unit itself, the interpreter's   *)
(* fop its copy.                                                           *)

Mine(f) == IF engine = "jit" THEN f ELSE fpu

Prologue(f) == [f EXCEPT !.iar = "last"]

\* What is kept of an instruction that is done: "tested" if it ended in testex
\* on the unit its handler will read (the interpreter's FMOVECR does not, its
\* copy is gone), "status" if it wrote FPSR or reset the unit, "back" if it
\* loaded what was saved.
Ins(op) == [op |-> op, dst |-> 0, cos |-> 0, number |-> FALSE]

Begin ==
  /\ phase = "next"
  /\ n < MaxIns
  /\ n' = n + 1

\* The last instruction is done: f is the unit now. MPFR's flags are read by
\* testex only, and each instruction that ends in it clears them first: what
\* is left in them is not kept.
Done(f, exc, trace) ==
  /\ fpu' = f
  /\ mp' = {}
  /\ raised' = exc
  /\ must_trace' = trace
  /\ phase' = "next"
  /\ UNCHANGED engine

NoOrder == order' = "none"
Kept == UNCHANGED <<mem, saved>>

\* FMOVECR: the constant is stored as any result; only offset 0x0F and the
\* unlisted ones are zero.
fmovecr(class, exact) ==
  /\ Begin
  /\ LET f == [Prologue(fpu) EXCEPT !.tmp = Val(class, FALSE, @.pay)]
     IN  \E dst \in Regs, r \in Normalized(f.tmp) :
           LET s == StoreFpr(f, IF exact THEN {} ELSE {"inexact"}, dst, r)
           IN  /\ Done(Mine(s), First(s), FALSE)
               /\ order' = IF engine = "jit" THEN "none" ELSE order
               /\ ins' = Ins(IF engine = "jit" THEN "tested" ELSE "other")
  /\ Kept

\* Constants of the ROM: offsets and whether the value is a number.
FmovecrOffsets == {0} \cup 11..14 \cup 48..63
JitFmovecrOffsets == {0, 11, 12, 13, 14} \cup 48..63

Fmovecr ==
  LET rom == IF engine = "jit" THEN JitFmovecrOffsets ELSE FmovecrOffsets
  IN  \/ /\ Opcodes \cap rom # {}
         /\ \E exact \in BOOLEAN : fmovecr("num", exact)
      \/ Opcodes \ rom # {} /\ fmovecr("zero", TRUE)

\* fop's first part: the prologue clears the flags and the operand is fetched.
\* An opcode without operation raises FLINE with the operand already there.
Fetch(table, opc, u) ==
  LET g == Group(table, opc)
  IN  /\ ins' \in {[op |-> g, dst |-> d, cos |-> c,
                      number |-> g = "move" /\ Is(u[1].tmp, "num")] :
                     d \in Regs, c \in IF g = "sincos" THEN {opc % 8} \cap Regs ELSE {0}}
      /\ IF g = "FLINE" THEN Done(Mine(u[1]), "FLINE", FALSE)
         ELSE /\ fpu' = Mine(u[1])
              /\ mp' = u[2]
              /\ raised' = "none" /\ must_trace' = FALSE
              /\ phase' = IF g = "move" THEN "store" ELSE "operate"
              /\ UNCHANGED engine
      /\ UNCHANGED order

LoadFP ==
  /\ engine = "interpreter" /\ Begin
  /\ \E opc \in Opcodes, u \in Fetched(Prologue(fpu)) : Fetch(FopOpcodes, opc, u)
  /\ Kept

JitLoadFP ==
  /\ engine = "jit" /\ Begin
  /\ \E opc \in Opcodes, u \in Fetched(Prologue(fpu)) : Fetch(JitOpcodes, opc, u)
  /\ Kept

\* The operand's page is not there: nothing is loaded.
FetchFault ==
  /\ Begin
  /\ Done(Mine(Prologue(fpu)), "ACCESS", FALSE)
  /\ ins' = Ins("other")
  /\ UNCHANGED order /\ Kept

Outcomes(f) ==
  CASE ins.op \in {"getexp", "getman"} -> Parts(f, ins.op)
    [] ins.op \in {"dyadic", "scale"} -> Dyadic(f, ins.dst, ins.op)
    [] OTHER -> Monadic(f, ins.op)

\* fint ... fdsub up to store_fpr.
Operate ==
  /\ phase = "operate" /\ ins.op \notin {"cmp", "tst", "sincos"}
  /\ \E o \in Outcomes(fpu) : fpu' = [fpu EXCEPT !.tmp = o[1]] /\ mp' = mp \cup o[2]
  /\ phase' = "store"
  /\ UNCHANGED <<engine, ins, raised, must_trace, order, n>> /\ Kept

\* fsincos: the cosine goes to its register as it is, with the payload there.
\* Neither is ever infinite.
SinCos ==
  /\ phase = "operate" /\ ins.op = "sincos"
  /\ \E s \in Monadic(fpu, "sin"), c \in Results(fpu.FP[ins.cos].pay) :
       /\ ~Is(s[1], "inf") /\ ~Is(c[1], "inf")
       /\ s[2] = {"nan"} <=> c[2] = {"nan"}
       /\ fpu' = IF Is(fpu.tmp, "nan") \/ ins.cos = ins.dst THEN [fpu EXCEPT !.tmp = s[1]]
                 ELSE [fpu EXCEPT !.tmp = s[1], !.FP[ins.cos] = c[1]]
       /\ mp' = mp \cup s[2] \cup IF ins.cos = ins.dst THEN {} ELSE c[2]
  /\ phase' = "store"
  /\ UNCHANGED <<engine, ins, raised, must_trace, order, n>> /\ Kept

Store ==
  /\ phase = "store"
  /\ \E r \in Normalized(fpu.tmp) :
       LET s == StoreFpr(fpu, mp, ins.dst, r) IN Done(s, First(s), FALSE)
  /\ NoOrder /\ ins' = Ins("tested")
  /\ UNCHANGED n /\ Kept

Fcmp ==
  /\ phase = "operate" /\ ins.op = "cmp"
  /\ \E o \in Compared(fpu.FP[ins.dst], fpu.tmp) :
       LET f == testex(fcmp(fpu, ins.dst, o), mp)
       IN  Done(f, First(f), FALSE) /\ order' = o
  /\ ins' = Ins("tested")
  /\ UNCHANGED n /\ Kept

Ftst ==
  /\ phase = "operate" /\ ins.op = "tst"
  /\ \E sign \in BOOLEAN :
       LET f == testex(ftst(fpu, sign), mp) IN Done(f, First(f), FALSE)
  /\ NoOrder /\ ins' = Ins("tested")
  /\ UNCHANGED n /\ Kept

-----------------------------------------------------------------------------
(* Stores of a register.                                                   *)

\* storeL, storeW, storeB: the exponent MPFR keeps for a zero, an infinity or
\* a NaN is below -1022 as that of a tiny number is.
Integral(v, narrow) ==
  LET low == Given(narrow, "under") \cup Given(~narrow, "erange")
  IN  IF Is(v, "num") THEN {<<v, x>> : x \in {{}, {"inexact"}, {"erange"}, low \cup {"inexact"}}}
      ELSE {<<v, low \cup Given(~Is(v, "zero"), "erange")>>}

\* storeX: a number is left scaled and positive in fp_tmp.
Scaled(v) == IF Is(v, "num") THEN [v EXCEPT !.neg = FALSE] ELSE v

\* storeS, storeD, storeX, store_fpP (a k above 18 is a range error).
Formatted(v) ==
  Normalized(v) \cup {<<Scaled(r[1]), r[2]>> : r \in Normalized(v)}
    \cup {<<r[1], r[2] \cup {"erange"}>> : r \in Normalized(v)}

\* fpu_store: both engines run it on the unit; only the prologue is lost.
FpuStore(u) ==
  /\ Begin
  /\ \E i \in Regs :
       LET f == [u EXCEPT !.tmp = u.FP[i]]
       IN  /\ \E r \in Integral(f.tmp, TRUE) \cup Integral(f.tmp, FALSE) \cup Formatted(f.tmp), ok \in BOOLEAN :
                LET g == [f EXCEPT !.tmp = r[1]]  t == testex(g, r[2])
                IN  IF ok THEN Done(t, First(t), FALSE)
                    ELSE Done(g, "ACCESS", FALSE)
           /\ ins' = Ins(IF raised' = "ACCESS" THEN "other" ELSE "tested")
  /\ UNCHANGED order /\ Kept

fpu_store == engine = "interpreter" /\ FpuStore(fpu)
jit_fpu_store == engine = "jit" /\ FpuStore(Prologue(fpu))

-----------------------------------------------------------------------------
(* FMOVEM.                                                                 *)

\* The registers of a list: bit i is register i before a predecrement, and
\* register Top - i otherwise.
Backward(list) == list
Forward(list) == {Top - b : b \in list}

\* Where register i of the set S lies, from the lowest address.
SlotOf(base, S, i) == base + Cardinality({j \in S : j < i})

\* Defect: the registers of a predecrement lie in the reverse order.
MutSaved(f, base, S) ==
  [x \in 0..(Slots - 1) |->
     IF \E i \in S : base + Cardinality({j \in S : j > i}) = x
     THEN f.FP[CHOOSE i \in S : base + Cardinality({j \in S : j > i}) = x] ELSE mem[x]]

\* The save area after the registers of S are stored from base on.
Saved(f, base, S) ==
  [x \in 0..(Slots - 1) |->
     IF \E i \in S : SlotOf(base, S, i) = x
     THEN f.FP[CHOOSE i \in S : SlotOf(base, S, i) = x] ELSE mem[x]]

\* fmovem_to_reg: each value goes through fp_tmp and is swapped in, so that it
\* finds there what the register restored before it held.
Restored(f, vals, S) ==
  LET Below(i) == {j \in S : j < i}
      Found(i) == IF Below(i) = {} THEN f ELSE [f EXCEPT !.tmp = f.FP[Max(Below(i))]]
  IN  [f EXCEPT !.FP = [i \in Regs |-> IF i \in S THEN LoadX(Found(i), vals[i]).tmp ELSE @[i]],
                !.tmp = IF S = {} THEN @ ELSE f.FP[Max(S)]]

\* FMOVEM to memory: the interpreter in every mode, the compiled code with a
\* predecrement only. What it leaves in fp_tmp is the copy's in the
\* interpreter; the first register of the list is stored last.
MovemOut(S, base) ==
  /\ base + Cardinality(S) <= Slots
  /\ mem' = Saved(fpu, base, S)
  /\ saved' = [FP |-> fpu.FP, regs |-> S, base |-> base]
  /\ \E i \in S : Done(Mine([Prologue(fpu) EXCEPT !.tmp = Scaled(fpu.FP[i])]), "none", TRUE)
  /\ ins' = Ins("other")
  /\ UNCHANGED order

fmovem_from_reg_rev ==
  /\ Begin
  /\ \E list \in SUBSET Regs, base \in 0..(Slots - 1) :
       /\ Backward(list) # {}
       /\ MovemOut(Backward(list), base)

fmovem_from_reg ==
  /\ engine = "interpreter" /\ Begin
  /\ \E list \in SUBSET Regs, base \in 0..(Slots - 1) :
       /\ Forward(list) # {}
       /\ MovemOut(Forward(list), base)

\* FMOVEM from memory. The compiled code loads in the control modes, also
\* where the program asks for a store. With (An)+ it takes the number of the
\* register for the address: what lies there is not the save area.
MovemIn(S, base, own) ==
  /\ base + Cardinality(S) <= Slots
  /\ own \/ engine = "jit"
  /\ \E other \in {Val("zero", FALSE, {}), Val("num", TRUE, {})} :
       LET vals == [i \in S |-> IF own THEN mem[SlotOf(base, S, i)] ELSE other]
       IN  Done(Mine(Restored(Prologue(fpu), vals, S)), "none", TRUE)
  /\ ins' = Ins(IF own /\ engine = "jit" /\ saved.regs = S /\ saved.base = base
                THEN "back" ELSE "other")
  /\ UNCHANGED <<order, mem, saved>>

fmovem_to_reg ==
  /\ Begin
  /\ \E list \in SUBSET Regs, base \in 0..(Slots - 1), own \in BOOLEAN :
       MovemIn(Forward(list), base, own)

-----------------------------------------------------------------------------
(* Control registers, FSAVE and FRESTORE, conditions.                      *)

\* set_fpcr, set_fpsr and set_fpiar, in this order, as far as the reads go.
Control(f, which, en, w) ==
  LET f1 == IF "FPCR" \in which THEN [f EXCEPT !.en = en] ELSE f
      f2 == IF "FPSR" \in which THEN [f1 EXCEPT !.cc = w.cc, !.st = w.st, !.acc = w.acc] ELSE f1
  IN  IF "FPIAR" \in which THEN [f2 EXCEPT !.iar = "other"] ELSE f2

ToControl ==
  \E which \in SUBSET {"FPCR", "FPSR", "FPIAR"}, en \in Enables, w \in StatusWrites :
    /\ LET f == Control(Prologue(fpu), which, en, w)
       IN  Done(Mine(f), "none", TRUE)
    /\ order' = IF "FPSR" \in which /\ engine = "jit" THEN "none" ELSE order
    /\ ins' = Ins(IF "FPSR" \in which THEN "status" ELSE "other")

fmove_to_fpcc == engine = "interpreter" /\ Begin /\ ToControl /\ Kept
jit_fmove_to_fpcc == engine = "jit" /\ Begin /\ ToControl /\ Kept

\* A later read faults: the registers before it are written already.
ToControlFault ==
  /\ Begin
  /\ \E which \in {{}, {"FPCR"}, {"FPCR", "FPSR"}, {"FPSR"}}, en \in Enables, w \in StatusWrites :
       /\ Done(Mine(Control(Prologue(fpu), which, en, w)), "ACCESS", FALSE)
       /\ order' = IF "FPSR" \in which /\ engine = "jit" THEN "none" ELSE order
       /\ ins' = Ins(IF "FPSR" \in which THEN "status" ELSE "other")
  /\ Kept

FromControl ==
  /\ Done(Mine(Prologue(fpu)), "none", TRUE)
  /\ ins' = Ins("other")
  /\ UNCHANGED order

fmove_from_fpcc == engine = "interpreter" /\ Begin /\ FromControl /\ Kept
jit_fmove_from_fpcc == engine = "jit" /\ Begin /\ FromControl /\ Kept

\* PRIV_CHECK first. FSAVE writes an idle frame whatever the unit holds.
fsave ==
  /\ Begin
  /\ \E exc \in {"none", "PRIV", "ACCESS"} : Done(fpu, exc, exc = "none")
  /\ ins' = Ins("other")
  /\ UNCHANGED order /\ Kept

\* What lies at the address: a null frame, one of the three sizes, another
\* size, another version, or nothing the program may read.
Frames == {"null", "frame", "size", "version", "PRIV", "ACCESS"}

\* A null frame resets. The trace is asked for before the size of the frame
\* is known to be good.
frestore ==
  /\ Begin
  /\ \E frame \in Frames :
       /\ CASE frame = "null" -> Done(Reset, "none", FALSE)
            [] frame = "frame" -> Done(fpu, "none", TRUE)
            [] frame = "size" -> Done(fpu, "FORMAT", TRUE)
            [] frame = "version" -> Done(fpu, "FORMAT", FALSE)
            [] OTHER -> Done(fpu, frame, FALSE)
       /\ order' = IF frame = "null" THEN "none" ELSE order
       /\ ins' = Ins(IF frame = "null" THEN "status" ELSE "other")
  /\ Kept

\* test_bsun: not accrued.
test_bsun(f) == [f EXCEPT !.st = @ \cup Given("NAN" \in f.cc, "BSUN")]

\* A signalling predicate tests for BSUN; only FTRAPcc's way is kept.
Decided(signals, traps, trace) ==
  LET f == [(IF signals THEN test_bsun(fpu) ELSE fpu) EXCEPT !.iar = "other"]
  IN  IF signals /\ "NAN" \in fpu.cc /\ "BSUN" \in f.en THEN Done(f, "BSUN", FALSE)
      ELSE IF traps THEN Done(f, "TRAPX", FALSE)
      ELSE Done(f, "none", trace)

\* FScc, FDBcc, FBcc and FTRAPcc, by predicate. FDBcc traces always, FBcc of
\* the interpreter when it branches.
Condition ==
  /\ Begin
  /\ \E x \in {<<v >= 16, trap /\ test_Fcc(fpu.cc, v % 16)>> : v \in 0..31, trap \in BOOLEAN},
        trace \in BOOLEAN : Decided(x[1], x[2], trace)
  /\ ins' = Ins("other")
  /\ UNCHANGED order /\ Kept

FpCond == engine = "interpreter" /\ Condition
JitFpCond == engine = "jit" /\ Condition

\* The debugger's dump of the registers leaves the last one in fp_tmp.
dumpReg ==
  /\ phase = "next" /\ engine = "interpreter"
  /\ fpu' = [fpu EXCEPT !.tmp = Scaled(fpu.FP[Top])]
  /\ UNCHANGED <<engine, mp, phase, ins, raised, must_trace, order, n>> /\ Kept

-----------------------------------------------------------------------------

Init ==
  /\ engine \in {"interpreter", "jit"}
  /\ fpu = Blank /\ mp = {}
  /\ phase = "next" /\ ins = Ins("none")
  /\ raised = "none" /\ must_trace = FALSE
  /\ mem = [x \in 0..(Slots - 1) |-> Val("zero", FALSE, {})]
  /\ order = "none" /\ n = 0
  /\ saved = [FP |-> Blank.FP, regs |-> {}, base |-> 0]

\* The table of the interpreter, the table of the compiler, and what both have.
InterpreterNext ==
  \/ LoadFP \/ fpu_store \/ fmovem_from_reg \/ fmove_to_fpcc \/ fmove_from_fpcc
  \/ FpCond \/ dumpReg

JitNext ==
  \/ JitLoadFP \/ jit_fpu_store \/ jit_fmove_to_fpcc \/ jit_fmove_from_fpcc \/ JitFpCond

Next ==
  \/ InterpreterNext \/ JitNext
  \/ Fmovecr \/ FetchFault \/ Operate \/ SinCos \/ Store \/ Fcmp \/ Ftst
  \/ fmovem_from_reg_rev \/ fmovem_to_reg \/ ToControlFault \/ fsave \/ frestore

Spec == Init /\ [][Next]_vars
-----------------------------------------------------------------------------
(* Properties.                                                             *)

Priority(e) == CHOOSE k \in 1..Len(Tested) : Tested[k] = e

\* The handler of a floating-point exception finds its cause: an operation
\* raises the first exception of FPSR that FPCR enables, none when nothing
\* enabled is set, and the compiled code's FPIAR names it (testex, test_bsun).
\* What is set may be older than the operation: S_NAN and INEX1 stay until
\* FPSR is written.
ExceptionsExact ==
  /\ phase = "next" /\ ins.op = "tested" =>
       LET live == fpu.st \cap fpu.en \cap Range(Tested)
       IN  /\ raised = "none" <=> live = {}
           /\ raised # "none" =>
                /\ raised \in live
                /\ \A e \in live : Priority(raised) <= Priority(e)
           /\ engine = "jit" => fpu.iar = "last"
  /\ raised = "BSUN" => "BSUN" \in fpu.st \cap fpu.en

\* Nothing the accrued byte has recorded is lost before FPSR is written or the
\* unit reset, across operations, faults and exceptions, and what an operation
\* leaves in the exception byte is in it (testex).
AccruedKeeps ==
  [][/\ ins'.op # "status" => fpu.acc \subseteq fpu'.acc
     /\ phase' = "next" /\ ins'.op = "tested" => Accrued(fpu'.st) \subseteq fpu'.acc]_vars

\* Predicate v is the set of orders it accepts: bit 3 unordered, bit 2 less,
\* bit 1 greater, bit 0 equal.
Accepts(v, o) ==
  (v \div (CASE o = "unordered" -> 8 [] o = "less" -> 4 [] o = "greater" -> 2 [] OTHER -> 1)) % 2 = 1

\* After FCMP the predicates tell how its operands compared, however many
\* instructions that leave the condition codes alone come between: zeros of
\* either sign are equal, infinities compare by sign. The exceptions are the
\* ones the code makes: UGT and UGE (10, 11) of test_Fcc, and a NaN an earlier
\* instruction left in CC_NAN, which FCMP does not clear.
CompareObeyed ==
  /\ order = "unordered" => "NAN" \in fpu.cc
  /\ order \in Orders \ {"unordered"} /\ "NAN" \notin fpu.cc =>
       \A v \in (0..15) \ {10, 11} : test_Fcc(fpu.cc, v) <=> Accepts(v, order)

\* What FMOVEM stores with a predecrement and the compiled code's FMOVEM loads
\* from there again is what the registers held: class, sign and payload, each
\* in its own register although the two lists name the registers in opposite
\* orders. Only a NaN without payload, as init leaves it, comes back as an
\* infinity.
RestoredExact ==
  phase = "next" /\ ins.op = "back" =>
    \A i \in saved.regs :
      LET a == saved.FP[i]  b == fpu.FP[i]
      IN  IF Is(a, "nan") THEN IF a.pay = {} THEN Is(b, "inf") ELSE Is(b, "nan") /\ b.pay = a.pay
          ELSE b.class = a.class /\ b.neg = a.neg

\* test/fpu/fmove.cc: FMOVE of a number puts a number into the register. The
\* interpreter loads it into the copy.
FmoveArrives ==
  [][phase = "store" /\ ins.op = "move" /\ ins.number /\ fpu'.st \cap {"OVFL", "UNFL"} = {} =>
       Is(fpu'.FP[ins.dst], "num")]_vars
=============================================================================
