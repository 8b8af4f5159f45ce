------------------------------- MODULE AluRef -------------------------------
(***************************************************************************)
(* The arithmetic of module Alu run beside what it should compute.         *)
(*                                                                         *)
(* A task is one of:                                                       *)
(*   shift     one shift or rotation by k against k steps of one bit       *)
(*   chain     ADDX, SUBX or NEGX over the limbs of a long number          *)
(*   decimal   ABCD, SBCD or NBCD over the bytes of a long decimal         *)
(*   divide    a product divided by a factor, or any dividend              *)
(*   compare   CMP followed by every condition; CMP2                       *)
(*   field     bit and bit-field operations against an array of bits       *)
(*                                                                         *)
(* code is what the functions of the emulator have produced so far, truth  *)
(* what a reader of the instruction set expects.                           *)
(***************************************************************************)
EXTENDS Alu

CONSTANTS
  Limbs,          \* limbs of a chain of bytes; longer operands have one
  DecimalBytes,   \* the BCD bytes a decimal chain is made of
  Sample          \* operands of Long bits for the products and quotients

ASSUME RefAssumption ==
  Limbs \in Nat \ {0} /\ DecimalBytes \subseteq 0..255 /\ Sample \subseteq Values(Long)

VARIABLES task, code, truth
vars == <<task, code, truth>>

Clear == [X |-> FALSE, N |-> FALSE, Z |-> FALSE, V |-> FALSE, C |-> FALSE]

-----------------------------------------------------------------------------
(* Shifts and rotations.                                                   *)

Shifts == {"asl", "asr", "lsl", "lsr"}
Rotations == {"rol", "ror", "roxl", "roxr"}

\* The instructions of the group 0xE000: what an opcode with the bit 8 clear, or
\* set, does to its operand. The count is that of the opcode, 1 to 8, or that of a
\* register modulo 2 * Long.
Rightward(op, n, v, c, f) ==
  CASE op = "asr"  -> Asr(n, v, c, f)  [] op = "lsr"  -> Lsr(n, v, c, f)
    [] op = "roxr" -> Roxr(n, v, c, f) [] op = "ror"  -> Ror(n, v, c, f)
Leftward(op, n, v, c, f) ==
  CASE op = "asl"  -> Asl(n, v, c, f)  [] op = "lsl"  -> Lsl(n, v, c, f)
    [] op = "roxl" -> Roxl(n, v, c, f) [] op = "rol"  -> Rol(n, v, c, f)

Lefts == {"asl", "lsl", "rol", "roxl"}
ByCount(op, n, v, c, f) ==
  IF op \in Lefts THEN Leftward(op, n, v, c, f) ELSE Rightward(op, n, v, c, f)

\* One step of one bit: the bit that leaves, the bit that enters.
OneBit(op, n, s) ==
  LET out == IF op \in Lefts THEN BitOf(s.v, n - 1) ELSE BitOf(s.v, 0)
      in == CASE op = "asr" -> BitOf(s.v, n - 1)
              [] op \in {"rol", "ror"} -> out
              [] op \in {"roxl", "roxr"} -> AsBit(s.f.X)
              [] OTHER -> 0
      w == IF op \in Lefts THEN ((2 * s.v) % 2 ^ n) + in
           ELSE s.v \div 2 + in * 2 ^ (n - 1)
  IN  [v |-> w,
       f |-> [X |-> IF op \in {"rol", "ror"} THEN s.f.X ELSE out = 1,
              C |-> out = 1, N |-> Msb(n, w), Z |-> w = 0,
              V |-> op = "asl" /\ (s.f.V \/ Msb(n, w) # Msb(n, s.v))]]

InitShift ==
  \E op \in Shifts \cup Rotations, n \in Width : \E v \in Values(n), x \in BOOLEAN :
    LET f == [Clear EXCEPT !.X = x] IN
    /\ task = [kind |-> "shift", op |-> op, n |-> n, v |-> v, f |-> f]
    /\ truth = [k |-> 0, v |-> v, f |-> f]
    /\ code \in ByCount(op, n, v, 0, f)

\* The count of a register is taken modulo 2 * Long, that of an opcode is less.
ShiftFurther ==
  /\ task.kind = "shift" /\ truth.k < 2 * Long - 1
  /\ LET one == OneBit(task.op, task.n, truth) IN
     truth' = [k |-> truth.k + 1, v |-> one.v, f |-> one.f]
  /\ code' \in ByCount(task.op, task.n, task.v, truth.k + 1, task.f)
  /\ UNCHANGED task

-----------------------------------------------------------------------------
(* Numbers of several limbs, binary and decimal, from the lowest one up.   *)

Radix == IF task.kind = "chain" THEN 2 ^ task.n ELSE 100
Longest == IF task.kind = "chain" /\ task.n = Byte THEN Limbs
           ELSE IF task.kind = "chain" THEN 1 ELSE 2

InitChain ==
  /\ \E x \in BOOLEAN :
       /\ \/ \E op \in {"addx", "subx", "negx"}, n \in {Byte, Word} :
               task = [kind |-> "chain", op |-> op, n |-> n, x |-> x]
          \/ \E op \in {"abcd", "sbcd", "nbcd"} :
               task = [kind |-> "decimal", op |-> op, x |-> x]
       /\ code = [v |-> 0, f |-> [Clear EXCEPT !.X = x, !.Z = TRUE]]
  /\ truth = [k |-> 0, unit |-> 1, a |-> 0, b |-> 0, r |-> 0, lost |-> 0, turned |-> FALSE]

\* lost counts the carries that b + X loses when b is all ones; turned tells that
\* b + X made the largest positive b of the last limb negative.
Limb ==
  /\ task.kind \in {"chain", "decimal"} /\ truth.k < Longest
  /\ \E a, b \in IF task.kind = "chain" THEN Values(task.n) ELSE DecimalBytes :
       /\ task.op \in {"negx", "nbcd"} => a = 0
       /\ code' \in CASE task.op = "addx" -> Addx(task.n, a, b, code.f)
                      [] task.op = "subx" -> Subx(task.n, a, b, code.f)
                      [] task.op = "negx" -> Negx(task.n, b, code.f)
                      [] task.op = "abcd" -> {Abcd(a, b, code.f)}
                      [] task.op = "sbcd" -> {Sbcd(a, b, code.f)}
                      [] task.op = "nbcd" -> {Nbcd(b, code.f)}
       /\ LET Num(v) == IF task.kind = "chain" THEN v ELSE BCD2BIN(v)
              drops == task.kind = "chain" /\ code.f.X /\ b = 2 ^ task.n - 1
          IN  truth' = [k |-> truth.k + 1, unit |-> Radix * truth.unit,
                        a |-> truth.a + Num(a) * truth.unit,
                        b |-> truth.b + Num(b) * truth.unit,
                        r |-> truth.r + Num(code'.v) * truth.unit,
                        lost |-> truth.lost + IF drops THEN Radix * truth.unit ELSE 0,
                        turned |-> task.kind = "chain" /\ code.f.X
                                     /\ b = 2 ^ (task.n - 1) - 1]
  /\ UNCHANGED task

-----------------------------------------------------------------------------
(* Products, quotients, comparisons.                                       *)

\* The pairs of widths (divisor, dividend) of the divisions; the products of
\* the same pairs.
Pairs == {<<Long, 2 * Long>>, <<Long, Long>>, <<Word, Long>>}

InitDivide ==
  /\ \E p \in Pairs, signed \in BOOLEAN :
       \E b \in IF p[1] = Word THEN Values(Word) ELSE Sample :
         \/ \E a \in Sample :   \* first the product of a and b
              /\ a < 2 ^ p[1]
              /\ task = [kind |-> "multiply", n |-> p[1], m |-> p[2],
                         signed |-> signed, a |-> a, b |-> b]
         \/ \E hi, lo \in Sample :
              /\ p[2] = Long => hi = 0
              /\ task = [kind |-> "divide", n |-> p[1], m |-> p[2], signed |-> signed,
                         a |-> hi * 2 ^ Long + lo, b |-> b]
  /\ code = [v |-> -1, f |-> Clear] /\ truth = "none"

Multiply ==
  /\ task.kind = "multiply" /\ truth = "none"
  /\ code' \in IF task.signed THEN Muls(task.n, task.m, task.a, task.b, code.f)
               ELSE Mulu(task.n, task.m, task.a, task.b, code.f)
  /\ truth' = "product"
  /\ UNCHANGED task

\* The dividend is the given one, or the product; the division that C++ leaves
\* undefined is not run.
Dividend == IF task.kind = "divide" THEN task.a ELSE code.v

Divide ==
  /\ \/ task.kind = "divide" /\ truth = "none"
     \/ task.kind = "multiply" /\ truth = "product" /\ ~code.f.V
  /\ Divides(task.b) /\ ~(task.signed /\ DivsUndefined(task.n, task.m, Dividend, task.b))
  /\ code' \in IF task.signed THEN Divs(task.n, task.m, Dividend, task.b, code.f)
               ELSE Divu(task.n, task.m, Dividend, task.b, code.f)
  /\ truth' = "quotient"
  /\ UNCHANGED task

InitCompare ==
  /\ \E n \in {Byte, Word} : \E a, b \in Values(n), x \in BOOLEAN :
       task = [kind |-> "compare", n |-> n, a |-> a, b |-> b, x |-> x]
  /\ code = [v |-> 0, f |-> [Clear EXCEPT !.X = task.x]] /\ truth = "none"

CompareThem ==
  /\ task.kind = "compare" /\ truth = "none"
  /\ code' \in Compare(task.n, task.a, task.b, code.f)
  /\ truth' = "compared"
  /\ UNCHANGED task

-----------------------------------------------------------------------------
(* Bits. In memory form code is a function from addresses to bytes, in     *)
(* register form the number of one register; truth is the bits themselves, *)
(* from the top.                                                           *)

Addresses == 0..4
Middle == 2             \* the address the instruction names
Bits(form) == IF form = "memory" THEN 0..(5 * Byte - 1) ELSE 0..(Long - 1)

\* The fields of a form: an offset from the named operand, and a width.
Fields(form) ==
  IF form = "memory"
  THEN {<<o, w>> \in (-(Middle * Byte)..(3 * Byte - 1)) \X (1..Long) : o + w <= 3 * Byte}
  ELSE (-Long..(Long - 1)) \X (1..Long)

\* The index of bit i of a field.
BitIndex(form, fd, i) ==
  IF form = "memory" THEN Middle * Byte + fd[1] + i ELSE (fd[1] + i) % Long

InitField ==
  /\ \E form \in {"memory", "register"} : task = [kind |-> "field", form |-> form]
  /\ code = IF task.form = "memory" THEN [a \in Addresses |-> 0] ELSE 0
  /\ truth = [i \in Bits(task.form) |-> 0]

\* The bits of a field become those of f, given from the top.
Overwrite(fd, New(_, _)) ==
  [j \in DOMAIN truth |->
     IF \E i \in 0..(fd[2] - 1) : BitIndex(task.form, fd, i) = j
     THEN LET i == CHOOSE i \in 0..(fd[2] - 1) : BitIndex(task.form, fd, i) = j
          IN  New(truth[j], i)
     ELSE truth[j]]

ChangeField ==
  /\ task.kind = "field"
  /\ \E fd \in Fields(task.form), op \in {"chg", "clr", "set"} :
       LET o == fd[1]  w == fd[2] IN
       /\ code' = IF task.form = "memory"
                  THEN CASE op = "chg" -> BFCHG_M(code, Middle, o, w)
                         [] op = "clr" -> BFCLR_M(code, Middle, o, w)
                         [] op = "set" -> BFSET_M(code, Middle, o, w)
                  ELSE CASE op = "chg" -> BFCHG_D(code, o, w)
                         [] op = "clr" -> BFCLR_D(code, o, w)
                         [] op = "set" -> BFSET_D(code, o, w)
       /\ truth' = Overwrite(fd, LAMBDA b, i : CASE op = "chg" -> 1 - b
                                                [] op = "clr" -> 0 [] op = "set" -> 1)
  /\ UNCHANGED task

\* A value with bits above the field is put into a register or a single byte
\* only.
InsertField ==
  /\ task.kind = "field"
  /\ \E fd \in Fields(task.form), v \in Sample :
       LET o == fd[1]  w == fd[2] IN
       /\ v < 2 ^ w \/ task.form = "register" \/ LastByte(o, w) = 0
       /\ code' = IF task.form = "memory" THEN BFINS_M(code, Middle, o, w, v)
                  ELSE BFINS_D(code, o, w, v)
       /\ truth' = Overwrite(fd, LAMBDA b, i : BitOf(v, w - 1 - i))
  /\ UNCHANGED task

\* BSET, BCLR and BCHG count from the bottom; a byte takes the number modulo
\* Byte, a register modulo Long.
ChangeBit ==
  /\ task.kind = "field"
  /\ \E b \in 0..(Long - 1), a \in Addresses, op \in {"chg", "clr", "set"} :
       LET n == IF task.form = "memory" THEN Byte ELSE Long
           old == IF task.form = "memory" THEN code[a] ELSE code
           new == CHOOSE r \in CASE op = "chg" -> Bchg(old, b % n, Clear)
                                 [] op = "clr" -> Bclr(old, b % n, Clear)
                                 [] op = "set" -> Bset(old, b % n, Clear) : TRUE
           j == IF task.form = "memory" THEN a * Byte + Byte - 1 - (b % Byte)
                ELSE Long - 1 - b
       IN  /\ new.f.Z = (truth[j] = 0)
           /\ code' = IF task.form = "memory" THEN [code EXCEPT ![a] = new.v] ELSE new.v
           /\ truth' = [truth EXCEPT ![j] = CASE op = "chg" -> 1 - @
                                              [] op = "clr" -> 0 [] op = "set" -> 1]
  /\ UNCHANGED task

\* AND, OR, EOR and NOT of the register.
MaskRegister ==
  /\ task.kind = "field" /\ task.form = "register"
  /\ \E m \in Sample, op \in {"and", "or", "xor", "not"} :
       /\ code' = CASE op = "and" -> And(Long, code, m) [] op = "or" -> Or(Long, code, m)
                    [] op = "xor" -> Xor(Long, code, m)
                    [] op = "not" -> (CHOOSE r \in Complement(Long, code, Clear) : TRUE).v
       /\ LET M(j) == BitOf(m, Long - 1 - j) IN
          truth' = [j \in DOMAIN truth |->
                      CASE op = "and" -> truth[j] * M(j)
                        [] op = "or" -> IF M(j) = 1 THEN 1 ELSE truth[j]
                        [] op = "xor" -> (truth[j] + M(j)) % 2
                        [] op = "not" -> 1 - truth[j]]
  /\ UNCHANGED task

-----------------------------------------------------------------------------
Init == InitShift \/ InitChain \/ InitDivide \/ InitCompare \/ InitField
Next == \/ ShiftFurther \/ Limb \/ Multiply \/ Divide \/ CompareThem
        \/ ChangeField \/ InsertField \/ ChangeBit \/ MaskRegister
Spec == Init /\ [][Next]_vars

-----------------------------------------------------------------------------
(* What is right.                                                          *)

\* A shift by k does what k shifts by one do, to the value and to every flag;
\* for ASL, V remembers any change of the sign on the way, except that shifting
\* all ones out altogether is not noticed. A shift by 0 changes no X.
ShiftsBySteps ==
  task.kind = "shift" /\ task.op \in Shifts =>
    /\ code.v = truth.v
    /\ code.f.X = truth.f.X
    /\ truth.k = 0 => ~code.f.C
    /\ truth.k > 0 =>
         \/ code.f = truth.f
         \/ /\ task.op = "asl" /\ Signed(task.n, task.v) = -1 /\ truth.k >= task.n
            /\ code.f = [truth.f EXCEPT !.V = FALSE] /\ truth.f.V

\* The counts that turn the whole operand (and X, for ROXL and ROXR) round.
WholeTurn == truth.k % (task.n + IF task.op \in {"roxl", "roxr"} THEN 1 ELSE 0) = 0

\* A rotation by k moves what k rotations by one move, whole turns included,
\* but for ROXR.L over a whole turn with X. Unless it is a whole turn, C is the
\* last bit that went round, and X that bit or what it was: ROL.L alone of the
\* plain rotations sets X.
RotatesBySteps ==
  task.kind = "shift" /\ task.op \in Rotations =>
    /\ code.v = truth.v \/ (task.op = "roxr" /\ task.n = Long /\ WholeTurn /\ task.f.X)
    /\ ~code.f.V
    /\ truth.k = 0 =>
         code.f.C = (task.op \in {"roxl", "roxr"} /\ task.f.X) /\ code.f.X = task.f.X
    /\ ~WholeTurn =>
         code.f = IF task.op = "rol" /\ task.n = Long
                  THEN [truth.f EXCEPT !.X = truth.f.C] ELSE truth.f

\* A shift or rotation by k does what k of them by one do: ShiftsBySteps and
\* RotatesBySteps, together.
BySteps == ShiftsBySteps /\ RotatesBySteps

\* A chain of ADDX, SUBX or NEGX computes the sum, difference or negative of the
\* long numbers, with the carry out of the last limb in C and X; only the
\* carries out of b + X are lost. If none is, V tells that the result does not
\* fit as a signed number, or the opposite where b + X changed the sign of b; Z
\* that all of it is 0, but for NEGX that its last limb is.
ChainExact ==
  task.kind = "chain" /\ truth.k > 0 =>
    LET carry == AsBit(code.f.C) * truth.unit
        x == AsBit(task.x)
        S(v) == IF 2 * v >= truth.unit THEN v - truth.unit ELSE v
        exact == IF task.op = "addx" THEN S(truth.a) + S(truth.b) + x
                 ELSE S(truth.a) - S(truth.b) - x
    IN  /\ code.f.X = code.f.C
        /\ IF task.op = "addx"
           THEN truth.r + carry + truth.lost = truth.a + truth.b + x
           ELSE truth.r - carry - truth.lost = truth.a - truth.b - x
        /\ truth.lost = 0 =>
             (code.f.V <=> (2 * exact < -truth.unit \/ 2 * exact >= truth.unit)
                             # truth.turned)
        /\ code.f.Z <=> IF task.op = "negx" THEN code.v = 0 ELSE truth.r = 0

\* A chain of ABCD, SBCD or NBCD computes the decimal sum, difference or
\* negative, with the carry in C and X, and Z that all of it is 0. UNPK and PACK
\* with opposite adjustments undo each other.
DecimalExact ==
  task.kind = "decimal" =>
    LET carry == AsBit(code.f.C) * truth.unit  x == AsBit(task.x) IN
    /\ truth.k > 0 =>
         /\ code.f.X = code.f.C
         /\ IF task.op = "abcd" THEN truth.r + carry = truth.a + truth.b + x
            ELSE truth.r - carry = truth.a - truth.b - x
         /\ code.f.Z <=> truth.r = 0
    /\ \A d \in {0, 48 * 257, 65535} : Pack(Unpk(code.v, d), 65536 - d) = code.v

\* Long numbers, binary and decimal, computed limb by limb: ChainExact and
\* DecimalExact, together.
LongNumbersExact == ChainExact /\ DecimalExact

\* A division that reports no overflow returns the quotient rounded towards 0
\* and a remainder with the sign of the dividend, and one that reports it has no
\* quotient of the width. A product without overflow divided by a factor is the
\* other factor.
DivisionExact ==
  /\ task.kind = "multiply" /\ truth = "quotient" =>
       code.v = <<task.a, 0>> /\ ~code.f.V
  /\ task.kind = "divide" /\ truth = "quotient" =>
       LET Of(n, v) == IF task.signed THEN Signed(n, v) ELSE v
           a == Of(task.m, task.a)  b == Of(task.n, task.b)
           q == Of(task.n, code.v[1])  r == Of(task.n, code.v[2])
           Size(v) == IF v < 0 THEN -v ELSE v
       IN  IF ~code.f.V
           THEN /\ a = q * b + r /\ Size(r) < Size(b) /\ (r = 0 \/ (r < 0 <=> a < 0))
                /\ code.f.N = (Signed(task.n, code.v[1]) < 0) /\ code.f.Z = (q = 0)
           ELSE \A w \in Values(task.n) :
                  ~(Size(a - Of(task.n, w) * b) < Size(b)
                      /\ (a - Of(task.n, w) * b = 0 \/ (a - Of(task.n, w) * b < 0 <=> a < 0)))

\* After CMP every condition is the comparison it is named for, of the signed
\* or the unsigned numbers; CMP leaves X; CMP2 tells what lies between bounds.
ConditionsOrder ==
  task.kind = "compare" /\ truth = "compared" =>
    LET n == task.n  a == task.a  b == task.b  sa == Signed(n, a)  sb == Signed(n, b)
        holds == {cc \in Conditions : testCC(cc, code.f)}
    IN  /\ ("HI" \in holds <=> a > b) /\ ("LS" \in holds <=> a <= b)
        /\ ("CC" \in holds <=> a >= b) /\ ("CS" \in holds <=> a < b)
        /\ ("EQ" \in holds <=> a = b) /\ ("NE" \in holds <=> a # b)
        /\ ("GE" \in holds <=> sa >= sb) /\ ("LT" \in holds <=> sa < sb)
        /\ ("GT" \in holds <=> sa > sb) /\ ("LE" \in holds <=> sa <= sb)
        /\ Cardinality(holds) = 8
        /\ code.f.X = task.x
        /\ \A v \in Values(n) :
             LET in == ChkPasses(n, v, a) IN
             /\ in <=> Signed(n, v) \in 0..sa
             /\ a <= b => (Cmp2(n, FALSE, v, a, b, Clear).C <=> v \notin a..b)
             /\ sa <= sb => (Cmp2(n, TRUE, v, a, b, Clear).C <=> Signed(n, v) \notin sa..sb)

\* The bytes (or the register) always hold the bits that the operations so far
\* put there, one by one; and every field reads as its bits, unsigned and signed,
\* and BFFFO finds its first 1.
BytesAreBits ==
  task.kind = "field" =>
    /\ \A j \in DOMAIN truth :
         truth[j] = IF task.form = "memory"
                    THEN BitOf(code[j \div Byte], Byte - 1 - (j % Byte))
                    ELSE BitOf(code, Long - 1 - j)
    /\ \A fd \in Fields(task.form) :
         LET o == fd[1]  w == fd[2]
             x == IF task.form = "memory" THEN BF_M(code, Middle, o, w) ELSE BF_D(code, o, w)
             Bit(i) == truth[BitIndex(task.form, fd, i)]
             u == MapThenSumSet(LAMBDA i : Bit(i) * 2 ^ (w - 1 - i), 0..(w - 1))
             ones == {i \in 0..(w - 1) : Bit(i) = 1}
         IN  /\ BFEXTU(x, w) = u
             /\ BFEXTS(x, w) = Low(Long, u - 2 ^ w * Bit(0))
             /\ BFFFO(x, o, w) = Low(Long, o + IF ones = {} THEN w ELSE Min(ones))
             /\ FieldTest(x, Clear).N = (Bit(0) = 1) /\ FieldTest(x, Clear).Z = (ones = {})
=============================================================================
