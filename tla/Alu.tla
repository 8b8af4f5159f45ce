-------------------------------- MODULE Alu --------------------------------
(***************************************************************************)
(* The integer arithmetic of the interpreter: what the functions of        *)
(* arithmetic.cc, bits.cc, bcd.cc and bitfield.cc return and what they do  *)
(* to the condition codes.                                                 *)
(*                                                                         *)
(* The _B, _W and _L versions of a function are one operator of the width  *)
(* n. Byte, Word and Long are the widths in bits, and Long is also that of *)
(* a C++ int, so that the literals of the code (31, 32, 7, 0x80...) are    *)
(* written with them and small widths can be checked completely. An        *)
(* operand is the number its bits make; an operator returns the SET of     *)
(* outcomes, which has two members where the code shifts by a count that   *)
(* C++ leaves undefined.                                                   *)
(***************************************************************************)
EXTENDS Integers, Sequences, FiniteSetsExt

CONSTANTS Byte, Word, Long

ASSUME AluAssumption ==
  /\ Byte \in Nat \ {0, 1} /\ Word = 2 * Byte /\ Long = 2 * Word

Width == {Byte, Word, Long}
Values(n) == 0..(2 ^ n - 1)
Ccr == [X : BOOLEAN, N : BOOLEAN, Z : BOOLEAN, V : BOOLEAN, C : BOOLEAN]

Low(n, v) == v % 2 ^ n
BitOf(v, i) == (v \div 2 ^ i) % 2
Msb(n, v) == BitOf(v, n - 1) = 1
Signed(n, v) == IF Msb(n, v) THEN Low(n, v) - 2 ^ n ELSE Low(n, v)
AsBit(b) == IF b THEN 1 ELSE 0

Is(v, f) == {[v |-> v, f |-> f]}

\* TEST_B, TEST_W, TEST_L
Test(n, v, f) == [f EXCEPT !.N = Msb(n, v), !.Z = Low(n, v) = 0]

-----------------------------------------------------------------------------
(* arithmetic.cc                                                           *)

Sum(n, a, b, f) ==
  LET c == a + b
      over == Msb(n, a) = Msb(n, b) /\ Msb(n, a) # Msb(n, c)
      carry == c >= 2 ^ n
  IN  Is(Low(n, c), [Test(n, c, f) EXCEPT !.V = over, !.C = carry, !.X = carry])

Difference(n, a, b, f) ==
  LET c == a - b
      over == Msb(n, a) # Msb(n, b) /\ Msb(n, b) = Msb(n, c)
  IN  Is(Low(n, c), [Test(n, c, f) EXCEPT !.V = over, !.C = a < b, !.X = a < b])

\* The second operand and X are added in the width of the operand.
WithX(n, b, f) == Low(n, b + AsBit(f.X))

\* Z is cleared by a result that is not 0 and otherwise kept.
MutKeepZ(r, f) == r
KeepZ(r, f) == [r EXCEPT !.f.Z = r.v = 0 /\ f.Z]

Addx(n, a, b, f) == {KeepZ(r, f) : r \in Sum(n, a, WithX(n, b, f), f)}
Subx(n, a, b, f) == {KeepZ(r, f) : r \in Difference(n, a, WithX(n, b, f), f)}

Neg(n, v, f) == Difference(n, 0, v, f)
Negx(n, v, f) == Difference(n, 0, WithX(n, v, f), f)

Compare(n, a, b, f) ==
  {[r EXCEPT !.f.X = f.X] : r \in Difference(n, a, b, f)}

\* MULU_LL, MULU_L and MULU_W, MULS_LL, MULS_L and MULS_W: operands of n bits,
\* the product in m. The N of MULU_L is set by any product of 2^31 or more.
Mulu(n, m, a, b, f) ==
  LET p == a * b
  IN  Is(Low(m, p), [f EXCEPT !.C = FALSE, !.V = p >= 2 ^ m, !.Z = p = 0,
                              !.N = p >= 2 ^ (m - 1)])

Muls(n, m, a, b, f) ==
  LET p == Signed(n, a) * Signed(n, b)
  IN  Is(Low(m, p),
         [f EXCEPT !.C = FALSE, !.Z = p = 0, !.N = p < 0,
                   !.V = p < -(2 ^ (m - 1)) \/ p >= 2 ^ (m - 1)])

\* C++ division truncates towards 0.
Quotient(a, b) ==
  LET q == (IF a < 0 THEN -a ELSE a) \div (IF b < 0 THEN -b ELSE b)
  IN  IF (a < 0) = (b < 0) THEN q ELSE -q
MutRemainder(a, b) == a % (IF b < 0 THEN -b ELSE b)
Remainder(a, b) == a - b * Quotient(a, b)

\* A divisor of 0 is DIV0_ERROR before anything is changed.
Divides(b) == b # 0

\* DIVU_LL, DIVU_L and DIVU_W: a has m bits, the divisor and both results n;
\* the result is quotient and remainder.
Divu(n, m, a, b, f) ==
  LET q == a \div b
  IN  Is(<<Low(n, q), Low(n, a % b)>>,
         [Test(n, q, f) EXCEPT !.C = FALSE, !.V = q >= 2 ^ n])

\* DIVS_LL, DIVS_L and DIVS_W. The smallest dividend by -1 is caught in the
\* two of them where the quotient would not fit the C++ type; DIVS_LL divides.
Divs(n, m, a, b, f) ==
  LET x == Signed(m, a)  y == Signed(n, b)  q == Quotient(x, y) IN
  IF m <= Long /\ x = -(2 ^ (Long - 1)) /\ y = -1
  THEN Is(<<0, 0>>, [f EXCEPT !.V = TRUE])
  ELSE Is(<<Low(n, q), Low(n, Remainder(x, y))>>,
          [Test(n, q, f) EXCEPT !.C = FALSE,
             !.V = q < -(2 ^ (n - 1)) \/ q >= 2 ^ (n - 1)])

\* The operands for which the division itself is undefined: DIVS_LL by -1 of
\* the smallest dividend.
DivsUndefined(n, m, a, b) ==
  m > Long /\ Signed(m, a) = -(2 ^ (m - 1)) /\ Signed(n, b) = -1

\* CHK passes or sets N and raises CHK_ERROR; CMP2 compares with two bounds,
\* as signed numbers if the register is an address register.
ChkPasses(n, v, range) == Signed(n, v) >= 0 /\ Signed(n, v) <= Signed(n, range)

Cmp2(n, signed, v, l, h, f) ==
  LET Of(x) == IF signed THEN Signed(n, x) ELSE Low(n, x)
  IN  [f EXCEPT !.Z = Of(v) \in {Of(l), Of(h)}, !.C = Of(l) > Of(v) \/ Of(h) < Of(v)]

\* testCC: the conditions of Bcc, DBcc, Scc and TRAPcc.
Conditions == {"T", "F", "HI", "LS", "CC", "CS", "NE", "EQ",
               "VC", "VS", "PL", "MI", "GE", "LT", "GT", "LE"}
MuttestCC(cc, f) == IF cc = "HI" THEN ~f.C ELSE f.Z
testCC(cc, f) ==
  CASE cc = "T"  -> TRUE            [] cc = "F"  -> FALSE
    [] cc = "HI" -> ~f.C /\ ~f.Z    [] cc = "LS" -> f.C \/ f.Z
    [] cc = "CC" -> ~f.C            [] cc = "CS" -> f.C
    [] cc = "NE" -> ~f.Z            [] cc = "EQ" -> f.Z
    [] cc = "VC" -> ~f.V            [] cc = "VS" -> f.V
    [] cc = "PL" -> ~f.N            [] cc = "MI" -> f.N
    [] cc = "GE" -> f.N = f.V       [] cc = "LT" -> f.N # f.V
    [] cc = "GT" -> ~f.Z /\ f.N = f.V
    [] cc = "LE" -> f.Z \/ f.N # f.V

-----------------------------------------------------------------------------
(* bits.cc: logic, single bits, shifts and rotations of v by a count c.    *)

Bitwise(n, Op(_, _), a, b) ==
  MapThenSumSet(LAMBDA i : 2 ^ i * AsBit(Op(BitOf(a, i) = 1, BitOf(b, i) = 1)),
                0..(n - 1))
And(n, a, b) == Bitwise(n, LAMBDA p, q : p /\ q, a, b)
Or(n, a, b)  == Bitwise(n, LAMBDA p, q : p \/ q, a, b)
Xor(n, a, b) == Bitwise(n, LAMBDA p, q : p # q, a, b)

\* AND, OR and XOR clear V and C; NOT leaves them.
Logic(n, v, f) == Is(v, [Test(n, v, f) EXCEPT !.V = FALSE, !.C = FALSE])
Complement(n, v, f) == Is(2 ^ n - 1 - v, Test(n, 2 ^ n - 1 - v, f))

Btst(v, b, f) == [f EXCEPT !.Z = BitOf(v, b) = 0]
Bset(v, b, f) == Is(IF BitOf(v, b) = 1 THEN v ELSE v + 2 ^ b, Btst(v, b, f))
Bclr(v, b, f) == Is(IF BitOf(v, b) = 1 THEN v - 2 ^ b ELSE v, Btst(v, b, f))
Bchg(v, b, f) == Is(IF BitOf(v, b) = 1 THEN v - 2 ^ b ELSE v + 2 ^ b, Btst(v, b, f))

\* A count of 0 clears C and tests the operand; X, and V of a shift, stay.
ByZero(n, v, f) == Is(v, [Test(n, v, f) EXCEPT !.C = FALSE])

\* A shift by at least one: X is the last bit out.
Shifted(n, v, f, over, out) ==
  Is(Low(n, v), [Test(n, v, f) EXCEPT !.V = over, !.C = out, !.X = out])

\* The byte and word versions shift an int, by 31 at the most.
Count(n, c) == IF n < Long /\ c > Long - 1 THEN Long - 1 ELSE c

Asl(n, v, c0, f) ==
  LET c == Count(n, c0)  s == Signed(n, v)
      so == IF c > n - 1 THEN s ELSE s \div 2 ^ (n - 1 - c)
  IN  IF c = 0 THEN ByZero(n, v, f)
      ELSE Shifted(n, s * 2 ^ c, f, so # s \div 2 ^ (n - 1),
                   Msb(n, s * 2 ^ (c - 1)))

MutAsr(n, v, c0, f) ==
  LET c == Count(n, c0)  s == Signed(n, v)
  IN  IF c = 0 THEN ByZero(n, v, f)
      ELSE Shifted(n, s \div 2 ^ c, f, FALSE, BitOf(s, c) = 1)
Asr(n, v, c0, f) ==
  LET c == Count(n, c0)  s == Signed(n, v)
  IN  IF c = 0 THEN ByZero(n, v, f)
      ELSE Shifted(n, s \div 2 ^ c, f, FALSE, BitOf(s, c - 1) = 1)

Lsr(n, v, c0, f) ==
  LET c == Count(n, c0)
  IN  IF c = 0 THEN ByZero(n, v, f)
      ELSE Shifted(n, v \div 2 ^ c, f, FALSE, BitOf(v, c - 1) = 1)

Lsl(n, v, c0, f) ==
  LET c == Count(n, c0)
  IN  IF c = 0 THEN ByZero(n, v, f)
      ELSE Shifted(n, v * 2 ^ c, f, FALSE, Msb(n, v * 2 ^ (c - 1)))

Rotated(n, v, f, out) ==
  Is(Low(n, v), [Test(n, v, f) EXCEPT !.V = FALSE, !.C = out])

NotTurned(n, v, f, out) == Rotated(n, v, f, out)

\* ROR_B and ROR_W take the count modulo n only above n, and then shift by -1
\* for C if it comes to 0: either outcome. ROR_L asks for 0.
Ror(n, v, c0, f) ==
  LET c == IF n = Long \/ c0 > n THEN c0 % n ELSE c0
      re == v \div 2 ^ c + v * 2 ^ (n - c)
  IN  IF c0 = 0 THEN NotTurned(n, v, f, FALSE)
      ELSE IF c # 0 THEN Rotated(n, re, f, BitOf(v, c - 1) = 1)
      ELSE IF n = Long THEN Rotated(n, v, f, Msb(n, v))
      ELSE UNION {Rotated(n, v, f, out) : out \in BOOLEAN}

\* After a whole turn ROL_B and ROL_W take C from above the operand; ROL_L
\* shifts by 32 for it, and copies C to X.
Rol(n, v, c0, f) ==
  LET c == c0 % n
      re == v * 2 ^ c + v \div 2 ^ (n - c)
      outs == IF n = Long /\ c = 0 THEN BOOLEAN ELSE {BitOf(v, n - c) = 1}
  IN  IF c0 = 0 THEN NotTurned(n, v, f, FALSE)
      ELSE UNION {Rotated(n, IF c = 0 THEN v ELSE re,
                          [f EXCEPT !.X = IF n = Long THEN out ELSE @], out)
                    : out \in outs}

\* The ring of ROXR and ROXL is the operand and X, n + 1 bits.
Roxr(n, v, c0, f) ==
  LET c == c0 % (n + 1)
      re == v \div 2 ^ c + AsBit(f.X) * 2 ^ (n - c) + v * 2 ^ (n + 1 - c)
      With(w, out) == Rotated(n, w, [f EXCEPT !.X = out], out)
  IN  IF c0 = 0 THEN NotTurned(n, v, f, f.X)
      ELSE IF c # 0 THEN With(re, BitOf(v, c - 1) = 1)
      ELSE UNION {With(w, out) : out \in BOOLEAN,
                    w \in {v} \cup IF n = Long /\ f.X THEN {v + 1 - (v % 2)} ELSE {}}

Roxl(n, v, c0, f) ==
  LET c == c0 % (n + 1)
      re == v * 2 ^ c + AsBit(f.X) * 2 ^ (c - 1) + v \div 2 ^ (n + 1 - c)
      With(w, out) == Rotated(n, w, [f EXCEPT !.X = out], out)
  IN  IF c0 = 0 THEN NotTurned(n, v, f, f.X)
      ELSE IF c # 0 THEN With(re, BitOf(v, n - c) = 1)
      ELSE IF n = Long THEN With(v, f.X)
      ELSE With(v, FALSE)

-----------------------------------------------------------------------------
(* bcd.cc at its own size: a byte is two digits of four bits.              *)

Digit == 16
Octet == 8
BCD2BIN(v) == (v \div Digit) * 10 + (v % Digit)
BIN2BCD(v) == Low(Octet, (v \div 10) * Digit + (v % 10))

Decimal(d, carry, f) ==
  [v |-> BIN2BCD(d),
   f |-> [f EXCEPT !.X = carry, !.C = carry, !.Z = f.Z /\ d = 0]]

Abcd(a, b, f) ==
  LET d == BCD2BIN(a) + BCD2BIN(b) + AsBit(f.X)
  IN  Decimal(IF d >= 100 THEN d - 100 ELSE d, d >= 100, f)

Sbcd(a, b, f) ==
  LET d == BCD2BIN(a) - BCD2BIN(b) - AsBit(f.X)
  IN  Decimal(IF d < 0 THEN d + 100 ELSE d, d < 0, f)

Nbcd(a, f) ==
  LET d == Low(Octet, 100 - BCD2BIN(a) - AsBit(f.X))
  IN  Decimal(IF d = 100 THEN 0 ELSE d, d # 100, f)

\* PACK and UNPK with an adjustment.
Pack(v, adj) == LET d == Low(2 * Octet, v + adj)
                IN  (d % Digit) + Digit * ((d \div 2 ^ Octet) % Digit)
Unpk(v, adj) ==
  Low(2 * Octet, (v \div Digit) * 2 ^ Octet + (v % Digit) + adj)

-----------------------------------------------------------------------------
(* bitfield.cc. A field starts offset bits from the top and has width      *)
(* bits, 1 to Long. In memory the offset may be any number; the field then *)
(* lies in up to five bytes from address addr + offset \div Byte on.          *)

Turned(v, k) == IF k = 0 THEN v ELSE Low(Long, v * 2 ^ k) + v \div 2 ^ (Long - k)
AllOnes(width) == (2 ^ width - 1) * 2 ^ (Long - width)
TopBits(x, width) == x - (x % 2 ^ (Long - width))

\* BF_D: the field, moved to the top.
BF_D(v, offset, width) == TopBits(Turned(v, offset % Long), width)

\* v with its field replaced by the top bits of x.
Replaced(v, offset, width, x) ==
  LET k == offset % Long
  IN  Turned((Turned(v, k) % 2 ^ (Long - width)) + x, (Long - k) % Long)

FieldTest(x, f) == [Test(Long, x, f) EXCEPT !.V = FALSE, !.C = FALSE]

BFCHG_D(v, o, w) == Replaced(v, o, w, AllOnes(w) - BF_D(v, o, w))
BFCLR_D(v, o, w) == Replaced(v, o, w, 0)
BFSET_D(v, o, w) == Replaced(v, o, w, AllOnes(w))
BFEXTU(x, w) == x \div 2 ^ (Long - w)
BFEXTS(x, w) == Low(Long, Signed(Long, x) \div 2 ^ (Long - w))
LeadingZeros(x) == CHOOSE k \in 0..(Long - 1) : x \div 2 ^ (Long - 1 - k) = 1
BFFFO(x, o, w) == Low(Long, o + IF x = 0 THEN w ELSE LeadingZeros(x))

\* BFINS: the low bits of v, moved to the top, and the flags of that.
Inserted(v, width) == Low(Long, v * 2 ^ (Long - width))
BFINS_D(old, o, w, v) == Replaced(old, o, w, Inserted(v, w))

\* The bytes a field in memory touches are 0 to LastByte from its first one.
LastByte(o, w) == ((o % Byte) + w - 1) \div Byte
Home(addr, o) == addr + o \div Byte

\* BF_M: mem is the memory, a function from addresses to bytes.
BF_M(mem, addr, o, w) ==
  LET number[k \in -1..4] ==
        IF k = -1 THEN 0 ELSE number[k - 1] * 2 ^ Byte + mem[Home(addr, o) + k]
      last == LastByte(o, w)
      below == Byte * (last + 1) - (o % Byte) - w
  IN  Inserted(number[last] \div 2 ^ below, w)

\* The part of byte k of the field that belongs to it: bits from below From
\* down to To.
From(k, o) == IF k = 0 THEN Byte - (o % Byte) ELSE Byte
MutTo(k, o, w) == 0
To(k, o, w) == IF k = LastByte(o, w) THEN Byte * (k + 1) - (o % Byte) - w ELSE 0
Mask(k, o, w) == 2 ^ From(k, o) - 2 ^ To(k, o, w)
Part(b, k, o, w) == (b % 2 ^ From(k, o)) - (b % 2 ^ To(k, o, w))

\* BFCHG_M, BFCLR_M, BFSET_M: every byte of the field by itself.
FieldWritten(mem, addr, o, w, New(_, _)) ==
  [a \in DOMAIN mem |->
     LET k == a - Home(addr, o)  b == mem[a] IN
     IF k \in 0..LastByte(o, w)
     THEN b - Part(b, k, o, w) + New(Part(b, k, o, w), Mask(k, o, w))
     ELSE b]
BFCHG_M(mem, addr, o, w) ==
  FieldWritten(mem, addr, o, w, LAMBDA part, mask : mask - part)
BFCLR_M(mem, addr, o, w) ==
  FieldWritten(mem, addr, o, w, LAMBDA part, mask : 0)
BFSET_M(mem, addr, o, w) ==
  FieldWritten(mem, addr, o, w, LAMBDA part, mask : mask)

\* BFINS_M takes what a byte gets out of v as it is, and masks it in a field
\* of one byte only: in a longer one the bits of v above the field are or-ed
\* into the first byte.
BFINS_M(mem, addr, o, w, v) ==
  LET last == LastByte(o, w)
      below == Byte * (last + 1) - (o % Byte) - w
      piece(k) == IF k = last THEN Low(Byte, v * 2 ^ below)
                  ELSE Low(Byte, v \div 2 ^ (Byte * (last - k) - below))
  IN  [a \in DOMAIN mem |->
         LET k == a - Home(addr, o)
             kept == mem[a] - Part(mem[a], k, o, w)
         IN  IF k \notin 0..last THEN mem[a]
             ELSE IF last = 0 THEN kept + Part(piece(0), 0, o, w)
             ELSE Or(Byte, kept, piece(k))]
=============================================================================
