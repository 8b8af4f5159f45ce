----------------------------- MODULE InstrProofs -----------------------------
(***************************************************************************)
(* Proofs about Instr, for every size of memory and every instruction:     *)
(* what a fault leaves (FaultLeaves), that its record names the page that  *)
(* was denied (FaultNamesPage), that no byte is touched on a page that     *)
(* does not allow it (OnAllowedPages), that the pager does not reach the   *)
(* operand (PagerKeepsOut), and that an instruction that was denied pages  *)
(* ends as one undisturbed run (RestartsExact).                            *)
(*                                                                         *)
(* A state is good when the bytes touched so far are on pages that allow   *)
(* it and, after a fault, its record names one that does not. Every        *)
(* operation takes good states to good states; each has a predicate that   *)
(* says what else it changes, and each handler a lemma (RmwOk ... Move16Ok)*)
(* that follows its accesses in order. HandlerOk joins them; the invariant *)
(* of the instruction and its pager is IInv.                               *)
(*                                                                         *)
(* That restarts are exact relates three runs of a handler: the one that   *)
(* may fault, the same with every page allowed, and that again from what   *)
(* the fault left. Linked says how the three stand to each other, Goes     *)
(* that an operation keeps it so; the handlers have RmwGoes ... Move16Goes,*)
(* HandlerGoes joins them. FirstRun and SecondRun are what follows for a   *)
(* run and the one after its fault, and RInv carries it through any number *)
(* of faults.                                                              *)
(***************************************************************************)
EXTENDS Instr, SequenceTheorems, TLAPS

-----------------------------------------------------------------------------
(* Addresses. They wrap at Size, which is a multiple of the page size.     *)

\* There is at least one page.
LEMMA SizeIs == Size \in Nat /\ Size >= 1 /\ Size >= 4 /\ Pages \in Int /\ Pages >= 1 /\ Size = 4 * Pages
  BY InstrAssumption DEF Size, PageSize

\* Division leaves a remainder.
LEMMA Divides ==
  ASSUME NEW n \in Nat, n >= 1, NEW a \in Int
  PROVE  a % n \in 0..n - 1 /\ a \div n \in Int /\ a = n * (a \div n) + (a % n)
  OBVIOUS

\* The remainder is the only one.
LEMMA Divided ==
  ASSUME NEW n \in Nat, n >= 1, NEW q \in Int, NEW r \in 0..n - 1
  PROVE  (n * q + r) % n = r
  OBVIOUS

\* A product with a multiple of four is one.
LEMMA Times == \A p, q \in Int : p * q \in Int /\ (4 * p) * q = 4 * (p * q)
  OBVIOUS

\* Numbers that differ by a multiple of four leave the same remainder.
LEMMA Fours == \A a, r, m \in Int : a = 4 * m + r => r % 4 = a % 4
  OBVIOUS

\* Addresses wrap at a multiple of the page size.
LEMMA Wrapped ==
  ASSUME NEW a \in Int
  PROVE  Wrap(a) \in Memory /\ Wrap(a) % 4 = a % 4 /\ \E q \in Int : a = Size * q + Wrap(a)
<1> DEFINE q == a \div Size
           m == Pages * q
<1>1. Wrap(a) \in 0..Size - 1 /\ q \in Int /\ a = Size * q + Wrap(a)
  BY SizeIs, Divides, Zenon DEF Wrap
<1>2. m \in Int /\ Size * q = 4 * m
  BY <1>1, SizeIs, Times, Zenon
<1> HIDE DEF q, m
<1>3. a = 4 * m + Wrap(a)
  BY <1>1, <1>2
<1>4. Wrap(a) % 4 = a % 4
  <2>1. Wrap(a) \in Int
    BY <1>1, SizeIs
  <2> QED
    BY <1>2, <1>3, <2>1, Fours, Zenon
<1> QED
  BY <1>1, <1>4 DEF Memory

\* An address wraps to the one it differs from by a multiple of Size.
LEMMA Same ==
  ASSUME NEW a \in Int, NEW q \in Int, NEW r \in Memory, a = Size * q + r
  PROVE  Wrap(a) = r
  BY SizeIs, Divided, Zenon DEF Wrap, Memory

\* Wrapping before an addition changes nothing.
LEMMA Again == ASSUME NEW a \in Int, NEW k \in Int PROVE Wrap(Wrap(a) + k) = Wrap(a + k)
<1>1. PICK q \in Int : a = Size * q + Wrap(a)
  BY Wrapped
<1>2. PICK p \in Int : a + k = Size * p + Wrap(a + k)
  BY Wrapped
<1>3. Wrap(a) \in Int /\ Wrap(a + k) \in Memory
  BY Wrapped DEF Memory
<1> DEFINE x == Size * p
           y == Size * q
           d == p - q
<1>4. x \in Int /\ y \in Int /\ d \in Int /\ Size * d = x - y
  BY SizeIs
<1> HIDE DEF x, y, d
<1>5. Wrap(a) + k = (x - y) + Wrap(a + k)
  BY <1>1, <1>2, <1>3, <1>4, SizeIs DEF Memory, x, y
<1> QED
  BY <1>3, <1>4, <1>5, Same

\* Bytes up to the next multiple of four follow each other on one page.
LEMMA Near ==
  ASSUME NEW a \in Int, NEW k \in 0..3, (a % 4) + k <= 3
  PROVE  Wrap(a + k) = Wrap(a) + k /\ PageOf(Wrap(a + k)) = PageOf(Wrap(a))
<1>1. PICK q \in Int : a = Size * q + Wrap(a)
  BY Wrapped
<1>2. Wrap(a) \in 0..Size - 1 /\ Wrap(a) % 4 = a % 4
  BY Wrapped DEF Memory
<1>3. Wrap(a) + k \in 0..Size - 1
  BY <1>2, SizeIs
<1> DEFINE y == Size * q
           w == Wrap(a)
<1>4. y \in Int /\ w \in Int /\ a = y + w
  BY <1>1, <1>2, SizeIs
<1> HIDE DEF y, w
<1>5. a + k = y + (w + k)
  BY <1>4
<1>6. Wrap(a + k) = Wrap(a) + k
  BY <1>3, <1>5, Same DEF Memory, y, w
<1> QED
  BY <1>2, <1>6, SizeIs DEF PageOf, PageSize

-----------------------------------------------------------------------------
(* The values an operation works with, and the cuts of an operand.         *)

\* What ACCESS_FAULT records.
Ssw == [addr : Nat, n : {1, 2, 4}, read : BOOLEAN, MA : BOOLEAN, LK : BOOLEAN, tt : 0..3, other : BOOLEAN]

\* The four bytes of a data register.
Long == {d \in Seq(Byte) : Len(d) = 4}

\* The states of the processor, memory and page tables.
State ==
  [A : [{0, 1, 7} -> Memory], D : Long, X : Byte, NZVC : Seq(Byte), PC : Nat,
   dc : [1..2 -> Seq(Byte)], mem : [Memory -> Byte], perm : [0..Pages -> Perms], EA : Memory, lock : BOOLEAN,
   fault : BOOLEAN, ssw : Ssw, a : Memory, u : Seq(Byte), v : Seq(Byte),
   rd : SUBSET Memory, wr : SUBSET Memory]

\* A read of n bytes gives n bytes.
LEMMA BytesAre ==
  ASSUME NEW t \in State, NEW a \in Int, NEW n \in Nat
  PROVE  Bytes(t, a, n) \in Seq(Byte) /\ Len(Bytes(t, a, n)) = n
<1>1. \A k \in 1..n : t.mem[Wrap(a + k - 1)] \in Byte
  <2> SUFFICES ASSUME NEW k \in 1..n PROVE t.mem[Wrap(a + k - 1)] \in Byte
    OBVIOUS
  <2>1. a + k - 1 \in Int
    OBVIOUS
  <2>2. Wrap(a + k - 1) \in Memory
    BY <2>1, Wrapped
  <2> QED
    BY <2>2 DEF State
<1> QED
  BY <1>1 DEF Bytes

\* A result is as long as its first operand.
LEMMA ResAre ==
  ASSUME NEW v \in Seq(Byte), NEW w \in Seq(Byte), Len(w) >= Len(v)
  PROVE  Res(v, w) \in Seq(Byte) /\ Len(Res(v, w)) = Len(v)
<1>1. \A k \in 1..Len(v) : Calc(v[k], w[k]) \in Byte
  BY InstrAssumption
<1> QED
  BY <1>1 DEF Res

\* A write leaves a memory, the same one when nothing is written.
LEMMA PutIs ==
  ASSUME NEW m \in [Memory -> Byte], NEW a \in Int, NEW v \in Seq(Byte)
  PROVE  Put(m, a, v) \in [Memory -> Byte] /\ (Len(v) = 0 => Put(m, a, v) = m)
<1>1. ASSUME NEW b \in Memory, NEW k \in 0..Size - 1, k < Len(v) PROVE v[k + 1] \in Byte
  BY <1>1, SizeIs
<1>2. \A b \in Memory : (b - a) % Size \in 0..Size - 1
  <2> SUFFICES ASSUME NEW b \in Memory PROVE (b - a) % Size \in 0..Size - 1
    OBVIOUS
  <2>1. b - a \in Int
    BY SizeIs DEF Memory
  <2> QED
    BY <2>1, SizeIs, Divides, Zenon
<1>3. Put(m, a, v) \in [Memory -> Byte]
  BY <1>1, <1>2 DEF Put
<1>4. ASSUME Len(v) = 0 PROVE Put(m, a, v) = m
  <2>1. \A b \in Memory : ~((b - a) % Size < Len(v))
    BY <1>2, <1>4, SizeIs
  <2> QED
    BY <2>1 DEF Put
<1> QED
  BY <1>3, <1>4

\* A piece of a value is a value.
LEMMA PiecesAre ==
  ASSUME NEW d \in Seq(Byte), NEW m \in Nat, NEW n \in 0..Len(d), m >= 1, m <= n + 1
  PROVE  SubSeq(d, m, n) \in Seq(Byte) /\ Len(SubSeq(d, m, n)) = (n - m) + 1
  OBVIOUS

\* Two values joined are a value.
LEMMA JoinedAre ==
  ASSUME NEW d \in Seq(Byte), NEW e \in Seq(Byte)
  PROVE  d \o e \in Seq(Byte) /\ Len(d \o e) = Len(d) + Len(e)
  OBVIOUS

\* Sequences of one length and the same items are equal.
LEMMA SameSeq ==
  ASSUME NEW S, NEW s1 \in Seq(S), NEW s2 \in Seq(S), Len(s1) = Len(s2),
         \A i \in 1..Len(s1) : s1[i] = s2[i]
  PROVE  s1 = s2
  OBVIOUS

\* Two operands of one part, joined.
LEMMA Two == ASSUME NEW x, NEW y PROVE <<x>> \o <<y>> = <<x, y>>
<1> DEFINE S == {x, y}
           l == <<x>> \o <<y>>
           r == <<x, y>>
<1>1. <<x>> \in Seq(S) /\ <<y>> \in Seq(S) /\ Len(<<x>>) = 1 /\ Len(<<y>>) = 1
      /\ r \in Seq(S) /\ Len(r) = 2 /\ r[1] = x /\ r[2] = y
  OBVIOUS
<1>2. l \in Seq(S) /\ Len(l) = 2 /\ l[1] = x /\ l[2] = y
  BY <1>1
<1> HIDE DEF S, l, r
<1>3. \A i \in 1..2 : l[i] = r[i]
  BY <1>1, <1>2
<1>4. l = r
  BY <1>1, <1>2, <1>3, SameSeq
<1> QED
  BY <1>4 DEF l, r

\* Two operands of two parts, joined.
LEMMA Four == ASSUME NEW x, NEW y, NEW z, NEW u PROVE <<x, y>> \o <<z, u>> = <<x, y, z, u>>
<1> DEFINE S == {x, y, z, u}
           l == <<x, y>> \o <<z, u>>
           r == <<x, y, z, u>>
<1>1. <<x, y>> \in Seq(S) /\ <<z, u>> \in Seq(S) /\ Len(<<x, y>>) = 2 /\ Len(<<z, u>>) = 2
      /\ r \in Seq(S) /\ Len(r) = 4 /\ r[1] = x /\ r[2] = y /\ r[3] = z /\ r[4] = u
  OBVIOUS
<1>2. l \in Seq(S) /\ Len(l) = 4 /\ l[1] = x /\ l[2] = y /\ l[3] = z /\ l[4] = u
  BY <1>1
<1> HIDE DEF S, l, r
<1>3. \A i \in 1..4 : l[i] = r[i]
  BY <1>1, <1>2
<1>4. l = r
  BY <1>1, <1>2, <1>3, SameSeq
<1> QED
  BY <1>4 DEF l, r

\* The cuts of an operand, by its alignment.
LEMMA PartsAre ==
  ASSUME NEW a \in Int
  PROVE  /\ Parts(a, 1) = <<<<a, 1>>>>
         /\ Parts(a, 2) = IF a % 2 = 1 THEN <<<<a, 1>>, <<a + 1, 1>>>> ELSE <<<<a, 2>>>>
         /\ a % 4 \in {0, 1} => Parts(a, 4) = <<<<a, 4>>>>
         /\ a % 4 = 2 => Parts(a, 4) = <<<<a, 2>>, <<a + 2, 2>>>>
         /\ a % 4 = 3 => Parts(a, 4) = <<<<a, 1>>, <<a + 1, 1>>, <<a + 2, 1>>, <<a + 3, 1>>>>
<1>1. Parts(a, 1) = <<<<a, 1>>>> /\ Parts(a, 2) = Half(a)
  BY DEF Parts
<1>2. Parts(a, 4) = IF a % 4 >= 2 THEN Half(a) \o Half(a + 2) ELSE <<<<a, 4>>>>
  BY DEF Parts
<1>3. a % 4 = 2 => a % 2 = 0 /\ (a + 2) % 2 = 0
  OBVIOUS
<1>4. a % 4 = 3 => a % 2 = 1 /\ (a + 2) % 2 = 1
  OBVIOUS
<1>7. a % 4 \in {0, 1} => Parts(a, 4) = <<<<a, 4>>>>
  BY <1>2
<1>8. ASSUME a % 4 = 2 PROVE Parts(a, 4) = <<<<a, 2>>, <<a + 2, 2>>>>
  <2>1. Half(a) = <<<<a, 2>>>> /\ Half(a + 2) = <<<<a + 2, 2>>>>
    BY <1>3, <1>8 DEF Half
  <2>2. Parts(a, 4) = Half(a) \o Half(a + 2)
    BY <1>2, <1>8
  <2> QED
    BY <2>1, <2>2, Two, Zenon
<1>9. ASSUME a % 4 = 3
      PROVE  Parts(a, 4) = <<<<a, 1>>, <<a + 1, 1>>, <<a + 2, 1>>, <<a + 3, 1>>>>
  <2>1. Half(a) = <<<<a, 1>>, <<a + 1, 1>>>> /\ Half(a + 2) = <<<<a + 2, 1>>, <<(a + 2) + 1, 1>>>>
    BY <1>4, <1>9 DEF Half
  <2>2. (a + 2) + 1 = a + 3
    OBVIOUS
  <2>3. Half(a + 2) = <<<<a + 2, 1>>, <<a + 3, 1>>>>
    BY <2>1, <2>2
  <2>4. Parts(a, 4) = Half(a) \o Half(a + 2)
    BY <1>2, <1>9
  <2> QED
    BY <2>1, <2>3, <2>4, Four, Zenon
<1> QED
  BY <1>1, <1>7, <1>8, <1>9 DEF Half

-----------------------------------------------------------------------------
(* Which part of an operand is denied.                                     *)

\* The first of some parts is one of them and before the others.
LEMMA FirstIs ==
  ASSUME NEW S, S \subseteq {1, 2, 3, 4}, S # {}
  PROVE  First(S) \in S /\ \A j \in S : First(S) <= j
<1>1. \E k \in S : \A j \in S : k <= j
  <2>1. CASE 1 \in S
    <3>1. \A j \in S : 1 <= j
      OBVIOUS
    <3> QED
      BY <2>1, <3>1
  <2>2. CASE 1 \notin S /\ 2 \in S
    <3>1. \A j \in S : 2 <= j
      BY <2>2
    <3> QED
      BY <2>2, <3>1
  <2>3. CASE 1 \notin S /\ 2 \notin S /\ 3 \in S
    <3>1. \A j \in S : 3 <= j
      BY <2>3
    <3> QED
      BY <2>3, <3>1
  <2>4. CASE 1 \notin S /\ 2 \notin S /\ 3 \notin S
    <3>1. \A j \in S : j = 4
      BY <2>4
    <3>2. \E j : j \in S
      OBVIOUS
    <3>3. 4 \in S /\ \A j \in S : 4 <= j
      BY <3>1, <3>2
    <3> QED
      BY <3>3
  <2> QED
    BY <2>1, <2>2, <2>3, <2>4
<1> QED
  BY <1>1 DEF First

\* The page of an address, wrapped.
At(a) == PageOf(Wrap(a))
\* The page tables let page p be read, or written when w.
Permits(t, p, w) == t.perm[p] \in (IF w THEN {"rw"} ELSE {"ro", "rw"})

\* Where the parts of an operand start.
LEMMA Starts ==
  ASSUME NEW a \in Int, NEW n \in {1, 2, 4}
  PROVE  LET p == Parts(a, n) IN
         /\ 1 \in DOMAIN p /\ p[1][1] = a /\ DOMAIN p \subseteq {1, 2, 3, 4}
         /\ n = 1 => DOMAIN p = {1}
         /\ n = 2 /\ a % 2 = 0 => DOMAIN p = {1}
         /\ n = 2 /\ a % 2 = 1 => DOMAIN p = {1, 2} /\ p[2][1] = a + 1
         /\ n = 4 /\ a % 4 < 2 => DOMAIN p = {1}
         /\ n = 4 /\ a % 4 = 2 => DOMAIN p = {1, 2} /\ p[2][1] = a + 2
         /\ n = 4 /\ a % 4 = 3 => DOMAIN p = {1, 2, 3, 4} /\ p[2][1] = a + 1
                                  /\ p[3][1] = a + 2 /\ p[4][1] = a + 3
<1> DEFINE p == Parts(a, n)
<1>1. \A x, y, z, u, k, l, m, o :
        /\ DOMAIN <<<<x, k>>>> = {1} /\ <<<<x, k>>>>[1][1] = x
        /\ LET q == <<<<x, k>>, <<y, l>>>> IN DOMAIN q = {1, 2} /\ q[1][1] = x /\ q[2][1] = y
        /\ LET q == <<<<x, k>>, <<y, l>>, <<z, m>>, <<u, o>>>> IN
           DOMAIN q = {1, 2, 3, 4} /\ q[1][1] = x /\ q[2][1] = y /\ q[3][1] = z /\ q[4][1] = u
  OBVIOUS
<1>2. CASE n = 1
  BY <1>1, <1>2, PartsAre
<1>3. CASE n = 2
  <2>1. CASE a % 2 = 1
    BY <1>1, <1>3, <2>1, PartsAre
  <2>2. CASE a % 2 = 0
    BY <1>1, <1>3, <2>2, PartsAre
  <2> QED
    BY <2>1, <2>2
<1>4. CASE n = 4
  <2>1. CASE a % 4 < 2
    <3>1. p = <<<<a, 4>>>>
      BY <1>4, <2>1, PartsAre
    <3> QED
      BY <1>1, <1>4, <2>1, <3>1
  <2>2. CASE a % 4 = 2
    <3>1. p = <<<<a, 2>>, <<a + 2, 2>>>>
      BY <1>4, <2>2, PartsAre
    <3> QED
      BY <1>1, <1>4, <2>2, <3>1
  <2>3. CASE a % 4 = 3
    <3>1. p = <<<<a, 1>>, <<a + 1, 1>>, <<a + 2, 1>>, <<a + 3, 1>>>>
      BY <1>4, <2>3, PartsAre
    <3> QED
      BY <1>1, <1>4, <2>3, <3>1
  <2> QED
    BY <2>1, <2>2, <2>3
<1> QED
  BY <1>2, <1>3, <1>4

\* The n bytes at a lie on pages that permit it, but for the last byte of a long
\* at 1 modulo 4.
Clear(t, w, a, n) ==
  \A j \in 0..n - 1 : Permits(t, At(a + j), w) \/ (j = 3 /\ a % 4 = 1 /\ n = 4)

\* An access is denied at the first of its parts that lies on a page without the
\* permission, and the record names that page. The bytes of the parts before it,
\* or of all parts when none is denied, lie on pages that permit it, but for the
\* last byte of a long at 1 modulo 4.
LEMMA Denials ==
  ASSUME NEW t, NEW w, NEW a \in Int, NEW n \in {1, 2, 4}
  PROVE  LET p == Parts(a, n)
             bad == Denied(t, p, w)
             k == First(bad)
             f == p[k][1]
         IN /\ bad = {} => Clear(t, w, a, n)
            /\ bad # {} =>
                 /\ k \in 1..4 /\ f \in Int /\ f - a \in 0..n - 1 /\ (k = 1 <=> f = a)
                 /\ ~Permits(t, At(f), w)
                 /\ k > 1 => At(a + n - 1) = At(f)
                 /\ \A j \in 0..(f - a) - 1 : Permits(t, At(a + j), w)
<1> DEFINE p == Parts(a, n)
           bad == Denied(t, p, w)
           k == First(bad)
           f == p[k][1]
           on(x) == Permits(t, At(x), w)
<1>1. bad = {i \in DOMAIN p : ~on(p[i][1])}
  BY DEF Denied, Allowed, Permits, At
<1>2. /\ 1 \in DOMAIN p /\ p[1][1] = a /\ DOMAIN p \subseteq {1, 2, 3, 4}
      /\ n = 1 => DOMAIN p = {1}
      /\ n = 2 /\ a % 2 = 0 => DOMAIN p = {1}
      /\ n = 2 /\ a % 2 = 1 => DOMAIN p = {1, 2} /\ p[2][1] = a + 1
      /\ n = 4 /\ a % 4 < 2 => DOMAIN p = {1}
      /\ n = 4 /\ a % 4 = 2 => DOMAIN p = {1, 2} /\ p[2][1] = a + 2
      /\ n = 4 /\ a % 4 = 3 => DOMAIN p = {1, 2, 3, 4} /\ p[2][1] = a + 1
                              /\ p[3][1] = a + 2 /\ p[4][1] = a + 3
  BY Starts
<1>3. bad # {} => k \in bad /\ \A j \in bad : k <= j
  BY <1>1, <1>2, FirstIs
<1>4. \A b \in Int : \A j \in 0..3 : (b % 4) + j <= 3 => At(b + j) = At(b)
  BY Near DEF At
<1>5. /\ a % 4 = 0 => At(a + 1) = At(a) /\ At(a + 2) = At(a) /\ At(a + 3) = At(a)
      /\ a % 4 = 1 => At(a + 1) = At(a) /\ At(a + 2) = At(a)
      /\ a % 4 = 2 => At(a + 1) = At(a) /\ At(a + 3) = At(a + 2)
      /\ a % 4 = 3 => At(a + 2) = At(a + 1) /\ At(a + 3) = At(a + 1)
  <2>1. CASE a % 4 = 0
    BY <1>4, <2>1
  <2>2. CASE a % 4 = 1
    BY <1>4, <2>2
  <2>3. CASE a % 4 = 2
    <3>1. (a + 2) % 4 = 0 /\ (a + 2) + 1 = a + 3
      BY <2>3
    <3>2. At((a + 2) + 1) = At(a + 2)
      BY <1>4, <3>1
    <3> QED
      BY <1>4, <2>3, <3>1, <3>2
  <2>4. CASE a % 4 = 3
    <3>1. (a + 1) % 4 = 0 /\ (a + 1) + 1 = a + 2 /\ (a + 1) + 2 = a + 3
      BY <2>4
    <3>2. At((a + 1) + 1) = At(a + 1) /\ At((a + 1) + 2) = At(a + 1)
      BY <1>4, <3>1
    <3> QED
      BY <2>4, <3>1, <3>2
  <2> QED
    BY <2>1, <2>2, <2>3, <2>4
<1>6. a + 0 = a /\ (a % 2 = 0 => a % 4 \in {0, 2}) /\ a % 4 \in 0..3 /\ a % 2 \in 0..1
  OBVIOUS
<1>7. At(a) = At(a) /\ \A x, y : At(x) = At(y) => (on(x) <=> on(y))
  OBVIOUS
<1>8. CASE bad = {}
  <2>1. on(a) /\ \A i \in DOMAIN p : on(p[i][1])
    BY <1>1, <1>2, <1>8
  <2>2. n >= 2 => on(a + 1)
    BY <1>2, <1>5, <1>6, <1>7, <2>1
  <2>3. n = 4 => on(a + 2) /\ (a % 4 # 1 => on(a + 3))
    BY <1>2, <1>5, <1>6, <1>7, <2>1
  <2> HIDE DEF on
  <2>4. \A j \in 0..n - 1 : on(a + j) \/ (j = 3 /\ a % 4 = 1 /\ n = 4)
    BY <1>6, <2>1, <2>2, <2>3
  <2> QED
    BY <1>8, <2>4 DEF on, Clear
<1>9. CASE bad # {}
  <2>1. k \in DOMAIN p /\ ~on(f) /\ \A i \in DOMAIN p : i < k => on(p[i][1])
    <3>1. k \in bad /\ \A j \in bad : k <= j
      BY <1>3, <1>9
    <3> HIDE DEF k, p, on
    <3>2. k \in DOMAIN p /\ ~on(p[k][1])
      BY <1>1, <3>1
    <3>3. ASSUME NEW i \in DOMAIN p, i < k PROVE on(p[i][1])
      <4>1. i \notin bad
        BY <1>2, <3>1, <3>2, <3>3
      <4> QED
        BY <1>1, <4>1
    <3> QED
      BY <3>2, <3>3
  <2>2. k \in 1..4 /\ f \in Int /\ f - a \in 0..n - 1 /\ (k = 1 <=> f = a)
    <3> HIDE DEF k, p, on
    <3>1. k \in {1, 2, 3, 4}
      BY <1>2, <2>1
    <3> QED
      BY <1>2, <1>6, <2>1, <3>1
  <2>3. k > 1 => At(a + n - 1) = At(f)
    <3> HIDE DEF k, p, on
    <3>1. k \in {1, 2, 3, 4}
      BY <1>2, <2>1
    <3>2. n = 2 => a + n - 1 = a + 1
      OBVIOUS
    <3>3. n = 4 => a + n - 1 = a + 3
      OBVIOUS
    <3> QED
      BY <1>2, <1>5, <1>6, <2>1, <3>1, <3>2, <3>3
  <2>4. ASSUME NEW j \in 0..(f - a) - 1 PROVE on(a + j)
    <3> HIDE DEF k, p, on
    <3>1. k \in {1, 2, 3, 4}
      BY <1>2, <2>1
    <3>2. f = a => FALSE
      BY <2>4
    <3>3. on(a)
      BY <1>2, <2>1, <3>1, <3>2
    <3>4. f = a + 2 => on(a + 1)
      BY <1>2, <1>5, <1>6, <1>7, <2>1, <3>1, <3>3
    <3>5. f = a + 3 => on(a + 1) /\ on(a + 2)
      BY <1>2, <1>5, <1>6, <1>7, <2>1, <3>1, <3>3
    <3>6. f = a + 1 \/ f = a + 2 \/ f = a + 3
      BY <2>2, <3>2
    <3>7. CASE f = a + 1
      <4>1. j = 0
        BY <3>7
      <4> QED
        BY <1>6, <3>3, <4>1
    <3>8. CASE f = a + 2
      <4>1. j = 0 \/ j = 1
        BY <3>8
      <4> QED
        BY <1>6, <3>3, <3>4, <3>8, <4>1
    <3>9. CASE f = a + 3
      <4>1. j = 0 \/ j = 1 \/ j = 2
        BY <3>9
      <4> QED
        BY <1>6, <3>3, <3>5, <3>9, <4>1
    <3> QED
      BY <3>6, <3>7, <3>8, <3>9
  <2> QED
    BY <1>9, <2>1, <2>2, <2>3, <2>4
<1> QED
  BY <1>8, <1>9

-----------------------------------------------------------------------------
(* What is wanted of a state: its bytes on allowed pages, its record right.*)

\* Every byte of S is on a page that allows it, but for the last of an uncut long.
Fine(S, t, w) == \A b \in S : Permits(t, PageOf(b), w) \/ Spill(S, b)

\* The record of a fault names a page, and one that lacks what it asks for.
Lacks(t) == Named(t.ssw) \in 0..Pages /\ t.perm[Named(t.ssw)] \notin Needed(t.ssw)

\* The bytes touched so far are on pages that allow it.
Safe(t) == t \in State /\ Fine(t.rd, t, FALSE) /\ Fine(t.wr, t, TRUE)
\* Safe, and after a fault the record names a page that is lacking.
Good(t) == Safe(t) /\ (t.fault => Lacks(t))

\* A byte that spilled over still does when more is touched.
LEMMA SpillMore == ASSUME NEW S, NEW T, S \subseteq T, NEW b, Spill(S, b) PROVE Spill(T, b)
  BY DEF Spill

\* The bytes of an operand are memory.
LEMMA RangeIs ==
  ASSUME NEW a \in Int, NEW n \in Nat
  PROVE  Range16(a, n) \subseteq Memory /\ \A b \in Range16(a, n) : \E j \in 0..n - 1 : b = Wrap(a + j)
<1>1. ASSUME NEW k \in 0..n - 1 PROVE Wrap(a + k) \in Memory
  BY Wrapped
<1> QED
  BY <1>1 DEF Range16

\* What an access that was not denied has touched may be touched.
LEMMA TouchedMore ==
  ASSUME NEW t, NEW w, NEW S, Fine(S, t, w), NEW a \in Int, NEW n \in Nat,
         \A j \in 0..n - 1 : Permits(t, At(a + j), w) \/ (j = 3 /\ a % 4 = 1 /\ n = 4)
  PROVE  Fine(S \cup Range16(a, n), t, w)
<1> DEFINE T == S \cup Range16(a, n)
<1> SUFFICES ASSUME NEW b \in T PROVE Permits(t, PageOf(b), w) \/ Spill(T, b)
  BY DEF Fine
<1>1. CASE b \in S
  <2>1. S \subseteq T
    OBVIOUS
  <2> HIDE DEF T
  <2> QED
    BY <1>1, <2>1, SpillMore DEF Fine
<1>2. CASE b \in Range16(a, n)
  <2>1. PICK j \in 0..n - 1 : b = Wrap(a + j)
    BY <1>2, RangeIs
  <2>2. CASE Permits(t, At(a + j), w)
    BY <2>1, <2>2 DEF At
  <2>3. CASE j = 3 /\ a % 4 = 1 /\ n = 4
    <3>1. b = Wrap(a + 3) /\ b % 4 = 0
      <4>1. a + 3 \in Int /\ (a + 3) % 4 = 0
        BY <2>3
      <4> QED
        BY <2>1, <2>3, <4>1, Wrapped
    <3>2. ASSUME NEW k \in 1..3 PROVE Wrap(b - k) \in T
      <4>1. Wrap(b - k) = Wrap(a + (3 - k))
        <5>1. 0 - k \in Int /\ a + 3 \in Int /\ b - k = b + (0 - k) /\ (a + 3) + (0 - k) = a + (3 - k)
          <6>1. b \in Int
            BY <3>1, Wrapped, SizeIs DEF Memory
          <6> QED
            BY <6>1
        <5>2. Wrap(Wrap(a + 3) + (0 - k)) = Wrap((a + 3) + (0 - k))
          BY <5>1, Again, Zenon
        <5> QED
          BY <3>1, <5>1, <5>2
      <4>2. 3 - k \in 0..n - 1
        BY <2>3
      <4> QED
        BY <4>1, <4>2 DEF Range16
    <3> QED
      BY <3>1, <3>2 DEF Spill
  <2> QED
    BY <2>1, <2>2, <2>3
<1> QED
  BY <1>1, <1>2

\* Every address, wrapped, and the extension words have a page.
LEMMA PagesAre == PageOf(ExtWord) \in 0..Pages /\ \A a \in Int : At(a) \in 0..Pages
<1>1. PageOf(ExtWord) \in 0..Pages
  BY SizeIs DEF PageOf, PageSize, ExtWord
<1>2. ASSUME NEW a \in Int PROVE At(a) \in 0..Pages
  <2>1. Wrap(a) \in 0..Size - 1
    BY Wrapped DEF Memory
  <2> QED
    BY <2>1, SizeIs DEF At, PageOf, PageSize
<1> QED
  BY <1>1, <1>2

\* The page that a record names.
LEMMA NamedIs ==
  ASSUME NEW r, NEW a \in Int, NEW n \in {1, 2, 4}, r.addr = Wrap(a), r.n = n
  PROVE  Named(r) = IF r.MA THEN At(a + n - 1) ELSE At(a)
<1>1. Wrap(a) + n - 1 = Wrap(a) + (n - 1) /\ a + n - 1 = a + (n - 1) /\ n - 1 \in Int
  BY Wrapped, SizeIs DEF Memory
<1>2. Wrap(Wrap(a) + (n - 1)) = Wrap(a + (n - 1))
  BY <1>1, Again, Zenon
<1> QED
  BY <1>1, <1>2 DEF Named, At

-----------------------------------------------------------------------------
(* Accesses: fetches and reads.                                            *)

\* What an access leaves alone.
Kept(t, r) ==
  /\ r.A = t.A /\ r.D = t.D /\ r.X = t.X /\ r.NZVC = t.NZVC /\ r.PC = t.PC /\ r.dc = t.dc
  /\ r.perm = t.perm /\ r.EA = t.EA /\ r.lock = t.lock /\ r.a = t.a

\* A step that touches no byte and records no fault.
LEMMA Aside ==
  ASSUME NEW t, Good(t), NEW r \in State, r.perm = t.perm, r.rd = t.rd, r.wr = t.wr,
         r.fault = t.fault, r.ssw = t.ssw
  PROVE  Good(r)
  BY DEF Good, Safe, Fine, Permits, Lacks

\* A fault with a right record leaves a good state and changes nothing else.
LEMMA RaiseGood ==
  ASSUME NEW t, Safe(t), NEW x \in Ssw, Named(x) \in 0..Pages, t.perm[Named(x)] \notin Needed(x)
  PROVE  LET r == Raise(t, x) IN
         Good(r) /\ Kept(t, r) /\ r.mem = t.mem /\ r.v = t.v /\ r.u = t.u /\ r.fault /\ r.ssw = x
         /\ r.rd = t.rd /\ r.wr = t.wr
<1> DEFINE r == Raise(t, x)
<1>1. /\ r \in State /\ Kept(t, r) /\ r.mem = t.mem /\ r.v = t.v /\ r.u = t.u /\ r.fault
      /\ r.ssw = x /\ r.rd = t.rd /\ r.wr = t.wr
  BY DEF Safe, State, Raise, Kept
<1> HIDE DEF r
<1>2. Good(r)
  BY <1>1 DEF Good, Safe, Fine, Permits, Lacks, Kept
<1> QED
  BY <1>1, <1>2 DEF r

\* A state keeps everything of itself.
LEMMA SelfKept == \A t : Kept(t, t)
  BY DEF Kept

\* The record of a first part does not name a misaligned access.
LEMMA FirstPart ==
  ASSUME NEW t, NEW a, NEW n, NEW read, NEW k \in Int, ~(k > 1), NEW tt, NEW other,
         NEW x, x = Record(t, a, n, read, k, tt, other)
  PROVE  ~x.MA
  BY DEF Record

\* A fetch faults or changes nothing.
LEMMA FetchGood ==
  ASSUME NEW t, Good(t)
  PROVE  LET r == Fetch(t) IN
         Good(r) /\ Kept(t, r) /\ r.mem = t.mem /\ (r.fault \/ r = t) /\ (t.fault => r = t)
<1>1. CASE t.fault \/ Allowed(t, ExtWord, FALSE)
  <2>1. Fetch(t) = t
    BY <1>1 DEF Fetch, Go
  <2> QED
    BY <2>1, SelfKept
<1>2. CASE ~t.fault /\ ~Allowed(t, ExtWord, FALSE)
  <2> DEFINE x == Record(t, ExtWord, 2, TRUE, 1, 0, FALSE)
  <2>1. Fetch(t) = Raise(t, x)
    BY <1>2 DEF Fetch, Go
  <2>2. x \in Ssw /\ Named(x) = PageOf(ExtWord) /\ (Needed(x) = {"ro", "rw"} \/ Needed(x) = {"rw"})
    <3>1. ExtWord \in Nat /\ t \in State
      BY SizeIs DEF ExtWord, Good, Safe
    <3>2. x \in Ssw
      <4>1. t.lock \in BOOLEAN
        BY <3>1 DEF State
      <4> QED
        BY <3>1, <4>1 DEF Record, Ssw
    <3>3. x.addr = ExtWord
      BY DEF Record
    <3>4. ~x.MA
      <4>1. 1 \in Int /\ ~(1 > 1)
        OBVIOUS
      <4> QED
        BY <4>1, FirstPart, Zenon
    <3> QED
      BY <3>2, <3>3, <3>4 DEF Named, Needed
  <2>3. t.perm[PageOf(ExtWord)] \notin {"ro", "rw"}
    BY <1>2 DEF Allowed
  <2> HIDE DEF x
  <2>4. t.perm[Named(x)] \notin Needed(x)
    BY <2>2, <2>3
  <2> QED
    BY <1>2, <2>1, <2>2, <2>4, RaiseGood, PagesAre DEF Good
<1> QED
  BY <1>1, <1>2

\* What no step before the last accesses of a handler changes.
Calm(t, r) ==
  /\ r.D = t.D /\ r.X = t.X /\ r.NZVC = t.NZVC /\ r.PC = t.PC /\ r.dc = t.dc
  /\ r.mem = t.mem /\ r.perm = t.perm

\* r: what a read of n bytes makes of t.
Reads(t, r, n) ==
  /\ Good(r) /\ Calm(t, r) /\ r.A = t.A /\ r.lock = t.lock /\ r.EA = t.EA /\ r.a = t.a
  /\ t.fault => r = t
  /\ ~r.fault => ~t.fault /\ Len(r.v) = n /\ r.u = t.v

\* A read on a state without a fault: a fault with a right record, or the value.
LEMMA ReadGood ==
  ASSUME NEW t, Good(t), NEW a \in Int, NEW n \in Sizes, NEW w \in BOOLEAN, w => t.lock,
         NEW tt \in 0..3, NEW other \in BOOLEAN
  PROVE  LET r == ReadIn(t, a, n, w, tt, other) IN
         Reads(t, r, n) /\ (~r.fault => Denied(t, Parts(a, n), w) = {})
<1>1. CASE t.fault
  <2>1. ReadIn(t, a, n, w, tt, other) = t
    BY <1>1 DEF ReadIn, Go
  <2> QED
    BY <1>1, <2>1 DEF Reads, Calm
<1>2. CASE ~t.fault /\ Denied(t, Parts(a, n), w) # {}
  <2> DEFINE k == First(Denied(t, Parts(a, n), w))
             f == Parts(a, n)[k][1]
             x == Record(t, Wrap(a), n, TRUE, k, tt, other)
  <2>1. ReadIn(t, a, n, w, tt, other) = Raise(t, x)
    BY <1>2 DEF ReadIn, Go
  <2>2. n \in {1, 2, 4}
    BY DEF Sizes
  <2>3. /\ k \in 1..4 /\ f \in Int /\ (k = 1 <=> f = a) /\ ~Permits(t, At(f), w)
        /\ k > 1 => At(a + n - 1) = At(f)
    BY <1>2, <2>2, Denials
  <2> HIDE DEF k, f
  <2>4. x \in Ssw /\ x.read = TRUE /\ x.LK = t.lock /\ x.MA = (k > 1) /\ x.addr = Wrap(a) /\ x.n = n
    <3>1. Wrap(a) \in Nat
      BY Wrapped, SizeIs DEF Memory
    <3>2. t.lock \in BOOLEAN /\ (k > 1) \in BOOLEAN
      BY <2>3 DEF Good, Safe, State
    <3> QED
      BY <2>2, <3>1, <3>2 DEF Record, Ssw
  <2> HIDE DEF x
  <2>5. Named(x) = At(f)
    <3>1. Named(x) = IF x.MA THEN At(a + n - 1) ELSE At(a)
      BY <2>2, <2>4, NamedIs
    <3>2. CASE k > 1
      BY <2>3, <2>4, <3>1, <3>2
    <3>3. CASE ~(k > 1)
      <4>1. k = 1 /\ f = a
        BY <2>3, <3>3
      <4> QED
        BY <2>4, <3>1, <3>3, <4>1
    <3> QED
      BY <3>2, <3>3
  <2>6. t.perm[Named(x)] \notin Needed(x)
    BY <2>3, <2>4, <2>5 DEF Permits, Needed
  <2>7. Safe(t)
    BY DEF Good
  <2>8. /\ Good(Raise(t, x)) /\ Kept(t, Raise(t, x)) /\ Raise(t, x).mem = t.mem
        /\ Raise(t, x).fault
    BY <2>3, <2>4, <2>5, <2>6, <2>7, RaiseGood, PagesAre
  <2> QED
    BY <1>2, <2>1, <2>8 DEF Reads, Calm, Kept
<1>3. CASE ~t.fault /\ Denied(t, Parts(a, n), w) = {}
  <2> DEFINE S == t.rd \cup Range16(a, n)
             y == Bytes(t, a, n)
             r == [t EXCEPT !.u = t.v, !.v = y, !.rd = S]
  <2>1. ReadIn(t, a, n, w, tt, other) = r
    BY <1>3 DEF ReadIn, Go
  <2>2. t \in State /\ n \in Nat /\ n \in {1, 2, 4}
    BY DEF Good, Safe, Sizes
  <2>3. S \subseteq Memory /\ y \in Seq(Byte) /\ Len(y) = n
    BY <2>2, BytesAre, RangeIs DEF State
  <2>4. Clear(t, w, a, n)
    BY <1>3, <2>2, Denials
  <2>5. \A j \in 0..n - 1 : Permits(t, At(a + j), FALSE) \/ (j = 3 /\ a % 4 = 1 /\ n = 4)
    BY <2>4 DEF Permits, Clear
  <2>6. Fine(S, t, FALSE)
    BY <2>2, <2>5, TouchedMore DEF Good, Safe
  <2> HIDE DEF S, y
  <2>7. r \in State /\ Kept(t, r) /\ r.mem = t.mem /\ r.fault = t.fault /\ r.v = y /\ r.u = t.v
        /\ r.rd = S /\ r.wr = t.wr
    BY <2>2, <2>3 DEF State, Kept
  <2> HIDE DEF r
  <2>8. Good(r)
    BY <1>3, <2>6, <2>7 DEF Good, Safe, Fine, Permits, Kept
  <2> QED
    BY <1>3, <2>1, <2>3, <2>7, <2>8 DEF Reads, Calm, Kept
<1> QED
  BY <1>1, <1>2, <1>3

-----------------------------------------------------------------------------
(* Accesses: writes.                                                       *)

\* r: what a write makes of t.
Writes(t, r) ==
  /\ Good(r) /\ Kept(t, r) /\ r.v = t.v /\ r.u = t.u
  /\ t.fault => r = t
  /\ ~r.fault => ~t.fault
  /\ ~t.fault /\ r.fault => r.mem = t.mem \/ (~r.ssw.read /\ r.ssw.MA)

\* A write on a state without a fault: a fault with a right record, which leaves
\* memory alone unless a later part was denied, or the bytes.
LEMMA WriteGood ==
  ASSUME NEW t, Good(t), NEW a \in Int, NEW v \in Seq(Byte), Len(v) \in Sizes,
         NEW tt \in 0..3, NEW other \in BOOLEAN
  PROVE  LET r == WriteIn(t, a, v, tt, other) IN
         Writes(t, r) /\ (~t.fault /\ Denied(t, Parts(a, Len(v)), TRUE) = {} => ~r.fault)
<1>1. CASE t.fault
  <2>1. WriteIn(t, a, v, tt, other) = t
    BY <1>1 DEF WriteIn, Go
  <2> QED
    BY <1>1, <2>1, SelfKept DEF Writes
<1>2. CASE ~t.fault
  <2> DEFINE N == Len(v)
             W == TRUE
             p == Parts(a, N)
             bad == Denied(t, p, W)
             k == First(bad)
             f == p[k][1]
             n == IF bad = {} THEN N ELSE (f - a)
             m == Put(t.mem, Wrap(a), SubSeq(v, 1, n))
             S == t.wr \cup Range16(a, n)
             on(y) == Permits(t, At(y), W)
             w == [t EXCEPT !.mem = m, !.wr = S]
             x == Record(t, Wrap(a), N, FALSE, k, tt, other)
             r == WriteIn(t, a, v, tt, other)
  <2>1. r = IF bad = {} THEN w ELSE Raise(w, x)
    BY <1>2 DEF WriteIn, Go
  <2>2. N \in {1, 2, 4} /\ t \in State /\ Wrap(a) \in Nat /\ Wrap(a) \in Int
    <3>1. Wrap(a) \in Memory
      BY Wrapped
    <3>2. \A b \in Memory : b \in Nat /\ b \in Int
      BY SizeIs DEF Memory
    <3>3. N \in {1, 2, 4} /\ t \in State
      BY DEF Sizes, Good, Safe
    <3> QED
      BY <3>1, <3>2, <3>3
  <2>3. /\ bad = {} => \A j \in 0..N - 1 : on(a + j) \/ (j = 3 /\ a % 4 = 1 /\ N = 4)
        /\ bad # {} =>
             /\ k \in 1..4 /\ f \in Int /\ f - a \in 0..N - 1 /\ (k = 1 <=> f = a)
             /\ ~on(f)
             /\ k > 1 => At(a + N - 1) = At(f)
             /\ \A j \in 0..(f - a) - 1 : on(a + j)
    <3> HIDE DEF N, W
    <3>1. ASSUME bad = {}
          PROVE  \A j \in 0..N - 1 : on(a + j) \/ (j = 3 /\ a % 4 = 1 /\ N = 4)
      <4>1. Clear(t, W, a, N)
        BY <2>2, <3>1, Denials
      <4> QED
        BY <4>1 DEF Clear
    <3>2. ASSUME bad # {}
          PROVE  /\ k \in 1..4 /\ f \in Int /\ (k = 1 <=> f = a) /\ ~on(f)
                 /\ k > 1 => At(a + N - 1) = At(f)
      BY <2>2, <3>2, Denials
    <3>4. ASSUME bad # {} PROVE f - a \in 0..N - 1
      BY <2>2, <3>4, Denials
    <3>3. ASSUME bad # {} PROVE  \A j \in 0..(f - a) - 1 : on(a + j)
      BY <2>2, <3>3, Denials
    <3> QED
      BY <3>1, <3>2, <3>3, <3>4
  <2> HIDE DEF N, p, bad, k, f, on
  <2>4. /\ n \in 0..N /\ n \in Nat
        /\ \A j \in 0..n - 1 : on(a + j) \/ (j = 3 /\ a % 4 = 1 /\ n = 4)
    <3>1. CASE bad = {}
      BY <2>2, <2>3, <3>1
    <3>2. CASE bad # {}
      BY <2>2, <2>3, <3>2
    <3> QED
      BY <3>1, <3>2
  <2>5. bad # {} /\ k = 1 => n = 0
    BY <2>3
  <2> HIDE DEF n
  <2>6. SubSeq(v, 1, n) \in Seq(Byte) /\ Len(SubSeq(v, 1, n)) = n
    <3>1. n \in 0..Len(v) /\ 1 <= n + 1 /\ (n - 1) + 1 = n /\ 1 \in Nat /\ 1 >= 1
      BY <2>4 DEF N
    <3> QED
      BY <3>1, PiecesAre, Zenon
  <2>7. m \in [Memory -> Byte] /\ (n = 0 => m = t.mem)
    <3>1. t.mem \in [Memory -> Byte]
      BY <2>2 DEF State
    <3> QED
      BY <2>2, <2>6, <3>1, PutIs
  <2>8. S \subseteq Memory
    BY <2>2, <2>4, RangeIs DEF State
  <2>9. Fine(S, t, TRUE)
    BY <2>4, TouchedMore DEF Good, Safe, on
  <2> HIDE DEF m, S
  <2>10. /\ w \in State /\ Kept(t, w) /\ w.v = t.v /\ w.u = t.u /\ w.fault = t.fault
         /\ w.mem = m /\ w.rd = t.rd /\ w.wr = S /\ w.ssw = t.ssw
    BY <2>2, <2>7, <2>8 DEF State, Kept
  <2> HIDE DEF w
  <2>11. Safe(w)
    BY <2>9, <2>10 DEF Good, Safe, Fine, Permits, Kept
  <2>12. CASE bad = {}
    <3>1. r = w /\ ~r.fault
      BY <1>2, <2>1, <2>10, <2>12
    <3>2. Good(r)
      BY <2>11, <3>1 DEF Good
    <3> QED
      BY <1>2, <2>10, <3>1, <3>2 DEF Writes
  <2>13. CASE bad # {}
    <3>1. r = Raise(w, x)
      BY <2>1, <2>13
    <3>2. x \in Ssw /\ x.read = FALSE /\ x.MA = (k > 1) /\ x.addr = Wrap(a) /\ x.n = N
      <4>1. t.lock \in BOOLEAN /\ (k > 1) \in BOOLEAN
        BY <2>2, <2>3, <2>13 DEF State
      <4> QED
        BY <2>2, <4>1 DEF Record, Ssw
    <3> HIDE DEF x
    <3>3. Named(x) = At(f)
      <4>1. Named(x) = IF x.MA THEN At(a + N - 1) ELSE At(a)
        BY <2>2, <3>2, NamedIs
      <4>2. CASE k > 1
        BY <2>3, <2>13, <3>2, <4>1, <4>2
      <4>3. CASE ~(k > 1)
        <5>1. k = 1 /\ f = a
          BY <2>3, <2>13, <4>3
        <5> QED
          BY <3>2, <4>1, <4>3, <5>1
      <4> QED
        BY <4>2, <4>3
    <3>4. w.perm[Named(x)] \notin Needed(x)
      BY <2>3, <2>10, <2>13, <3>2, <3>3 DEF Permits, Needed, Kept, on
    <3> DEFINE y == Raise(w, x)
    <3>5. /\ Good(y) /\ Kept(w, y) /\ y.mem = w.mem /\ y.v = w.v /\ y.u = w.u /\ y.fault
          /\ y.ssw = x
      <4>1. Named(x) \in 0..Pages
        BY <2>3, <2>13, <3>3, PagesAre
      <4> QED
        BY <2>11, <3>2, <3>4, <4>1, RaiseGood
    <3> HIDE DEF y
    <3>6. r = y
      BY <3>1 DEF y
    <3> HIDE DEF r
    <3>7. Kept(t, r)
      BY <2>10, <3>5, <3>6 DEF Kept
    <3>8. r.mem = t.mem \/ (~r.ssw.read /\ r.ssw.MA)
      <4>1. CASE k > 1
        BY <3>2, <3>5, <3>6, <4>1
      <4>2. CASE ~(k > 1)
        <5>1. k = 1
          BY <2>3, <2>13, <4>2
        <5> QED
          BY <2>5, <2>7, <2>10, <2>13, <3>5, <3>6, <5>1
      <4> QED
        BY <4>1, <4>2
    <3> QED
      BY <1>2, <2>10, <2>13, <3>5, <3>6, <3>7, <3>8 DEF bad, p, N, r, Writes
  <2> QED
    BY <2>12, <2>13
<1> QED
  BY <1>1, <1>2

-----------------------------------------------------------------------------
(* Accesses as the handlers call them, and effective addresses.            *)

\* A read by a handler, after a fault or not.
LEMMA ReadOk ==
  ASSUME NEW t, Good(t), NEW a \in Int, NEW n \in Sizes
  PROVE  /\ Reads(t, Read(t, a, n), n)
         /\ ~Read(t, a, n).fault => Denied(t, Parts(a, n), t.lock) = {}
<1> DEFINE w == t.lock
           other == FALSE
           r == ReadIn(t, a, n, w, 0, other)
<1>1. w \in BOOLEAN /\ (w => t.lock) /\ 0 \in 0..3 /\ other \in BOOLEAN
  BY DEF Good, Safe, State
<1>2. Read(t, a, n) = r
  BY DEF Read
<1> HIDE DEF w, other
<1>3. Reads(t, r, n) /\ (~r.fault => Denied(t, Parts(a, n), w) = {})
  BY <1>1, ReadGood
<1> HIDE DEF r
<1> QED
  BY <1>2, <1>3 DEF w

\* A write by a handler, of any kind of transfer.
LEMMA WriteInOk ==
  ASSUME NEW t, Good(t), NEW a \in Int, NEW v \in Seq(Byte), Len(v) \in Sizes,
         NEW tt \in 0..3, NEW other \in BOOLEAN
  PROVE  Writes(t, WriteIn(t, a, v, tt, other))
  BY WriteGood

\* A write by a handler.
LEMMA WriteOk ==
  ASSUME NEW t, Good(t), NEW a \in Int, NEW v \in Seq(Byte), Len(v) \in Sizes
  PROVE  /\ Writes(t, Write(t, a, v))
         /\ ~t.fault /\ Denied(t, Parts(a, Len(v)), TRUE) = {} => ~Write(t, a, v).fault
<1> DEFINE other == FALSE
           r == WriteIn(t, a, v, 0, other)
<1>1. 0 \in 0..3 /\ other \in BOOLEAN
  OBVIOUS
<1>2. Write(t, a, v) = r
  BY DEF Write
<1> HIDE DEF other
<1>3. Writes(t, r) /\ (~t.fault /\ Denied(t, Parts(a, Len(v)), TRUE) = {} => ~r.fault)
  BY <1>1, WriteGood
<1> HIDE DEF r
<1> QED
  BY <1>2, <1>3

\* r: what FETCH makes of t.
Fetched(t, r) ==
  /\ Good(r) /\ Calm(t, r) /\ r.A = t.A /\ r.lock = t.lock /\ r.EA = t.EA /\ r.a = t.a
  /\ r.fault \/ r = t
  /\ t.fault => r = t

\* Fetch keeps all of it.
LEMMA FetchOk == ASSUME NEW t, Good(t) PROVE Fetched(t, Fetch(t))
<1> DEFINE r == Fetch(t)
<1>1. Good(r) /\ Kept(t, r) /\ r.mem = t.mem /\ (r.fault \/ r = t) /\ (t.fault => r = t)
  BY FetchGood
<1> HIDE DEF r
<1>2. Fetched(t, r)
  BY <1>1 DEF Fetched, Kept, Calm
<1> QED
  BY <1>2 DEF r

\* An operand in memory, an operand that can be written, any operand.
InPlace(e) == e.mode \in InMemory /\ e.reg \in {0, 1, 7}
\* An operand that can be written.
Place(e) == InPlace(e) \/ e.mode = "reg"
\* An operand that can be read.
Source(e) == Place(e) \/ e.mode = "imm"

\* r: what ea_getaddr makes of t.
Located(t, r, e) ==
  /\ Good(r) /\ Calm(t, r) /\ r.lock = t.lock /\ r.EA = t.EA
  /\ r.A = t.A \/ Steps(e)
  /\ t.fault => r = t
  /\ ~r.fault => ~t.fault /\ r.v = t.v /\ r.u = t.u

\* ea_getaddr faults before it has changed anything but the stepped register.
LEMMA GetAddrOk ==
  ASSUME NEW t, Good(t), NEW e, InPlace(e), NEW n \in {0, 1, 2, 4}
  PROVE  Located(t, GetAddr(t, e, n), e)
<1> DEFINE an == t.A[e.reg]
           f == Fetch(t)
           p == Read(f, an, 4)
           k == Step(e, n)
           r == GetAddr(t, e, n)
<1>1. t \in State /\ an \in Memory /\ an \in Int /\ k \in Nat /\ t.A \in [{0, 1, 7} -> Memory]
  BY SizeIs DEF Good, Safe, State, InPlace, Memory, Step
<1>2. Fetched(t, f)
  BY FetchOk
<1>3. 4 \in Sizes
  BY DEF Sizes
<1>4. Reads(f, p, 4)
  BY <1>1, <1>2, <1>3, ReadOk DEF Fetched
<1>5. \A d \in Int : Wrap(an + d) \in Memory
  BY <1>1, Wrapped
<1>6. CASE t.fault
  <2>1. f = t /\ p = t
    BY <1>2, <1>4, <1>6 DEF Fetched, Reads
  <2>2. r = t
    BY <1>6, <2>1 DEF GetAddr, Go, InPlace, InMemory, Control
  <2> QED
    BY <1>6, <2>2 DEF Located, Calm
<1>7. CASE ~t.fault /\ e.mode = "base"
  <2>1. r = [t EXCEPT !.a = an]
    BY <1>7 DEF GetAddr, Go
  <2> HIDE DEF an, r
  <2>2. r \in State /\ Calm(t, r) /\ r.lock = t.lock /\ r.EA = t.EA /\ r.A = t.A /\ r.v = t.v /\ r.u = t.u
        /\ r.perm = t.perm /\ r.rd = t.rd /\ r.wr = t.wr /\ r.fault = t.fault /\ r.ssw = t.ssw
    BY <1>1, <2>1 DEF State, Calm
  <2>3. Good(r)
    BY <2>2, Aside
  <2>4. Located(t, r, e)
    BY <1>7, <2>2, <2>3 DEF Located
  <2> QED
    BY <2>4 DEF r
<1>8. CASE ~t.fault /\ e.mode = "incr"
  <2> DEFINE x == Wrap(an + k)
             B == [t.A EXCEPT ![e.reg] = x]
  <2>1. r = [[t EXCEPT !.A[e.reg] = x] EXCEPT !.a = an]
    BY <1>8 DEF GetAddr, Go
  <2>2. B \in [{0, 1, 7} -> Memory]
    BY <1>1, <1>5 DEF InPlace
  <2>3. r = [[t EXCEPT !.A = B] EXCEPT !.a = an]
    BY <2>1
  <2> HIDE DEF an, r, B
  <2>4. r \in State /\ Calm(t, r) /\ r.lock = t.lock /\ r.EA = t.EA /\ r.v = t.v /\ r.u = t.u
        /\ r.perm = t.perm /\ r.rd = t.rd /\ r.wr = t.wr /\ r.fault = t.fault /\ r.ssw = t.ssw
    BY <1>1, <2>2, <2>3 DEF State, Calm
  <2>5. Good(r)
    BY <2>4, Aside
  <2>6. Located(t, r, e)
    BY <1>8, <2>4, <2>5 DEF Located, Steps
  <2> QED
    BY <2>6 DEF r
<1>9. CASE ~t.fault /\ e.mode = "decr"
  <2> DEFINE x == Wrap(an + (0 - k))
             B == [t.A EXCEPT ![e.reg] = x]
             d == [t EXCEPT !.A[e.reg] = x]
  <2>1. d.fault = t.fault /\ d.A[e.reg] = x
    BY <1>1 DEF State, InPlace
  <2>2. r = [d EXCEPT !.a = d.A[e.reg]]
    BY <1>9, <2>1 DEF GetAddr, Go
  <2>3. B \in [{0, 1, 7} -> Memory] /\ x \in Memory
    BY <1>1, <1>5 DEF InPlace
  <2>4. r = [[t EXCEPT !.A = B] EXCEPT !.a = x]
    BY <2>1, <2>2
  <2> HIDE DEF an, r, B, x
  <2>5. r \in State /\ Calm(t, r) /\ r.lock = t.lock /\ r.EA = t.EA /\ r.v = t.v /\ r.u = t.u
        /\ r.perm = t.perm /\ r.rd = t.rd /\ r.wr = t.wr /\ r.fault = t.fault /\ r.ssw = t.ssw
    BY <1>1, <2>3, <2>4 DEF State, Calm
  <2>6. Good(r)
    BY <2>5, Aside
  <2>7. Located(t, r, e)
    BY <1>9, <2>5, <2>6 DEF Located, Steps
  <2> QED
    BY <2>7 DEF r
<1>10. CASE ~t.fault /\ e.mode = "disp"
  <2>1. CASE f.fault
    <3>1. r = f
      BY <1>10, <2>1 DEF GetAddr, Go
    <3> QED
      BY <1>2, <1>10, <2>1, <3>1 DEF Located, Fetched
  <2>2. CASE ~f.fault
    <3>1. f = t
      BY <1>2, <2>2 DEF Fetched
    <3> DEFINE x == Wrap(an + 1)
    <3>2. r = [t EXCEPT !.a = x]
      BY <1>10, <2>2, <3>1 DEF GetAddr, Go
    <3>3. x \in Memory
      BY <1>5
    <3> HIDE DEF an, r, x
    <3>4. r \in State /\ Calm(t, r) /\ r.lock = t.lock /\ r.EA = t.EA /\ r.A = t.A /\ r.v = t.v /\ r.u = t.u
          /\ r.perm = t.perm /\ r.rd = t.rd /\ r.wr = t.wr /\ r.fault = t.fault /\ r.ssw = t.ssw
      BY <1>1, <3>2, <3>3 DEF State, Calm
    <3>5. Good(r)
      BY <3>4, Aside
    <3>6. Located(t, r, e)
      BY <1>10, <3>4, <3>5 DEF Located
    <3> QED
      BY <3>6 DEF r
  <2> QED
    BY <2>1, <2>2
<1>11. CASE ~t.fault /\ e.mode = "indirect"
  <2>1. CASE p.fault
    <3>1. r = p
      BY <1>11, <2>1 DEF GetAddr, Go
    <3> QED
      BY <1>2, <1>4, <1>11, <2>1, <3>1 DEF Located, Fetched, Reads, Calm
  <2>2. CASE ~p.fault
    <3> DEFINE x == Wrap(p.v[4])
               y == t.v
               z == t.u
    <3>1. r = [p EXCEPT !.a = x, !.v = y, !.u = z]
      BY <1>11, <2>2 DEF GetAddr, Go
    <3>2. p \in State /\ Len(p.v) = 4 /\ p.fault = FALSE /\ Calm(t, p) /\ p.A = t.A
          /\ p.lock = t.lock /\ p.EA = t.EA /\ Good(p) /\ y \in Seq(Byte) /\ z \in Seq(Byte)
      BY <1>1, <1>2, <1>4, <2>2 DEF Fetched, Reads, Calm, Good, Safe, State
    <3>3. p.v[4] \in Int
      <4> HIDE DEF p
      <4>1. p.v \in Seq(Byte) /\ 4 \in 1..Len(p.v)
        BY <3>2 DEF State
      <4>2. \A q \in Seq(Byte) : 4 \in 1..Len(q) => q[4] \in Byte
        OBVIOUS
      <4>3. p.v[4] \in Byte
        BY <4>1, <4>2, Zenon
      <4> QED
        BY <4>3 DEF Byte
    <3>4. x \in Memory
      BY <3>3, Wrapped
    <3> HIDE DEF r, x, p, y, z
    <3>5. r \in State /\ Calm(p, r) /\ r.lock = p.lock /\ r.EA = p.EA /\ r.A = p.A /\ r.v = y /\ r.u = z
          /\ r.perm = p.perm /\ r.rd = p.rd /\ r.wr = p.wr /\ r.fault = p.fault /\ r.ssw = p.ssw
      BY <3>1, <3>2, <3>4 DEF State, Calm
    <3>6. Good(r)
      BY <3>2, <3>5, Aside
    <3>7. Located(t, r, e)
      BY <1>11, <3>2, <3>5, <3>6 DEF Located, Calm, y, z
    <3> QED
      BY <3>7 DEF r
  <2> QED
    BY <2>1, <2>2
<1> QED
  BY <1>6, <1>7, <1>8, <1>9, <1>10, <1>11 DEF InPlace, InMemory, Control

-----------------------------------------------------------------------------
(* Registers, flags and arithmetic.                                        *)

\* What is denied depends on the page tables alone.
LEMMA DeniedSame == \A t, r, p, w : r.perm = t.perm => Denied(r, p, w) = Denied(t, p, w)
  BY DEF Denied, Allowed

\* A part that may not be read may not be written.
LEMMA DeniedToo ==
  ASSUME NEW t, NEW r, NEW p, r.perm = t.perm, Denied(t, p, TRUE) = {}
  PROVE  Denied(r, p, TRUE) = {}
  BY DEF Denied, Allowed

\* The bytes of a value are bytes.
LEMMA ItemIs == ASSUME NEW v \in Seq(Byte), NEW k \in 1..Len(v) PROVE v[k] \in Byte
  OBVIOUS

\* A value filled with one byte.
LEMMA FilledIs ==
  ASSUME NEW n \in Nat, NEW b \in Byte
  PROVE  [k \in 1..n |-> b] \in Seq(Byte) /\ Len([k \in 1..n |-> b]) = n
  OBVIOUS

\* The same, as long as another value.
LEMMA FilledAs ==
  ASSUME NEW v \in Seq(Byte), NEW b \in Byte
  PROVE  [k \in DOMAIN v |-> b] \in Seq(Byte) /\ Len([k \in DOMAIN v |-> b]) = Len(v)
  OBVIOUS

\* r: t with a value or condition codes computed.
Settled(t, r) ==
  /\ Good(r) /\ r.fault = t.fault /\ (t.fault => r = t)
  /\ r.A = t.A /\ r.D = t.D /\ r.PC = t.PC /\ r.dc = t.dc /\ r.mem = t.mem /\ r.perm = t.perm
  /\ r.lock = t.lock /\ r.EA = t.EA /\ r.a = t.a /\ r.u = t.u /\ Len(r.v) = Len(t.v)

\* Setting the condition codes.
LEMMA FlagsOk ==
  ASSUME NEW t, Good(t), NEW v, ~t.fault => v \in Seq(Byte)
  PROVE  Settled(t, Flags(t, v)) /\ Flags(t, v).X = t.X /\ Flags(t, v).v = t.v
<1> DEFINE r == Flags(t, v)
<1>1. CASE t.fault
  <2>1. r = t
    BY <1>1 DEF Flags, Go
  <2> QED
    BY <2>1 DEF Settled
<1>2. CASE ~t.fault
  <2>1. r = [t EXCEPT !.NZVC = v] /\ t \in State /\ v \in Seq(Byte)
    BY <1>2 DEF Flags, Go, Good, Safe
  <2> HIDE DEF r
  <2>2. r \in State /\ Calm([t EXCEPT !.NZVC = v], r) /\ r.A = t.A /\ r.lock = t.lock /\ r.EA = t.EA /\ r.a = t.a
        /\ r.v = t.v /\ r.u = t.u /\ r.rd = t.rd /\ r.wr = t.wr /\ r.ssw = t.ssw /\ r.fault = t.fault
        /\ r.perm = t.perm /\ r.D = t.D /\ r.PC = t.PC /\ r.dc = t.dc /\ r.mem = t.mem /\ r.X = t.X
    BY <2>1 DEF State, Calm
  <2>3. Good(r)
    BY <2>2, Aside
  <2>4. Settled(t, r) /\ r.X = t.X /\ r.v = t.v
    BY <1>2, <2>2, <2>3 DEF Settled
  <2> QED
    BY <2>4 DEF r
<1> QED
  BY <1>1, <1>2

\* An operation on two operands that leaves X.
LEMMA Alu2Ok ==
  ASSUME NEW t, Good(t), NEW w, ~t.fault => w \in Seq(Byte) /\ Len(w) >= Len(t.v)
  PROVE  Settled(t, Alu2(t, w)) /\ Alu2(t, w).X = t.X
<1> DEFINE r == Alu2(t, w)
           x == Res(t.v, w)
<1>1. CASE t.fault
  <2>1. r = t
    BY <1>1 DEF Alu2, Go
  <2> QED
    BY <2>1 DEF Settled
<1>2. CASE ~t.fault
  <2>1. r = [t EXCEPT !.v = x, !.NZVC = x] /\ t \in State /\ t.v \in Seq(Byte)
    BY <1>2 DEF Alu2, Go, Good, Safe, State
  <2>2. x \in Seq(Byte) /\ Len(x) = Len(t.v)
    BY <1>2, <2>1, ResAre
  <2> HIDE DEF r, x
  <2>3. r \in State /\ r.A = t.A /\ r.lock = t.lock /\ r.EA = t.EA /\ r.a = t.a
        /\ r.v = x /\ r.u = t.u /\ r.rd = t.rd /\ r.wr = t.wr /\ r.ssw = t.ssw /\ r.fault = t.fault
        /\ r.perm = t.perm /\ r.D = t.D /\ r.PC = t.PC /\ r.dc = t.dc /\ r.mem = t.mem /\ r.X = t.X
    BY <2>1, <2>2 DEF State
  <2>4. Good(r)
    BY <2>3, Aside
  <2>5. Settled(t, r) /\ r.X = t.X
    BY <1>2, <2>2, <2>3, <2>4 DEF Settled
  <2> QED
    BY <2>5 DEF r
<1> QED
  BY <1>1, <1>2

\* An operation that sets X.
LEMMA AluXOk ==
  ASSUME NEW t, Good(t), NEW w, ~t.fault => w \in Seq(Byte) /\ Len(w) >= Len(t.v) /\ Len(t.v) >= 1
  PROVE  Settled(t, AluX(t, w))
<1> DEFINE r == AluX(t, w)
           y == Res(t.v, w)
           z == [k \in DOMAIN t.v |-> t.X]
           x == Res(y, z)
           b == x[1]
<1>1. CASE t.fault
  <2>1. r = t
    BY <1>1 DEF AluX, Go
  <2> QED
    BY <2>1 DEF Settled
<1>2. CASE ~t.fault
  <2>1. r = [t EXCEPT !.v = x, !.NZVC = x, !.X = b]
    BY <1>2 DEF AluX, Go
  <2>2. t \in State /\ t.v \in Seq(Byte) /\ t.X \in Byte
    BY DEF Good, Safe, State
  <2>3. y \in Seq(Byte) /\ Len(y) = Len(t.v)
    BY <1>2, <2>2, ResAre
  <2>4. z \in Seq(Byte) /\ Len(z) = Len(t.v)
    BY <2>2, FilledAs
  <2> HIDE DEF y, z
  <2>5. x \in Seq(Byte) /\ Len(x) = Len(t.v)
    <3>1. Len(z) >= Len(y)
      BY <2>3, <2>4
    <3> QED
      BY <2>3, <2>4, <3>1, ResAre
  <2> HIDE DEF x
  <2>6. b \in Byte
    <3>1. 1 \in 1..Len(x)
      BY <1>2, <2>2, <2>5
    <3> QED
      BY <2>5, <3>1, ItemIs
  <2> HIDE DEF r, b
  <2>7. r \in State /\ r.A = t.A /\ r.lock = t.lock /\ r.EA = t.EA /\ r.a = t.a
        /\ r.v = x /\ r.u = t.u /\ r.rd = t.rd /\ r.wr = t.wr /\ r.ssw = t.ssw /\ r.fault = t.fault
        /\ r.perm = t.perm /\ r.D = t.D /\ r.PC = t.PC /\ r.dc = t.dc /\ r.mem = t.mem
    BY <2>1, <2>2, <2>5, <2>6 DEF State
  <2>8. Good(r)
    BY <2>7, Aside
  <2>9. Settled(t, r)
    BY <1>2, <2>5, <2>7, <2>8 DEF Settled
  <2> QED
    BY <2>9 DEF r
<1> QED
  BY <1>1, <1>2

\* A value goes to the data register.
LEMMA InRegOk ==
  ASSUME NEW t, Good(t), NEW v \in Seq(Byte), Len(v) \in Sizes
  PROVE  Good(InReg(t, v)) /\ InReg(t, v).fault = t.fault /\ InReg(t, v).perm = t.perm
<1> DEFINE r == InReg(t, v)
           h == SubSeq(t.D, 1, 4 - Len(v))
           d == h \o v
<1>1. t \in State /\ t.D \in Seq(Byte) /\ Len(t.D) = 4 /\ Len(v) \in 1..4
  BY DEF Good, Safe, State, Long, Sizes
<1>2. h \in Seq(Byte) /\ Len(h) = 4 - Len(v)
  <2> DEFINE m == 4 - Len(v)
  <2>1. m \in 0..3
    <3>1. \A k \in 1..4 : 4 - k \in 0..3
      OBVIOUS
    <3> QED
      BY <1>1, <3>1, Zenon
  <2> HIDE DEF m
  <2>2. m \in 0..Len(t.D) /\ 1 <= m + 1 /\ (m - 1) + 1 = m /\ 1 \in Nat /\ 1 >= 1
    BY <1>1, <2>1
  <2>3. SubSeq(t.D, 1, m) \in Seq(Byte) /\ Len(SubSeq(t.D, 1, m)) = m
    BY <1>1, <2>2, PiecesAre, Zenon
  <2> QED
    BY <2>3 DEF m
<1>3. r = [t EXCEPT !.D = d]
  BY DEF InReg
<1> HIDE DEF h, r
<1>4. d \in Long
  <2>1. d \in Seq(Byte) /\ Len(d) = Len(h) + Len(v)
    BY <1>2, JoinedAre
  <2> QED
    BY <1>1, <1>2, <2>1 DEF Long
<1> HIDE DEF d
<1>5. r \in State /\ r.perm = t.perm /\ r.rd = t.rd /\ r.wr = t.wr /\ r.fault = t.fault /\ r.ssw = t.ssw
  BY <1>1, <1>3, <1>4 DEF State
<1>6. Good(r)
  BY <1>5, Aside
<1> QED
  BY <1>5, <1>6 DEF r

\* The low bytes of a data register.
LEMMA DnIs ==
  ASSUME NEW t, Good(t), NEW n \in Sizes
  PROVE  Dn(t, n) \in Seq(Byte) /\ Len(Dn(t, n)) = n
<1>1. t.D \in Seq(Byte) /\ Len(t.D) = 4 /\ n \in {1, 2, 4}
  BY DEF Good, Safe, State, Long, Sizes
<1>2. 4 \in 0..Len(t.D) /\ 5 - n \in Nat /\ 5 - n >= 1 /\ 5 - n <= 4 + 1 /\ (4 - (5 - n)) + 1 = n
  BY <1>1
<1> QED
  BY <1>1, <1>2, PiecesAre, Zenon DEF Dn

-----------------------------------------------------------------------------
(* Operands: ea_read and ea_write.                                         *)

\* What follows a fault is not done.
LEMMA Passed == ASSUME NEW t, t.fault, NEW a, NEW v PROVE Write(t, a, v) = t
<1>1. ASSUME NEW tt, NEW other PROVE WriteIn(t, a, v, tt, other) = t
  BY DEF WriteIn, Go
<1> QED
  BY <1>1 DEF Write

\* x: t with the address that was computed as the effective address, or a fault.
LEMMA AimOk ==
  ASSUME NEW t, Good(t)
  PROVE  LET x == Go(t, [t EXCEPT !.EA = t.a]) IN
         /\ Good(x) /\ Calm(t, x) /\ x.A = t.A /\ x.lock = t.lock /\ x.v = t.v /\ x.u = t.u
         /\ x.fault = t.fault /\ (t.fault => x = t) /\ x.EA \in Memory /\ x.a = t.a
<1> DEFINE x == Go(t, [t EXCEPT !.EA = t.a])
<1>1. t \in State /\ t.a \in Memory /\ t.EA \in Memory
  BY DEF Good, Safe, State
<1>2. CASE t.fault
  <2>1. x = t
    BY <1>2 DEF Go
  <2> HIDE DEF x
  <2>2. x.EA \in Memory
    BY <1>1, <2>1
  <2>3. Calm(t, x)
    BY <2>1 DEF Calm
  <2> QED
    BY <2>1, <2>2, <2>3 DEF x
<1>3. CASE ~t.fault
  <2> DEFINE b == t.a
  <2>1. x = [t EXCEPT !.EA = b] /\ b \in Memory
    BY <1>1, <1>3 DEF Go
  <2> HIDE DEF x, b
  <2>2. x \in State /\ Calm(t, x) /\ x.A = t.A /\ x.lock = t.lock /\ x.EA = b /\ x.v = t.v /\ x.u = t.u
        /\ x.perm = t.perm /\ x.rd = t.rd /\ x.wr = t.wr /\ x.fault = t.fault /\ x.ssw = t.ssw /\ x.a = t.a
    BY <1>1, <2>1 DEF State, Calm
  <2>3. Good(x)
    BY <2>2, Aside
  <2> QED
    BY <1>3, <2>1, <2>2, <2>3 DEF x
<1> QED
  BY <1>2, <1>3

\* r: what ea_read of n bytes makes of t. Under the lock the operand can be written.
Loaded(t, r, e, n, lk) ==
  /\ Good(r) /\ Calm(t, r) /\ (r.A = t.A \/ Steps(e)) /\ (t.fault => r = t)
  /\ ~r.fault =>
       /\ ~t.fault /\ Len(r.v) = n
       /\ r.lock = IF e.mode \in InMemory THEN lk ELSE t.lock
       /\ e.mode \in InMemory /\ lk => Denied(r, Parts(r.EA, n), TRUE) = {}

\* ea_read, of a register, an immediate or memory.
LEMMA EaReadOk ==
  ASSUME NEW t, Good(t), NEW e, Source(e), NEW n \in Sizes, NEW lk \in BOOLEAN
  PROVE  Loaded(t, EaRead(t, e, n, lk), e, n, lk)
<1> DEFINE r == EaRead(t, e, n, lk)
<1>0. n \in {0, 1, 2, 4} /\ n \in Nat /\ t \in State /\ t.v \in Seq(Byte)
  BY DEF Sizes, Good, Safe, State
<1>1. CASE e.mode = "reg"
  <2> DEFINE d == Dn(t, n)
             w == t.v
  <2>1. e.mode \notin InMemory
    BY <1>1 DEF InMemory, Control
  <2>2. CASE t.fault
    <3>1. r = t
      BY <1>1, <2>2 DEF EaRead, Go
    <3> QED
      BY <2>2, <3>1 DEF Loaded, Calm
  <2>3. CASE ~t.fault
    <3>1. r = [t EXCEPT !.u = w, !.v = d]
      BY <1>1, <2>3 DEF EaRead, Go, Dn
    <3>2. d \in Seq(Byte) /\ Len(d) = n
      BY DnIs
    <3>3. w \in Seq(Byte)
      BY <1>0
    <3> HIDE DEF r, d, w
    <3>4. r \in State /\ Calm(t, r) /\ r.A = t.A /\ r.v = d /\ r.lock = t.lock
          /\ r.perm = t.perm /\ r.rd = t.rd /\ r.wr = t.wr /\ r.fault = t.fault /\ r.ssw = t.ssw
      BY <1>0, <3>1, <3>2, <3>3 DEF State, Calm
    <3>5. Good(r)
      BY <3>4, Aside
    <3>6. Loaded(t, r, e, n, lk)
      BY <2>1, <2>3, <3>2, <3>4, <3>5 DEF Loaded
    <3> QED
      BY <3>6 DEF r
  <2> QED
    BY <2>2, <2>3
<1>2. CASE e.mode = "imm"
  <2> DEFINE f == Fetch(t)
             d == [k \in 1..n |-> 9]
             w == t.v
  <2>1. e.mode \notin InMemory
    BY <1>2 DEF InMemory, Control
  <2>2. Fetched(t, f)
    BY FetchOk
  <2>3. CASE f.fault
    <3>1. r = f
      BY <1>2, <2>3 DEF EaRead, Go
    <3> QED
      BY <2>2, <2>3, <3>1 DEF Loaded, Fetched
  <2>4. CASE ~f.fault
    <3>1. f = t /\ ~t.fault
      BY <2>2, <2>4 DEF Fetched
    <3>2. r = [t EXCEPT !.u = w, !.v = d]
      BY <1>2, <2>4, <3>1 DEF EaRead, Go
    <3>3. d \in Seq(Byte) /\ Len(d) = n
      <4>1. 9 \in Byte
        BY DEF Byte
      <4> QED
        BY <1>0, <4>1, FilledIs
    <3>4. w \in Seq(Byte)
      BY <1>0
    <3> HIDE DEF r, d, w
    <3>5. r \in State /\ Calm(t, r) /\ r.A = t.A /\ r.v = d /\ r.lock = t.lock
          /\ r.perm = t.perm /\ r.rd = t.rd /\ r.wr = t.wr /\ r.fault = t.fault /\ r.ssw = t.ssw
      BY <1>0, <3>2, <3>3, <3>4 DEF State, Calm
    <3>6. Good(r)
      BY <3>5, Aside
    <3>7. Loaded(t, r, e, n, lk)
      BY <2>1, <3>1, <3>3, <3>5, <3>6 DEF Loaded
    <3> QED
      BY <3>7 DEF r
  <2> QED
    BY <2>3, <2>4
<1>3. CASE InPlace(e)
  <2> DEFINE g == GetAddr(t, e, n)
             b == g.a
             x == [g EXCEPT !.EA = b, !.lock = lk]
             y == Read(x, b, n)
  <2>1. Located(t, g, e)
    BY <1>0, <1>3, GetAddrOk
  <2>2. e.mode \in InMemory /\ e.mode # "reg" /\ e.mode # "imm"
    BY <1>3 DEF InPlace, InMemory, Control
  <2>3. r = Go(g, y)
    BY <2>2 DEF EaRead
  <2> HIDE DEF g
  <2>4. CASE g.fault
    <3>1. r = g
      BY <2>3, <2>4 DEF Go
    <3> QED
      BY <2>1, <2>4, <3>1 DEF Loaded, Located
  <2>5. CASE ~g.fault
    <3>1. r = y
      BY <2>3, <2>5 DEF Go
    <3>2. Good(g) /\ Calm(t, g) /\ (g.A = t.A \/ Steps(e)) /\ ~t.fault
      BY <2>1, <2>5 DEF Located
    <3>3. g \in State /\ b \in Memory
      BY <3>2 DEF Good, Safe, State
    <3> HIDE DEF b
    <3>4. x \in State /\ Calm(g, x) /\ x.A = g.A /\ x.EA = b /\ x.lock = lk
          /\ x.perm = g.perm /\ x.rd = g.rd /\ x.wr = g.wr /\ x.fault = g.fault /\ x.ssw = g.ssw
      BY <3>3 DEF State, Calm
    <3> HIDE DEF x
    <3>5. Good(x)
      BY <3>2, <3>4, Aside
    <3>6. b \in Int
      BY <3>3, SizeIs DEF Memory
    <3>7. Reads(x, y, n) /\ (~y.fault => Denied(x, Parts(b, n), x.lock) = {})
      BY <3>5, <3>6, ReadOk
    <3> HIDE DEF y
    <3>8. ~y.fault /\ lk => Denied(y, Parts(y.EA, n), TRUE) = {}
      <4> SUFFICES ASSUME ~y.fault, lk PROVE Denied(y, Parts(y.EA, n), TRUE) = {}
        OBVIOUS
      <4>1. y.EA = b /\ y.perm = x.perm /\ Denied(x, Parts(b, n), x.lock) = {} /\ x.lock = TRUE
        BY <3>4, <3>7 DEF Reads, Calm
      <4>2. y.perm = x.perm
        BY <4>1
      <4>3. Denied(y, Parts(b, n), x.lock) = Denied(x, Parts(b, n), x.lock)
        BY <4>2, DeniedSame
      <4> QED
        BY <4>1, <4>3, Zenon
    <3>9. Loaded(t, y, e, n, lk)
      <4>1. Good(y) /\ Calm(t, y) /\ (y.A = t.A \/ Steps(e)) /\ (~y.fault => Len(y.v) = n /\ y.lock = lk)
        BY <3>2, <3>4, <3>7 DEF Reads, Calm
      <4> QED
        BY <2>2, <3>2, <3>8, <4>1 DEF Loaded
    <3> QED
      BY <3>1, <3>9
  <2> QED
    BY <2>4, <2>5
<1> QED
  BY <1>1, <1>2, <1>3 DEF Source, Place

\* r: what ea_write makes of t, which is not locked, or locked on an operand that
\* can be written.
Stored(t, r, e) ==
  /\ Good(r) /\ r.perm = t.perm /\ (t.fault => r = t)
  /\ ~t.fault /\ r.fault =>
       /\ e.mode \in InMemory /\ ~t.lock
       /\ r.D = t.D /\ r.X = t.X /\ r.NZVC = t.NZVC /\ r.PC = t.PC /\ r.dc = t.dc
       /\ r.A = t.A \/ Steps(e)
       /\ r.mem = t.mem \/ (~r.ssw.read /\ r.ssw.MA)

\* ea_write, of a register or memory, gives the bus free.
LEMMA EaWriteOk ==
  ASSUME NEW t, Good(t), NEW e, Place(e), ~t.fault => Len(t.v) \in Sizes,
         ~t.fault /\ t.lock /\ e.mode \in InMemory => Denied(t, Parts(t.EA, Len(t.v)), TRUE) = {}
  PROVE  Stored(t, EaWrite(t, e), e)
<1> DEFINE r == EaWrite(t, e)
           W == TRUE
<1>0. t \in State /\ t.v \in Seq(Byte) /\ t.EA \in Memory /\ t.EA \in Int
  BY SizeIs DEF Good, Safe, State, Memory
<1>1. CASE t.fault
  <2>1. r = t
    BY <1>1 DEF EaWrite, Go
  <2> QED
    BY <1>1, <2>1 DEF Stored
<1>2. CASE ~t.fault /\ e.mode = "reg"
  <2> DEFINE x == InReg(t, t.v)
  <2>1. r = x
    BY <1>2 DEF EaWrite, Go
  <2>2. Good(x) /\ x.fault = t.fault /\ x.perm = t.perm
    BY <1>0, <1>2, InRegOk
  <2> HIDE DEF x
  <2> QED
    BY <1>2, <2>1, <2>2 DEF Stored
<1>3. CASE ~t.fault /\ InPlace(e)
  <2> DEFINE n == Len(t.v)
             g == GetAddr(t, e, n)
             h == Go(g, [g EXCEPT !.EA = g.a])
             x == IF t.lock THEN t ELSE h
             w == Write(x, x.EA, x.v)
  <2>1. e.mode \in InMemory /\ e.mode # "reg"
    BY <1>3 DEF InPlace, InMemory, Control
  <2>2. r = Go(w, [w EXCEPT !.lock = FALSE])
    BY <1>3, <2>1 DEF EaWrite, Go
  <2>3. n \in {0, 1, 2, 4} /\ n \in Sizes
    BY <1>3 DEF Sizes
  <2>4. Located(t, g, e)
    BY <1>3, <2>3, GetAddrOk
  <2> HIDE DEF g
  <2>5. /\ Good(h) /\ Calm(g, h) /\ h.A = g.A /\ h.lock = g.lock /\ h.v = g.v
        /\ h.fault = g.fault /\ (g.fault => h = g) /\ h.EA \in Memory
    <3>1. Good(g)
      BY <2>4 DEF Located
    <3> QED
      BY <3>1, AimOk
  <2> HIDE DEF h
  <2>6. /\ Good(x) /\ Calm(t, x) /\ (x.A = t.A \/ Steps(e)) /\ x.lock = t.lock /\ x.EA \in Memory
        /\ ~x.fault => x.v = t.v
        /\ t.lock => x = t
    <3>1. CASE t.lock
      <4>1. x = t
        BY <3>1
      <4> HIDE DEF x
      <4>2. Calm(t, x) /\ x.EA \in Memory
        BY <1>0, <4>1 DEF Calm
      <4> QED
        BY <4>1, <4>2
    <3>2. CASE ~t.lock
      <4>1. x = h
        BY <3>2
      <4> HIDE DEF x
      <4> QED
        BY <2>4, <2>5, <3>2, <4>1 DEF Calm, Located
    <3> QED
      BY <3>1, <3>2
  <2> HIDE DEF x
  <2>7. CASE x.fault
    <3>0. w = x
      BY <2>7, Passed
    <3>1. r = x
      BY <2>2, <2>7, <3>0 DEF Go
    <3>2. ~t.lock
      BY <1>3, <2>6, <2>7
    <3>3. Stored(t, x, e)
      BY <1>3, <2>1, <2>6, <2>7, <3>2 DEF Stored, Calm
    <3> QED
      BY <3>1, <3>3
  <2>8. CASE ~x.fault
    <3>1. x.v \in Seq(Byte) /\ Len(x.v) = n /\ x.EA \in Int
      BY <1>0, <2>6, <2>8, SizeIs DEF Memory
    <3>2. Writes(x, w) /\ (Denied(x, Parts(x.EA, Len(x.v)), TRUE) = {} => ~w.fault)
      <4>1. Len(x.v) \in Sizes
        BY <2>3, <3>1
      <4> QED
        BY <2>6, <2>8, <3>1, <4>1, WriteOk, Zenon
    <3> HIDE DEF w, n
    <3>3. t.lock => ~w.fault
      <4> SUFFICES ASSUME t.lock PROVE ~w.fault
        OBVIOUS
      <4>1. x = t
        BY <2>6
      <4>2. Denied(x, Parts(x.EA, Len(x.v)), TRUE) = {}
        BY <1>3, <2>1, <4>1, Zenon
      <4> QED
        BY <3>2, <4>2, Zenon
    <3>4. CASE w.fault
      <4>1. r = w
        BY <2>2, <3>4 DEF Go
      <4>2. Good(w) /\ Kept(x, w) /\ (w.mem = x.mem \/ (~w.ssw.read /\ w.ssw.MA))
        BY <2>8, <3>2, <3>4 DEF Writes
      <4>3. Stored(t, w, e)
        BY <1>3, <2>1, <2>6, <3>3, <3>4, <4>2 DEF Stored, Kept, Calm
      <4> QED
        BY <4>1, <4>3
    <3>5. CASE ~w.fault
      <4>1. r = [w EXCEPT !.lock = FALSE]
        BY <2>2, <3>5 DEF Go
      <4>2. Good(w) /\ w.perm = t.perm /\ w \in State
        BY <2>6, <3>2 DEF Writes, Kept, Calm, Good, Safe
      <4> HIDE DEF r
      <4>3. r \in State /\ r.perm = w.perm /\ r.rd = w.rd /\ r.wr = w.wr /\ r.fault = w.fault /\ r.ssw = w.ssw
        BY <4>1, <4>2 DEF State
      <4>4. Good(r)
        BY <4>2, <4>3, Aside
      <4>5. Stored(t, r, e)
        BY <1>3, <3>5, <4>2, <4>3, <4>4 DEF Stored
      <4> QED
        BY <4>5 DEF r
    <3> QED
      BY <3>4, <3>5
  <2> QED
    BY <2>7, <2>8
<1> QED
  BY <1>1, <1>2, <1>3 DEF Place

-----------------------------------------------------------------------------
(* Address registers and the stack.                                        *)

\* x: t with other address registers.
Moved(t, x) ==
  /\ Good(x) /\ Calm(t, x) /\ x.lock = t.lock /\ x.EA = t.EA /\ x.a = t.a
  /\ x.u = t.u /\ x.v = t.v /\ x.fault = t.fault

\* Setting the address registers.
LEMMA MovedOk ==
  ASSUME NEW t, Good(t), NEW B \in [{0, 1, 7} -> Memory]
  PROVE  Moved(t, [t EXCEPT !.A = B])
<1> DEFINE x == [t EXCEPT !.A = B]
<1>1. t \in State
  BY DEF Good, Safe
<1>2. x \in State /\ Calm(t, x) /\ x.lock = t.lock /\ x.EA = t.EA /\ x.a = t.a
      /\ x.u = t.u /\ x.v = t.v /\ x.fault = t.fault
      /\ x.perm = t.perm /\ x.rd = t.rd /\ x.wr = t.wr /\ x.ssw = t.ssw
  BY <1>1 DEF State, Calm
<1> HIDE DEF x
<1>3. Good(x)
  BY <1>2, Aside
<1>4. Moved(t, x)
  BY <1>2, <1>3 DEF Moved
<1> QED
  BY <1>4 DEF x

\* Address registers hold addresses.
LEMMA AddressIs ==
  ASSUME NEW t, Good(t), NEW k \in {0, 1, 7}
  PROVE  t.A[k] \in Memory /\ t.A[k] \in Int /\ t.A \in [{0, 1, 7} -> Memory]
  BY SizeIs DEF Good, Safe, State, Memory

\* Adding to an address register.
LEMMA ShiftedOk ==
  ASSUME NEW t, Good(t), NEW k \in {0, 1, 7}, NEW d \in Int
  PROVE  Moved(t, [t EXCEPT !.A[k] = Wrap(@ + d)])
<1> DEFINE b == Wrap(t.A[k] + d)
           B == [t.A EXCEPT ![k] = b]
<1>1. b \in Memory
  <2>1. t.A[k] + d \in Int
    BY AddressIs
  <2> QED
    BY <2>1, Wrapped
<1>2. [t EXCEPT !.A[k] = Wrap(@ + d)] = [t EXCEPT !.A = B]
  OBVIOUS
<1> HIDE DEF b
<1>3. B \in [{0, 1, 7} -> Memory]
  BY <1>1, AddressIs
<1> HIDE DEF B
<1> QED
  BY <1>2, <1>3, MovedOk

\* Decrementing an address register.
LEMMA DecOk ==
  ASSUME NEW t, Good(t), NEW k \in {0, 1, 7}
  PROVE  Moved(t, Dec(t, k))
<1>1. CASE t.fault
  <2>1. Dec(t, k) = t
    BY <1>1 DEF Dec, Go
  <2> QED
    BY <2>1 DEF Moved, Calm
<1>2. CASE ~t.fault
  <2> DEFINE d == 0 - 1
  <2>1. d \in Int /\ t.A[k] - 1 = t.A[k] + d
    BY AddressIs
  <2>2. Dec(t, k) = [t EXCEPT !.A[k] = Wrap(@ + d)]
    BY <1>2, <2>1 DEF Dec, Go
  <2> HIDE DEF d
  <2> QED
    BY <2>1, <2>2, ShiftedOk
<1> QED
  BY <1>1, <1>2

\* r: what PUSH32 makes of t.
Pushed(t, r) ==
  /\ Good(r) /\ r.perm = t.perm /\ r.D = t.D /\ r.X = t.X /\ r.NZVC = t.NZVC /\ r.PC = t.PC
  /\ r.dc = t.dc /\ (t.fault => r = t) /\ (r.fault => r.A = t.A)

\* The halves of a long.
LEMMA HalvesAre ==
  ASSUME NEW v \in Seq(Byte), Len(v) = 4
  PROVE  /\ SubSeq(v, 3, 4) \in Seq(Byte) /\ Len(SubSeq(v, 3, 4)) = 2
         /\ SubSeq(v, 1, 2) \in Seq(Byte) /\ Len(SubSeq(v, 1, 2)) = 2
<1>1. ASSUME NEW m \in {1, 3}, NEW n \in {2, 4}, n = m + 1
      PROVE  SubSeq(v, m, n) \in Seq(Byte) /\ Len(SubSeq(v, m, n)) = 2
  <2>1. n \in 0..Len(v) /\ m \in Nat /\ m >= 1 /\ m <= n + 1 /\ (n - m) + 1 = 2
    BY <1>1
  <2> QED
    BY <2>1, PiecesAre, Zenon
<1> QED
  BY <1>1

\* A low and a high half of one word are its two bytes.
LEMMA PairIs ==
  ASSUME NEW d \in Seq(Byte), NEW e \in Seq(Byte), Len(d) = 2, Len(e) = 2
  PROVE  d \o e \in Seq(Byte) /\ Len(d \o e) = 4
<1>1. d \o e \in Seq(Byte) /\ Len(d \o e) = Len(d) + Len(e)
  BY JoinedAre, Zenon
<1>2. Len(d) + Len(e) = 4
  OBVIOUS
<1> QED
  BY <1>1, <1>2, Zenon

\* PUSH32 moves the stack pointer last.
LEMMA PushOk ==
  ASSUME NEW t, Good(t), NEW v \in Seq(Byte), Len(v) = 4
  PROVE  Pushed(t, Push32(t, v))
<1> DEFINE x == SubSeq(v, 3, 4)
           y == SubSeq(v, 1, 2)
           b == t.A[7] - 2
           c == t.A[7] - 4
           p == Write(t, b, x)
           w == Write(p, c, y)
           r == Push32(t, v)
<1>1. x \in Seq(Byte) /\ Len(x) \in Sizes /\ y \in Seq(Byte) /\ Len(y) \in Sizes
  <2>1. Len(x) = 2 /\ Len(y) = 2 /\ x \in Seq(Byte) /\ y \in Seq(Byte)
    BY HalvesAre
  <2> HIDE DEF x, y
  <2> QED
    BY <2>1 DEF Sizes
<1>2. b \in Int /\ c \in Int
  BY AddressIs
<1>3. r = Go(w, [w EXCEPT !.A[7] = Wrap(@ - 4)])
  BY DEF Push32
<1> HIDE DEF x, y, b, c
<1>4. Writes(t, p)
  BY <1>1, <1>2, WriteOk
<1> HIDE DEF p
<1>5. Good(p)
  BY <1>4 DEF Writes
<1>6. Writes(p, w)
  BY <1>1, <1>2, <1>5, WriteOk
<1> HIDE DEF w, r
<1>7. Good(w) /\ Kept(t, w) /\ (t.fault => w = t /\ w.fault)
  BY <1>4, <1>6 DEF Writes, Kept
<1>8. CASE w.fault
  <2>1. r = w
    BY <1>3, <1>8 DEF Go
  <2>2. Pushed(t, w)
    BY <1>7 DEF Pushed, Kept
  <2> QED
    BY <2>1, <2>2 DEF r
<1>9. CASE ~w.fault
  <2> DEFINE d == 0 - 4
  <2>1. d \in Int /\ w.A[7] - 4 = w.A[7] + d
    BY <1>7, AddressIs
  <2>2. r = [w EXCEPT !.A[7] = Wrap(@ + d)]
    BY <1>3, <1>9, <2>1 DEF Go
  <2> HIDE DEF d
  <2>3. Moved(w, r)
    BY <1>7, <2>1, <2>2, ShiftedOk
  <2>4. Pushed(t, r)
    BY <1>7, <1>9, <2>3 DEF Pushed, Moved, Calm, Kept
  <2> QED
    BY <2>4 DEF r
<1> QED
  BY <1>8, <1>9

\* r: what popping n bytes makes of t.
Popped(t, r, n) ==
  /\ Good(r) /\ Calm(t, r) /\ (t.fault => r = t) /\ (r.fault => r.A = t.A)
  /\ ~r.fault => ~t.fault /\ Len(r.v) = n

\* POP16 faults before it moves the stack pointer.
LEMMA Pop16Ok ==
  ASSUME NEW t, Good(t)
  PROVE  Popped(t, Pop16(t), 2)
<1> DEFINE b == t.A[7]
           p == Read(t, b, 2)
           r == Pop16(t)
<1>1. b \in Int /\ 2 \in Sizes
  BY AddressIs DEF Sizes
<1>2. r = Go(p, [p EXCEPT !.A[7] = Wrap(@ + 2)])
  BY DEF Pop16
<1> HIDE DEF b
<1>3. Reads(t, p, 2)
  BY <1>1, ReadOk
<1> HIDE DEF p, r
<1>4. CASE p.fault
  <2>1. r = p
    BY <1>2, <1>4 DEF Go
  <2>2. Popped(t, p, 2)
    BY <1>3, <1>4 DEF Popped, Reads
  <2> QED
    BY <2>1, <2>2 DEF r
<1>5. CASE ~p.fault
  <2>1. r = [p EXCEPT !.A[7] = Wrap(@ + 2)]
    BY <1>2, <1>5 DEF Go
  <2>2. Moved(p, r)
    BY <1>3, <2>1, ShiftedOk DEF Reads
  <2>3. Popped(t, r, 2)
    BY <1>3, <1>5, <2>2 DEF Popped, Reads, Moved, Calm
  <2> QED
    BY <2>3 DEF r
<1> QED
  BY <1>4, <1>5

\* x: t with another value.
LEMMA ValueOk ==
  ASSUME NEW t, Good(t), NEW v \in Seq(Byte)
  PROVE  LET x == [t EXCEPT !.v = v] IN
         Good(x) /\ Calm(t, x) /\ x.A = t.A /\ x.lock = t.lock /\ x.EA = t.EA /\ x.fault = t.fault /\ x.v = v
<1> DEFINE x == [t EXCEPT !.v = v]
<1>1. t \in State
  BY DEF Good, Safe
<1>2. x \in State /\ Calm(t, x) /\ x.lock = t.lock /\ x.EA = t.EA /\ x.A = t.A
      /\ x.fault = t.fault /\ x.v = v
      /\ x.perm = t.perm /\ x.rd = t.rd /\ x.wr = t.wr /\ x.ssw = t.ssw
  BY <1>1 DEF State, Calm
<1> HIDE DEF x
<1>3. Good(x)
  BY <1>2, Aside
<1> QED
  BY <1>2, <1>3 DEF x

\* POP32 faults before it moves the stack pointer.
LEMMA Pop32Ok ==
  ASSUME NEW t, Good(t)
  PROVE  Popped(t, Pop32(t), 4)
<1> DEFINE b == t.A[7]
           c == t.A[7] + 2
           p == Read(t, b, 2)
           q == Read(p, c, 2)
           z == q.u \o q.v
           m == [q EXCEPT !.A[7] = Wrap(@ + 4)]
           n == [m EXCEPT !.v = z]
           r == Pop32(t)
<1>1. b \in Int /\ c \in Int /\ 2 \in Sizes
  BY AddressIs DEF Sizes
<1>2. r = Go(q, n)
  BY DEF Pop32
<1> HIDE DEF b, c
<1>3. Reads(t, p, 2)
  BY <1>1, ReadOk
<1> HIDE DEF p
<1>4. Reads(p, q, 2)
  <2>1. Good(p)
    BY <1>3 DEF Reads
  <2> QED
    BY <1>1, <2>1, ReadOk
<1> HIDE DEF q, r
<1>5. CASE q.fault
  <2>1. r = q
    BY <1>2, <1>5 DEF Go
  <2>2. Popped(t, q, 4)
    BY <1>3, <1>4, <1>5 DEF Popped, Reads, Calm
  <2> QED
    BY <2>1, <2>2 DEF r
<1>6. CASE ~q.fault
  <2>1. r = n
    BY <1>2, <1>6 DEF Go
  <2>2. ~p.fault /\ Len(q.v) = 2 /\ q.u = p.v /\ Len(p.v) = 2 /\ ~t.fault /\ Good(q) /\ Good(p)
    BY <1>3, <1>4, <1>6 DEF Reads
  <2>3. z \in Seq(Byte) /\ Len(z) = 4
    <3>1. q.u \in Seq(Byte) /\ q.v \in Seq(Byte)
      BY <2>2 DEF Good, Safe, State
    <3>2. Len(q.u) = 2 /\ Len(q.v) = 2
      BY <2>2
    <3> QED
      BY <3>1, <3>2, PairIs
  <2> HIDE DEF z
  <2>4. Moved(q, m)
    BY <2>2, ShiftedOk
  <2> HIDE DEF m
  <2>5. Good(n) /\ Calm(m, n) /\ n.fault = m.fault /\ n.v = z
    BY <2>3, <2>4, ValueOk DEF Moved
  <2> HIDE DEF n
  <2>6. Popped(t, n, 4)
    BY <1>3, <1>4, <1>6, <2>2, <2>3, <2>4, <2>5 DEF Popped, Reads, Moved, Calm
  <2> QED
    BY <2>1, <2>6 DEF r
<1> QED
  BY <1>5, <1>6

-----------------------------------------------------------------------------
(* Handlers of one operand, and MOVE.                                      *)

\* What a run of the handler of i from t to the fault r may have changed.
Left(t, r, i) ==
  /\ r.D = t.D /\ r.dc = t.dc /\ r.PC = t.PC
  /\ r.A # t.A => Steps(i.e) \/ Steps(i.f) \/ i.h \in StepsEarly
  /\ r.X # t.X => i.h \in CarriesEarly
  /\ r.NZVC # t.NZVC => i.h \in FlagsEarly
  /\ r.mem # t.mem => i.h \in WritesEarly \/ (~r.ssw.read /\ r.ssw.MA)
\* A good state, and after a fault no more changed than FaultLeaves allows.
Proper(t, r, i) == Good(r) /\ r.perm = t.perm /\ (r.fault => Left(t, r, i))

\* A handler that fetches first is as proper as what follows.
LEMMA AfterFetch ==
  ASSUME NEW t, NEW f, NEW r, NEW i, Fetched(t, f), Proper(f, r, i)
  PROVE  Proper(t, r, i)
  BY DEF Fetched, Proper, Left, Calm

\* Rmw is proper.
LEMMA RmwOk ==
  ASSUME NEW t, Good(t), ~t.lock, NEW i, i.sz \in Sizes, Place(i.e)
  PROVE  Proper(t, Rmw(t, i), i)
<1> DEFINE lk == TRUE
           n == i.sz
           r == EaRead(t, i.e, n, lk)
           q == Quick(r)
           c == AluX(r, q)
           w == EaWrite(c, i.e)
<1>1. lk \in BOOLEAN /\ Source(i.e) /\ Rmw(t, i) = w
  BY DEF Source, Rmw
<1> HIDE DEF lk
<1>2. Loaded(t, r, i.e, n, lk)
  BY <1>1, EaReadOk
<1> HIDE DEF r
<1>3. Good(r) /\ r.v \in Seq(Byte)
  BY <1>2 DEF Loaded, Good, Safe, State
<1>4. q \in Seq(Byte) /\ Len(q) = Len(r.v)
  <2>1. 8 \in Byte
    BY DEF Byte
  <2> QED
    BY <1>3, <2>1, FilledAs DEF Quick
<1> HIDE DEF q
<1>5. n \in {1, 2, 4}
  BY DEF Sizes
<1>6. Settled(r, c)
  <2>1. ~r.fault => Len(r.v) \in {1, 2, 4}
    BY <1>2, <1>5 DEF Loaded
  <2>2. ~r.fault => q \in Seq(Byte) /\ Len(q) >= Len(r.v) /\ Len(r.v) >= 1
    <3> DEFINE m == Len(r.v)
    <3>1. (~r.fault => m \in {1, 2, 4}) /\ Len(q) = m
      BY <1>4, <2>1
    <3> HIDE DEF m
    <3>2. ~r.fault => Len(q) >= m /\ m >= 1
      BY <3>1
    <3> QED
      BY <1>4, <3>2 DEF m
  <2> QED
    BY <1>3, <2>2, AluXOk
<1> HIDE DEF c
<1>7. Stored(c, w, i.e)
  <2>1. ~c.fault => Len(c.v) \in Sizes
    BY <1>2, <1>6 DEF Loaded, Settled
  <2>2. ASSUME ~c.fault, c.lock, i.e.mode \in InMemory
        PROVE  Denied(c, Parts(c.EA, Len(c.v)), TRUE) = {}
    <3>1. ~r.fault /\ c.EA = r.EA /\ c.perm = r.perm /\ Len(c.v) = Len(r.v) /\ Len(r.v) = n
      BY <1>2, <1>6, <2>2 DEF Loaded, Settled
    <3>2. Denied(r, Parts(r.EA, n), TRUE) = {}
      BY <1>2, <2>2, <3>1 DEF Loaded, lk
    <3>3. Parts(c.EA, Len(c.v)) = Parts(r.EA, n)
      BY <3>1
    <3>4. c.perm = r.perm
      BY <3>1
    <3>5. Denied(c, Parts(r.EA, n), TRUE) = {}
      BY <3>2, <3>4, DeniedToo, Zenon
    <3> QED
      BY <3>3, <3>5
  <2>3. Good(c)
    BY <1>6 DEF Settled
  <2> QED
    BY <2>1, <2>2, <2>3, EaWriteOk
<1> HIDE DEF w
<1>8. CASE c.fault
  <2>1. w = c /\ c = r
    BY <1>6, <1>7, <1>8 DEF Stored, Settled
  <2>2. Proper(t, r, i)
    BY <1>2, <1>3 DEF Loaded, Proper, Left, Calm
  <2> QED
    BY <1>1, <2>1, <2>2
<1>9. CASE ~c.fault
  <2>1. ~w.fault
    <3>1. ~r.fault
      BY <1>6, <1>9 DEF Settled
    <3>2. i.e.mode \in InMemory => c.lock
      BY <1>2, <1>6, <3>1 DEF Loaded, Settled, lk
    <3> QED
      BY <1>7, <1>9, <3>2 DEF Stored
  <2>2. Good(w) /\ w.perm = t.perm
    BY <1>2, <1>6, <1>7 DEF Stored, Settled, Loaded, Calm
  <2> QED
    BY <1>1, <2>1, <2>2 DEF Proper
<1> QED
  BY <1>8, <1>9

\* Immediate is proper.
LEMMA ImmediateOk ==
  ASSUME NEW t, Good(t), ~t.lock, NEW i, i.sz \in Sizes, Place(i.e)
  PROVE  Proper(t, Immediate(t, i), i)
<1> DEFINE f == Fetch(t)
<1>1. Fetched(t, f)
  BY FetchOk
<1> HIDE DEF f
<1>2. Proper(f, Rmw(f, i), i)
  BY <1>1, RmwOk DEF Fetched
<1>3. Proper(t, Rmw(f, i), i)
  BY <1>1, <1>2, AfterFetch
<1> QED
  BY <1>3 DEF Immediate, f

\* ToDn is proper.
LEMMA ToDnOk ==
  ASSUME NEW t, Good(t), NEW i, i.sz \in Sizes, Source(i.e)
  PROVE  Proper(t, ToDn(t, i), i)
<1> DEFINE lk == FALSE
           n == i.sz
           r == EaRead(t, i.e, n, lk)
           q == Dn(t, n)
           c == Alu2(r, q)
           w == Go(c, InReg(c, c.v))
<1>1. lk \in BOOLEAN /\ ToDn(t, i) = w
  BY DEF ToDn
<1> HIDE DEF lk
<1>2. Loaded(t, r, i.e, n, lk)
  BY <1>1, EaReadOk
<1>3. q \in Seq(Byte) /\ Len(q) = n
  BY DnIs
<1> HIDE DEF r, q
<1>4. Settled(r, c)
  <2>1. Good(r)
    BY <1>2 DEF Loaded
  <2>2. n \in {1, 2, 4}
    BY DEF Sizes
  <2>3. ~r.fault => Len(r.v) = n
    BY <1>2 DEF Loaded
  <2>4. n >= n
    BY <2>2
  <2>5. ~r.fault => q \in Seq(Byte) /\ Len(q) >= Len(r.v)
    BY <1>3, <2>3, <2>4
  <2> QED
    BY <2>1, <2>5, Alu2Ok
<1> HIDE DEF c
<1>5. CASE c.fault
  <2>1. w = c /\ c = r
    BY <1>4, <1>5 DEF Settled, Go
  <2>2. Proper(t, r, i)
    BY <1>2 DEF Loaded, Proper, Left, Calm
  <2> QED
    BY <1>1, <2>1, <2>2
<1>6. CASE ~c.fault
  <2> DEFINE x == InReg(c, c.v)
  <2>1. c.v \in Seq(Byte) /\ Len(c.v) \in Sizes /\ Good(c) /\ c.perm = t.perm
    BY <1>2, <1>4, <1>6 DEF Loaded, Settled, Good, Safe, State, Calm
  <2>2. Good(x) /\ x.fault = c.fault /\ x.perm = c.perm
    BY <2>1, InRegOk
  <2>3. w = x
    BY <1>6 DEF Go
  <2> HIDE DEF x, w
  <2> QED
    BY <1>1, <1>6, <2>1, <2>2, <2>3 DEF Proper
<1> QED
  BY <1>5, <1>6

\* FetchToDn is proper.
LEMMA FetchToDnOk ==
  ASSUME NEW t, Good(t), NEW i, i.sz \in Sizes, Source(i.e)
  PROVE  Proper(t, FetchToDn(t, i), i)
<1> DEFINE f == Fetch(t)
<1>1. Fetched(t, f)
  BY FetchOk
<1> HIDE DEF f
<1>2. Proper(f, ToDn(f, i), i)
  BY <1>1, ToDnOk DEF Fetched
<1>3. Proper(t, ToDn(f, i), i)
  BY <1>1, <1>2, AfterFetch
<1> QED
  BY <1>3 DEF FetchToDn, f

\* Move is proper.
LEMMA MoveOk ==
  ASSUME NEW t, Good(t), ~t.lock, NEW i, i.h = "move", i.sz \in Sizes, Source(i.e), Place(i.f)
  PROVE  Proper(t, Move(t, i), i)
<1> DEFINE lk == FALSE
           n == i.sz
           r == EaRead(t, i.e, n, lk)
           c == Flags(r, r.v)
           w == EaWrite(c, i.f)
<1>1. lk \in BOOLEAN /\ Move(t, i) = w
  BY DEF Move
<1> HIDE DEF lk
<1>2. Loaded(t, r, i.e, n, lk)
  BY <1>1, EaReadOk
<1> HIDE DEF r
<1>3. Settled(r, c) /\ c.X = r.X
  <2>1. Good(r) /\ r.v \in Seq(Byte)
    BY <1>2 DEF Loaded, Good, Safe, State
  <2> QED
    BY <2>1, FlagsOk
<1> HIDE DEF c
<1>4. ~c.fault => ~c.lock /\ Len(c.v) \in Sizes
  BY <1>2, <1>3 DEF Loaded, Settled, lk
<1>5. Good(c)
  BY <1>3 DEF Settled
<1>6. Stored(c, w, i.f)
  BY <1>4, <1>5, EaWriteOk
<1> HIDE DEF w
<1>7. i.h \in FlagsEarly
  BY DEF FlagsEarly
<1>8. CASE c.fault
  <2>1. w = c /\ c = r
    BY <1>3, <1>6, <1>8 DEF Stored, Settled
  <2>2. Proper(t, r, i)
    BY <1>2 DEF Loaded, Proper, Left, Calm
  <2> QED
    BY <1>1, <2>1, <2>2
<1>9. CASE ~c.fault
  <2>1. Good(w) /\ w.perm = t.perm
    BY <1>2, <1>3, <1>6 DEF Loaded, Settled, Stored, Calm
  <2>2. w.fault => Left(t, w, i)
    BY <1>2, <1>3, <1>6, <1>7, <1>9 DEF Loaded, Settled, Stored, Calm, Left
  <2> QED
    BY <1>1, <2>1, <2>2 DEF Proper
<1> QED
  BY <1>8, <1>9

\* WriteOnly is proper.
LEMMA WriteOnlyOk ==
  ASSUME NEW t, Good(t), ~t.lock, ~t.fault, NEW i, i.h \in {"clr", "scc"}, i.sz \in Sizes, Place(i.e)
  PROVE  Proper(t, WriteOnly(t, i), i)
<1> DEFINE z == [k \in 1..i.sz |-> 0]
           y == IF i.h = "clr" THEN z ELSE t.NZVC
           c == [t EXCEPT !.v = z, !.NZVC = y]
           w == EaWrite(c, i.e)
<1>1. WriteOnly(t, i) = w
  BY DEF WriteOnly, Go
<1>2. z \in Seq(Byte) /\ Len(z) = i.sz
  <2>1. 0 \in Byte /\ i.sz \in Nat
    BY DEF Byte, Sizes
  <2> QED
    BY <2>1, FilledIs
<1>3. t \in State /\ y \in Seq(Byte) /\ (y # t.NZVC => i.h \in FlagsEarly)
  BY <1>2 DEF Good, Safe, State, FlagsEarly
<1> HIDE DEF y, z
<1>4. c \in State /\ c.A = t.A /\ c.D = t.D /\ c.X = t.X /\ c.NZVC = y /\ c.PC = t.PC /\ c.dc = t.dc
      /\ c.mem = t.mem /\ c.perm = t.perm /\ c.lock = t.lock /\ c.fault = t.fault /\ c.v = z
      /\ c.rd = t.rd /\ c.wr = t.wr /\ c.ssw = t.ssw
  BY <1>2, <1>3 DEF State
<1> HIDE DEF c
<1>5. Good(c)
  BY <1>4, Aside
<1>6. Stored(c, w, i.e)
  BY <1>2, <1>4, <1>5, EaWriteOk
<1> HIDE DEF w
<1>7. w.fault => Left(t, w, i)
  BY <1>3, <1>4, <1>6 DEF Stored, Left
<1> QED
  BY <1>1, <1>4, <1>6, <1>7 DEF Stored, Proper

-----------------------------------------------------------------------------
(* Handlers that only read: CMP2, BTST; BCHG.                              *)

\* A run that has done no more than step an address register.
Quiet(t, r, e) == Good(r) /\ Calm(t, r) /\ (r.A = t.A \/ Steps(e))

\* A quiet run that ends in a fault is proper.
LEMMA QuietEnd ==
  ASSUME NEW t, NEW u, NEW r, NEW i, Quiet(t, u, i.e), Settled(u, r)
  PROVE  Proper(t, r, i)
  BY DEF Quiet, Settled, Proper, Left, Calm

\* A quiet run with other registers set at its end is proper.
LEMMA QuietProper ==
  ASSUME NEW t, NEW u, NEW i, Quiet(t, u, i.e)
  PROVE  Proper(t, u, i)
  BY DEF Quiet, Proper, Left, Calm

\* A quiet run stays one through a read.
LEMMA QuietRead ==
  ASSUME NEW t, NEW u, NEW e, Quiet(t, u, e), NEW r, NEW n, Reads(u, r, n)
  PROVE  Quiet(t, r, e)
  BY DEF Quiet, Reads, Calm

\* Addresses are integers.
LEMMA MemoryInt == \A a \in Memory : a \in Int
  BY SizeIs DEF Memory

\* The address of an operand is an integer.
LEMMA LocatedIs == ASSUME NEW g, Good(g) PROVE g.a \in Int /\ g.EA \in Int
<1>1. g.a \in Memory /\ g.EA \in Memory
  BY DEF Good, Safe, State
<1> QED
  BY <1>1, MemoryInt

\* A fetch, an address, the effective address.
Aim(t, e, n) == LET g == GetAddr(Fetch(t), e, n) IN Go(g, [g EXCEPT !.EA = g.a])

\* Aiming is quiet, and its end has the address.
LEMMA AimedOk ==
  ASSUME NEW t, Good(t), NEW e, InPlace(e), NEW n \in {0, 1, 2, 4}
  PROVE  LET g == GetAddr(Fetch(t), e, n)
             x == Aim(t, e, n)
         IN /\ Quiet(t, x, e) /\ x.EA \in Int /\ g.a \in Int /\ x.lock = t.lock
            /\ Good(g) /\ Quiet(t, g, e) /\ (~x.fault => ~t.fault) /\ (~g.fault => ~t.fault)
<1> DEFINE f == Fetch(t)
           g == GetAddr(f, e, n)
           x == Go(g, [g EXCEPT !.EA = g.a])
<1>1. Fetched(t, f)
  BY FetchOk
<1> HIDE DEF f
<1>2. Located(f, g, e)
  BY <1>1, GetAddrOk DEF Fetched
<1> HIDE DEF g
<1>3. Good(g) /\ g.a \in Int
  BY <1>2, LocatedIs DEF Located
<1>4. /\ Good(x) /\ Calm(g, x) /\ x.A = g.A /\ x.lock = g.lock
      /\ x.fault = g.fault /\ x.EA \in Memory
  BY <1>3, AimOk
<1> HIDE DEF x
<1>5. x.EA \in Int
  BY <1>4, SizeIs DEF Memory
<1>6. Quiet(t, x, e) /\ Quiet(t, g, e) /\ x.lock = t.lock
  BY <1>1, <1>2, <1>4 DEF Quiet, Fetched, Located, Calm
<1>7. ~g.fault => ~t.fault
  BY <1>1, <1>2 DEF Fetched, Located
<1> QED
  BY <1>3, <1>4, <1>5, <1>6, <1>7 DEF Aim, f, g, x

\* A result on values of one length.
LEMMA ResOf ==
  ASSUME NEW v \in Seq(Byte), NEW w \in Seq(Byte), NEW n \in Sizes, Len(v) = n, Len(w) = n
  PROVE  Res(v, w) \in Seq(Byte) /\ Len(Res(v, w)) = n
<1>1. Len(w) >= Len(v)
  BY DEF Sizes
<1> QED
  BY <1>1, ResAre

\* The values read are values.
LEMMA ValuesAre == ASSUME NEW t, Good(t) PROVE t.u \in Seq(Byte) /\ t.v \in Seq(Byte)
  BY DEF Good, Safe, State

\* Cmp2 is proper.
LEMMA Cmp2Ok ==
  ASSUME NEW t, Good(t), NEW i, i.sz \in Sizes, InPlace(i.e)
  PROVE  Proper(t, Cmp2(t, i), i)
<1> DEFINE n == i.sz
           g == GetAddr(Fetch(t), i.e, n)
           x == Aim(t, i.e, n)
           b == g.a
           c == b + n
           l == Read(x, b, n)
           u == Read(l, c, n)
           z == Res(u.u, u.v)
           r == Flags(u, z)
<1>1. n \in {0, 1, 2, 4} /\ n \in Nat
  BY DEF Sizes
<1>2. Cmp2(t, i) = r
  BY DEF Cmp2, Aim
<1>3. Quiet(t, x, i.e) /\ g.a \in Int
  BY <1>1, AimedOk
<1>4. b \in Int /\ c \in Int
  BY <1>1, <1>3
<1> HIDE DEF g, x, b, c
<1>5. Reads(x, l, n)
  BY <1>3, <1>4, ReadOk DEF Quiet
<1> HIDE DEF l
<1>6. Good(l)
  BY <1>5 DEF Reads
<1>7. Reads(l, u, n)
  BY <1>4, <1>6, ReadOk
<1> HIDE DEF u
<1>8. Good(u) /\ (~u.fault => z \in Seq(Byte))
  <2>1. Good(u) /\ (~u.fault => Len(u.u) = n /\ Len(u.v) = n)
    BY <1>5, <1>7 DEF Reads
  <2>2. u.u \in Seq(Byte) /\ u.v \in Seq(Byte)
    BY <2>1, ValuesAre
  <2> QED
    BY <2>1, <2>2, ResOf
<1> HIDE DEF z
<1>9. Settled(u, r)
  BY <1>8, FlagsOk
<1> HIDE DEF r
<1>10. Quiet(t, u, i.e)
  BY <1>3, <1>5, <1>7, QuietRead
<1> QED
  BY <1>2, <1>9, <1>10, QuietEnd

\* Bit is proper.
LEMMA BitOk ==
  ASSUME NEW t, Good(t), NEW i, i.h \in {"btst", "bchg"}, InPlace(i.e)
  PROVE  Proper(t, Bit(t, i), i)
<1> DEFINE g == GetAddr(Fetch(t), i.e, 1)
           x == Aim(t, i.e, 1)
           b == g.a
           o == <<1>>
           r == Read(x, b, 1)
           z == Res(r.v, o)
           y == r.v
           c == Go(r, [r EXCEPT !.NZVC = y, !.v = z])
           w == Write(c, c.EA, c.v)
<1>1. 1 \in {0, 1, 2, 4} /\ 1 \in Sizes
  BY DEF Sizes
<1>2. Bit(t, i) = IF i.h = "btst" THEN c ELSE w
  BY DEF Bit, Aim
<1>3. Quiet(t, x, i.e) /\ b \in Int
  BY <1>1, AimedOk
<1> HIDE DEF g, x, b
<1>4. Reads(x, r, 1)
  BY <1>1, <1>3, ReadOk DEF Quiet
<1> HIDE DEF r
<1>5. Quiet(t, r, i.e) /\ Good(r)
  BY <1>3, <1>4, QuietRead DEF Quiet
<1>6. y \in Seq(Byte) /\ r.v \in Seq(Byte)
  BY <1>5, ValuesAre
<1>7. ~r.fault => z \in Seq(Byte) /\ Len(z) = 1
  <2>1. o \in Seq(Byte) /\ Len(o) = 1
    BY DEF Byte
  <2> HIDE DEF o
  <2>2. ~r.fault => Len(r.v) = 1
    BY <1>4 DEF Reads
  <2> QED
    BY <1>1, <1>6, <2>1, <2>2, ResOf
<1> HIDE DEF z, y
<1>8. CASE r.fault
  <2>1. c = r
    BY <1>8 DEF Go
  <2>2. w = r
    BY <1>8, <2>1, Passed
  <2>3. Bit(t, i) = r
    BY <1>2, <2>1, <2>2
  <2> HIDE DEF c, w
  <2> QED
    BY <1>5, <2>3, QuietProper
<1>9. CASE ~r.fault
  <2>1. c = [r EXCEPT !.NZVC = y, !.v = z] /\ r \in State /\ r.EA \in Memory
    BY <1>5, <1>9 DEF Go, Good, Safe, State
  <2> HIDE DEF c
  <2>2. c \in State /\ c.A = r.A /\ c.D = r.D /\ c.X = r.X /\ c.PC = r.PC /\ c.dc = r.dc
        /\ c.mem = r.mem /\ c.perm = r.perm /\ c.lock = r.lock /\ c.fault = r.fault /\ c.v = z
        /\ c.rd = r.rd /\ c.wr = r.wr /\ c.ssw = r.ssw /\ c.EA = r.EA
    BY <1>6, <1>7, <1>9, <2>1 DEF State
  <2>3. Good(c)
    BY <1>5, <2>2, Aside
  <2>4. Writes(c, w)
    <3>1. c.EA \in Int /\ c.v \in Seq(Byte) /\ Len(c.v) \in Sizes
      <4>1. c.v \in Seq(Byte) /\ Len(c.v) = 1
        BY <1>7, <1>9, <2>2
      <4> QED
        BY <1>1, <2>3, <4>1, LocatedIs
    <3> QED
      BY <2>3, <3>1, WriteOk
  <2> HIDE DEF w
  <2>5. Proper(t, c, i)
    BY <1>5, <1>9, <2>2, <2>3 DEF Quiet, Proper, Calm
  <2>6. CASE i.h = "btst"
    BY <1>2, <2>5, <2>6
  <2>7. CASE i.h # "btst"
    <3>1. i.h \in FlagsEarly
      BY <2>7 DEF FlagsEarly
    <3>2. Good(w) /\ w.perm = t.perm
      BY <1>5, <2>2, <2>4 DEF Quiet, Calm, Writes, Kept
    <3>3. w.fault => Left(t, w, i)
      BY <1>5, <1>9, <2>2, <2>4, <3>1 DEF Quiet, Calm, Writes, Kept, Left
    <3> QED
      BY <1>2, <2>7, <3>2, <3>3 DEF Proper
  <2> QED
    BY <2>6, <2>7
<1> QED
  BY <1>8, <1>9

-----------------------------------------------------------------------------
(* MOVEP and CAS.                                                          *)

\* The handler that only moves a value to the data register at its end.
LEMMA LoadEnd ==
  ASSUME NEW t, NEW u, NEW i, Quiet(t, u, i.e), NEW v, ~u.fault => v \in Seq(Byte) /\ Len(v) \in Sizes
  PROVE  Proper(t, Go(u, InReg(u, v)), i)
<1> DEFINE x == InReg(u, v)
<1>1. CASE u.fault
  <2> DEFINE g == Go(u, x)
  <2>1. g = u
    BY <1>1 DEF Go
  <2> HIDE DEF g
  <2>2. Proper(t, g, i)
    BY <2>1, QuietProper
  <2> QED
    BY <2>2 DEF g
<1>2. CASE ~u.fault
  <2> DEFINE g == Go(u, x)
  <2>1. g = x
    BY <1>2 DEF Go
  <2>2. Good(u) /\ u.perm = t.perm
    BY DEF Quiet, Calm
  <2>3. Good(x) /\ x.fault = u.fault /\ x.perm = u.perm
    BY <1>2, <2>2, InRegOk
  <2> HIDE DEF x, g
  <2>4. Proper(t, g, i)
    BY <1>2, <2>1, <2>2, <2>3 DEF Proper
  <2> QED
    BY <2>4 DEF g, x
<1> QED
  BY <1>1, <1>2

\* A quiet run after a fetch.
LEMMA QuietFetch ==
  ASSUME NEW t, Good(t), NEW e
  PROVE  LET f == Fetch(t) IN
         Quiet(t, f, e) /\ Good(f) /\ f.A = t.A /\ f.lock = t.lock /\ (~f.fault => ~t.fault)
<1> DEFINE f == Fetch(t)
<1>1. Fetched(t, f)
  BY FetchOk
<1> HIDE DEF f
<1> QED
  BY <1>1 DEF Quiet, Fetched, f

\* A value of n bytes.
Fits(v, n) == v \in Seq(Byte) /\ Len(v) = n
\* A value of one byte.
Single(v) == Fits(v, 1)

\* Four single bytes joined.
LEMMA QuadIs ==
  ASSUME NEW a, Single(a), NEW b, Single(b), NEW c, Single(c), NEW d, Single(d)
  PROVE  Fits(a \o b, 2) /\ Fits(a \o b \o c \o d, 4)
<1>0. /\ a \in Seq(Byte) /\ Len(a) = 1 /\ b \in Seq(Byte) /\ Len(b) = 1
      /\ c \in Seq(Byte) /\ Len(c) = 1 /\ d \in Seq(Byte) /\ Len(d) = 1
  BY DEF Single, Fits
<1> DEFINE x == a \o b
           y == x \o c
           z == y \o d
<1>1. x \in Seq(Byte) /\ Len(x) = Len(a) + Len(b)
  BY <1>0, JoinedAre, Zenon
<1>2. Len(x) = 2
  BY <1>0, <1>1
<1> HIDE DEF x
<1>3. y \in Seq(Byte) /\ Len(y) = Len(x) + Len(c)
  BY <1>0, <1>1, JoinedAre, Zenon
<1>4. Len(y) = 3
  BY <1>0, <1>2, <1>3
<1> HIDE DEF y
<1>5. z \in Seq(Byte) /\ Len(z) = Len(y) + Len(d)
  BY <1>0, <1>3, JoinedAre, Zenon
<1>6. Len(z) = 4
  BY <1>0, <1>4, <1>5
<1> HIDE DEF z
<1> QED
  BY <1>1, <1>2, <1>5, <1>6 DEF x, y, z, Fits

\* MovepLoad is proper.
LEMMA MovepLoadOk ==
  ASSUME NEW t, Good(t), NEW i, i.sz \in {2, 4}
  PROVE  Proper(t, MovepLoad(t, i), i)
<1> DEFINE f == Fetch(t)
           b(k) == f.A[0] + 2 * (k - 1)
           r1 == Read(f, b(1), 1)
           r2 == Read(r1, b(2), 1)
           r3 == Read(r2, b(3), 1)
           r4 == Read(r3, b(4), 1)
           two == r1.v \o r2.v
           four == r1.v \o r2.v \o r3.v \o r4.v
<1>1. MovepLoad(t, i) = IF i.sz = 2 THEN Go(r2, InReg(r2, two)) ELSE Go(r4, InReg(r4, four))
  BY DEF MovepLoad
<1>2. Quiet(t, f, i.e) /\ Good(f)
  BY QuietFetch
<1>3. \A k \in 1..4 : b(k) \in Int
  BY <1>2, AddressIs
<1>4. 1 \in Sizes
  BY DEF Sizes
<1> HIDE DEF f, b
<1>5. Reads(f, r1, 1)
  BY <1>2, <1>3, <1>4, ReadOk
<1> HIDE DEF r1
<1>6. Good(r1)
  BY <1>5 DEF Reads
<1>7. Reads(r1, r2, 1)
  BY <1>3, <1>4, <1>6, ReadOk
<1> HIDE DEF r2
<1>8. Good(r2)
  BY <1>7 DEF Reads
<1>9. Reads(r2, r3, 1)
  BY <1>3, <1>4, <1>8, ReadOk
<1> HIDE DEF r3
<1>10. Good(r3)
  BY <1>9 DEF Reads
<1>11. Reads(r3, r4, 1)
  BY <1>3, <1>4, <1>10, ReadOk
<1> HIDE DEF r4
<1>12. Good(r4)
  BY <1>11 DEF Reads
<1>13. Quiet(t, r2, i.e) /\ Quiet(t, r4, i.e)
  <2>1. Quiet(t, r1, i.e)
    BY <1>2, <1>5, QuietRead
  <2>2. Quiet(t, r2, i.e)
    BY <1>7, <2>1, QuietRead
  <2>3. Quiet(t, r3, i.e)
    BY <1>9, <2>2, QuietRead
  <2> QED
    BY <1>11, <2>2, <2>3, QuietRead
<1>14. r1.v \in Seq(Byte) /\ r2.v \in Seq(Byte) /\ r3.v \in Seq(Byte) /\ r4.v \in Seq(Byte)
  BY <1>6, <1>8, <1>10, <1>12, ValuesAre
<1>15. ~r2.fault => Len(r1.v) = 1 /\ Len(r2.v) = 1
  BY <1>5, <1>7 DEF Reads
<1>16. ~r4.fault => Len(r1.v) = 1 /\ Len(r2.v) = 1 /\ Len(r3.v) = 1 /\ Len(r4.v) = 1
  BY <1>9, <1>11, <1>15 DEF Reads
<1>17. ~r2.fault => two \in Seq(Byte) /\ Len(two) = 2
  <2> SUFFICES ASSUME ~r2.fault PROVE Fits(two, 2)
    BY DEF Fits
  <2>1. Single(r1.v) /\ Single(r2.v)
    BY <1>14, <1>15 DEF Single, Fits
  <2> QED
    BY <2>1, QuadIs, Zenon
<1>18. ~r4.fault => four \in Seq(Byte) /\ Len(four) = 4
  <2> SUFFICES ASSUME ~r4.fault PROVE Fits(four, 4)
    BY DEF Fits
  <2>1. Single(r1.v) /\ Single(r2.v) /\ Single(r3.v) /\ Single(r4.v)
    BY <1>14, <1>16 DEF Single, Fits
  <2> QED
    BY <2>1, QuadIs, Zenon
<1> HIDE DEF two, four
<1>19. Proper(t, Go(r2, InReg(r2, two)), i)
  BY <1>13, <1>17, LoadEnd DEF Sizes
<1>20. Proper(t, Go(r4, InReg(r4, four)), i)
  BY <1>13, <1>18, LoadEnd DEF Sizes
<1> QED
  BY <1>1, <1>19, <1>20

\* A run that has only written.
Written(t, r) == Good(r) /\ Kept(t, r)

\* Writes add up.
LEMMA WrittenMore == ASSUME NEW t, NEW u, NEW r, Written(t, u), Writes(u, r) PROVE Written(t, r)
  BY DEF Written, Writes, Kept

\* A handler that only writes is proper if it may write early.
LEMMA WrittenProper ==
  ASSUME NEW t, NEW r, NEW i, Written(t, r), i.h \in WritesEarly
  PROVE  Proper(t, r, i)
  BY DEF Written, Kept, Proper, Left

\* MovepStore is proper.
LEMMA MovepStoreOk ==
  ASSUME NEW t, Good(t), NEW i, i.h = "movep_store", i.sz \in {2, 4}
  PROVE  Proper(t, MovepStore(t, i), i)
<1> DEFINE f == Fetch(t)
           d == Dn(t, i.sz)
           put(x, k) == Write(x, f.A[0] + 2 * (k - 1), <<d[k]>>)
           p1 == put(f, 1)
           p2 == put(p1, 2)
           p3 == put(p2, 3)
           p4 == put(p3, 4)
<1>1. MovepStore(t, i) = IF i.sz = 2 THEN p2 ELSE p4
  BY DEF MovepStore
<1>2. Fetched(t, f)
  BY FetchOk
<1>3. i.sz \in Sizes /\ i.h \in WritesEarly
  BY DEF Sizes, WritesEarly
<1>4. d \in Seq(Byte) /\ Len(d) = i.sz
  BY <1>3, DnIs
<1> HIDE DEF f, d
<1>5. ASSUME NEW x, Good(x), NEW k \in 1..4, k <= i.sz PROVE Writes(x, put(x, k))
  <2>1. f.A[0] \in Int
    BY <1>2, AddressIs DEF Fetched
  <2>2. f.A[0] + 2 * (k - 1) \in Int
    BY <2>1
  <2>3. k \in 1..Len(d)
    BY <1>4, <1>5
  <2>4. d[k] \in Byte
    BY <1>4, <2>3, ItemIs, Zenon
  <2>5. <<d[k]>> \in Seq(Byte) /\ Len(<<d[k]>>) \in Sizes
    BY <2>4 DEF Sizes
  <2> QED
    BY <1>5, <2>2, <2>5, WriteOk
<1> HIDE DEF put
<1>6. Writes(f, p1) /\ Good(p1)
  BY <1>2, <1>5 DEF Fetched, Writes
<1>7. Writes(p1, p2) /\ Good(p2)
  BY <1>5, <1>6 DEF Writes
<1> HIDE DEF p1
<1>8. i.sz = 4 => Writes(p2, p3) /\ Good(p3)
  BY <1>5, <1>7 DEF Writes
<1> HIDE DEF p2
<1>9. i.sz = 4 => Writes(p3, p4)
  BY <1>5, <1>8
<1> HIDE DEF p3, p4
<1>10. Written(f, p2)
  <2>1. Written(f, f)
    BY <1>2, SelfKept DEF Written, Fetched
  <2>2. Written(f, p1)
    BY <1>6, <2>1, WrittenMore
  <2> QED
    BY <1>7, <2>2, WrittenMore
<1>11. i.sz = 4 => Written(f, p4)
  BY <1>8, <1>9, <1>10, WrittenMore
<1>12. Proper(f, MovepStore(t, i), i)
  BY <1>1, <1>3, <1>10, <1>11, WrittenProper
<1> QED
  BY <1>2, <1>12, AfterFetch

\* The value an update stores.
LEMMA NewIs == ASSUME NEW i, i.sz \in Sizes PROVE New(i) \in Seq(Byte) /\ Len(New(i)) = i.sz
<1>1. 77 \in Byte /\ i.sz \in Nat
  BY DEF Byte, Sizes
<1> QED
  BY <1>1, FilledIs DEF New

\* A handler that sets the condition codes before its writes.
LEMMA FlaggedWrite ==
  ASSUME NEW t, NEW u, NEW c, NEW w, NEW i, Quiet(t, u, i.e), Settled(u, c), c.X = u.X, Writes(c, w),
         i.h \in FlagsEarly
  PROVE  Proper(t, w, i)
<1>1. Good(w) /\ w.perm = t.perm
  BY DEF Quiet, Calm, Settled, Writes, Kept
<1>2. CASE ~c.fault
  <2>1. w.fault => Left(t, w, i)
    BY <1>2 DEF Quiet, Calm, Settled, Writes, Kept, Left
  <2> QED
    BY <1>1, <2>1 DEF Proper
<1>3. CASE c.fault
  <2>1. w = c /\ c = u
    BY <1>3 DEF Writes, Settled
  <2> QED
    BY <2>1, QuietProper
<1> QED
  BY <1>2, <1>3

\* Operands to compare with, of the size of the instruction.
Both(t, n) == Len(t.dc[1]) = n /\ Len(t.dc[2]) = n

\* The compare operands are values.
LEMMA PartnersAre == ASSUME NEW t, Good(t) PROVE t.dc[1] \in Seq(Byte) /\ t.dc[2] \in Seq(Byte) /\ t.dc \in [1..2 -> Seq(Byte)]
  BY DEF Good, Safe, State

\* Setting the compare operands.
LEMMA PartnersOk ==
  ASSUME NEW t, Good(t), NEW B \in [1..2 -> Seq(Byte)]
  PROVE  LET x == [t EXCEPT !.dc = B] IN Good(x) /\ x.fault = t.fault /\ x.perm = t.perm
<1> DEFINE x == [t EXCEPT !.dc = B]
<1>1. t \in State
  BY DEF Good, Safe
<1>2. x \in State /\ x.fault = t.fault /\ x.perm = t.perm /\ x.rd = t.rd /\ x.wr = t.wr /\ x.ssw = t.ssw
  BY <1>1 DEF State
<1> HIDE DEF x
<1>3. Good(x)
  BY <1>2, Aside
<1> QED
  BY <1>2, <1>3 DEF x

\* Cas is proper.
LEMMA CasOk ==
  ASSUME NEW t, Good(t), NEW i, i.h = "cas", i.sz \in Sizes, InPlace(i.e), Both(t, i.sz)
  PROVE  Proper(t, Cas(t, i), i)
<1> DEFINE n == i.sz
           g == GetAddr(Fetch(t), i.e, n)
           x == Aim(t, i.e, n)
           b == g.a
           r == Read(x, b, n)
           d == t.dc[1]
           z == Res(r.v, d)
           c == Flags(r, z)
           w == Write(c, c.EA, New(i))
           y == [c EXCEPT !.dc[1] = r.v]
<1>1. n \in {0, 1, 2, 4}
  BY DEF Sizes
<1>2. Cas(t, i) = IF r.v = d THEN w ELSE Go(c, y)
  BY DEF Cas, Aim
<1>3. Quiet(t, x, i.e) /\ b \in Int
  BY <1>1, AimedOk
<1>4. d \in Seq(Byte) /\ Len(d) = n
  BY PartnersAre DEF Both
<1> HIDE DEF g, x, b, d
<1>5. Reads(x, r, n)
  BY <1>3, ReadOk DEF Quiet
<1> HIDE DEF r
<1>6. Quiet(t, r, i.e) /\ Good(r)
  BY <1>3, <1>5, QuietRead DEF Quiet
<1>7. ~r.fault => z \in Seq(Byte)
  <2>1. r.v \in Seq(Byte) /\ (~r.fault => Len(r.v) = n)
    BY <1>5, <1>6, ValuesAre DEF Reads
  <2> QED
    BY <1>4, <2>1, ResOf
<1> HIDE DEF z
<1>8. Settled(r, c) /\ c.X = r.X
  BY <1>6, <1>7, FlagsOk
<1> HIDE DEF c
<1>9. Good(c) /\ c.EA \in Int
  BY <1>8, LocatedIs DEF Settled
<1>10. New(i) \in Seq(Byte) /\ Len(New(i)) \in Sizes
  BY NewIs
<1>11. Writes(c, w)
  BY <1>9, <1>10, WriteOk
<1> HIDE DEF w
<1>12. Proper(t, w, i)
  <2>1. i.h \in FlagsEarly
    BY DEF FlagsEarly
  <2> QED
    BY <1>6, <1>8, <1>11, <2>1, FlaggedWrite
<1>13. Proper(t, Go(c, y), i)
  <2>1. CASE c.fault
    <3>1. Go(c, y) = c
      BY <2>1 DEF Go
    <3> HIDE DEF y
    <3> QED
      BY <1>6, <1>8, <3>1, QuietEnd
  <2>2. CASE ~c.fault
    <3> DEFINE B == [c.dc EXCEPT ![1] = r.v]
    <3>1. Go(c, y) = [c EXCEPT !.dc = B]
      BY <2>2 DEF Go
    <3>2. B \in [1..2 -> Seq(Byte)]
      BY <1>6, <1>9, PartnersAre, ValuesAre
    <3> HIDE DEF y, B
    <3> DEFINE q == [c EXCEPT !.dc = B]
    <3>3. Good(q) /\ q.fault = c.fault /\ q.perm = c.perm
      BY <1>9, <3>2, PartnersOk
    <3> HIDE DEF q
    <3>4. c.perm = t.perm
      BY <1>6, <1>8 DEF Quiet, Calm, Settled
    <3>5. Proper(t, q, i)
      BY <2>2, <3>3, <3>4 DEF Proper
    <3> QED
      BY <3>1, <3>5 DEF q
  <2> QED
    BY <2>1, <2>2
<1> QED
  BY <1>2, <1>12, <1>13

-----------------------------------------------------------------------------
(* CAS2 and MOVES.                                                         *)

\* Cas2 is proper.
LEMMA Cas2Ok ==
  ASSUME NEW t, Good(t), NEW i, i.h = "cas2", i.sz \in Sizes, Both(t, i.sz)
  PROVE  Proper(t, Cas2(t, i), i)
<1> DEFINE n == i.sz
           f == Fetch(t)
           a == t.A[0]
           b == t.A[1]
           p == Read(f, a, n)
           r == Read(p, b, n)
           d == t.dc[1]
           e == t.dc[2]
           same == r.u = d
           z == IF same THEN Res(r.v, e) ELSE Res(r.u, d)
           c == Flags(r, z)
           w == Write(c, a, New(i))
           x == Write(w, b, New(i))
           B == <<r.u, r.v>>
           y == [c EXCEPT !.dc = B]
           q == Go(c, y)
<1>1. Cas2(t, i) = IF <<r.u, r.v>> = t.dc THEN x ELSE q
  BY DEF Cas2
<1>2. Quiet(t, f, i.e) /\ Good(f) /\ a \in Int /\ b \in Int
  BY QuietFetch, AddressIs
<1>3. d \in Seq(Byte) /\ Len(d) = n /\ e \in Seq(Byte) /\ Len(e) = n
  BY PartnersAre DEF Both
<1> HIDE DEF f, a, b, d, e
<1>4. Reads(f, p, n)
  BY <1>2, ReadOk
<1> HIDE DEF p
<1>5. Good(p)
  BY <1>4 DEF Reads
<1>6. Reads(p, r, n)
  BY <1>2, <1>5, ReadOk
<1> HIDE DEF r
<1>7. Good(r) /\ Quiet(t, r, i.e)
  <2>1. Quiet(t, p, i.e)
    BY <1>2, <1>4, QuietRead
  <2>2. Quiet(t, r, i.e)
    BY <1>6, <2>1, QuietRead
  <2> QED
    BY <2>2 DEF Quiet
<1>8. r.u \in Seq(Byte) /\ r.v \in Seq(Byte)
  BY <1>7, ValuesAre
<1>9. ~r.fault => z \in Seq(Byte)
  <2>1. ~r.fault => Len(r.u) = n /\ Len(r.v) = n
    BY <1>4, <1>6 DEF Reads
  <2> HIDE DEF same
  <2>2. ~r.fault => Res(r.v, e) \in Seq(Byte)
    BY <1>3, <1>8, <2>1, ResOf
  <2>3. ~r.fault => Res(r.u, d) \in Seq(Byte)
    BY <1>3, <1>8, <2>1, ResOf
  <2> QED
    BY <2>2, <2>3
<1> HIDE DEF z
<1>10. Settled(r, c) /\ c.X = r.X
  BY <1>7, <1>9, FlagsOk
<1> HIDE DEF c
<1>11. Good(c)
  BY <1>10 DEF Settled
<1>12. New(i) \in Seq(Byte) /\ Len(New(i)) \in Sizes
  BY NewIs
<1>13. Writes(c, w)
  BY <1>2, <1>11, <1>12, WriteOk
<1> HIDE DEF w
<1>14. Good(w)
  BY <1>13 DEF Writes
<1>15. Writes(w, x)
  BY <1>2, <1>12, <1>14, WriteOk
<1> HIDE DEF x
<1>16. Proper(t, x, i)
  <2>1. i.h \in FlagsEarly /\ i.h \in WritesEarly
    BY DEF FlagsEarly, CarriesEarly, WritesEarly
  <2>2. Good(x) /\ x.perm = t.perm
    BY <1>7, <1>10, <1>13, <1>15 DEF Quiet, Calm, Settled, Writes, Kept
  <2>3. x.D = t.D /\ x.dc = t.dc /\ x.PC = t.PC /\ x.X = t.X /\ x.A = r.A
    BY <1>7, <1>10, <1>13, <1>15 DEF Quiet, Calm, Settled, Writes, Kept
  <2>4. r.A = t.A \/ Steps(i.e)
    BY <1>7 DEF Quiet
  <2> QED
    BY <2>1, <2>2, <2>3, <2>4 DEF Proper, Left
<1>17. Proper(t, q, i)
  <2>1. CASE c.fault
    <3>1. q = c
      BY <2>1 DEF Go
    <3> HIDE DEF q
    <3> QED
      BY <1>7, <1>10, <3>1, QuietEnd
  <2>2. CASE ~c.fault
    <3>1. q = y
      BY <2>2 DEF Go
    <3>2. B \in [1..2 -> Seq(Byte)]
      BY <1>8
    <3> HIDE DEF B, q
    <3>3. Good(y) /\ y.fault = c.fault /\ y.perm = c.perm
      BY <1>11, <3>2, PartnersOk
    <3>4. c.perm = t.perm
      BY <1>7, <1>10 DEF Quiet, Calm, Settled
    <3> HIDE DEF y
    <3> QED
      BY <2>2, <3>1, <3>3, <3>4 DEF Proper
  <2> QED
    BY <2>1, <2>2
<1> HIDE DEF q
<1> QED
  BY <1>1, <1>16, <1>17

\* Moves is proper.
LEMMA MovesOk ==
  ASSUME NEW t, Good(t), NEW i, i.h \in {"moves_load", "moves_store"}, i.sz \in Sizes, InPlace(i.e),
         i.other \in BOOLEAN
  PROVE  Proper(t, Moves(t, i), i)
<1> DEFINE n == i.sz
           w == FALSE
           g == GetAddr(Fetch(t), i.e, n)
           a == Go(g, [g EXCEPT !.EA = g.a])
           x == Aim(t, i.e, n)
           b == x.EA
           d == Dn(x, n)
           r == ReadIn(x, b, n, w, 2, i.other)
           z == r.v
           l == Go(r, InReg(r, z))
           s0 == WriteIn(x, b, d, 2, i.other)
<1>1. n \in {0, 1, 2, 4} /\ 2 \in 0..3
  BY DEF Sizes
<1>2. a = x
  BY DEF Aim
<1>3. Moves(t, i) = LET rr == ReadIn(a, a.EA, n, FALSE, 2, i.other) IN
                    IF i.h = "moves_load" THEN Go(rr, InReg(rr, rr.v))
                    ELSE WriteIn(a, a.EA, Dn(a, n), 2, i.other)
  BY DEF Moves
<1>4. Moves(t, i) = IF i.h = "moves_load" THEN l ELSE s0
  BY <1>2, <1>3
<1>5. Quiet(t, x, i.e) /\ b \in Int /\ Good(x)
  BY <1>1, AimedOk DEF Quiet
<1>6. d \in Seq(Byte) /\ Len(d) = n
  BY <1>5, DnIs
<1> HIDE DEF g, a, x, b, d
<1>7. Writes(x, s0)
  BY <1>1, <1>5, <1>6, WriteInOk
<1>8. w \in BOOLEAN /\ (w => x.lock)
  OBVIOUS
<1> HIDE DEF w, s0
<1>9. Reads(x, r, n)
  BY <1>1, <1>5, <1>8, ReadGood
<1> HIDE DEF r
<1>10. Quiet(t, r, i.e)
  BY <1>5, <1>9, QuietRead
<1>11. ~r.fault => z \in Seq(Byte) /\ Len(z) \in Sizes
  BY <1>9, <1>10, ValuesAre DEF Reads, Quiet
<1> HIDE DEF z
<1>12. Proper(t, l, i)
  BY <1>10, <1>11, LoadEnd
<1> HIDE DEF l
<1>13. Proper(t, s0, i)
  <2>1. CASE x.fault
    BY <1>5, <1>7, <2>1, QuietProper DEF Writes
  <2>2. CASE ~x.fault
    <3>1. Good(s0) /\ s0.perm = t.perm
      BY <1>5, <1>7 DEF Quiet, Calm, Writes, Kept
    <3>2. s0.fault => Left(t, s0, i)
      BY <1>5, <1>7, <2>2 DEF Quiet, Calm, Writes, Kept, Left
    <3> QED
      BY <3>1, <3>2 DEF Proper
  <2> QED
    BY <2>1, <2>2
<1> QED
  BY <1>4, <1>12, <1>13

-----------------------------------------------------------------------------
(* LINK, UNLK, PEA, JSR, RTS, RTR.                                         *)

\* An address as a long.
LEMMA LongOf == ASSUME NEW a \in Memory PROVE <<0, 0, 0, a>> \in Seq(Byte) /\ Len(<<0, 0, 0, a>>) = 4
<1>1. 0 \in Byte /\ a \in Byte
  <2>1. Size <= 256
    BY InstrAssumption, Zenon
  <2> QED
    BY <2>1, SizeIs DEF Byte, Memory
<1> QED
  BY <1>1

\* A quiet run that pushes is proper if it may write early.
LEMMA PushProper ==
  ASSUME NEW t, NEW g, NEW p, NEW i, Quiet(t, g, i.e), Pushed(g, p), i.h \in WritesEarly
  PROVE  Proper(t, p, i)
  BY DEF Quiet, Calm, Pushed, Proper, Left

\* Link is proper.
LEMMA LinkOk ==
  ASSUME NEW t, Good(t), NEW i, i.h = "link"
  PROVE  Proper(t, Link(t, i), i)
<1> DEFINE f == Fetch(t)
           v == <<0, 0, 0, t.A[0]>>
           p == Push32(f, v)
           b == p.A[7]
           c == Wrap(b - 2)
           B == [p.A EXCEPT ![0] = b, ![7] = c]
           x == [p EXCEPT !.A = B]
           r == Go(p, [p EXCEPT !.A[0] = p.A[7], !.A[7] = Wrap(@ - 2)])
<1>1. Quiet(t, f, i.e) /\ Good(f)
  BY QuietFetch
<1>2. v \in Seq(Byte) /\ Len(v) = 4
  BY AddressIs, LongOf
<1>3. Link(t, i) = r
  BY DEF Link
<1> HIDE DEF f, v
<1>4. Pushed(f, p)
  BY <1>1, <1>2, PushOk
<1> HIDE DEF p
<1>5. i.h \in WritesEarly
  BY DEF WritesEarly
<1>6. Proper(t, p, i) /\ Good(p) /\ p.perm = t.perm
  BY <1>1, <1>4, <1>5, PushProper DEF Proper
<1>7. CASE p.fault
  <2>1. r = p
    BY <1>7 DEF Go
  <2> HIDE DEF r
  <2> QED
    BY <1>3, <1>6, <2>1
<1>8. CASE ~p.fault
  <2>1. b \in Memory /\ b \in Int /\ p.A \in [{0, 1, 7} -> Memory]
    BY <1>6, AddressIs
  <2>2. c \in Memory
    <3>1. b - 2 \in Int
      BY <2>1
    <3> QED
      BY <3>1, Wrapped
  <2>3. r = x
    BY <1>8, <2>1 DEF Go
  <2> HIDE DEF b, c
  <2>4. B \in [{0, 1, 7} -> Memory]
    BY <2>1, <2>2
  <2> HIDE DEF B, r
  <2>5. Moved(p, x)
    BY <1>6, <2>4, MovedOk
  <2> HIDE DEF x
  <2> QED
    BY <1>3, <1>6, <1>8, <2>3, <2>5 DEF Moved, Calm, Proper
<1> QED
  BY <1>7, <1>8

\* The handlers of StepsEarly that have only read so far.
LEMMA PoppedProper ==
  ASSUME NEW t, NEW x, NEW p, NEW n, NEW i, Calm(t, x), Popped(x, p, n), i.h \in StepsEarly
  PROVE  Proper(t, p, i)
  BY DEF Calm, Popped, Proper, Left

\* The bytes of the value just read.
LEMMA LastIs == ASSUME NEW t, Good(t), NEW n \in Nat, Len(t.v) = n, NEW k \in 1..n PROVE t.v[k] \in Byte
<1>1. t.v \in Seq(Byte) /\ k \in 1..Len(t.v)
  BY ValuesAre
<1> QED
  BY <1>1, ItemIs, Zenon

\* Unlk is proper.
LEMMA UnlkOk ==
  ASSUME NEW t, Good(t), NEW i, i.h = "unlk"
  PROVE  Proper(t, Unlk(t, i), i)
<1> DEFINE a == t.A[0]
           A7 == [t.A EXCEPT ![7] = a]
           x == [t EXCEPT !.A = A7]
           p == Pop32(x)
           b == Wrap(p.v[4])
           B == [p.A EXCEPT ![0] = b]
           y == [p EXCEPT !.A = B]
           r == Go(p, [p EXCEPT !.A[0] = Wrap(p.v[4])])
<1>1. A7 \in [{0, 1, 7} -> Memory]
  BY AddressIs
<1>2. [t EXCEPT !.A[7] = t.A[0]] = x
  OBVIOUS
<1>3. Unlk(t, i) = r
  BY <1>2 DEF Unlk
<1> HIDE DEF A7
<1>4. Moved(t, x)
  BY <1>1, MovedOk
<1> HIDE DEF x
<1>5. Popped(x, p, 4)
  BY <1>4, Pop32Ok DEF Moved
<1> HIDE DEF p
<1>6. Proper(t, p, i) /\ Good(p) /\ p.perm = t.perm
  <2>1. i.h \in StepsEarly
    BY DEF StepsEarly
  <2> QED
    BY <1>4, <1>5, <2>1, PoppedProper DEF Moved, Proper
<1>7. CASE p.fault
  <2>1. r = p
    BY <1>7 DEF Go
  <2> HIDE DEF r
  <2> QED
    BY <1>3, <1>6, <2>1
<1>8. CASE ~p.fault
  <2>1. p.v[4] \in Int
    <3>1. p.v[4] \in Byte
      <4>1. Len(p.v) = 4 /\ 4 \in Nat /\ 4 \in 1..4
        BY <1>5, <1>8 DEF Popped
      <4> QED
        BY <1>6, <4>1, LastIs, Zenon
    <3> QED
      BY <3>1 DEF Byte
  <2>2. b \in Memory
    BY <2>1, Wrapped
  <2>3. r = y
    BY <1>8 DEF Go
  <2> HIDE DEF b
  <2>4. B \in [{0, 1, 7} -> Memory]
    BY <1>6, <2>2, AddressIs
  <2> HIDE DEF B, r
  <2>5. Moved(p, y)
    BY <1>6, <2>4, MovedOk
  <2> HIDE DEF y
  <2> QED
    BY <1>3, <1>6, <1>8, <2>3, <2>5 DEF Moved, Calm, Proper
<1> QED
  BY <1>7, <1>8

\* ea_getaddr is quiet.
LEMMA LocatedQuiet ==
  ASSUME NEW t, Good(t), NEW e, InPlace(e)
  PROVE  LET g == GetAddr(t, e, 0) IN Quiet(t, g, e) /\ Good(g) /\ g.a \in Memory
<1> DEFINE g == GetAddr(t, e, 0)
<1>1. 0 \in {0, 1, 2, 4}
  OBVIOUS
<1>2. Located(t, g, e)
  BY <1>1, GetAddrOk
<1> HIDE DEF g
<1>3. Quiet(t, g, e) /\ Good(g) /\ g.a \in Memory
  BY <1>2 DEF Located, Quiet, Good, Safe, State
<1> QED
  BY <1>3 DEF g

\* Pea is proper.
LEMMA PeaOk ==
  ASSUME NEW t, Good(t), NEW i, i.h = "pea", InPlace(i.e)
  PROVE  Proper(t, Pea(t, i), i)
<1> DEFINE g == GetAddr(t, i.e, 0)
           v == <<0, 0, 0, g.a>>
           p == Push32(g, v)
<1>1. Quiet(t, g, i.e) /\ Good(g) /\ g.a \in Memory
  BY LocatedQuiet
<1>2. Pea(t, i) = p
  BY DEF Pea
<1> HIDE DEF g
<1>3. v \in Seq(Byte) /\ Len(v) = 4
  BY <1>1, LongOf
<1> HIDE DEF v
<1>4. Pushed(g, p)
  BY <1>1, <1>3, PushOk
<1> HIDE DEF p
<1>5. i.h \in WritesEarly
  BY DEF WritesEarly
<1> QED
  BY <1>1, <1>2, <1>4, <1>5, PushProper

\* x: p with another program counter.
LEMMA CounterOk ==
  ASSUME NEW p, Good(p), NEW a \in Nat
  PROVE  LET x == [p EXCEPT !.PC = a] IN Good(x) /\ x.fault = p.fault /\ x.perm = p.perm
<1> DEFINE x == [p EXCEPT !.PC = a]
<1>1. p \in State
  BY DEF Good, Safe
<1>2. x \in State /\ x.fault = p.fault /\ x.perm = p.perm /\ x.rd = p.rd /\ x.wr = p.wr /\ x.ssw = p.ssw
  BY <1>1 DEF State
<1> HIDE DEF x
<1>3. Good(x)
  BY <1>2, Aside
<1> QED
  BY <1>2, <1>3 DEF x

\* A handler that jumps at its end.
LEMMA JumpProper ==
  ASSUME NEW t, NEW p, NEW i, Proper(t, p, i), NEW a, ~p.fault => a \in Nat
  PROVE  Proper(t, Go(p, [p EXCEPT !.PC = a]), i)
<1> DEFINE x == [p EXCEPT !.PC = a]
           r == Go(p, x)
<1>1. CASE p.fault
  <2>1. r = p
    BY <1>1 DEF Go
  <2> HIDE DEF r
  <2> QED
    BY <2>1 DEF r
<1>2. CASE ~p.fault
  <2>1. r = x
    BY <1>2 DEF Go
  <2>2. Good(x) /\ x.fault = p.fault /\ x.perm = p.perm
    BY <1>2, CounterOk DEF Proper
  <2> HIDE DEF x, r
  <2>3. Proper(t, r, i)
    BY <1>2, <2>1, <2>2 DEF Proper
  <2> QED
    BY <2>3 DEF r, x
<1> QED
  BY <1>1, <1>2

\* Jsr is proper.
LEMMA JsrOk ==
  ASSUME NEW t, Good(t), NEW i, i.h = "jsr", InPlace(i.e)
  PROVE  Proper(t, Jsr(t, i), i)
<1> DEFINE g == GetAddr(t, i.e, 0)
           v == <<0, 0, 0, 1>>
           p == Push32(g, v)
           a == g.a
           r == Go(p, [p EXCEPT !.PC = a])
<1>1. Quiet(t, g, i.e) /\ Good(g) /\ a \in Nat
  BY LocatedQuiet, SizeIs DEF Memory
<1>2. Jsr(t, i) = r
  BY DEF Jsr
<1> HIDE DEF g, a
<1>3. v \in Seq(Byte) /\ Len(v) = 4
  BY DEF Byte
<1> HIDE DEF v
<1>4. Pushed(g, p)
  BY <1>1, <1>3, PushOk
<1> HIDE DEF p
<1>5. i.h \in WritesEarly
  BY DEF WritesEarly
<1>6. Proper(t, p, i)
  BY <1>1, <1>4, <1>5, PushProper
<1>7. Proper(t, r, i)
  BY <1>1, <1>6, JumpProper
<1> QED
  BY <1>2, <1>7

\* Returning from a subroutine, when what was popped before is covered by i.
LEMMA RtsAfter ==
  ASSUME NEW t, NEW x, Good(x), x.perm = t.perm, x.mem = t.mem, NEW i, Left(t, x, i)
  PROVE  Proper(t, Rts(x, i), i)
<1> DEFINE p == Pop32(x)
           a == p.v[4]
           r == Go(p, [p EXCEPT !.PC = a])
<1>1. Rts(x, i) = r
  BY DEF Rts
<1>2. Popped(x, p, 4)
  BY Pop32Ok
<1> HIDE DEF p
<1>3. Proper(t, p, i)
  BY <1>2 DEF Popped, Calm, Proper, Left
<1>4. ~p.fault => a \in Nat
  <2> SUFFICES ASSUME ~p.fault PROVE a \in Nat
    OBVIOUS
  <2>1. Good(p) /\ Len(p.v) = 4 /\ 4 \in Nat /\ 4 \in 1..4
    BY <1>2 DEF Popped
  <2>2. a \in Byte
    BY <2>1, LastIs, Zenon
  <2> QED
    BY <2>2 DEF Byte
<1> HIDE DEF a
<1>5. Proper(t, r, i)
  BY <1>3, <1>4, JumpProper
<1> QED
  BY <1>1, <1>5

\* Rts is proper.
LEMMA RtsOk == ASSUME NEW t, Good(t), NEW i PROVE Proper(t, Rts(t, i), i)
<1>1. Left(t, t, i)
  BY DEF Left
<1> QED
  BY <1>1, RtsAfter

\* Rtr is proper.
LEMMA RtrOk == ASSUME NEW t, Good(t), NEW i, i.h = "rtr" PROVE Proper(t, Rtr(t, i), i)
<1> DEFINE c == Pop16(t)
           v == c.v
           b == c.v[2]
           x == Go(c, [c EXCEPT !.NZVC = v, !.X = b])
<1>1. Rtr(t, i) = Rts(x, i)
  BY DEF Rtr
<1>2. Popped(t, c, 2)
  BY Pop16Ok
<1> HIDE DEF c
<1>3. i.h \in StepsEarly /\ i.h \in CarriesEarly /\ i.h \in FlagsEarly
  BY DEF StepsEarly, CarriesEarly, FlagsEarly
<1>4. Good(c) /\ Calm(t, c) /\ v \in Seq(Byte)
  BY <1>2, ValuesAre DEF Popped
<1>5. ~c.fault => b \in Byte
  <2> SUFFICES ASSUME ~c.fault PROVE b \in Byte
    OBVIOUS
  <2>1. Len(c.v) = 2 /\ 2 \in Nat /\ 2 \in 1..2
    BY <1>2 DEF Popped
  <2> QED
    BY <1>4, <2>1, LastIs, Zenon
<1> HIDE DEF v, b
<1>6. Good(x) /\ x.perm = t.perm /\ x.mem = t.mem /\ Left(t, x, i)
  <2>1. CASE c.fault
    <3>1. x = c
      BY <2>1 DEF Go
    <3> HIDE DEF x
    <3> QED
      BY <1>3, <1>4, <3>1 DEF Calm, Left
  <2>2. CASE ~c.fault
    <3>1. x = [c EXCEPT !.NZVC = v, !.X = b] /\ c \in State
      BY <1>4, <2>2 DEF Go, Good, Safe
    <3> HIDE DEF x
    <3>2. x \in State /\ x.perm = c.perm /\ x.rd = c.rd /\ x.wr = c.wr /\ x.fault = c.fault
          /\ x.ssw = c.ssw /\ x.D = c.D /\ x.dc = c.dc /\ x.PC = c.PC /\ x.mem = c.mem
      BY <1>4, <1>5, <2>2, <3>1 DEF State
    <3>3. Good(x)
      BY <1>4, <3>2, Aside
    <3> QED
      BY <1>3, <1>4, <3>2, <3>3 DEF Calm, Left
  <2> QED
    BY <2>1, <2>2
<1> HIDE DEF x
<1> QED
  BY <1>1, <1>6, RtsAfter

-----------------------------------------------------------------------------
(* ABCD, SBCD, ADDX, SUBX, CMPM.                                           *)

\* The end of a handler that has stepped its registers, computed and then writes.
LEMMA CarriedWrite ==
  ASSUME NEW t, NEW r, Good(r), Calm(t, r), NEW c, Settled(r, c), NEW w, Writes(c, w), NEW i,
         i.h \in {"bcd", "addx"}
  PROVE  Proper(t, w, i)
<1>1. i.h \in StepsEarly /\ i.h \in CarriesEarly /\ i.h \in FlagsEarly
  BY DEF StepsEarly, CarriesEarly, FlagsEarly
<1>2. CASE c.fault
  BY <1>1, <1>2 DEF Proper, Left, Calm, Settled, Writes, Kept
<1>3. CASE ~c.fault
  <2>1. Good(w) /\ w.perm = t.perm
    BY DEF Calm, Settled, Writes, Kept
  <2>2. w.fault => Left(t, w, i)
    BY <1>1, <1>3 DEF Left, Calm, Settled, Writes, Kept
  <2> QED
    BY <2>1, <2>2 DEF Proper
<1> QED
  BY <1>2, <1>3

\* AluX as a step of a handler that carries early.
LEMMA CarryOk ==
  ASSUME NEW r, Good(r), NEW n \in Sizes, ~r.fault => Len(r.v) = n /\ Len(r.u) = n
  PROVE  Settled(r, AluX(r, r.u))
<1> DEFINE w == r.u
<1>1. w \in Seq(Byte) /\ n \in {1, 2, 4}
  BY ValuesAre DEF Sizes
<1>2. ~r.fault => Len(r.v) = n /\ Len(w) = n
  OBVIOUS
<1> HIDE DEF w
<1>3. n >= n /\ n >= 1
  BY <1>1
<1>4. ~r.fault => w \in Seq(Byte) /\ Len(w) >= Len(r.v) /\ Len(r.v) >= 1
  BY <1>1, <1>2, <1>3
<1>5. Settled(r, AluX(r, w))
  BY <1>4, AluXOk
<1> QED
  BY <1>5 DEF w

\* Bcd is proper.
LEMMA BcdOk == ASSUME NEW t, Good(t), NEW i, i.h = "bcd" PROVE Proper(t, Bcd(t, i), i)
<1> DEFINE d1 == Dec(t, 0)
           a == d1.A[0]
           r1 == Read(d1, a, 1)
           d2 == Dec(r1, 1)
           b == d2.A[1]
           r2 == Read(d2, b, 1)
           c == AluX(r2, r2.u)
           w == Write(c, c.A[1], c.v)
<1>0. 1 \in Sizes
  BY DEF Sizes
<1>1. Bcd(t, i) = w
  BY DEF Bcd
<1>2. Moved(t, d1)
  BY DecOk
<1> HIDE DEF d1
<1>3. Good(d1) /\ a \in Int
  BY <1>2, AddressIs DEF Moved
<1> HIDE DEF a
<1>4. Reads(d1, r1, 1)
  BY <1>0, <1>3, ReadOk
<1> HIDE DEF r1
<1>5. Moved(r1, d2)
  BY <1>4, DecOk DEF Reads
<1> HIDE DEF d2
<1>6. Good(d2) /\ b \in Int
  BY <1>5, AddressIs DEF Moved
<1> HIDE DEF b
<1>7. Reads(d2, r2, 1)
  BY <1>0, <1>6, ReadOk
<1> HIDE DEF r2
<1>8. Good(r2) /\ Calm(t, r2)
  BY <1>2, <1>4, <1>5, <1>7 DEF Moved, Reads, Calm
<1>9. ~r2.fault => Len(r2.v) = 1 /\ Len(r2.u) = 1
  <2> SUFFICES ASSUME ~r2.fault PROVE Len(r2.v) = 1 /\ Len(r2.u) = 1
    OBVIOUS
  <2>1. Len(r2.v) = 1 /\ r2.u = d2.v /\ ~d2.fault
    BY <1>7 DEF Reads
  <2>2. d2.v = r1.v /\ ~r1.fault
    BY <1>5, <2>1 DEF Moved
  <2>3. Len(r1.v) = 1
    BY <1>4, <2>2 DEF Reads
  <2> QED
    BY <2>1, <2>2, <2>3
<1>10. Settled(r2, c)
  BY <1>0, <1>8, <1>9, CarryOk
<1> HIDE DEF c
<1>11. CASE c.fault
  <2>1. w = c /\ c = r2
    BY <1>10, <1>11, Passed DEF Settled
  <2>2. i.h \in StepsEarly
    BY DEF StepsEarly
  <2>3. Proper(t, r2, i)
    BY <1>8, <2>2 DEF Proper, Left, Calm
  <2> HIDE DEF w
  <2> QED
    BY <1>1, <2>1, <2>3
<1>12. CASE ~c.fault
  <2>1. c.A[1] \in Int /\ c.v \in Seq(Byte) /\ Good(c)
    BY <1>10, AddressIs, ValuesAre DEF Settled
  <2>2. Len(c.v) = 1
    BY <1>9, <1>10, <1>12 DEF Settled
  <2>3. Writes(c, w)
    BY <1>0, <2>1, <2>2, WriteOk
  <2> HIDE DEF w
  <2> QED
    BY <1>1, <1>8, <1>10, <2>3, CarriedWrite
<1> QED
  BY <1>11, <1>12

\* Both registers stepped by d.
LEMMA BothMoved ==
  ASSUME NEW t, Good(t), NEW d \in Int
  PROVE  Moved(t, [t EXCEPT !.A[0] = Wrap(@ + d), !.A[1] = Wrap(@ + d)])
<1> DEFINE x == Wrap(t.A[0] + d)
           y == Wrap(t.A[1] + d)
           B == [t.A EXCEPT ![0] = x, ![1] = y]
<1>1. t.A[0] \in Int /\ t.A[1] \in Int /\ t.A \in [{0, 1, 7} -> Memory]
  BY AddressIs
<1>2. x \in Memory /\ y \in Memory
  <2>1. t.A[0] + d \in Int /\ t.A[1] + d \in Int
    BY <1>1
  <2> QED
    BY <2>1, Wrapped
<1>3. [t EXCEPT !.A[0] = Wrap(@ + d), !.A[1] = Wrap(@ + d)] = [t EXCEPT !.A = B]
  BY <1>1
<1> HIDE DEF x, y
<1>4. B \in [{0, 1, 7} -> Memory]
  BY <1>1, <1>2
<1> HIDE DEF B
<1> QED
  BY <1>3, <1>4, MovedOk

\* Two reads of one length, the first now in u and the second in v.
LEMMA TwoReads ==
  ASSUME NEW d, Good(d), NEW a \in Int, NEW b \in Int, NEW n \in Sizes
  PROVE  LET r == Read(Read(d, a, n), b, n) IN
         Good(r) /\ Calm(d, r) /\ r.A = d.A /\ (~r.fault => Len(r.v) = n /\ Len(r.u) = n /\ ~d.fault)
<1> DEFINE p == Read(d, a, n)
           r == Read(p, b, n)
<1>1. Reads(d, p, n)
  BY ReadOk
<1> HIDE DEF p
<1>2. Good(p)
  BY <1>1 DEF Reads
<1>3. Reads(p, r, n)
  BY <1>2, ReadOk
<1> HIDE DEF r
<1>4. Good(r) /\ Calm(d, r) /\ r.A = d.A
  BY <1>1, <1>3 DEF Reads, Calm
<1>5. ~r.fault => Len(r.v) = n /\ Len(r.u) = n /\ ~d.fault
  BY <1>1, <1>3 DEF Reads
<1> QED
  BY <1>4, <1>5 DEF r, p

\* Addx is proper.
LEMMA AddxOk ==
  ASSUME NEW t, Good(t), NEW i, i.h = "addx", i.sz \in Sizes
  PROVE  Proper(t, Addx(t, i), i)
<1> DEFINE n == i.sz
           k == 0 - n
           d == [t EXCEPT !.A[0] = Wrap(@ - n), !.A[1] = Wrap(@ - n)]
           b1 == d.A[1]
           b0 == d.A[0]
           r == Read(Read(d, b1, n), b0, n)
           c == AluX(r, r.u)
           w == Write(c, b1, c.v)
<1>1. Addx(t, i) = w
  BY DEF Addx
<1>2. k \in Int /\ n \in Int
  BY DEF Sizes
<1>3. t.A[0] - n = t.A[0] + k /\ t.A[1] - n = t.A[1] + k
  BY <1>2, AddressIs
<1>4. t.A \in [{0, 1, 7} -> Memory]
  BY AddressIs
<1>5. Moved(t, d)
  <2>1. d = [t EXCEPT !.A[0] = Wrap(@ + k), !.A[1] = Wrap(@ + k)]
    BY <1>3, <1>4
  <2> HIDE DEF d, k
  <2> QED
    BY <1>2, <2>1, BothMoved
<1> HIDE DEF d, k
<1>6. b1 \in Int /\ b0 \in Int /\ Good(d)
  BY <1>5, AddressIs DEF Moved
<1> HIDE DEF b1, b0
<1>7. Good(r) /\ Calm(d, r) /\ (~r.fault => Len(r.v) = n /\ Len(r.u) = n)
  BY <1>6, TwoReads
<1> HIDE DEF r
<1>8. Settled(r, c)
  BY <1>7, CarryOk
<1> HIDE DEF c
<1>9. Calm(t, r)
  BY <1>5, <1>7 DEF Moved, Calm
<1>10. CASE c.fault
  <2>1. w = c /\ c = r
    BY <1>8, <1>10, Passed DEF Settled
  <2>2. i.h \in StepsEarly
    BY DEF StepsEarly
  <2>3. Proper(t, r, i)
    BY <1>7, <1>9, <2>2 DEF Proper, Left, Calm
  <2> HIDE DEF w
  <2> QED
    BY <1>1, <2>1, <2>3
<1>11. CASE ~c.fault
  <2>1. c.v \in Seq(Byte) /\ Good(c)
    BY <1>8, ValuesAre DEF Settled
  <2>2. Len(c.v) \in Sizes
    BY <1>7, <1>8, <1>11 DEF Settled
  <2>3. Writes(c, w)
    BY <1>6, <2>1, <2>2, WriteOk
  <2> HIDE DEF w
  <2> QED
    BY <1>1, <1>7, <1>8, <1>9, <2>3, CarriedWrite
<1> QED
  BY <1>10, <1>11

\* Cmpm is proper.
LEMMA CmpmOk ==
  ASSUME NEW t, Good(t), NEW i, i.h = "cmpm", i.sz \in Sizes
  PROVE  Proper(t, Cmpm(t, i), i)
<1> DEFINE n == i.sz
           d == [t EXCEPT !.A[0] = Wrap(@ + n), !.A[1] = Wrap(@ + n)]
           b1 == t.A[1]
           b0 == t.A[0]
           r == Read(Read(d, b1, n), b0, n)
           z == Res(r.u, r.v)
           c == Flags(r, z)
<1>1. Cmpm(t, i) = c
  BY DEF Cmpm
<1>2. n \in Int
  BY DEF Sizes
<1>3. Moved(t, d)
  BY <1>2, BothMoved
<1> HIDE DEF d
<1>4. b1 \in Int /\ b0 \in Int /\ Good(d)
  BY <1>3, AddressIs DEF Moved
<1> HIDE DEF b1, b0
<1>5. Good(r) /\ Calm(d, r) /\ (~r.fault => Len(r.v) = n /\ Len(r.u) = n)
  BY <1>4, TwoReads
<1> HIDE DEF r
<1>6. ~r.fault => z \in Seq(Byte)
  BY <1>5, ValuesAre, ResOf
<1> HIDE DEF z
<1>7. Settled(r, c)
  BY <1>5, <1>6, FlagsOk
<1> HIDE DEF c
<1>8. i.h \in StepsEarly
  BY DEF StepsEarly
<1>9. Proper(t, c, i)
  BY <1>3, <1>5, <1>7, <1>8 DEF Moved, Calm, Settled, Proper, Left
<1> QED
  BY <1>1, <1>9

-----------------------------------------------------------------------------
(* PACK, UNPK and the bit fields.                                          *)

\* PackIn reads one byte below the stepped register.
LEMMA PackInOk ==
  ASSUME NEW t, Good(t)
  PROVE  LET r == PackIn(t) IN
         Good(r) /\ Calm(t, r) /\ (~r.fault => ~t.fault /\ Len(r.v) = 1 /\ r.u = t.v)
<1> DEFINE d == Dec(t, 0)
           a == d.A[0]
           r == Read(d, a, 1)
<1>1. PackIn(t) = r /\ 1 \in Sizes
  BY DEF PackIn, Sizes
<1>2. Moved(t, d)
  BY DecOk
<1> HIDE DEF d
<1>3. Good(d) /\ a \in Int
  BY <1>2, AddressIs DEF Moved
<1> HIDE DEF a
<1>4. Reads(d, r, 1)
  BY <1>1, <1>3, ReadOk
<1> HIDE DEF r
<1>5. Good(r) /\ Calm(t, r)
  BY <1>2, <1>4 DEF Moved, Reads, Calm
<1>6. ~r.fault => ~t.fault /\ Len(r.v) = 1 /\ r.u = t.v
  BY <1>2, <1>4 DEF Moved, Reads
<1> QED
  BY <1>1, <1>5, <1>6

\* r: t with bytes written and address registers stepped.
Packed(t, r) ==
  /\ Good(r) /\ r.perm = t.perm /\ r.D = t.D /\ r.X = t.X /\ r.NZVC = t.NZVC /\ r.PC = t.PC
  /\ r.dc = t.dc /\ (t.fault => r.fault)
  /\ ~t.fault /\ r.fault => r.mem = t.mem \/ (~r.ssw.read /\ r.ssw.MA)

\* PackOut writes one byte below the stepped register.
LEMMA PackOutOk ==
  ASSUME NEW t, Good(t), NEW b \in Byte
  PROVE  Packed(t, PackOut(t, b))
<1> DEFINE d == Dec(t, 1)
           a == d.A[1]
           v == <<b>>
           r == Write(d, a, v)
<1>1. PackOut(t, b) = r
  BY DEF PackOut
<1>2. Moved(t, d)
  BY DecOk
<1> HIDE DEF d
<1>3. Good(d) /\ a \in Int
  BY <1>2, AddressIs DEF Moved
<1>4. v \in Seq(Byte) /\ Len(v) \in Sizes
  BY DEF Sizes
<1> HIDE DEF a, v
<1>5. Writes(d, r)
  BY <1>3, <1>4, WriteOk
<1> HIDE DEF r
<1>6. Packed(t, r)
  BY <1>2, <1>5 DEF Moved, Writes, Kept, Calm, Packed
<1> QED
  BY <1>1, <1>6

\* Calc gives bytes.
LEMMA CalcIs == ASSUME NEW a \in Byte, NEW b \in Byte PROVE Calc(a, b) \in Byte
<1>1. \A x, y \in Byte : Calc(x, y) \in Byte
  BY InstrAssumption, Zenon
<1> QED
  BY <1>1

\* A handler that has stepped its registers before its last write.
LEMMA PackEnd ==
  ASSUME NEW t, NEW u, NEW r, NEW i, Good(u), Calm(t, u), ~u.fault, Packed(u, r), i.h \in {"pack", "unpk"}
  PROVE  Proper(t, r, i)
<1>1. i.h \in StepsEarly
  BY DEF StepsEarly
<1> QED
  BY <1>1 DEF Packed, Calm, Proper, Left

\* A run that stopped at its reads.
LEMMA StoppedProper ==
  ASSUME NEW t, NEW u, NEW i, Good(u), Calm(t, u), i.h \in StepsEarly
  PROVE  Proper(t, u, i)
  BY DEF Calm, Proper, Left

\* A fetch is a start for what follows.
LEMMA FetchedIs ==
  ASSUME NEW t, Good(t)
  PROVE  LET f == Fetch(t) IN Good(f) /\ Calm(t, f) /\ (~f.fault => ~t.fault)
<1> DEFINE f == Fetch(t)
<1>1. Fetched(t, f)
  BY FetchOk
<1> HIDE DEF f
<1>2. Good(f) /\ Calm(t, f) /\ (~f.fault => ~t.fault)
  BY <1>1 DEF Fetched
<1> QED
  BY <1>2 DEF f

\* Pack is proper.
LEMMA PackOk == ASSUME NEW t, Good(t), NEW i, i.h = "pack" PROVE Proper(t, Pack(t, i), i)
<1> DEFINE f == Fetch(t)
           p == PackIn(f)
           r == PackIn(p)
           b == Calc(r.u[1], r.v[1])
           w == PackOut(r, b)
           x == Go(r, w)
<1>1. Pack(t, i) = x
  BY DEF Pack
<1>2. Good(f) /\ Calm(t, f)
  BY FetchedIs
<1> HIDE DEF f
<1>3. Good(p) /\ Calm(f, p) /\ (~p.fault => Len(p.v) = 1)
  BY <1>2, PackInOk
<1> HIDE DEF p
<1>4. Good(r) /\ Calm(p, r) /\ (~r.fault => ~p.fault /\ Len(r.v) = 1 /\ r.u = p.v)
  BY <1>3, PackInOk
<1> HIDE DEF r
<1>5. Calm(t, r)
  BY <1>2, <1>3, <1>4 DEF Calm
<1>6. CASE r.fault
  <2>1. x = r /\ i.h \in StepsEarly
    BY <1>6 DEF Go, StepsEarly
  <2> HIDE DEF x
  <2> QED
    BY <1>1, <1>4, <1>5, <2>1, StoppedProper
<1>7. CASE ~r.fault
  <2>1. b \in Byte
    <3>1. r.v[1] \in Byte
      <4>1. Len(r.v) = 1 /\ 1 \in Nat /\ 1 \in 1..1
        BY <1>4, <1>7
      <4> QED
        BY <1>4, <4>1, LastIs, Zenon
    <3>2. p.v[1] \in Byte
      <4>1. Len(p.v) = 1 /\ 1 \in Nat /\ 1 \in 1..1
        BY <1>3, <1>4, <1>7
      <4> QED
        BY <1>3, <4>1, LastIs, Zenon
    <3>3. r.u = p.v
      BY <1>4, <1>7
    <3> QED
      BY <3>1, <3>2, <3>3, CalcIs
  <2> HIDE DEF b
  <2>2. Packed(r, w)
    BY <1>4, <2>1, PackOutOk
  <2>3. x = w
    BY <1>7 DEF Go
  <2> HIDE DEF x, w
  <2> QED
    BY <1>1, <1>4, <1>5, <1>7, <2>2, <2>3, PackEnd
<1> QED
  BY <1>6, <1>7

\* Unpk is proper.
LEMMA UnpkOk == ASSUME NEW t, Good(t), NEW i, i.h = "unpk" PROVE Proper(t, Unpk(t, i), i)
<1> DEFINE f == Fetch(t)
           r == PackIn(f)
           b == Calc(r.v[1], 1)
           c == Calc(r.v[1], 2)
           p == PackOut(r, b)
           w == PackOut(p, c)
           x == Go(r, w)
<1>1. Unpk(t, i) = x /\ i.h \in StepsEarly /\ i.h \in WritesEarly
  BY DEF Unpk, StepsEarly, WritesEarly
<1>2. Good(f) /\ Calm(t, f)
  BY FetchedIs
<1> HIDE DEF f
<1>3. Good(r) /\ Calm(f, r) /\ (~r.fault => Len(r.v) = 1)
  BY <1>2, PackInOk
<1> HIDE DEF r
<1>4. Calm(t, r)
  BY <1>2, <1>3 DEF Calm
<1>5. CASE r.fault
  <2>1. x = r
    BY <1>5 DEF Go
  <2> HIDE DEF x
  <2> QED
    BY <1>1, <1>3, <1>4, <2>1, StoppedProper
<1>6. CASE ~r.fault
  <2>1. b \in Byte /\ c \in Byte
    <3>1. Len(r.v) = 1 /\ 1 \in Nat /\ 1 \in 1..1
      BY <1>3, <1>6
    <3>2. r.v[1] \in Byte
      BY <1>3, <3>1, LastIs, Zenon
    <3>3. 1 \in Byte /\ 2 \in Byte
      BY DEF Byte
    <3> QED
      BY <3>2, <3>3, CalcIs
  <2> HIDE DEF b, c
  <2>2. Packed(r, p)
    BY <1>3, <2>1, PackOutOk
  <2> HIDE DEF p
  <2>3. Packed(p, w)
    BY <2>1, <2>2, PackOutOk DEF Packed
  <2>4. x = w
    BY <1>6 DEF Go
  <2> HIDE DEF x, w
  <2>5. Proper(t, w, i)
    BY <1>1, <1>4, <2>2, <2>3 DEF Packed, Calm, Proper, Left
  <2> QED
    BY <1>1, <2>4, <2>5
<1> QED
  BY <1>5, <1>6

\* r: t with bytes of a bit field read and written.
Fielded(t, r) ==
  /\ Good(r) /\ r.perm = t.perm /\ r.D = t.D /\ r.X = t.X /\ r.NZVC = t.NZVC /\ r.PC = t.PC
  /\ r.dc = t.dc /\ r.A = t.A /\ (t.fault => r = t)

\* One byte of a field, read again and written.
LEMMA FieldByteOk ==
  ASSUME NEW t, Good(t), NEW i, NEW k \in Int
  PROVE  Fielded(t, FieldByte(t, i, k))
<1> DEFINE a == t.a + k
           r == Read(t, a, 1)
           b == r.a + k
           c == Changed(i.h, r.v[1])
           v == <<c>>
           w == Write(r, b, v)
           x == Go(r, w)
<1>1. FieldByte(t, i, k) = x /\ 1 \in Sizes
  BY DEF FieldByte, Sizes
<1>2. a \in Int
  BY LocatedIs
<1> HIDE DEF a
<1>3. Reads(t, r, 1)
  BY <1>1, <1>2, ReadOk
<1> HIDE DEF r
<1>4. Good(r) /\ b \in Int
  BY <1>3, LocatedIs DEF Reads
<1> HIDE DEF b
<1>5. CASE r.fault
  <2>1. x = r
    BY <1>5 DEF Go
  <2> HIDE DEF x
  <2> QED
    BY <1>1, <1>3, <2>1 DEF Reads, Calm, Fielded
<1>6. CASE ~r.fault
  <2>1. c \in Byte
    <3>1. Len(r.v) = 1 /\ 1 \in Nat /\ 1 \in 1..1
      BY <1>3, <1>6 DEF Reads
    <3>2. r.v[1] \in Byte
      BY <1>4, <3>1, LastIs, Zenon
    <3> QED
      BY <3>2 DEF Changed, Byte
  <2> HIDE DEF c
  <2>2. v \in Seq(Byte) /\ Len(v) \in Sizes
    BY <2>1 DEF Sizes
  <2> HIDE DEF v
  <2>3. Writes(r, w)
    BY <1>4, <2>2, WriteOk
  <2>4. x = w
    BY <1>6 DEF Go
  <2> HIDE DEF x, w
  <2>5. ~t.fault
    BY <1>3, <1>6 DEF Reads
  <2>6. Fielded(t, w)
    BY <1>3, <2>3, <2>5 DEF Reads, Calm, Writes, Kept, Fielded
  <2> QED
    BY <1>1, <2>4, <2>6
<1> QED
  BY <1>5, <1>6

\* A field operation is proper if it may write early.
LEMMA FieldedProper ==
  ASSUME NEW t, NEW u, NEW c, NEW r, NEW i, Quiet(t, u, i.e), Settled(u, c), c.X = u.X, Fielded(c, r),
         i.h \in FlagsEarly, i.h \in WritesEarly
  PROVE  Proper(t, r, i)
  BY DEF Quiet, Calm, Settled, Fielded, Proper, Left

\* Field is proper.
LEMMA FieldOk ==
  ASSUME NEW t, Good(t), NEW i, i.h \in {"bftst", "bfchg", "bfset", "bfins"}, InPlace(i.e)
  PROVE  Proper(t, Field(t, i), i)
<1> DEFINE g == GetAddr(Fetch(t), i.e, 0)
           a == g.a
           b == g.a + 1
           one == Read(g, a, 1)
           both == Read(one, b, 1)
           all == IF i.sz = 1 THEN one ELSE both
           z == Res(all.v, all.v)
           y == <<9>>
           u == IF i.h = "bfins" THEN g ELSE all
           c == IF i.h = "bfins" THEN Flags(g, y) ELSE Flags(all, z)
           l == 1
           o == 0
           s1 == FieldByte(c, i, o)
           s2 == FieldByte(s1, i, l)
<1>1. Field(t, i) = IF i.h = "bftst" THEN c ELSE IF i.sz = 1 THEN s1 ELSE s2
  BY DEF Field
<1>2. 0 \in {0, 1, 2, 4} /\ 1 \in Sizes /\ l \in Int /\ o \in Int
  BY DEF Sizes
<1>3. Quiet(t, g, i.e) /\ Good(g) /\ a \in Int
  BY <1>2, AimedOk
<1>4. b \in Int
  BY <1>3
<1> HIDE DEF g, a, b, l, o
<1>5. Reads(g, one, 1)
  BY <1>2, <1>3, ReadOk
<1> HIDE DEF one
<1>6. Good(one)
  BY <1>5 DEF Reads
<1>7. Reads(one, both, 1)
  BY <1>2, <1>4, <1>6, ReadOk
<1> HIDE DEF both
<1>8. Quiet(t, all, i.e) /\ Good(all) /\ (~all.fault => Len(all.v) = 1)
  <2>1. Quiet(t, one, i.e) /\ (~one.fault => Len(one.v) = 1)
    BY <1>3, <1>5, QuietRead DEF Reads
  <2>2. Quiet(t, both, i.e) /\ (~both.fault => Len(both.v) = 1)
    BY <1>7, <2>1, QuietRead DEF Reads
  <2> QED
    BY <2>1, <2>2 DEF Quiet
<1> HIDE DEF all
<1>9. ~all.fault => z \in Seq(Byte)
  BY <1>2, <1>8, ValuesAre, ResOf
<1>10. y \in Seq(Byte)
  BY DEF Byte
<1> HIDE DEF z, y
<1>11. Settled(all, Flags(all, z)) /\ Flags(all, z).X = all.X
  BY <1>8, <1>9, FlagsOk
<1>12. Settled(g, Flags(g, y)) /\ Flags(g, y).X = g.X
  BY <1>3, <1>10, FlagsOk
<1>13. Settled(u, c) /\ c.X = u.X /\ Quiet(t, u, i.e)
  BY <1>3, <1>8, <1>11, <1>12
<1> HIDE DEF u, c
<1>14. Proper(t, c, i)
  BY <1>13, QuietEnd
<1>15. CASE i.h = "bftst"
  BY <1>1, <1>14, <1>15
<1>16. CASE i.h # "bftst"
  <2>1. i.h \in FlagsEarly /\ i.h \in WritesEarly
    BY <1>16 DEF FlagsEarly, WritesEarly
  <2>2. Fielded(c, s1)
    BY <1>2, <1>13, FieldByteOk DEF Settled
  <2> HIDE DEF s1
  <2>3. Fielded(s1, s2)
    BY <1>2, <2>2, FieldByteOk DEF Fielded
  <2> HIDE DEF s2
  <2>4. Fielded(c, s2)
    BY <2>2, <2>3 DEF Fielded
  <2>5. Proper(t, s1, i) /\ Proper(t, s2, i)
    BY <1>13, <2>1, <2>2, <2>4, FieldedProper
  <2> QED
    BY <1>1, <1>16, <2>5
<1> QED
  BY <1>15, <1>16

-----------------------------------------------------------------------------
(* MOVE16.                                                                 *)

\* A step that touches no byte.
LEMMA AsideSafe ==
  ASSUME NEW t, Safe(t), NEW r \in State, r.perm = t.perm, r.rd = t.rd, r.wr = t.wr
  PROVE  Safe(r)
  BY DEF Safe, Fine, Permits

\* A fault, its record right or not.
LEMMA RaiseSafe ==
  ASSUME NEW t, Safe(t), NEW x \in Ssw
  PROVE  LET r == Raise(t, x) IN
         Safe(r) /\ Kept(t, r) /\ r.mem = t.mem /\ r.v = t.v /\ r.fault
<1> DEFINE r == Raise(t, x)
<1>1. t \in State
  BY DEF Safe
<1>2. /\ r \in State /\ Kept(t, r) /\ r.mem = t.mem /\ r.v = t.v /\ r.fault
      /\ r.rd = t.rd /\ r.wr = t.wr /\ r.perm = t.perm
  BY <1>1 DEF State, Raise, Kept
<1> HIDE DEF r
<1>3. Safe(r)
  BY <1>2, AsideSafe
<1> QED
  BY <1>2, <1>3 DEF r

\* A line starts at a multiple of four.
LEMMA LineIs == ASSUME NEW a \in Int PROVE Line(Wrap(a)) \in Memory /\ Line(Wrap(a)) % 4 = 0
<1> DEFINE b == Wrap(a)
<1>1. b \in 0..Size - 1
  BY Wrapped DEF Memory
<1> HIDE DEF b
<1>2. b - (b % 4) \in 0..Size - 1 /\ (b - (b % 4)) % 4 = 0
  BY <1>1, SizeIs
<1> QED
  BY <1>2 DEF Line, Memory, b

\* The bytes of a line lie on one page.
LEMMA LineFine ==
  ASSUME NEW t, NEW w, NEW S, Fine(S, t, w), NEW a \in Memory, a % 4 = 0, Allowed(t, Wrap(a), w)
  PROVE  Fine(S \cup Range16(a, 4), t, w)
<1>1. a \in Int
  BY MemoryInt
<1>2. Permits(t, At(a), w)
  BY DEF Allowed, Permits, At
<1>3. ASSUME NEW j \in 0..4 - 1 PROVE Permits(t, At(a + j), w)
  <2>1. j \in 0..3 /\ (a % 4) + j <= 3
    OBVIOUS
  <2>2. At(a + j) = At(a)
    BY <1>1, <2>1, Near DEF At
  <2> QED
    BY <1>2, <2>2
<1>4. \A j \in 0..4 - 1 : Permits(t, At(a + j), w) \/ (j = 3 /\ a % 4 = 1 /\ 4 = 4)
  BY <1>3
<1>5. 4 \in Nat
  OBVIOUS
<1> DEFINE n == 4
<1>6. n \in Nat /\ \A j \in 0..n - 1 : Permits(t, At(a + j), w) \/ (j = 3 /\ a % 4 = 1 /\ n = 4)
  BY <1>4, <1>5
<1> HIDE DEF n
<1>7. Fine(S \cup Range16(a, n), t, w)
  BY <1>1, <1>6, TouchedMore
<1> QED
  BY <1>7 DEF n

\* The record of Transfer16 is a record.
LEMMA RecordIs ==
  ASSUME NEW t \in State, NEW a \in Memory, NEW read \in BOOLEAN, NEW other \in BOOLEAN
  PROVE  Record(t, a, 4, read, 1, 1, other) \in Ssw
<1>1. t.lock \in BOOLEAN /\ a \in Nat
  BY SizeIs DEF State, Memory
<1>2. \A k \in Int : (k > 1) \in BOOLEAN
  OBVIOUS
<1> QED
  BY <1>1, <1>2 DEF Record, Ssw

\* Read16 faults or reads a line.
LEMMA Read16Ok ==
  ASSUME NEW t, Safe(t), NEW a \in Memory, a % 4 = 0, NEW other \in BOOLEAN
  PROVE  LET r == Read16(t, a, other) IN Safe(r) /\ Calm(t, r) /\ r.A = t.A /\ (t.fault => r.fault)
<1> DEFINE W == FALSE
           R == TRUE
           x == Record(t, a, 4, R, 1, 1, other)
           r == Read16(t, a, other)
<1>1. t \in State /\ a \in Int /\ R \in BOOLEAN
  BY MemoryInt DEF Safe
<1>2. CASE t.fault
  <2>1. r = t
    BY <1>2 DEF Read16, Go
  <2> HIDE DEF r
  <2>2. Safe(r) /\ Calm(t, r) /\ r.A = t.A /\ (t.fault => r.fault)
    BY <2>1 DEF Calm
  <2> QED
    BY <2>2 DEF r
<1>3. CASE ~t.fault /\ ~Allowed(t, Wrap(a), W)
  <2>1. r = Raise(t, x)
    BY <1>3 DEF Read16, Go
  <2> HIDE DEF R
  <2>2. x \in Ssw
    BY <1>1, RecordIs
  <2> HIDE DEF x, r
  <2>3. Safe(r) /\ Kept(t, r) /\ r.mem = t.mem
    BY <2>1, <2>2, RaiseSafe
  <2>4. Safe(r) /\ Calm(t, r) /\ r.A = t.A
    BY <2>3 DEF Kept, Calm
  <2> QED
    BY <1>3, <2>4 DEF r
<1>4. CASE ~t.fault /\ Allowed(t, Wrap(a), W)
  <2> DEFINE S == t.rd \cup Range16(a, 4)
             y == Bytes(t, a, 4)
  <2>1. r = [t EXCEPT !.v = y, !.rd = S]
    BY <1>4 DEF Read16, Go
  <2>2. y \in Seq(Byte)
    <3>1. 4 \in Nat
      OBVIOUS
    <3> QED
      BY <1>1, <3>1, BytesAre
  <2>3. S \subseteq Memory
    <3>1. 4 \in Nat
      OBVIOUS
    <3> QED
      BY <1>1, <3>1, RangeIs DEF State
  <2>4. Fine(S, t, FALSE)
    BY <1>4, LineFine DEF Safe
  <2> HIDE DEF S, y, r
  <2>5. r \in State /\ Calm(t, r) /\ r.A = t.A /\ r.rd = S /\ r.wr = t.wr /\ r.perm = t.perm
    BY <1>1, <2>1, <2>2, <2>3 DEF State, Calm
  <2>6. Safe(r)
    BY <2>4, <2>5 DEF Safe, Fine, Permits
  <2> QED
    BY <1>4, <2>5, <2>6 DEF r
<1> QED
  BY <1>2, <1>3, <1>4

\* Write16 faults or writes a line.
LEMMA Write16Ok ==
  ASSUME NEW t, Safe(t), NEW a \in Memory, a % 4 = 0, NEW other \in BOOLEAN
  PROVE  LET r == Write16(t, a, other) IN Safe(r) /\ Kept(t, r) /\ (r.fault => r.mem = t.mem)
<1> DEFINE W == TRUE
           R == FALSE
           z == Record(t, a, 4, R, 1, 1, other)
           q == Added(1, t.ssw.tt)
           x == [z EXCEPT !.read = t.ssw.read, !.MA = t.ssw.MA, !.LK = @ \/ t.ssw.LK, !.tt = q]
           r == Write16(t, a, other)
<1>1. t \in State /\ a \in Int /\ R \in BOOLEAN
  BY MemoryInt DEF Safe
<1>2. CASE t.fault
  <2>1. r = t
    BY <1>2 DEF Write16, Go
  <2> HIDE DEF r
  <2>2. Safe(r) /\ Kept(t, r) /\ r.mem = t.mem
    BY <2>1, SelfKept
  <2> QED
    BY <2>2 DEF r
<1>3. CASE ~t.fault /\ ~Allowed(t, Wrap(a), W)
  <2>1. r = Raise(t, x)
    BY <1>3 DEF Write16, Go
  <2> HIDE DEF R
  <2>2. z \in Ssw
    BY <1>1, RecordIs
  <2>3. t.ssw \in Ssw /\ q \in 0..3
    BY <1>1 DEF State, Ssw, Added
  <2> HIDE DEF z, q
  <2>4. x \in Ssw
    BY <2>2, <2>3 DEF Ssw
  <2> HIDE DEF x, r
  <2>5. Safe(r) /\ Kept(t, r) /\ r.mem = t.mem
    BY <2>1, <2>4, RaiseSafe
  <2> QED
    BY <2>5 DEF r
<1>4. CASE ~t.fault /\ Allowed(t, Wrap(a), W)
  <2> DEFINE S == t.wr \cup Range16(a, 4)
             m == Put(t.mem, Wrap(a), t.v)
  <2>1. r = [t EXCEPT !.mem = m, !.wr = S]
    BY <1>4 DEF Write16, Go
  <2>2. m \in [Memory -> Byte]
    <3>1. t.mem \in [Memory -> Byte] /\ t.v \in Seq(Byte) /\ Wrap(a) \in Int
      BY <1>1, Wrapped, MemoryInt DEF State
    <3> QED
      BY <3>1, PutIs
  <2>3. S \subseteq Memory
    <3>1. 4 \in Nat
      OBVIOUS
    <3> QED
      BY <1>1, <3>1, RangeIs DEF State
  <2>4. Fine(S, t, TRUE)
    BY <1>4, LineFine DEF Safe
  <2> HIDE DEF S, m, r
  <2>5. r \in State /\ Kept(t, r) /\ r.rd = t.rd /\ r.wr = S /\ r.fault = t.fault /\ r.perm = t.perm
    BY <1>1, <2>1, <2>2, <2>3 DEF State, Kept
  <2>6. Safe(r)
    BY <2>4, <2>5 DEF Safe, Fine, Permits
  <2> QED
    BY <1>4, <2>5, <2>6 DEF r
<1> QED
  BY <1>2, <1>3, <1>4

\* MOVE16 of a line; the record of its write may not name the page.
Sane(t, r, i) == Safe(r) /\ r.perm = t.perm /\ (r.fault => Left(t, r, i))

\* Move16 is proper but for its record.
LEMMA Move16Ok ==
  ASSUME NEW t, Good(t), NEW i, i.other \in BOOLEAN
  PROVE  Sane(t, Move16(t, i), i)
<1> DEFINE f == Fetch(t)
           from == Line(Wrap(t.A[0]))
           to == Line(Wrap(t.A[1]))
           r == Read16(f, from, i.other)
           m == Write16(r, to, i.other)
           a0 == Wrap(m.A[0] + 4)
           a1 == IF i.f.mode = "incr" THEN Wrap(m.A[1] + 4) ELSE m.A[1]
           B == [m.A EXCEPT ![0] = a0, ![1] = a1]
           y == [m EXCEPT !.A = B]
           x == Go(m, [m EXCEPT !.A[0] = Wrap(@ + 4),
                                !.A[1] = IF i.f.mode = "incr" THEN Wrap(@ + 4) ELSE @])
<1>1. Move16(t, i) = x
  BY DEF Move16, Transfer16
<1>2. Quiet(t, f, i.e) /\ Good(f) /\ f.A = t.A
  BY QuietFetch
<1>3. from \in Memory /\ from % 4 = 0 /\ to \in Memory /\ to % 4 = 0
  <2>1. t.A[0] \in Int /\ t.A[1] \in Int
    BY AddressIs
  <2> QED
    BY <2>1, LineIs
<1> HIDE DEF f, from, to
<1>4. Safe(r) /\ Calm(f, r) /\ r.A = f.A
  BY <1>2, <1>3, Read16Ok DEF Good
<1> HIDE DEF r
<1>5. Safe(m) /\ Kept(r, m) /\ (m.fault => m.mem = r.mem)
  BY <1>3, <1>4, Write16Ok
<1> HIDE DEF m
<1>6. m.perm = t.perm
  BY <1>2, <1>4, <1>5 DEF Quiet, Calm, Kept
<1>7. CASE m.fault
  <2>1. x = m
    BY <1>7 DEF Go
  <2> HIDE DEF x
  <2>2. Left(t, m, i)
    BY <1>2, <1>4, <1>5, <1>7 DEF Quiet, Calm, Kept, Left
  <2> QED
    BY <1>1, <1>5, <1>6, <2>1, <2>2 DEF Sane
<1>8. CASE ~m.fault
  <2>1. m \in State /\ m.A \in [{0, 1, 7} -> Memory] /\ m.A[0] \in Memory /\ m.A[1] \in Memory
    BY <1>5 DEF Safe, State
  <2>2. a0 \in Memory /\ a1 \in Memory
    <3>1. m.A[0] + 4 \in Int /\ m.A[1] + 4 \in Int
      BY <2>1, MemoryInt
    <3> QED
      BY <2>1, <3>1, Wrapped
  <2>3. x = y
    BY <1>8, <2>1 DEF Go
  <2> HIDE DEF a0, a1, x
  <2>4. B \in [{0, 1, 7} -> Memory]
    BY <2>1, <2>2
  <2> HIDE DEF B
  <2>5. y \in State /\ y.perm = m.perm /\ y.rd = m.rd /\ y.wr = m.wr /\ y.fault = m.fault
    BY <2>1, <2>4 DEF State
  <2> HIDE DEF y
  <2>6. Safe(y)
    BY <1>5, <2>5, AsideSafe
  <2> QED
    BY <1>1, <1>6, <1>8, <2>3, <2>5, <2>6 DEF Sane
<1> QED
  BY <1>7, <1>8

-----------------------------------------------------------------------------
(* The instructions.                                                       *)

\* What init_run_table lets a handler have for operands.
Shape(i) ==
  /\ i.sz \in Sizes /\ i.other \in BOOLEAN
  /\ i.h \in {"rmw", "immediate", "clr", "scc"} => Place(i.e)
  /\ i.h \in {"to_dn", "fetch_to_dn", "move"} => Source(i.e)
  /\ i.h \in {"cmp2", "btst", "bchg", "cas", "moves_load", "moves_store", "pea", "jsr",
              "bftst", "bfchg", "bfset", "bfins"} => InPlace(i.e)
  /\ i.h = "move" => Place(i.f)
  /\ i.h \in {"movep_load", "movep_store"} => i.sz \in {2, 4}
  /\ i.h \in {"rmw", "immediate", "to_dn", "fetch_to_dn", "cmp2", "btst", "bchg", "movep_load",
              "movep_store", "cas", "cas2", "moves_load", "moves_store", "move", "clr", "scc",
              "link", "unlk", "pea", "jsr", "rts", "rtr", "bcd", "addx", "cmpm", "pack", "unpk",
              "bftst", "bfchg", "bfset", "bfins", "move16"}

\* Operands in memory use registers 0 and 7.
LEMMA EasAre ==
  ASSUME NEW modes, NEW e \in Eas(modes)
  PROVE  e.mode \in modes /\ (e.mode \in InMemory => InPlace(e))
<1>1. Regs \subseteq {0, 7}
  BY InstrAssumption, Zenon
<1> QED
  BY <1>1 DEF Eas, InPlace

\* The sets of operands of init_run_table.
LEMMA PlacesAre ==
  /\ \A e \in Eas(InMemory) \cup Eas(Control) : InPlace(e)
  /\ \A e \in Eas(InMemory \cup {"reg"}) : Place(e)
  /\ \A e \in Eas(InMemory \cup {"reg", "imm"}) \cup Eas(InMemory \cup {"imm"}) : Source(e)
<1>1. Control \subseteq InMemory
  BY DEF InMemory
<1>2. \A e \in Eas(InMemory) : InPlace(e)
  BY EasAre
<1>3. \A e \in Eas(Control) : InPlace(e)
  BY <1>1, EasAre
<1>4. \A e \in Eas(InMemory \cup {"reg"}) : Place(e)
  BY EasAre DEF Place
<1>5. \A e \in Eas(InMemory \cup {"reg", "imm"}) : Source(e)
  BY EasAre DEF Place, Source
<1>6. \A e \in Eas(InMemory \cup {"imm"}) : Source(e)
  BY EasAre DEF Place, Source
<1> QED
  BY <1>2, <1>3, <1>4, <1>5, <1>6

\* The fields of an instruction with an operand.
LEMMA InsAre ==
  ASSUME NEW hs, NEW szs, NEW modes, NEW i \in Ins(hs, szs, modes)
  PROVE  i.h \in hs /\ i.sz \in szs /\ i.e \in Eas(modes) /\ i.other \in BOOLEAN
  BY DEF Ins

\* The fields of an instruction without one.
LEMMA FixedAre ==
  ASSUME NEW hs, NEW szs, NEW i \in Fixed(hs, szs)
  PROVE  i.h \in hs /\ i.sz \in szs /\ i.other \in BOOLEAN
  BY DEF Fixed

\* Instructions without an operand.
LEMMA FixedShape ==
  ASSUME NEW hs, NEW szs, NEW i \in Fixed(hs, szs), szs \subseteq Sizes,
         hs \subseteq {"cas2", "link", "unlk", "rts", "rtr", "bcd", "addx", "cmpm", "pack", "unpk"}
                     \/ (hs \subseteq {"movep_load", "movep_store"} /\ szs \subseteq {2, 4})
  PROVE  Shape(i)
<1>1. i.h \in hs /\ i.sz \in szs /\ i.other \in BOOLEAN
  BY FixedAre
<1> QED
  BY <1>1 DEF Shape

\* Instructions with an operand.
LEMMA InsShape ==
  ASSUME NEW hs, NEW szs, NEW modes, NEW i \in Ins(hs, szs, modes), szs \subseteq Sizes,
         \/ /\ hs \subseteq {"rmw", "immediate", "clr", "scc", "to_dn", "fetch_to_dn"}
            /\ modes = InMemory \cup {"reg"} \/ modes = InMemory
         \/ /\ hs \subseteq {"to_dn", "fetch_to_dn"}
            /\ modes = InMemory \cup {"reg", "imm"} \/ modes = InMemory \cup {"imm"}
         \/ /\ hs \subseteq {"cmp2", "btst", "bchg", "cas", "pea", "jsr", "bftst", "bfchg", "bfset", "bfins"}
            /\ modes = InMemory \/ modes = Control
  PROVE  Shape(i)
<1>1. i.h \in hs /\ i.sz \in szs /\ i.e \in Eas(modes) /\ i.other \in BOOLEAN
  BY InsAre
<1>2. CASE /\ hs \subseteq {"rmw", "immediate", "clr", "scc", "to_dn", "fetch_to_dn"}
           /\ modes = InMemory \cup {"reg"} \/ modes = InMemory
  <2>1. Place(i.e) /\ Source(i.e)
    BY <1>1, <1>2, PlacesAre DEF Place, Source
  <2> QED
    BY <1>1, <1>2, <2>1 DEF Shape
<1>3. CASE /\ hs \subseteq {"to_dn", "fetch_to_dn"}
           /\ modes = InMemory \cup {"reg", "imm"} \/ modes = InMemory \cup {"imm"}
  <2>1. Source(i.e)
    BY <1>1, <1>3, PlacesAre
  <2> QED
    BY <1>1, <1>3, <2>1 DEF Shape
<1>4. CASE /\ hs \subseteq {"cmp2", "btst", "bchg", "cas", "pea", "jsr", "bftst", "bfchg", "bfset", "bfins"}
           /\ modes = InMemory \/ modes = Control
  <2>1. InPlace(i.e)
    BY <1>1, <1>4, PlacesAre
  <2> QED
    BY <1>1, <1>4, <2>1 DEF Shape
<1> QED
  BY <1>2, <1>3, <1>4

\* Every instruction has the operands its handler is written for.
LEMMA Shapes == ASSUME NEW i \in Instrs PROVE Shape(i)
<1>0. Sizes \subseteq Sizes /\ {1} \subseteq Sizes /\ {2} \subseteq Sizes /\ {4} \subseteq Sizes
      /\ {2, 4} \subseteq Sizes /\ {1, 2} \subseteq Sizes
  BY DEF Sizes
<1>1. \A j \in OpImmediate \cup OpCmp2 \cup OpBits \cup OpMovep : Shape(j)
  BY <1>0, InsShape, FixedShape DEF OpImmediate, OpCmp2, OpBits, OpMovep
<1>2. \A j \in OpCas : Shape(j)
  BY <1>0, InsShape, FixedShape DEF OpCas
<1>3. ASSUME NEW j \in OpMoves PROVE Shape(j)
  <2>1. j.h \in {"moves_load", "moves_store"} /\ j.sz \in Sizes /\ j.e \in Eas(InMemory) /\ j.other \in BOOLEAN
    BY <1>3 DEF OpMoves
  <2> QED
    BY <2>1, PlacesAre DEF Shape
<1>4. ASSUME NEW j \in OpMove PROVE Shape(j)
  <2>1. j.h = "move" /\ j.sz \in Sizes /\ j.e \in Eas(InMemory \cup {"reg", "imm"}) /\ j.other \in BOOLEAN
        /\ (j.f.mode = "reg" \/ (j.f.mode \in InMemory /\ j.f.reg = 1))
    <3>1. j.h = "move" /\ j.sz \in Sizes /\ j.e \in Eas(InMemory \cup {"reg", "imm"})
      BY <1>4 DEF OpMove
    <3>2. j.other \in BOOLEAN
      BY <1>4 DEF OpMove
    <3>3. j.f \in [mode : InMemory, reg : {1}] \cup {[mode |-> "reg", reg |-> 0]}
      BY <1>4 DEF OpMove
    <3>4. j.f.mode = "reg" \/ (j.f.mode \in InMemory /\ j.f.reg = 1)
      BY <3>3
    <3> QED
      BY <3>1, <3>2, <3>4
  <2>2. Place(j.f) /\ Source(j.e)
    BY <2>1, PlacesAre DEF Place, InPlace
  <2> QED
    BY <2>1, <2>2 DEF Shape
<1>5. \A j \in OpMoveSr \cup OpUnary : Shape(j)
  BY <1>0, InsShape DEF OpMoveSr, OpUnary
<1>6. \A j \in OpStack : Shape(j)
  BY <1>0, InsShape, FixedShape DEF OpStack
<1>7. \A j \in OpTest : Shape(j)
  BY <1>0, InsShape DEF OpTest
<1>8. \A j \in OpReturn : Shape(j)
  BY <1>0, InsShape, FixedShape DEF OpReturn
<1>9. \A j \in OpQuick : Shape(j)
  BY <1>0, InsShape DEF OpQuick
<1>10. \A j \in ToAndFrom : Shape(j)
  BY <1>0, InsShape DEF ToAndFrom
<1>11. \A j \in OpOr \cup OpSub \cup OpCmp \cup OpAnd \cup OpAdd : Shape(j)
  BY <1>0, <1>10, FixedShape DEF OpOr, OpSub, OpCmp, OpAnd, OpAdd
<1>12. \A j \in OpShift : Shape(j)
  BY <1>0, InsShape DEF OpShift
<1>13. \A j \in OpField : Shape(j)
  BY <1>0, InsShape DEF OpField
<1>14. \A j \in OpMove16 : Shape(j)
  BY <1>0 DEF OpMove16, Shape
<1> QED
  BY <1>1, <1>2, <1>3, <1>4, <1>5, <1>6, <1>7, <1>8, <1>9, <1>11, <1>12, <1>13, <1>14 DEF Instrs

-----------------------------------------------------------------------------
(* Every handler.                                                          *)

\* Every handler is proper; MOVE16 but for the record it leaves.
LEMMA HandlerOk ==
  ASSUME NEW t, Good(t), ~t.fault, ~t.lock, NEW i, Shape(i), Both(t, i.sz)
  PROVE  /\ i.h # "move16" => Proper(t, Handler(t, i), i)
         /\ i.h = "move16" => Sane(t, Handler(t, i), i)
<1>0. i.sz \in Sizes
  BY DEF Shape
<1>1. CASE i.h = "rmw"
  <2>1. Handler(t, i) = Rmw(t, i) /\ Place(i.e)
    BY <1>1 DEF Handler, Shape
  <2> QED
    BY <1>0, <1>1, <2>1, RmwOk
<1>2. CASE i.h = "immediate"
  <2>1. Handler(t, i) = Immediate(t, i) /\ Place(i.e)
    BY <1>2 DEF Handler, Shape
  <2> QED
    BY <1>0, <1>2, <2>1, ImmediateOk
<1>3. CASE i.h = "to_dn"
  <2>1. Handler(t, i) = ToDn(t, i) /\ Source(i.e)
    BY <1>3 DEF Handler, Shape
  <2> QED
    BY <1>0, <1>3, <2>1, ToDnOk
<1>4. CASE i.h = "fetch_to_dn"
  <2>1. Handler(t, i) = FetchToDn(t, i) /\ Source(i.e)
    BY <1>4 DEF Handler, Shape
  <2> QED
    BY <1>0, <1>4, <2>1, FetchToDnOk
<1>5. CASE i.h = "cmp2"
  <2>1. Handler(t, i) = Cmp2(t, i) /\ InPlace(i.e)
    BY <1>5 DEF Handler, Shape
  <2> QED
    BY <1>0, <1>5, <2>1, Cmp2Ok
<1>6. CASE i.h \in {"btst", "bchg"}
  <2>1. Handler(t, i) = Bit(t, i) /\ InPlace(i.e)
    BY <1>6 DEF Handler, Shape
  <2> QED
    BY <1>6, <2>1, BitOk
<1>7. CASE i.h = "movep_load"
  <2>1. Handler(t, i) = MovepLoad(t, i) /\ i.sz \in {2, 4}
    BY <1>7 DEF Handler, Shape
  <2> QED
    BY <1>7, <2>1, MovepLoadOk
<1>8. CASE i.h = "movep_store"
  <2>1. Handler(t, i) = MovepStore(t, i) /\ i.sz \in {2, 4}
    BY <1>8 DEF Handler, Shape
  <2> QED
    BY <1>8, <2>1, MovepStoreOk
<1>9. CASE i.h = "cas"
  <2>1. Handler(t, i) = Cas(t, i) /\ InPlace(i.e)
    BY <1>9 DEF Handler, Shape
  <2> QED
    BY <1>0, <1>9, <2>1, CasOk
<1>10. CASE i.h = "cas2"
  <2>1. Handler(t, i) = Cas2(t, i)
    BY <1>10 DEF Handler
  <2> QED
    BY <1>0, <1>10, <2>1, Cas2Ok
<1>11. CASE i.h \in {"moves_load", "moves_store"}
  <2>1. Handler(t, i) = Moves(t, i) /\ InPlace(i.e) /\ i.other \in BOOLEAN
    BY <1>11 DEF Handler, Shape
  <2> QED
    BY <1>0, <1>11, <2>1, MovesOk
<1>12. CASE i.h = "move"
  <2>1. Handler(t, i) = Move(t, i) /\ Source(i.e) /\ Place(i.f)
    BY <1>12 DEF Handler, Shape
  <2> QED
    BY <1>0, <1>12, <2>1, MoveOk
<1>13. CASE i.h \in {"clr", "scc"}
  <2>1. Handler(t, i) = WriteOnly(t, i) /\ Place(i.e)
    BY <1>13 DEF Handler, Shape
  <2> QED
    BY <1>0, <1>13, <2>1, WriteOnlyOk
<1>14. CASE i.h = "link"
  <2>1. Handler(t, i) = Link(t, i)
    BY <1>14 DEF Handler
  <2> QED
    BY <1>14, <2>1, LinkOk
<1>15. CASE i.h = "unlk"
  <2>1. Handler(t, i) = Unlk(t, i)
    BY <1>15 DEF Handler
  <2> QED
    BY <1>15, <2>1, UnlkOk
<1>16. CASE i.h = "pea"
  <2>1. Handler(t, i) = Pea(t, i) /\ InPlace(i.e)
    BY <1>16 DEF Handler, Shape
  <2> QED
    BY <1>16, <2>1, PeaOk
<1>17. CASE i.h = "jsr"
  <2>1. Handler(t, i) = Jsr(t, i) /\ InPlace(i.e)
    BY <1>17 DEF Handler, Shape
  <2> QED
    BY <1>17, <2>1, JsrOk
<1>18. CASE i.h = "rts"
  <2>1. Handler(t, i) = Rts(t, i)
    BY <1>18 DEF Handler
  <2> QED
    BY <1>18, <2>1, RtsOk
<1>19. CASE i.h = "rtr"
  <2>1. Handler(t, i) = Rtr(t, i)
    BY <1>19 DEF Handler
  <2> QED
    BY <1>19, <2>1, RtrOk
<1>20. CASE i.h = "bcd"
  <2>1. Handler(t, i) = Bcd(t, i)
    BY <1>20 DEF Handler
  <2> QED
    BY <1>20, <2>1, BcdOk
<1>21. CASE i.h = "addx"
  <2>1. Handler(t, i) = Addx(t, i)
    BY <1>21 DEF Handler
  <2> QED
    BY <1>0, <1>21, <2>1, AddxOk
<1>22. CASE i.h = "cmpm"
  <2>1. Handler(t, i) = Cmpm(t, i)
    BY <1>22 DEF Handler
  <2> QED
    BY <1>0, <1>22, <2>1, CmpmOk
<1>23. CASE i.h = "pack"
  <2>1. Handler(t, i) = Pack(t, i)
    BY <1>23 DEF Handler
  <2> QED
    BY <1>23, <2>1, PackOk
<1>24. CASE i.h = "unpk"
  <2>1. Handler(t, i) = Unpk(t, i)
    BY <1>24 DEF Handler
  <2> QED
    BY <1>24, <2>1, UnpkOk
<1>25. CASE i.h \in {"bftst", "bfchg", "bfset", "bfins"}
  <2>1. Handler(t, i) = Field(t, i) /\ InPlace(i.e)
    BY <1>25 DEF Handler, Shape
  <2> QED
    BY <1>25, <2>1, FieldOk
<1>26. CASE i.h = "move16"
  <2>1. Handler(t, i) = Move16(t, i) /\ i.other \in BOOLEAN
    BY <1>26 DEF Handler, Shape
  <2> QED
    BY <1>26, <2>1, Move16Ok
<1>27. i.h \in {"rmw", "immediate", "to_dn", "fetch_to_dn", "cmp2", "btst", "bchg", "movep_load",
                "movep_store", "cas", "cas2", "moves_load", "moves_store", "move", "clr", "scc",
                "link", "unlk", "pea", "jsr", "rts", "rtr", "bcd", "addx", "cmpm", "pack", "unpk",
                "bftst", "bfchg", "bfset", "bfins", "move16"}
  BY DEF Shape
<1> QED
  BY <1>1, <1>2, <1>3, <1>4, <1>5, <1>6, <1>7, <1>8, <1>9, <1>10, <1>11, <1>12, <1>13, <1>14,
     <1>15, <1>16, <1>17, <1>18, <1>19, <1>20, <1>21, <1>22, <1>23, <1>24, <1>25, <1>26, <1>27

-----------------------------------------------------------------------------
(* The invariant and the theorems.                                         *)

\* What holds of the instruction and its pager at any time.
IInv ==
  /\ job \in Instrs /\ s \in State /\ phase \in {"run", "fault", "done"}
  /\ phase # "done" => Both(s, job.sz) /\ ~s.lock
  /\ phase = "fault" => Left(begun, s, job) /\ (job.h # "move16" => Lacks(s))

\* The compare operands at the start.
LEMMA OldAre ==
  ASSUME NEW a \in Memory, NEW n \in Nat
  PROVE  LET b == [k \in 1..n |-> InitMem[(a + k - 1) % Size]] IN b \in Seq(Byte) /\ Len(b) = n
<1>1. InitMem \in [Memory -> Byte]
  BY InstrAssumption, Zenon
<1>2. \A k \in 1..n : InitMem[(a + k - 1) % Size] \in Byte
  <2> SUFFICES ASSUME NEW k \in 1..n PROVE InitMem[(a + k - 1) % Size] \in Byte
    OBVIOUS
  <2>1. a + k - 1 \in Int
    BY MemoryInt
  <2>2. (a + k - 1) % Size \in Memory
    BY <2>1, Wrapped DEF Wrap
  <2> QED
    BY <1>1, <2>2
<1> QED
  BY <1>2

\* A record with another kind of transfer.
LEMMA RelabelOk == ASSUME NEW r \in Ssw, NEW tt \in 0..3 PROVE [r EXCEPT !.tt = tt] \in Ssw
  BY DEF Ssw

\* The first state.
LEMMA StateOfOk ==
  ASSUME NEW i, i.sz \in Sizes, NEW a0 \in Memory, NEW perm \in [0..Pages -> Perms], NEW tt \in 0..2
  PROVE  LET t == [StateOf(i, a0, perm) EXCEPT !.ssw.tt = tt] IN
         t \in State /\ Both(t, i.sz) /\ ~t.lock
<1> DEFINE n == i.sz
           old(a) == [k \in 1..n |-> InitMem[(a + k - 1) % Size]]
           x == old(a0)
           y == old(Second)
           A0 == [r \in {0, 1, 7} |-> IF r = 0 THEN a0 ELSE IF r = 1 THEN Second ELSE StackTop]
           D0 == <<101, 102, 103, 104>>
           dc0 == <<x, y>>
           z == StateOf(i, a0, perm)
           q == [z.ssw EXCEPT !.tt = tt]
           t == [z EXCEPT !.ssw.tt = tt]
<1>1. Second \in Memory /\ StackTop \in Memory /\ InitMem \in [Memory -> Byte]
  BY InstrAssumption, Zenon
<1>2. n \in Nat
  BY DEF Sizes
<1>3. x \in Seq(Byte) /\ Len(x) = n /\ y \in Seq(Byte) /\ Len(y) = n
  BY <1>1, <1>2, OldAre
<1>4. NoFault \in Ssw
  BY DEF Ssw, NoFault
<1>5. A0 \in [{0, 1, 7} -> Memory] /\ D0 \in Long /\ <<0>> \in Seq(Byte) /\ 1 \in Byte
      /\ 0 \in Memory /\ << >> \in Seq(Byte)
  BY <1>1, SizeIs DEF Long, Byte, Memory
<1>6. z = [A |-> A0, D |-> D0, X |-> 1, NZVC |-> <<0>>, PC |-> 0, dc |-> dc0,
           mem |-> InitMem, perm |-> perm, EA |-> 0, lock |-> FALSE, fault |-> FALSE,
           ssw |-> NoFault, a |-> 0, u |-> << >>, v |-> << >>, rd |-> {}, wr |-> {}]
  BY Zenon DEF StateOf
<1> HIDE DEF x, y
<1>7. dc0 \in [1..2 -> Seq(Byte)] /\ dc0[1] = x /\ dc0[2] = y
  BY <1>3
<1> HIDE DEF A0, D0, dc0, z
<1>8. z \in State /\ z.dc = dc0 /\ z.lock = FALSE
  BY <1>1, <1>4, <1>5, <1>6, <1>7 DEF State
<1>9. q \in Ssw
  <2>1. z.ssw \in Ssw /\ tt \in 0..3
    BY <1>8 DEF State
  <2> QED
    BY <2>1, RelabelOk
<1>10. t = [z EXCEPT !.ssw = q]
  BY <1>8 DEF State
<1> HIDE DEF q
<1>11. t \in State /\ t.dc = z.dc /\ t.lock = z.lock
  BY <1>8, <1>9, <1>10 DEF State
<1> HIDE DEF t
<1>12. Both(t, n) /\ ~t.lock
  BY <1>3, <1>7, <1>8, <1>11 DEF Both
<1> QED
  BY <1>11, <1>12 DEF t, z

\* The invariant holds at the start.
LEMMA InitIInv == Init => IInv
<1> SUFFICES ASSUME Init PROVE IInv
  OBVIOUS
<1>1. job \in Instrs /\ phase = "run"
  BY DEF Init
<1>2. PICK a0 \in Operands, perm \in [0..Pages -> Perms], tt \in Old(job) :
        s = [StateOf(job, a0, perm) EXCEPT !.ssw.tt = tt]
  BY DEF Init
<1>3. a0 \in Memory
  <2>1. Operands \subseteq Memory
    BY InstrAssumption, Zenon
  <2> QED
    BY <2>1
<1>4. job.sz \in Sizes
  BY <1>1, Shapes DEF Shape
<1>5. tt \in 0..2
  BY DEF Old
<1>6. s \in State /\ Both(s, job.sz) /\ ~s.lock
  BY <1>2, <1>3, <1>4, <1>5, StateOfOk
<1> QED
  BY <1>1, <1>6 DEF IInv

\* A handler starts with a state of which everything wanted holds.
LEMMA EnterOk ==
  ASSUME NEW t \in State
  PROVE  LET r == Enter(t) IN
         Good(r) /\ ~r.fault /\ r.lock = t.lock /\ r.dc = t.dc /\ r.perm = t.perm
<1> DEFINE r == Enter(t)
<1>1. 0 \in Memory /\ << >> \in Seq(Byte)
  BY SizeIs DEF Memory
<1>2. r \in State /\ r.fault = FALSE /\ r.rd = {} /\ r.wr = {} /\ r.lock = t.lock /\ r.dc = t.dc
      /\ r.perm = t.perm
  BY <1>1 DEF Enter, State
<1> HIDE DEF r
<1> QED
  BY <1>2 DEF Good, Safe, Fine, r

\* What a run of the handler leaves, fault or not.
LEMMA RunOk ==
  ASSUME IInv, phase = "run"
  PROVE  LET b == Enter(s)
             t == Handler(b, job)
         IN /\ t \in State /\ t.perm = s.perm
            /\ Fine(t.rd, s, FALSE) /\ Fine(t.wr, s, TRUE)
            /\ t.fault => Left(b, t, job) /\ (job.h # "move16" => Lacks(t))
            /\ t.fault => Both(t, job.sz)
<1> DEFINE b == Enter(s)
           t == Handler(b, job)
<1>1. s \in State /\ job \in Instrs /\ Both(s, job.sz) /\ ~s.lock
  BY DEF IInv
<1>2. Good(b) /\ ~b.fault /\ b.lock = s.lock /\ b.dc = s.dc /\ b.perm = s.perm
  BY <1>1, EnterOk
<1>3. Shape(job)
  BY <1>1, Shapes
<1>4. Both(b, job.sz) /\ ~b.lock
  BY <1>1, <1>2 DEF Both
<1> HIDE DEF b
<1>5. /\ job.h # "move16" => Proper(b, t, job)
      /\ job.h = "move16" => Sane(b, t, job)
  BY <1>2, <1>3, <1>4, HandlerOk
<1> HIDE DEF t
<1>6. Safe(t) /\ t.perm = b.perm /\ (t.fault => Left(b, t, job))
      /\ (t.fault /\ job.h # "move16" => Lacks(t))
  BY <1>5 DEF Proper, Sane, Good
<1>7. t.fault => Both(t, job.sz)
  BY <1>4, <1>6 DEF Left, Both
<1>8. t.perm = s.perm /\ t \in State /\ Fine(t.rd, s, FALSE) /\ Fine(t.wr, s, TRUE)
  BY <1>2, <1>6 DEF Safe, Fine, Permits
<1> QED
  BY <1>6, <1>7, <1>8 DEF b, t

\* The bus is not locked when the pager runs: it stores nothing.
LEMMA PagerOk ==
  ASSUME IInv, NEW x \in Perms, Pager(x)
  PROVE  s' \in State /\ s'.mem = s.mem /\ s'.dc = s.dc /\ ~s'.lock
<1> DEFINE p == Named(s.ssw)
           q == [s.perm EXCEPT ![p] = IF s.ssw.other \/ @ = "rw" THEN @ ELSE x]
<1>1. s \in State /\ ~s.lock
  BY DEF IInv, Pager
<1>2. s' = [s EXCEPT !.lock = FALSE, !.ssw = s.ssw, !.fault = FALSE,
                     !.perm[p] = IF s.ssw.other \/ @ = "rw" THEN @ ELSE x]
  BY <1>1 DEF Pager
<1>3. s' = [s EXCEPT !.lock = FALSE, !.ssw = s.ssw, !.fault = FALSE, !.perm = q]
  BY <1>1, <1>2 DEF State
<1>4. s.perm \in [0..Pages -> Perms]
  BY <1>1 DEF State
<1>5. q \in [0..Pages -> Perms]
  BY <1>4
<1> HIDE DEF q
<1> QED
  BY <1>1, <1>3, <1>5 DEF State

\* The invariant is inductive.
LEMMA NextIInv == IInv /\ [Next]_vars => IInv'
<1> SUFFICES ASSUME IInv, [Next]_vars PROVE IInv'
  OBVIOUS
<1>1. CASE RunOp
  <2> DEFINE b == Enter(s)
             t == Handler(b, job)
  <2>1. phase = "run" /\ begun' = b /\ job' = job
        /\ (IF t.fault THEN phase' = "fault" /\ s' = Caught(t) ELSE phase' = "done" /\ s' = t)
    BY <1>1 DEF RunOp
  <2>2. /\ t \in State /\ t.perm = s.perm
        /\ t.fault => Left(b, t, job) /\ (job.h # "move16" => Lacks(t))
        /\ t.fault => Both(t, job.sz)
    BY <2>1, RunOk
  <2>3. job \in Instrs
    BY DEF IInv
  <2> HIDE DEF b, t
  <2>4. CASE t.fault
    <3>1. s' = Caught(t) /\ phase' = "fault"
      BY <2>1, <2>4
    <3>2. s' \in State /\ ~s'.lock /\ s'.D = t.D /\ s'.dc = t.dc /\ s'.PC = t.PC /\ s'.A = t.A
          /\ s'.X = t.X /\ s'.NZVC = t.NZVC /\ s'.mem = t.mem /\ s'.ssw = t.ssw /\ s'.perm = t.perm
      BY <2>2, <3>1 DEF Caught, State
    <3>3. Left(begun', s', job')
      BY <2>1, <2>2, <2>4, <3>2 DEF Left
    <3>4. job'.h # "move16" => Lacks(s')
      BY <2>1, <2>2, <2>4, <3>2 DEF Lacks
    <3>5. Both(s', job'.sz)
      BY <2>1, <2>2, <2>4, <3>2 DEF Both
    <3> QED
      BY <2>1, <2>3, <3>1, <3>2, <3>3, <3>4, <3>5 DEF IInv
  <2>5. CASE ~t.fault
    BY <2>1, <2>2, <2>3, <2>5 DEF IInv
  <2> QED
    BY <2>4, <2>5
<1>2. ASSUME NEW x \in Perms, Pager(x) PROVE IInv'
  <2>1. s' \in State /\ s'.dc = s.dc /\ ~s'.lock
    BY <1>2, PagerOk
  <2>2. phase = "fault" /\ phase' = "run" /\ job' = job
    BY <1>2 DEF Pager
  <2>3. Both(s, job.sz) /\ job \in Instrs
    BY <2>2 DEF IInv
  <2>4. Both(s', job'.sz)
    BY <2>1, <2>2, <2>3 DEF Both
  <2> QED
    BY <2>1, <2>2, <2>3, <2>4 DEF IInv
<1>3. CASE UNCHANGED vars
  BY <1>3 DEF IInv, vars, Both, Left, Lacks, Named, Needed
<1> QED
  BY <1>1, <1>2, <1>3 DEF Next

\* The invariant always holds.
LEMMA AlwaysIInv == Spec => []IInv
  BY InitIInv, NextIInv, PTL DEF Spec

\* A handler of op.cc that a fault ends has changed no data register, no compare
\* operand and not the program counter; an address register only if it steps one, X, other
\* condition codes and memory only if it is one of the handlers that change them before
\* their last access, or a write was denied in a later part.
THEOREM AlwaysLeaves == Spec => []FaultLeaves
<1>1. IInv => FaultLeaves
  BY DEF IInv, FaultLeaves, Left
<1> QED
  BY <1>1, AlwaysIInv, PTL

\* The record ACCESS_FAULT leaves names a page that lacks what the record asks for,
\* at every alignment and size; so what the pager allows on its word is what was denied.
THEOREM AlwaysNamesPage == Spec => []FaultNamesPage
<1>1. IInv => FaultNamesPage
  BY DEF IInv, FaultNamesPage, Misnamed, Lacks
<1> QED
  BY <1>1, AlwaysIInv, PTL

\* No handler reads or writes a byte on a page that does not allow it, but for the
\* last byte of a long at 1 modulo 4, which ReadLImpl and WriteLImpl do not cut.
THEOREM AlwaysOnAllowedPages == Spec => OnAllowedPages
<1> DEFINE A == phase = "run" =>
                  /\ \A a \in s'.rd : Allowed(s, a, FALSE) \/ Spill(s'.rd, a)
                  /\ \A a \in s'.wr : Allowed(s, a, TRUE) \/ Spill(s'.wr, a)
<1>1. ASSUME IInv, [Next]_vars PROVE [A]_vars
  <2>1. CASE RunOp
    <3> DEFINE t == Handler(Enter(s), job)
    <3>1. phase = "run" /\ s' \in {t, Caught(t)}
      BY <2>1 DEF RunOp
    <3>2. t \in State /\ Fine(t.rd, s, FALSE) /\ Fine(t.wr, s, TRUE)
      BY <1>1, <3>1, RunOk
    <3> HIDE DEF t
    <3>3. s'.rd = t.rd /\ s'.wr = t.wr
      BY <3>1, <3>2 DEF Caught, State
    <3> QED
      BY <3>2, <3>3 DEF Fine, Permits, Allowed
  <2>2. ASSUME NEW x \in Perms, Pager(x) PROVE A
    BY <2>2 DEF Pager
  <2> HIDE DEF A
  <2> QED
    BY <1>1, <2>1, <2>2 DEF Next
<1> QED
  BY <1>1, AlwaysIInv, PTL DEF Spec, OnAllowedPages

\* run_cpu has freed the bus before the pager runs: its stores never reach the
\* operand of the instruction that faulted.
THEOREM AlwaysKeepsOut == Spec => PagerKeepsOut
<1> DEFINE A == phase = "fault" => s'.mem = s.mem
<1>1. ASSUME IInv, [Next]_vars PROVE [A]_vars
  <2>1. CASE RunOp
    BY <2>1 DEF RunOp
  <2>2. ASSUME NEW x \in Perms, Pager(x) PROVE A
    BY <1>1, <2>2, PagerOk
  <2> HIDE DEF A
  <2> QED
    BY <1>1, <2>1, <2>2 DEF Next
<1> QED
  BY <1>1, AlwaysIInv, PTL DEF Spec, PagerKeepsOut

-----------------------------------------------------------------------------
(* Three runs of a handler, side by side: p under the page tables, x like p*)
(* with every page allowed, and y, with every page allowed, from what a    *)
(* fault of p left. k is what it left.                                     *)

\* The fields of a state.
Fields == {"A", "D", "X", "NZVC", "PC", "dc", "mem", "perm", "EA", "lock", "fault", "ssw",
           "a", "u", "v", "rd", "wr"}

\* A state of the three.
Shaped(t) == DOMAIN t = Fields /\ t.mem = [b \in Memory |-> t.mem[b]]

\* p has read none of the bytes that the fault left written; if it is the run
\* that faulted, it has left what k says.
Clean(k, p) ==
  /\ p.rd \cap k.wr = {}
  /\ p.fault => p.NZVC = k.NZVC /\ \A b \in k.wr : p.mem[b] = k.mem[b]

\* The states that are compared: those of runs that do not fault when all is allowed.
Tied(k, p, x) == Clean(k, p) /\ ~x.fault

\* x is p, but for the pages it may touch.
Follows(p, x) ==
  /\ x.A = p.A /\ x.D = p.D /\ x.X = p.X /\ x.NZVC = p.NZVC /\ x.PC = p.PC /\ x.dc = p.dc
  /\ x.mem = p.mem /\ x.EA = p.EA /\ x.lock = p.lock /\ x.a = p.a /\ x.u = p.u /\ x.v = p.v

\* y is x, but for the condition codes, memory and the record of a fault.
Like(x, y) ==
  /\ y.A = x.A /\ y.D = x.D /\ y.X = x.X /\ y.PC = x.PC /\ y.dc = x.dc /\ y.perm = x.perm
  /\ y.EA = x.EA /\ y.lock = x.lock /\ y.fault = x.fault /\ y.a = x.a /\ y.u = x.u /\ y.v = x.v

\* y is x, but for the record of a fault.
Twin(x, y) == Like(x, y) /\ y.NZVC = x.NZVC /\ y.mem = x.mem

\* Before the fault x is p, and y has the condition codes and the bytes of x or
\* those that the fault left.
Before(k, p, x, y) ==
  /\ Follows(p, x) /\ Like(x, y)
  /\ y.NZVC = x.NZVC \/ y.NZVC = k.NZVC
  /\ \A b \in Memory : y.mem[b] = x.mem[b] \/ (b \in k.wr /\ y.mem[b] = k.mem[b])

\* p has changed no byte that it has not written. Where the fault of p is behind,
\* x and y are one.
Linked(k, p, x, y) ==
  /\ Shaped(p) /\ Shaped(x) /\ Shaped(y)
  /\ \A b \in Memory : b \in p.wr \/ p.mem[b] = k.was[b]
  /\ Tied(k, p, x) => IF p.fault THEN Twin(x, y) ELSE Before(k, p, x, y)

\* What the three runs work with is one value; p does not work after its fault.
Agreed(k, p, x, y, a, b, c) == Tied(k, p, x) => (p.fault \/ b = a) /\ c = b

\* An operation has taken p, x and y to q, r and z. It does nothing after a fault.
Goes(k, p, x, y, q, r, z) ==
  /\ Linked(k, q, r, z)
  /\ Clean(k, q) => Clean(k, p)
  /\ p.fault => q = p
  /\ x.fault => r.fault

\* One operation after another.
LEMMA GoesOn ==
  ASSUME NEW k, NEW p, NEW x, NEW y, NEW q, NEW r, NEW z, NEW q2, NEW r2, NEW z2,
         Goes(k, p, x, y, q, r, z), Goes(k, q, r, z, q2, r2, z2)
  PROVE  Goes(k, p, x, y, q2, r2, z2)
  BY DEF Goes

\* A value that was agreed on stays so.
LEMMA AgreedOn ==
  ASSUME NEW k, NEW p, NEW x, NEW y, NEW q, NEW r, NEW z, Goes(k, p, x, y, q, r, z),
         NEW a, NEW b, NEW c, Agreed(k, p, x, y, a, b, c)
  PROVE  Agreed(k, q, r, z, a, b, c)
  BY DEF Goes, Agreed, Tied

\* The runs agree on what they have computed.
LEMMA FieldsAgreed ==
  ASSUME NEW k, NEW p, NEW x, NEW y, Linked(k, p, x, y)
  PROVE  /\ Agreed(k, p, x, y, p.A, x.A, y.A) /\ Agreed(k, p, x, y, p.D, x.D, y.D)
         /\ Agreed(k, p, x, y, p.X, x.X, y.X) /\ Agreed(k, p, x, y, p.dc, x.dc, y.dc)
         /\ Agreed(k, p, x, y, p.EA, x.EA, y.EA) /\ Agreed(k, p, x, y, p.a, x.a, y.a)
         /\ Agreed(k, p, x, y, p.u, x.u, y.u) /\ Agreed(k, p, x, y, p.v, x.v, y.v)
         /\ Agreed(k, p, x, y, p.lock, x.lock, y.lock)
  BY DEF Linked, Agreed, Tied, Twin, Before, Follows, Like

\* Bytes that are equal are read as one value.
LEMMA BytesSame ==
  ASSUME NEW x, NEW y, NEW a \in Int, NEW n \in Nat,
         \A b \in Range16(a, n) : y.mem[b] = x.mem[b]
  PROVE  Bytes(y, a, n) = Bytes(x, a, n)
<1>1. ASSUME NEW j \in 1..n PROVE y.mem[Wrap(a + j - 1)] = x.mem[Wrap(a + j - 1)]
  <2>1. a + j - 1 = a + (j - 1) /\ j - 1 \in 0..n - 1
    OBVIOUS
  <2>2. Wrap(a + j - 1) \in Range16(a, n)
    BY <2>1 DEF Range16
  <2> QED
    BY <2>2
<1> QED
  BY <1>1 DEF Bytes

\* Two runs that are one read one value.
LEMMA BytesTwin ==
  ASSUME NEW x, NEW y, y.mem = x.mem, NEW a, NEW n
  PROVE  Bytes(y, a, n) = Bytes(x, a, n)
  BY DEF Bytes

\* At the fault the runs become one.
LEMMA BecomeTwins ==
  ASSUME NEW k, NEW p, NEW x, NEW y, Shaped(x), Shaped(y), Before(k, p, x, y),
         p.NZVC = k.NZVC, \A b \in k.wr : p.mem[b] = k.mem[b]
  PROVE  Twin(x, y)
<1>1. \A b \in Memory : y.mem[b] = x.mem[b]
  BY DEF Before, Follows
<1>2. [b \in Memory |-> y.mem[b]] = [b \in Memory |-> x.mem[b]]
  BY <1>1
<1>3. y.mem = x.mem
  BY <1>2, Zenon DEF Shaped
<1> QED
  BY <1>3 DEF Twin, Before, Follows

\* Setting the condition codes.
LEMMA FlagsGoes ==
  ASSUME NEW k, NEW p, NEW x, NEW y, Linked(k, p, x, y), NEW a, NEW b, NEW c,
         Agreed(k, p, x, y, a, b, c)
  PROVE  Goes(k, p, x, y, Flags(p, a), Flags(x, b), Flags(y, c))
  BY DEF Goes, Linked, Agreed, Tied, Twin, Before, Clean, Follows, Like, Shaped, Flags, Go, Fields

\* A read of two runs that are one.
LEMMA TwinReads ==
  ASSUME NEW x, NEW y, Shaped(x), Shaped(y), Twin(x, y), NEW a, NEW n, NEW w, NEW tt, NEW other,
         NEW r, r = ReadIn(x, a, n, w, tt, other), ~r.fault
  PROVE  ~x.fault /\ Shaped(r) /\ Twin(r, ReadIn(y, a, n, w, tt, other))
<1> DEFINE ps == Parts(a, n)
           z == ReadIn(y, a, n, w, tt, other)
           S == Range16(a, n)
<1>1. ~x.fault
  BY DEF ReadIn, Go
<1>2. Denied(x, ps, w) = {}
  BY <1>1 DEF ReadIn, Go, Raise, Shaped, Fields
<1>3. Denied(y, ps, w) = {} /\ ~y.fault
  BY <1>1, <1>2, DeniedSame DEF Twin, Like
<1> DEFINE b == Bytes(x, a, n)
<1>4. r = [x EXCEPT !.u = x.v, !.v = b, !.rd = @ \cup S]
  BY <1>1, <1>2 DEF ReadIn, Go
<1>5. z = [y EXCEPT !.u = y.v, !.v = b, !.rd = @ \cup S]
  <2>1. Bytes(y, a, n) = b
    BY BytesTwin DEF Twin
  <2> QED
    BY <1>3, <2>1 DEF ReadIn, Go
<1> HIDE DEF b, S, z
<1> QED
  BY <1>1, <1>4, <1>5 DEF Twin, Like, Shaped, Fields, z

\* A fault stops what follows; a read moves what is known of the three runs on.
LEMMA ReadInGoes ==
  ASSUME NEW k, NEW p, NEW x, NEW y, Linked(k, p, x, y), NEW a \in Int, NEW b, NEW c,
         Agreed(k, p, x, y, a, b, c), NEW n \in Nat, NEW w, NEW w2, NEW w3,
         Agreed(k, p, x, y, w, w2, w3), NEW tt, NEW other
  PROVE  Goes(k, p, x, y, ReadIn(p, a, n, w, tt, other), ReadIn(x, b, n, w2, tt, other),
              ReadIn(y, c, n, w3, tt, other))
<1> DEFINE q == ReadIn(p, a, n, w, tt, other)
           r == ReadIn(x, b, n, w2, tt, other)
           z == ReadIn(y, c, n, w3, tt, other)
<1>1. Shaped(q) /\ Shaped(r) /\ Shaped(z) /\ q.wr = p.wr /\ q.mem = p.mem /\ q.NZVC = p.NZVC
      /\ (p.fault => q = p) /\ (x.fault => r.fault)
  <2>1. ASSUME NEW t, Shaped(t), NEW d, NEW m, NEW l
        PROVE  LET e == ReadIn(t, d, m, l, tt, other) IN
               Shaped(e) /\ e.wr = t.wr /\ e.mem = t.mem /\ e.NZVC = t.NZVC /\ (t.fault => e = t)
    BY <2>1 DEF ReadIn, Go, Raise, Shaped, Fields
  <2> QED
    BY <2>1 DEF Linked
<1>2. ASSUME p.fault PROVE Goes(k, p, x, y, q, r, z)
  <2>1. ASSUME Tied(k, q, r) PROVE Tied(k, p, x) /\ Twin(r, z)
    <3>1. Clean(k, p) /\ ~r.fault
      BY <1>1, <1>2, <2>1 DEF Tied
    <3>2. ~x.fault
      BY <3>1 DEF ReadIn, Go
    <3>3. Twin(x, y) /\ c = b /\ w3 = w2
      BY <1>2, <3>1, <3>2 DEF Tied, Linked, Agreed
    <3>4. Twin(r, z)
      BY <3>1, <3>3, TwinReads DEF Linked
    <3> QED
      BY <3>1, <3>2, <3>4 DEF Tied
  <2> HIDE DEF q, r, z
  <2> QED
    BY <1>1, <1>2, <2>1 DEF Goes, Linked
<1>3. ASSUME ~p.fault /\ q.fault PROVE Goes(k, p, x, y, q, r, z)
  <2>1. q.rd = p.rd
    BY <1>3 DEF ReadIn, Go, Raise, Linked, Shaped, Fields
  <2>3. Clean(k, q) => Clean(k, p)
    BY <1>3, <2>1 DEF Clean
  <2>2. ASSUME Tied(k, q, r) PROVE Tied(k, p, x) /\ Twin(r, z)
    <3>1. ~r.fault /\ Clean(k, p) /\ p.NZVC = k.NZVC /\ \A d \in k.wr : p.mem[d] = k.mem[d]
      BY <1>1, <1>3, <2>1, <2>2 DEF Tied, Clean
    <3>2. ~x.fault
      BY <3>1 DEF ReadIn, Go
    <3>3. Before(k, p, x, y) /\ c = b /\ w3 = w2
      BY <1>3, <3>1, <3>2 DEF Tied, Linked, Agreed
    <3>4. Twin(x, y)
      BY <3>1, <3>3, BecomeTwins DEF Linked
    <3>5. Twin(r, z)
      BY <3>1, <3>3, <3>4, TwinReads DEF Linked
    <3> QED
      BY <3>1, <3>2, <3>5 DEF Tied
  <2> HIDE DEF q, r, z
  <2> QED
    BY <1>1, <1>3, <2>2, <2>3 DEF Goes, Linked
<1>4. ASSUME ~p.fault /\ ~q.fault PROVE Goes(k, p, x, y, q, r, z)
  <2> DEFINE S == Range16(a, n)
             d == Bytes(p, a, n)
  <2>1. q = [p EXCEPT !.u = p.v, !.v = d, !.rd = @ \cup S]
    BY <1>4 DEF ReadIn, Go, Raise, Linked, Shaped, Fields
  <2> HIDE DEF d
  <2>2. q.rd = p.rd \cup S
    BY <2>1 DEF Linked, Shaped, Fields
  <2>4. Clean(k, q) => Clean(k, p)
    BY <1>4, <2>2 DEF Clean
  <2>3. ASSUME Tied(k, q, r) PROVE Tied(k, p, x) /\ Before(k, q, r, z)
    <3>1. ~r.fault /\ Clean(k, p) /\ S \cap k.wr = {}
      BY <1>4, <2>2, <2>3 DEF Tied, Clean
    <3>2. ~x.fault
      BY <3>1 DEF ReadIn, Go
    <3>3. Before(k, p, x, y) /\ b = a /\ c = a /\ w3 = w2
      BY <1>4, <3>1, <3>2 DEF Tied, Linked, Agreed
    <3>4. Denied(x, Parts(a, n), w2) = {} /\ Denied(y, Parts(a, n), w2) = {} /\ ~y.fault
      <4>1. Denied(x, Parts(a, n), w2) = {}
        BY <3>1, <3>2, <3>3 DEF ReadIn, Go, Raise, Linked, Shaped, Fields
      <4> QED
        BY <3>2, <3>3, <4>1, DeniedSame DEF Before, Like
    <3>5. Bytes(x, a, n) = d
      BY <3>3, BytesTwin DEF Before, Follows, d
    <3>6. Bytes(y, a, n) = d
      <4>1. \A e \in S : y.mem[e] = x.mem[e]
        BY <3>1, <3>3, RangeIs DEF Before
      <4>2. Bytes(y, a, n) = Bytes(x, a, n)
        BY <4>1, BytesSame
      <4> QED
        BY <3>5, <4>2
    <3> HIDE DEF S
    <3>7. r = [x EXCEPT !.u = x.v, !.v = d, !.rd = @ \cup S]
      BY <3>2, <3>3, <3>4, <3>5 DEF ReadIn, Go, S
    <3>8. z = [y EXCEPT !.u = y.v, !.v = d, !.rd = @ \cup S]
      BY <3>3, <3>4, <3>6 DEF ReadIn, Go, S
    <3> HIDE DEF q, r, z
    <3>9. Before(k, q, r, z)
      BY <2>1, <3>3, <3>7, <3>8 DEF Before, Follows, Like, Linked, Shaped, Fields
    <3> QED
      BY <3>1, <3>2, <3>9 DEF Tied
  <2> HIDE DEF q, r, z
  <2> QED
    BY <1>1, <1>4, <2>3, <2>4 DEF Goes, Linked
<1> QED
  BY <1>2, <1>3, <1>4

\* A byte that a value put at a lands on is one of its range.
LEMMA Landed ==
  ASSUME NEW a \in Int, NEW b \in Memory
  PROVE  LET j == (b - Wrap(a)) % Size IN j \in Nat /\ b = Wrap(a + j)
<1> DEFINE j == (b - Wrap(a)) % Size
           w == Wrap(a)
           d == b - w
<1>1. b \in Int /\ w \in Int /\ d \in Int /\ d = b - w
  BY Wrapped, MemoryInt
<1> HIDE DEF d, w
<1>2. PICK q \in Int : d = Size * q + Wrap(d)
  BY <1>1, Wrapped
<1>3. j = Wrap(d) /\ j \in Memory
  <2>1. j = Wrap(d)
    BY DEF Wrap, d, w
  <2> QED
    BY <1>1, <2>1, Wrapped
<1>4. j \in Int /\ j \in Nat
  BY <1>3, SizeIs DEF Memory
<1> HIDE DEF j
<1> DEFINE e == 0 - q
           y == Size * q
<1>5. y \in Int /\ e \in Int /\ Size * e = 0 - y
  BY SizeIs
<1> HIDE DEF e, y
<1>6. w + j = Size * e + b
  BY <1>1, <1>2, <1>3, <1>4, <1>5 DEF y
<1>7. Wrap(w + j) = b
  BY <1>1, <1>4, <1>5, <1>6, Same
<1> QED
  BY <1>4, <1>7, Again DEF j, w

\* What a value put into memory leaves of it.
LEMMA PutByte ==
  ASSUME NEW m, NEW a \in Int, NEW v \in Seq(Byte), NEW b \in Memory
  PROVE  LET j == (b - Wrap(a)) % Size IN
         /\ j \in Nat
         /\ Put(m, Wrap(a), v)[b] = IF j < Len(v) THEN v[j + 1] ELSE m[b]
         /\ j < Len(v) => b \in Range16(a, Len(v))
<1> DEFINE j == (b - Wrap(a)) % Size
<1>1. j \in Nat /\ b = Wrap(a + j)
  BY Landed
<1>2. Put(m, Wrap(a), v)[b] = IF j < Len(v) THEN v[j + 1] ELSE m[b]
  BY DEF Put
<1> HIDE DEF j
<1>3. ASSUME j < Len(v) PROVE b \in Range16(a, Len(v))
  <2>1. j \in 0..Len(v) - 1
    BY <1>1, <1>3
  <2> QED
    BY <1>1, <2>1 DEF Range16
<1> QED
  BY <1>1, <1>2, <1>3 DEF j

\* What is put into memory makes a memory.
LEMMA PutShaped == \A m, a, v : Put(m, a, v) = [b \in Memory |-> Put(m, a, v)[b]]
  BY DEF Put

\* A write of two runs that are one.
LEMMA TwinWrites ==
  ASSUME NEW x, NEW y, Shaped(x), Shaped(y), Twin(x, y), NEW a, NEW v, NEW tt, NEW other,
         NEW r, r = WriteIn(x, a, v, tt, other), ~r.fault
  PROVE  ~x.fault /\ Twin(r, WriteIn(y, a, v, tt, other))
<1> DEFINE ps == Parts(a, Len(v))
           z == WriteIn(y, a, v, tt, other)
           S == Range16(a, Len(v))
           m == Put(x.mem, Wrap(a), SubSeq(v, 1, Len(v)))
           W == TRUE
<1>1. ~x.fault
  BY DEF WriteIn, Go
<1>2. Denied(x, ps, W) = {}
  BY <1>1 DEF WriteIn, Go, Raise, Shaped, Fields
<1>3. Denied(y, ps, W) = {} /\ ~y.fault
  <2> HIDE DEF W
  <2> QED
    BY <1>1, <1>2, DeniedSame DEF Twin, Like
<1>4. r = [x EXCEPT !.mem = m, !.wr = @ \cup S]
  BY <1>1, <1>2 DEF WriteIn, Go
<1>5. z = [y EXCEPT !.mem = m, !.wr = @ \cup S]
  BY <1>3 DEF WriteIn, Go, Twin
<1> HIDE DEF m, S, z
<1> QED
  BY <1>1, <1>4, <1>5 DEF Twin, Like, Shaped, Fields, z

\* q: p with the first n bytes of v written, all of them unless it faulted.
Wrote(p, q, a, v, n) ==
  LET m == Put(p.mem, Wrap(a), SubSeq(v, 1, n))
      S == p.wr \cup Range16(a, n)
  IN /\ q.mem = m /\ q.wr = S /\ q.rd = p.rd /\ q.NZVC = p.NZVC
     /\ ~q.fault => n = Len(v) /\ q = [p EXCEPT !.mem = m, !.wr = S]

\* What a write leaves written, all of it or the parts before the one denied.
LEMMA WriteLeaves ==
  ASSUME NEW p, Shaped(p), ~p.fault, NEW a \in Int, NEW v \in Seq(Byte), Len(v) \in Sizes,
         NEW tt, NEW other, NEW q, q = WriteIn(p, a, v, tt, other)
  PROVE  \E n \in 0..Len(v) : Wrote(p, q, a, v, n)
<1> DEFINE N == Len(v)
           W == TRUE
           ps == Parts(a, N)
           bad == Denied(p, ps, W)
           f == ps[First(bad)][1]
           n == IF bad = {} THEN N ELSE (f - a)
           m == Put(p.mem, Wrap(a), SubSeq(v, 1, n))
           S == p.wr \cup Range16(a, n)
           w == [p EXCEPT !.mem = m, !.wr = S]
           x == Record(p, Wrap(a), N, FALSE, First(bad), tt, other)
<1>1. q = IF bad = {} THEN w ELSE Raise(w, x)
  BY DEF WriteIn, Go
<1>2. n \in 0..N
  <2>1. N \in {1, 2, 4}
    BY DEF Sizes
  <2> HIDE DEF N, W
  <2>2. bad # {} => f - a \in 0..N - 1
    BY <2>1, Denials
  <2> HIDE DEF bad, f
  <2> QED
    BY <2>1, <2>2
<1>3. w.mem = m /\ w.wr = S /\ w.rd = p.rd /\ w.NZVC = p.NZVC /\ w.fault = p.fault /\ DOMAIN w = Fields
  BY DEF Shaped, Fields
<1> HIDE DEF w, x
<1>4. q.mem = m /\ q.wr = S /\ q.rd = p.rd /\ q.NZVC = p.NZVC /\ (~q.fault => q = w /\ bad = {})
  <2> HIDE DEF m, S, bad
  <2>1. CASE bad = {}
    BY <1>1, <1>3, <2>1
  <2>2. CASE bad # {}
    BY <1>1, <1>3, <2>2 DEF Raise, Fields
  <2> QED
    BY <2>1, <2>2
<1>5. ~q.fault => n = N
  BY <1>4
<1>6. ~q.fault => q = [p EXCEPT !.mem = m, !.wr = S]
  BY <1>4 DEF w
<1>7. Wrote(p, q, a, v, n)
  BY <1>4, <1>5, <1>6 DEF Wrote
<1> HIDE DEF n
<1> QED
  BY <1>2, <1>7

\* The beginning of a value.
LEMMA HeadIs ==
  ASSUME NEW v \in Seq(Byte), NEW n \in 0..Len(v)
  PROVE  /\ SubSeq(v, 1, n) \in Seq(Byte) /\ Len(SubSeq(v, 1, n)) = n
         /\ \A j \in 1..n : SubSeq(v, 1, n)[j] = v[j]
         /\ SubSeq(v, 1, Len(v)) = v
  OBVIOUS

\* What is written is what was put there.
LEMMA WroteByte ==
  ASSUME NEW m, NEW a \in Int, NEW v \in Seq(Byte), NEW n \in 0..Len(v), NEW b \in Memory
  PROVE  LET j == (b - Wrap(a)) % Size
             new == Put(m, Wrap(a), SubSeq(v, 1, n))[b]
         IN /\ j \in Nat
            /\ new = IF j < n THEN v[j + 1] ELSE m[b]
            /\ b \in Range16(a, n) \/ new = m[b]
<1> DEFINE j == (b - Wrap(a)) % Size
           h == SubSeq(v, 1, n)
           new == Put(m, Wrap(a), h)[b]
<1>1. h \in Seq(Byte) /\ Len(h) = n /\ \A i \in 1..n : h[i] = v[i]
  BY HeadIs
<1> HIDE DEF h
<1>2. j \in Nat /\ new = (IF j < n THEN h[j + 1] ELSE m[b]) /\ (j < n => b \in Range16(a, n))
  BY <1>1, PutByte
<1> HIDE DEF j, new
<1>3. j < n => j + 1 \in 1..n
  BY <1>2
<1> QED
  BY <1>1, <1>2, <1>3 DEF j, new, h

\* A write moves what is known of the three runs on. The parts that were written
\* before the fault are written again, with the same bytes.
LEMMA WriteInGoes ==
  ASSUME NEW k, NEW p, NEW x, NEW y, Linked(k, p, x, y), NEW a \in Int, NEW b, NEW c,
         Agreed(k, p, x, y, a, b, c), NEW v, NEW v2, NEW v3,
         ~p.fault => v \in Seq(Byte) /\ Len(v) \in Sizes,
         Agreed(k, p, x, y, v, v2, v3), NEW tt, NEW other
  PROVE  Goes(k, p, x, y, WriteIn(p, a, v, tt, other), WriteIn(x, b, v2, tt, other),
              WriteIn(y, c, v3, tt, other))
<1> DEFINE q == WriteIn(p, a, v, tt, other)
           r == WriteIn(x, b, v2, tt, other)
           z == WriteIn(y, c, v3, tt, other)
<1>1. Shaped(q) /\ Shaped(r) /\ Shaped(z) /\ (p.fault => q = p) /\ (x.fault => r.fault)
  <2>1. ASSUME NEW t, Shaped(t), NEW d, NEW u, NEW l, NEW n
        PROVE  LET w == [t EXCEPT !.mem = Put(@, d, u), !.wr = @ \cup n] IN
               Shaped(w) /\ Shaped(Raise(w, l))
    <3> DEFINE m == Put(t.mem, d, u)
    <3>1. m = [e \in Memory |-> m[e]]
      BY PutShaped
    <3> HIDE DEF m
    <3> QED
      BY <2>1, <3>1 DEF Raise, Shaped, Fields, m
  <2>2. ASSUME NEW t, Shaped(t), NEW d, NEW u
        PROVE  Shaped(WriteIn(t, d, u, tt, other)) /\ (t.fault => WriteIn(t, d, u, tt, other) = t)
    BY <2>1, <2>2 DEF WriteIn, Go
  <2> QED
    BY <2>2 DEF Linked
<1>2. ASSUME p.fault PROVE Goes(k, p, x, y, q, r, z)
  <2>1. ASSUME Tied(k, q, r) PROVE Tied(k, p, x) /\ Twin(r, z)
    <3>1. Clean(k, p) /\ ~r.fault
      BY <1>1, <1>2, <2>1 DEF Tied
    <3>2. ~x.fault
      BY <3>1 DEF WriteIn, Go
    <3>3. Twin(x, y) /\ c = b /\ v3 = v2
      BY <1>2, <3>1, <3>2 DEF Tied, Linked, Agreed
    <3>4. Twin(r, z)
      BY <3>1, <3>3, TwinWrites DEF Linked
    <3> QED
      BY <3>1, <3>2, <3>4 DEF Tied
  <2> HIDE DEF q, r, z
  <2> QED
    BY <1>1, <1>2, <2>1 DEF Goes, Linked
<1>3. ASSUME ~p.fault PROVE Goes(k, p, x, y, q, r, z)
  <2> DEFINE N == Len(v)
             W == TRUE
  <2>1. v \in Seq(Byte) /\ N \in Sizes
    BY <1>3
  <2>10. PICK n \in 0..N : Wrote(p, q, a, v, n)
    <3>1. q = WriteIn(p, a, v, tt, other) /\ Shaped(p)
      BY DEF Linked
    <3> HIDE DEF q
    <3> QED
      BY <1>3, <2>1, <3>1, WriteLeaves
  <2>2. /\ q.mem = Put(p.mem, Wrap(a), SubSeq(v, 1, n))
        /\ q.wr = p.wr \cup Range16(a, n) /\ q.rd = p.rd /\ q.NZVC = p.NZVC
        /\ ~q.fault => n = N /\ q = [p EXCEPT !.mem = Put(p.mem, Wrap(a), SubSeq(v, 1, n)),
                                              !.wr = p.wr \cup Range16(a, n)]
    BY <2>10 DEF Wrote
  <2>3. \A e \in Memory : LET j == (e - Wrap(a)) % Size IN
          /\ j \in Nat
          /\ q.mem[e] = IF j < n THEN v[j + 1] ELSE p.mem[e]
          /\ e \in Range16(a, n) \/ q.mem[e] = p.mem[e]
    <3> SUFFICES ASSUME NEW e \in Memory
                 PROVE  LET j == (e - Wrap(a)) % Size IN
                        /\ j \in Nat
                        /\ q.mem[e] = IF j < n THEN v[j + 1] ELSE p.mem[e]
                        /\ e \in Range16(a, n) \/ q.mem[e] = p.mem[e]
      OBVIOUS
    <3> DEFINE j == (e - Wrap(a)) % Size
               new == Put(p.mem, Wrap(a), SubSeq(v, 1, n))[e]
    <3>1. /\ j \in Nat /\ new = (IF j < n THEN v[j + 1] ELSE p.mem[e])
          /\ e \in Range16(a, n) \/ new = p.mem[e]
      BY <2>1, WroteByte
    <3>2. q.mem[e] = new
      BY <2>2
    <3> HIDE DEF j, new, q
    <3> QED
      BY <3>1, <3>2 DEF j
  <2>4. ASSUME NEW m, NEW e \in Memory
        PROVE  LET j == (e - Wrap(a)) % Size IN
               Put(m, Wrap(a), v)[e] = IF j < N THEN v[j + 1] ELSE m[e]
    BY <2>1, PutByte
  <2>5. SubSeq(v, 1, N) = v
    <3>1. N \in 0..N
      BY <2>1, LenProperties
    <3> QED
      BY <2>1, <3>1, HeadIs
  <2>6. (\A e \in Memory : e \in q.wr \/ q.mem[e] = k.was[e]) /\ (Clean(k, q) => Clean(k, p))
    <3> HIDE DEF q
    <3> QED
      BY <1>3, <2>2, <2>3 DEF Linked, Clean
  <2>7. ASSUME Tied(k, q, r)
        PROVE  /\ Tied(k, p, x) /\ Before(k, p, x, y)
               /\ r = [x EXCEPT !.mem = Put(x.mem, Wrap(a), v), !.wr = @ \cup Range16(a, N)]
               /\ z = [y EXCEPT !.mem = Put(y.mem, Wrap(a), v), !.wr = @ \cup Range16(a, N)]
    <3>1. ~r.fault /\ Clean(k, p)
      BY <1>3, <2>2, <2>7 DEF Tied, Clean
    <3>2. ~x.fault
      BY <3>1 DEF WriteIn, Go
    <3>3. Before(k, p, x, y) /\ b = a /\ c = a /\ v2 = v /\ v3 = v
      BY <1>3, <3>1, <3>2 DEF Tied, Linked, Agreed
    <3>4. Denied(x, Parts(a, N), W) = {}
      BY <3>1, <3>2, <3>3 DEF WriteIn, Go, Raise, Linked, Shaped, Fields
    <3>5. Denied(y, Parts(a, N), W) = {} /\ ~y.fault
      <4> HIDE DEF W
      <4> QED
        BY <3>2, <3>3, <3>4, DeniedSame DEF Before, Like
    <3>6. r = [x EXCEPT !.mem = Put(x.mem, Wrap(a), v), !.wr = @ \cup Range16(a, N)]
      BY <2>5, <3>2, <3>3, <3>4 DEF WriteIn, Go
    <3>7. z = [y EXCEPT !.mem = Put(y.mem, Wrap(a), v), !.wr = @ \cup Range16(a, N)]
      BY <2>5, <3>3, <3>5 DEF WriteIn, Go
    <3> QED
      BY <3>1, <3>2, <3>3, <3>6, <3>7 DEF Tied
  <2> DEFINE mx == Put(x.mem, Wrap(a), v)
             my == Put(y.mem, Wrap(a), v)
             mp == Put(p.mem, Wrap(a), v)
             S == Range16(a, N)
             rr == [x EXCEPT !.mem = mx, !.wr = @ \cup S]
             zz == [y EXCEPT !.mem = my, !.wr = @ \cup S]
  <2>8. ASSUME q.fault, Tied(k, q, r) PROVE Twin(r, z)
    <3>1. k.NZVC = p.NZVC /\ \A e \in k.wr : q.mem[e] = k.mem[e]
      BY <2>2, <2>8 DEF Tied, Clean
    <3>2. Before(k, p, x, y)
      BY <2>7, <2>8
    <3>3. ASSUME NEW e \in Memory PROVE my[e] = mx[e]
      <4> DEFINE j == (e - Wrap(a)) % Size
      <4>1. /\ j \in Nat /\ q.mem[e] = (IF j < n THEN v[j + 1] ELSE p.mem[e])
            /\ mx[e] = (IF j < N THEN v[j + 1] ELSE x.mem[e])
            /\ my[e] = (IF j < N THEN v[j + 1] ELSE y.mem[e])
        BY <2>3, <2>4
      <4> HIDE DEF j, mx, my
      <4>2. CASE j < N
        BY <4>1, <4>2
      <4>3. CASE ~(j < N)
        <5>1. ~(j < n)
          BY <2>1, <4>1, <4>3 DEF Sizes
        <5>2. q.mem[e] = x.mem[e]
          BY <3>2, <4>1, <5>1 DEF Before, Follows
        <5>3. y.mem[e] = x.mem[e]
          BY <3>1, <3>2, <5>2 DEF Before
        <5> QED
          BY <4>1, <4>3, <5>3
      <4> QED
        BY <4>2, <4>3
    <3>4. my = mx
      <4>1. mx = [e \in Memory |-> mx[e]] /\ my = [e \in Memory |-> my[e]]
        BY PutShaped
      <4> HIDE DEF mx, my
      <4> QED
        BY <3>3, <4>1
    <3>5. r = rr /\ z = zz
      BY <2>7, <2>8
    <3> HIDE DEF mx, my, S, r, z
    <3> QED
      BY <3>1, <3>2, <3>4, <3>5 DEF Twin, Before, Follows, Like, Linked, Shaped, Fields
  <2>9. ASSUME ~q.fault, Tied(k, q, r) PROVE Before(k, q, r, z)
    <3>1. Before(k, p, x, y)
      BY <2>7, <2>9
    <3>2. \A e \in Memory : my[e] = mx[e] \/ (e \in k.wr /\ my[e] = k.mem[e])
      <4> SUFFICES ASSUME NEW e \in Memory PROVE my[e] = mx[e] \/ (e \in k.wr /\ my[e] = k.mem[e])
        OBVIOUS
      <4> DEFINE j == (e - Wrap(a)) % Size
      <4>1. /\ mx[e] = (IF j < N THEN v[j + 1] ELSE x.mem[e])
            /\ my[e] = (IF j < N THEN v[j + 1] ELSE y.mem[e])
        BY <2>4
      <4> HIDE DEF j, mx, my
      <4> QED
        BY <3>1, <4>1 DEF Before
    <3>3. r = rr /\ z = zz
      BY <2>7, <2>9
    <3>4. q = [p EXCEPT !.mem = mp, !.wr = p.wr \cup S] /\ mx = mp
      <4>1. q = [p EXCEPT !.mem = mp, !.wr = p.wr \cup S]
        BY <2>2, <2>5, <2>9
      <4> QED
        BY <3>1, <4>1 DEF Before, Follows
    <3> HIDE DEF mx, my, mp, S, r, z, q
    <3> QED
      BY <3>1, <3>2, <3>3, <3>4 DEF Before, Follows, Like, Linked, Shaped, Fields
  <2> HIDE DEF q, r, z
  <2> QED
    BY <1>1, <1>3, <2>6, <2>7, <2>8, <2>9 DEF Goes, Linked
<1> QED
  BY <1>2, <1>3

\* A fetch stops the runs or changes nothing.
LEMMA FetchGoes ==
  ASSUME NEW k, NEW p, NEW x, NEW y, Linked(k, p, x, y)
  PROVE  Goes(k, p, x, y, Fetch(p), Fetch(x), Fetch(y))
<1> DEFINE q == Fetch(p)
           r == Fetch(x)
           z == Fetch(y)
           W == FALSE
<1>1. ASSUME NEW t, Shaped(t)
      PROVE  LET e == Fetch(t) IN
             /\ Shaped(e) /\ e.wr = t.wr /\ e.mem = t.mem /\ e.NZVC = t.NZVC /\ e.rd = t.rd
             /\ (t.fault => e = t) /\ (~e.fault => e = t /\ ~t.fault /\ Allowed(t, ExtWord, W))
             /\ Allowed(t, ExtWord, W) => e = t
  BY <1>1 DEF Fetch, Go, Raise, Shaped, Fields
<1>2. /\ Shaped(q) /\ q.wr = p.wr /\ q.mem = p.mem /\ q.NZVC = p.NZVC /\ q.rd = p.rd
      /\ (p.fault => q = p) /\ (~q.fault => q = p)
  BY <1>1 DEF Linked
<1>3. /\ Shaped(r) /\ (~r.fault => r = x /\ ~x.fault /\ Allowed(x, ExtWord, W))
      /\ Shaped(z) /\ (Allowed(y, ExtWord, W) => z = y)
      /\ (x.fault => r.fault)
  BY <1>1 DEF Linked
<1>4. ASSUME ~r.fault, y.perm = x.perm PROVE r = x /\ z = y
  BY <1>3, <1>4 DEF Allowed
<1> HIDE DEF q, r, z, W
<1>8. Clean(k, q) => Clean(k, p)
  BY <1>2 DEF Clean
<1>5. ASSUME Tied(k, q, r) PROVE Tied(k, p, x)
  BY <1>3, <1>5, <1>8 DEF Tied
<1>6. ASSUME Tied(k, q, r) PROVE r = x /\ z = y
  <2>1. y.perm = x.perm
    BY <1>5, <1>6 DEF Linked, Twin, Before, Like
  <2> QED
    BY <1>4, <1>6, <2>1 DEF Tied
<1>7. ASSUME Tied(k, q, r), q.fault, ~p.fault PROVE Twin(x, y)
  <2>1. Before(k, p, x, y)
    BY <1>5, <1>7 DEF Linked
  <2>2. p.NZVC = k.NZVC /\ \A b \in k.wr : p.mem[b] = k.mem[b]
    BY <1>2, <1>7 DEF Tied, Clean
  <2> QED
    BY <2>1, <2>2, BecomeTwins DEF Linked
<1> QED
  BY <1>2, <1>3, <1>5, <1>6, <1>7, <1>8 DEF Goes, Linked, q, r, z

\* A read by a handler.
LEMMA ReadGoes ==
  ASSUME NEW k, NEW p, NEW x, NEW y, Linked(k, p, x, y), NEW a \in Int, NEW b, NEW c,
         Agreed(k, p, x, y, a, b, c), NEW n \in Nat
  PROVE  Goes(k, p, x, y, Read(p, a, n), Read(x, b, n), Read(y, c, n))
<1>1. Agreed(k, p, x, y, p.lock, x.lock, y.lock)
  BY FieldsAgreed
<1> QED
  BY <1>1, ReadInGoes DEF Read

\* A write by a handler.
LEMMA WriteGoes ==
  ASSUME NEW k, NEW p, NEW x, NEW y, Linked(k, p, x, y), NEW a \in Int, NEW b, NEW c,
         Agreed(k, p, x, y, a, b, c), NEW v, NEW v2, NEW v3,
         ~p.fault => v \in Seq(Byte) /\ Len(v) \in Sizes,
         Agreed(k, p, x, y, v, v2, v3)
  PROVE  Goes(k, p, x, y, Write(p, a, v), Write(x, b, v2), Write(y, c, v3))
  BY WriteInGoes DEF Write

\* Setting the address computed.
LEMMA AddressGoes ==
  ASSUME NEW k, NEW p, NEW x, NEW y, Linked(k, p, x, y), NEW a, NEW b, NEW c,
         Agreed(k, p, x, y, a, b, c)
  PROVE  Goes(k, p, x, y, Go(p, [p EXCEPT !.a = a]), Go(x, [x EXCEPT !.a = b]),
              Go(y, [y EXCEPT !.a = c]))
  BY DEF Goes, Linked, Agreed, Tied, Twin, Before, Clean, Follows, Like, Shaped, Go, Fields

\* Setting it where a pointer was read, with the values.
LEMMA PointedGoes ==
  ASSUME NEW k, NEW p, NEW x, NEW y, Linked(k, p, x, y), NEW a, NEW b, NEW c,
         Agreed(k, p, x, y, a, b, c), NEW v, NEW v2, NEW v3, Agreed(k, p, x, y, v, v2, v3),
         NEW u, NEW u2, NEW u3, Agreed(k, p, x, y, u, u2, u3)
  PROVE  Goes(k, p, x, y, Go(p, [p EXCEPT !.a = a, !.v = v, !.u = u]),
              Go(x, [x EXCEPT !.a = b, !.v = v2, !.u = u2]),
              Go(y, [y EXCEPT !.a = c, !.v = v3, !.u = u3]))
  BY DEF Goes, Linked, Agreed, Tied, Twin, Before, Clean, Follows, Like, Shaped, Go, Fields

\* Setting the effective address.
LEMMA AimGoes ==
  ASSUME NEW k, NEW p, NEW x, NEW y, Linked(k, p, x, y)
  PROVE  Goes(k, p, x, y, Go(p, [p EXCEPT !.EA = p.a]), Go(x, [x EXCEPT !.EA = x.a]),
              Go(y, [y EXCEPT !.EA = y.a]))
  BY DEF Goes, Linked, Agreed, Tied, Twin, Before, Clean, Follows, Like, Shaped, Go, Fields

\* ea_getaddr, but for the modes that step a register.
LEMMA GetAddrGoes ==
  ASSUME NEW k, NEW p, NEW x, NEW y, Linked(k, p, x, y), p \in State,
         NEW e, InPlace(e), ~Steps(e), NEW n
  PROVE  Goes(k, p, x, y, GetAddr(p, e, n), GetAddr(x, e, n), GetAddr(y, e, n))
<1> DEFINE a(t) == t.A[e.reg]
           base(t) == Go(t, [t EXCEPT !.a = a(t)])
           f(t) == Fetch(t)
           disp(t) == Go(f(t), [f(t) EXCEPT !.a = Wrap(a(t) + 1)])
           g(t) == Read(f(t), a(t), 4)
           ind(t) == Go(g(t), [g(t) EXCEPT !.a = Wrap(g(t).v[4]), !.v = t.v, !.u = t.u])
<1>1. a(p) \in Int /\ 4 \in Nat
  BY MemoryInt DEF State, InPlace
<1>2. Agreed(k, p, x, y, p.A, x.A, y.A) /\ Agreed(k, p, x, y, p.v, x.v, y.v)
      /\ Agreed(k, p, x, y, p.u, x.u, y.u)
  BY FieldsAgreed
<1>3. Agreed(k, p, x, y, a(p), a(x), a(y)) /\ Agreed(k, p, x, y, Wrap(a(p) + 1), Wrap(a(x) + 1), Wrap(a(y) + 1))
  BY <1>2 DEF Agreed
<1>4. CASE e.mode = "base"
  <2>1. \A t : GetAddr(t, e, n) = base(t)
    BY <1>4 DEF GetAddr
  <2>2. Goes(k, p, x, y, base(p), base(x), base(y))
    BY <1>3, AddressGoes
  <2> QED
    BY <2>1, <2>2
<1>5. Goes(k, p, x, y, f(p), f(x), f(y))
  BY FetchGoes
<1>6. CASE e.mode = "disp"
  <2>1. \A t : GetAddr(t, e, n) = disp(t)
    BY <1>6 DEF GetAddr
  <2> DEFINE b(t) == Wrap(a(t) + 1)
  <2>2. Agreed(k, f(p), f(x), f(y), b(p), b(x), b(y)) /\ Linked(k, f(p), f(x), f(y))
    BY <1>3, <1>5, AgreedOn DEF Goes
  <2> HIDE DEF f, b
  <2>3. Goes(k, f(p), f(x), f(y), Go(f(p), [f(p) EXCEPT !.a = b(p)]), Go(f(x), [f(x) EXCEPT !.a = b(x)]),
             Go(f(y), [f(y) EXCEPT !.a = b(y)]))
    BY <2>2, AddressGoes
  <2>4. Goes(k, f(p), f(x), f(y), disp(p), disp(x), disp(y))
    BY <2>3 DEF b
  <2> QED
    BY <1>5, <2>1, <2>4, GoesOn
<1>7. CASE e.mode = "indirect"
  <2>1. \A t : GetAddr(t, e, n) = ind(t)
    BY <1>7 DEF GetAddr
  <2>2. Linked(k, f(p), f(x), f(y)) /\ Agreed(k, f(p), f(x), f(y), a(p), a(x), a(y))
    BY <1>3, <1>5, AgreedOn DEF Goes
  <2> HIDE DEF f, a
  <2>3. Goes(k, f(p), f(x), f(y), g(p), g(x), g(y))
    BY <1>1, <2>2, ReadGoes
  <2> HIDE DEF g
  <2>4. Goes(k, p, x, y, g(p), g(x), g(y))
    BY <1>5, <2>3, GoesOn
  <2> DEFINE b(t) == Wrap(g(t).v[4])
             v(t) == t.v
             u(t) == t.u
  <2>5. Linked(k, g(p), g(x), g(y)) /\ Agreed(k, g(p), g(x), g(y), v(p), v(x), v(y))
        /\ Agreed(k, g(p), g(x), g(y), u(p), u(x), u(y))
    BY <1>2, <2>4, AgreedOn DEF Goes
  <2>6. Agreed(k, g(p), g(x), g(y), b(p), b(x), b(y))
    BY <2>5, FieldsAgreed DEF Agreed
  <2> HIDE DEF b, v, u
  <2>7. Goes(k, g(p), g(x), g(y), Go(g(p), [g(p) EXCEPT !.a = b(p), !.v = v(p), !.u = u(p)]),
             Go(g(x), [g(x) EXCEPT !.a = b(x), !.v = v(x), !.u = u(x)]),
             Go(g(y), [g(y) EXCEPT !.a = b(y), !.v = v(y), !.u = u(y)]))
    BY <2>5, <2>6, PointedGoes
  <2>8. Goes(k, g(p), g(x), g(y), ind(p), ind(x), ind(y))
    BY <2>7 DEF b, v, u
  <2> HIDE DEF ind
  <2> QED
    BY <2>1, <2>4, <2>8, GoesOn
<1> QED
  BY <1>4, <1>6, <1>7 DEF InPlace, InMemory, Control, Steps

\* A choice between two operations on which the runs agree.
LEMMA EitherGoes ==
  ASSUME NEW k, NEW p, NEW x, NEW y, Linked(k, p, x, y), NEW q, NEW r, NEW z, NEW q2, NEW r2, NEW z2,
         Goes(k, p, x, y, q, r, z), Goes(k, p, x, y, q2, r2, z2),
         NEW q3 \in {q, q2}, NEW r3 \in {r, r2}, NEW z3 \in {z, z2},
         Tied(k, p, x) => \/ r3 = r /\ z3 = z /\ (p.fault \/ q3 = q)
                          \/ r3 = r2 /\ z3 = z2 /\ (p.fault \/ q3 = q2)
  PROVE  Goes(k, p, x, y, q3, r3, z3)
<1>1. /\ Clean(k, q3) => Clean(k, p)
      /\ p.fault => q3 = p /\ q = p /\ q2 = p
      /\ x.fault => r3.fault
  BY DEF Goes
<1>2. ASSUME Tied(k, q3, r3) PROVE IF q3.fault THEN Twin(r3, z3) ELSE Before(k, q3, r3, z3)
  <2>1. Tied(k, p, x)
    BY <1>1, <1>2 DEF Tied
  <2>2. CASE r3 = r /\ z3 = z /\ (p.fault \/ q3 = q)
    <3>1. q3 = q
      BY <1>1, <2>2
    <3> QED
      BY <1>2, <2>2, <3>1 DEF Goes, Linked
  <2>3. CASE r3 = r2 /\ z3 = z2 /\ (p.fault \/ q3 = q2)
    <3>1. q3 = q2
      BY <1>1, <2>3
    <3> QED
      BY <1>2, <2>3, <3>1 DEF Goes, Linked
  <2> QED
    BY <2>1, <2>2, <2>3
<1>3. Shaped(q3) /\ Shaped(r3) /\ Shaped(z3) /\ \A b \in Memory : b \in q3.wr \/ q3.mem[b] = k.was[b]
  BY DEF Goes, Linked
<1> QED
  BY <1>1, <1>2, <1>3 DEF Goes, Linked

\* Two values read or computed.
LEMMA ValueGoes ==
  ASSUME NEW k, NEW p, NEW x, NEW y, Linked(k, p, x, y), NEW a, NEW b, NEW c,
         Agreed(k, p, x, y, a, b, c), NEW v, NEW v2, NEW v3, Agreed(k, p, x, y, v, v2, v3)
  PROVE  Goes(k, p, x, y, Go(p, [p EXCEPT !.u = a, !.v = v]), Go(x, [x EXCEPT !.u = b, !.v = v2]),
              Go(y, [y EXCEPT !.u = c, !.v = v3]))
  BY DEF Goes, Linked, Agreed, Tied, Twin, Before, Clean, Follows, Like, Shaped, Go, Fields

\* The bus locked or not at the effective address.
LEMMA LockGoes ==
  ASSUME NEW k, NEW p, NEW x, NEW y, Linked(k, p, x, y), NEW lk
  PROVE  Goes(k, p, x, y, Go(p, [p EXCEPT !.EA = p.a, !.lock = lk]),
              Go(x, [x EXCEPT !.EA = x.a, !.lock = lk]), Go(y, [y EXCEPT !.EA = y.a, !.lock = lk]))
  BY DEF Goes, Linked, Agreed, Tied, Twin, Before, Clean, Follows, Like, Shaped, Go, Fields

\* The bus free.
LEMMA FreeGoes ==
  ASSUME NEW k, NEW p, NEW x, NEW y, Linked(k, p, x, y)
  PROVE  Goes(k, p, x, y, Go(p, [p EXCEPT !.lock = FALSE]), Go(x, [x EXCEPT !.lock = FALSE]),
              Go(y, [y EXCEPT !.lock = FALSE]))
  BY DEF Goes, Linked, Agreed, Tied, Twin, Before, Clean, Follows, Like, Shaped, Go, Fields

\* Setting the address registers.
LEMMA RegsGoes ==
  ASSUME NEW k, NEW p, NEW x, NEW y, Linked(k, p, x, y), NEW a, NEW b, NEW c,
         Agreed(k, p, x, y, a, b, c)
  PROVE  Goes(k, p, x, y, Go(p, [p EXCEPT !.A = a]), Go(x, [x EXCEPT !.A = b]), Go(y, [y EXCEPT !.A = c]))
  BY DEF Goes, Linked, Agreed, Tied, Twin, Before, Clean, Follows, Like, Shaped, Go, Fields

\* Setting the data registers.
LEMMA DataGoes ==
  ASSUME NEW k, NEW p, NEW x, NEW y, Linked(k, p, x, y), NEW a, NEW b, NEW c,
         Agreed(k, p, x, y, a, b, c)
  PROVE  Goes(k, p, x, y, Go(p, [p EXCEPT !.D = a]), Go(x, [x EXCEPT !.D = b]), Go(y, [y EXCEPT !.D = c]))
  BY DEF Goes, Linked, Agreed, Tied, Twin, Before, Clean, Follows, Like, Shaped, Go, Fields

\* Setting the program counter.
LEMMA CounterGoes ==
  ASSUME NEW k, NEW p, NEW x, NEW y, Linked(k, p, x, y), NEW a, NEW b, NEW c,
         Agreed(k, p, x, y, a, b, c)
  PROVE  Goes(k, p, x, y, Go(p, [p EXCEPT !.PC = a]), Go(x, [x EXCEPT !.PC = b]), Go(y, [y EXCEPT !.PC = c]))
  BY DEF Goes, Linked, Agreed, Tied, Twin, Before, Clean, Follows, Like, Shaped, Go, Fields

\* Setting the compare operands.
LEMMA CompareGoes ==
  ASSUME NEW k, NEW p, NEW x, NEW y, Linked(k, p, x, y), NEW a, NEW b, NEW c,
         Agreed(k, p, x, y, a, b, c)
  PROVE  Goes(k, p, x, y, Go(p, [p EXCEPT !.dc = a]), Go(x, [x EXCEPT !.dc = b]), Go(y, [y EXCEPT !.dc = c]))
  BY DEF Goes, Linked, Agreed, Tied, Twin, Before, Clean, Follows, Like, Shaped, Go, Fields

\* Setting a value with its condition codes.
LEMMA ResultGoes ==
  ASSUME NEW k, NEW p, NEW x, NEW y, Linked(k, p, x, y), NEW a, NEW b, NEW c,
         Agreed(k, p, x, y, a, b, c), NEW v, NEW v2, NEW v3, Agreed(k, p, x, y, v, v2, v3)
  PROVE  Goes(k, p, x, y, Go(p, [p EXCEPT !.v = v, !.NZVC = a]), Go(x, [x EXCEPT !.v = v2, !.NZVC = b]),
              Go(y, [y EXCEPT !.v = v3, !.NZVC = c]))
  BY DEF Goes, Linked, Agreed, Tied, Twin, Before, Clean, Follows, Like, Shaped, Go, Fields

\* Setting a value with its condition codes and X.
LEMMA CarryGoes ==
  ASSUME NEW k, NEW p, NEW x, NEW y, Linked(k, p, x, y), NEW a, NEW b, NEW c,
         Agreed(k, p, x, y, a, b, c), NEW v, NEW v2, NEW v3, Agreed(k, p, x, y, v, v2, v3)
  PROVE  Goes(k, p, x, y, Go(p, [p EXCEPT !.v = v, !.NZVC = v, !.X = a]),
              Go(x, [x EXCEPT !.v = v2, !.NZVC = v2, !.X = b]),
              Go(y, [y EXCEPT !.v = v3, !.NZVC = v3, !.X = c]))
  BY DEF Goes, Linked, Agreed, Tied, Twin, Before, Clean, Follows, Like, Shaped, Go, Fields

\* Nothing done is a step.
LEMMA StillGoes ==
  ASSUME NEW k, NEW p, NEW x, NEW y, Linked(k, p, x, y)
  PROVE  Goes(k, p, x, y, p, x, y)
  BY DEF Goes

\* A value goes to the data register.
LEMMA InRegGoes ==
  ASSUME NEW k, NEW p, NEW x, NEW y, Linked(k, p, x, y), NEW v, NEW v2, NEW v3,
         Agreed(k, p, x, y, v, v2, v3)
  PROVE  Goes(k, p, x, y, Go(p, InReg(p, v)), Go(x, InReg(x, v2)), Go(y, InReg(y, v3)))
<1> DEFINE d(t, w) == SubSeq(t.D, 1, 4 - Len(w)) \o w
<1>1. \A t, w : Go(t, InReg(t, w)) = Go(t, [t EXCEPT !.D = d(t, w)])
  BY DEF InReg
<1>2. Agreed(k, p, x, y, d(p, v), d(x, v2), d(y, v3))
  <2>1. Agreed(k, p, x, y, p.D, x.D, y.D)
    BY FieldsAgreed
  <2> QED
    BY <2>1 DEF Agreed
<1> HIDE DEF d
<1>3. Goes(k, p, x, y, Go(p, [p EXCEPT !.D = d(p, v)]), Go(x, [x EXCEPT !.D = d(x, v2)]),
           Go(y, [y EXCEPT !.D = d(y, v3)]))
  BY <1>2, DataGoes
<1> QED
  BY <1>1, <1>3

\* An operation on two operands that leaves X.
LEMMA Alu2Goes ==
  ASSUME NEW k, NEW p, NEW x, NEW y, Linked(k, p, x, y), NEW v, NEW v2, NEW v3,
         Agreed(k, p, x, y, v, v2, v3)
  PROVE  Goes(k, p, x, y, Alu2(p, v), Alu2(x, v2), Alu2(y, v3))
<1> DEFINE d(t, w) == Res(t.v, w)
<1>1. \A t, w : Alu2(t, w) = Go(t, [t EXCEPT !.v = d(t, w), !.NZVC = d(t, w)])
  BY DEF Alu2
<1>2. Agreed(k, p, x, y, d(p, v), d(x, v2), d(y, v3))
  BY FieldsAgreed DEF Agreed
<1> HIDE DEF d
<1>3. Goes(k, p, x, y, Go(p, [p EXCEPT !.v = d(p, v), !.NZVC = d(p, v)]),
           Go(x, [x EXCEPT !.v = d(x, v2), !.NZVC = d(x, v2)]),
           Go(y, [y EXCEPT !.v = d(y, v3), !.NZVC = d(y, v3)]))
  BY <1>2, ResultGoes
<1> QED
  BY <1>1, <1>3

\* An operation that sets X.
LEMMA AluXGoes ==
  ASSUME NEW k, NEW p, NEW x, NEW y, Linked(k, p, x, y), NEW v, NEW v2, NEW v3,
         Agreed(k, p, x, y, v, v2, v3)
  PROVE  Goes(k, p, x, y, AluX(p, v), AluX(x, v2), AluX(y, v3))
<1> DEFINE d(t, w) == Res(Res(t.v, w), [j \in DOMAIN t.v |-> t.X])
           e(t, w) == d(t, w)[1]
<1>1. \A t, w : AluX(t, w) = Go(t, [t EXCEPT !.v = d(t, w), !.NZVC = d(t, w), !.X = e(t, w)])
  BY DEF AluX
<1>2. Agreed(k, p, x, y, d(p, v), d(x, v2), d(y, v3))
  BY FieldsAgreed DEF Agreed
<1>3. Agreed(k, p, x, y, e(p, v), e(x, v2), e(y, v3))
  <2> HIDE DEF d
  <2> QED
    BY <1>2 DEF Agreed
<1> HIDE DEF d, e
<1>4. Goes(k, p, x, y, Go(p, [p EXCEPT !.v = d(p, v), !.NZVC = d(p, v), !.X = e(p, v)]),
           Go(x, [x EXCEPT !.v = d(x, v2), !.NZVC = d(x, v2), !.X = e(x, v2)]),
           Go(y, [y EXCEPT !.v = d(y, v3), !.NZVC = d(y, v3), !.X = e(y, v3)]))
  BY <1>2, <1>3, CarryGoes
<1> QED
  BY <1>1, <1>4

\* ea_read, of a register, an immediate or memory.
LEMMA EaReadGoes ==
  ASSUME NEW k, NEW p, NEW x, NEW y, Linked(k, p, x, y), Good(p), NEW e, Source(e), ~Steps(e),
         NEW n \in Sizes, NEW lk
  PROVE  Goes(k, p, x, y, EaRead(p, e, n, lk), EaRead(x, e, n, lk), EaRead(y, e, n, lk))
<1> DEFINE old(t) == t.v
           dn(t) == Dn(t, n)
           reg(t) == Go(t, [t EXCEPT !.u = old(t), !.v = dn(t)])
           f(t) == Fetch(t)
           w == [j \in 1..n |-> 9]
           imm(t) == Go(f(t), [f(t) EXCEPT !.u = old(t), !.v = w])
           g(t) == GetAddr(t, e, n)
           h(t) == Go(g(t), [g(t) EXCEPT !.EA = g(t).a, !.lock = lk])
           a(t) == g(t).a
           mem(t) == Read(h(t), a(t), n)
<1>1. Agreed(k, p, x, y, old(p), old(x), old(y)) /\ Agreed(k, p, x, y, dn(p), dn(x), dn(y))
  <2>1. Agreed(k, p, x, y, p.D, x.D, y.D) /\ Agreed(k, p, x, y, old(p), old(x), old(y))
    BY FieldsAgreed
  <2> QED
    BY <2>1 DEF Agreed, Dn
<1>2. CASE e.mode = "reg"
  <2>1. \A t : EaRead(t, e, n, lk) = reg(t)
    BY <1>2 DEF EaRead, Dn
  <2> HIDE DEF old, dn
  <2>2. Goes(k, p, x, y, reg(p), reg(x), reg(y))
    BY <1>1, ValueGoes
  <2> HIDE DEF reg
  <2> QED
    BY <2>1, <2>2
<1>3. CASE e.mode = "imm"
  <2>1. \A t : EaRead(t, e, n, lk) = imm(t)
    BY <1>3 DEF EaRead
  <2>2. Goes(k, p, x, y, f(p), f(x), f(y))
    BY FetchGoes
  <2>3. Linked(k, f(p), f(x), f(y)) /\ Agreed(k, f(p), f(x), f(y), old(p), old(x), old(y))
        /\ Agreed(k, f(p), f(x), f(y), w, w, w)
    <3>1. Linked(k, f(p), f(x), f(y))
      BY <2>2 DEF Goes
    <3> HIDE DEF f, w
    <3>2. Agreed(k, f(p), f(x), f(y), w, w, w)
      BY DEF Agreed
    <3> QED
      BY <1>1, <2>2, <3>1, <3>2, AgreedOn
  <2> HIDE DEF f, old, w
  <2>4. Goes(k, f(p), f(x), f(y), imm(p), imm(x), imm(y))
    BY <2>3, ValueGoes
  <2> HIDE DEF imm
  <2> QED
    BY <2>1, <2>2, <2>4, GoesOn
<1>4. CASE InPlace(e)
  <2>1. \A t : EaRead(t, e, n, lk) = mem(t)
    <3>1. e.mode # "reg" /\ e.mode # "imm"
      BY <1>4 DEF InPlace, InMemory, Control
    <3> HIDE DEF g
    <3> SUFFICES ASSUME NEW t PROVE EaRead(t, e, n, lk) = mem(t)
      OBVIOUS
    <3>2. EaRead(t, e, n, lk) = Go(g(t), Read([g(t) EXCEPT !.EA = g(t).a, !.lock = lk], g(t).a, n))
      BY <3>1 DEF EaRead, g
    <3> QED
      BY <3>2 DEF Go, Read, ReadIn
  <2>2. Goes(k, p, x, y, g(p), g(x), g(y)) /\ a(p) \in Int /\ n \in Nat
    <3>1. n \in {0, 1, 2, 4} /\ n \in Nat /\ p \in State
      BY DEF Sizes, Good, Safe
    <3>2. Located(p, g(p), e)
      BY <1>4, <3>1, GetAddrOk
    <3>3. a(p) \in Int
      BY <3>2, LocatedIs DEF Located
    <3> QED
      BY <1>4, <3>1, <3>3, GetAddrGoes
  <2>3. Linked(k, g(p), g(x), g(y)) /\ Agreed(k, g(p), g(x), g(y), a(p), a(x), a(y))
    BY <2>2, FieldsAgreed DEF Goes
  <2> HIDE DEF g
  <2>4. Goes(k, g(p), g(x), g(y), h(p), h(x), h(y))
    BY <2>3, LockGoes
  <2>5. Linked(k, h(p), h(x), h(y)) /\ Agreed(k, h(p), h(x), h(y), a(p), a(x), a(y))
    BY <2>3, <2>4, AgreedOn DEF Goes
  <2> HIDE DEF h, a
  <2>6. Goes(k, h(p), h(x), h(y), mem(p), mem(x), mem(y))
    BY <2>2, <2>5, ReadGoes
  <2> HIDE DEF mem
  <2>7. Goes(k, p, x, y, h(p), h(x), h(y))
    BY <2>2, <2>4, GoesOn
  <2> QED
    BY <2>1, <2>6, <2>7, GoesOn
<1> QED
  BY <1>2, <1>3, <1>4 DEF Source, Place

\* A mode that steps no register addresses operands of all sizes alike, and is
\* passed over after a fault.
LEMMA AddrAlike ==
  ASSUME NEW t, NEW e, InPlace(e), ~Steps(e), NEW n
  PROVE  GetAddr(t, e, n) = GetAddr(t, e, 0) /\ (t.fault => GetAddr(t, e, n) = t)
<1>1. e.mode \in {"base", "disp", "indirect"}
  BY DEF InPlace, InMemory, Control, Steps
<1>2. CASE e.mode = "base"
  BY <1>2 DEF GetAddr, Go
<1>3. CASE e.mode = "disp"
  BY <1>3 DEF GetAddr, Go, Fetch
<1>4. CASE e.mode = "indirect"
  <2> DEFINE f == Fetch(t)
             g == Read(f, t.A[e.reg], 4)
             r == Go(g, [g EXCEPT !.a = Wrap(g.v[4]), !.v = t.v, !.u = t.u])
  <2>1. GetAddr(t, e, n) = r /\ GetAddr(t, e, 0) = r
    BY <1>4 DEF GetAddr
  <2>2. ASSUME t.fault PROVE r = t
    <3>1. f = t
      BY <2>2 DEF Fetch, Go
    <3> HIDE DEF f
    <3>2. g = t
      BY <2>2, <3>1 DEF Read, ReadIn, Go
    <3> HIDE DEF g
    <3> QED
      BY <2>2, <3>2 DEF Go
  <2> HIDE DEF r
  <2> QED
    BY <2>1, <2>2
<1> QED
  BY <1>1, <1>2, <1>3, <1>4

\* ea_write, of a register or memory.
LEMMA EaWriteGoes ==
  ASSUME NEW k, NEW p, NEW x, NEW y, Linked(k, p, x, y), Good(p), NEW e, Place(e), ~Steps(e),
         ~p.fault => Len(p.v) \in Sizes
  PROVE  Goes(k, p, x, y, EaWrite(p, e), EaWrite(x, e), EaWrite(y, e))
<1> DEFINE val(t) == t.v
           reg(t) == Go(t, InReg(t, val(t)))
           g(t) == GetAddr(t, e, 0)
           h(t) == Go(g(t), [g(t) EXCEPT !.EA = g(t).a])
           at(t) == IF t.lock THEN t ELSE h(t)
           b(t) == at(t).EA
           v(t) == at(t).v
           w(t) == Write(at(t), b(t), v(t))
           mem(t) == Go(w(t), [w(t) EXCEPT !.lock = FALSE])
<1>1. CASE e.mode = "reg"
  <2>1. \A t : EaWrite(t, e) = reg(t)
    BY <1>1 DEF EaWrite
  <2>2. Agreed(k, p, x, y, val(p), val(x), val(y))
    BY FieldsAgreed
  <2> HIDE DEF val
  <2>3. Goes(k, p, x, y, reg(p), reg(x), reg(y))
    BY <2>2, InRegGoes
  <2> HIDE DEF reg
  <2> QED
    BY <2>1, <2>3
<1>2. CASE InPlace(e)
  <2>1. \A t : EaWrite(t, e) = mem(t)
    <3>1. e.mode # "reg"
      BY <1>2 DEF InPlace, InMemory, Control
    <3> SUFFICES ASSUME NEW t PROVE EaWrite(t, e) = mem(t)
      OBVIOUS
    <3>2. EaWrite(t, e) = Go(t, mem(t))
      <4>1. GetAddr(t, e, Len(t.v)) = g(t)
        BY <1>2, AddrAlike
      <4> HIDE DEF g
      <4> QED
        BY <3>1, <4>1 DEF EaWrite
    <3>3. ASSUME t.fault PROVE mem(t) = t
      <4>1. g(t) = t
        BY <1>2, <3>3, AddrAlike
      <4> HIDE DEF g
      <4>2. at(t) = t
        BY <3>3, <4>1 DEF Go
      <4> HIDE DEF at
      <4>3. w(t) = t
        BY <3>3, <4>2, Passed
      <4> HIDE DEF w
      <4> QED
        BY <3>3, <4>3 DEF Go
    <3> HIDE DEF mem
    <3> QED
      BY <3>2, <3>3 DEF Go
  <2>2. Goes(k, p, x, y, g(p), g(x), g(y)) /\ Located(p, g(p), e)
    <3>1. p \in State /\ 0 \in {0, 1, 2, 4}
      BY DEF Good, Safe
    <3> QED
      BY <1>2, <3>1, GetAddrOk, GetAddrGoes
  <2>3. Linked(k, g(p), g(x), g(y))
    BY <2>2 DEF Goes
  <2> HIDE DEF g
  <2>4. Goes(k, g(p), g(x), g(y), h(p), h(x), h(y))
    BY <2>3, AimGoes
  <2>5. Good(h(p)) /\ h(p).v = g(p).v /\ h(p).fault = g(p).fault
    <3>1. Good(g(p))
      BY <2>2 DEF Located
    <3> QED
      BY <3>1, AimOk
  <2> HIDE DEF h
  <2>6. Goes(k, p, x, y, h(p), h(x), h(y))
    BY <2>2, <2>4, GoesOn
  <2>7. Goes(k, p, x, y, at(p), at(x), at(y))
    <3>1. Goes(k, p, x, y, p, x, y)
      BY StillGoes
    <3>2. Agreed(k, p, x, y, p.lock, x.lock, y.lock)
      BY FieldsAgreed
    <3>3. at(p) \in {p, h(p)} /\ at(x) \in {x, h(x)} /\ at(y) \in {y, h(y)}
      OBVIOUS
    <3>4. Tied(k, p, x) => \/ at(x) = x /\ at(y) = y /\ (p.fault \/ at(p) = p)
                           \/ at(x) = h(x) /\ at(y) = h(y) /\ (p.fault \/ at(p) = h(p))
      BY <3>2 DEF Agreed
    <3> HIDE DEF at
    <3> QED
      BY <2>6, <3>1, <3>3, <3>4, EitherGoes
  <2>8. Good(at(p)) /\ (~at(p).fault => Len(v(p)) \in Sizes) /\ v(p) \in Seq(Byte) /\ b(p) \in Int
    <3>1. Good(at(p))
      BY <2>5
    <3>2. ~at(p).fault => ~p.fault /\ v(p) = p.v
      BY <2>2, <2>5 DEF Located
    <3> HIDE DEF at
    <3>3. v(p) \in Seq(Byte) /\ b(p) \in Int
      BY <3>1, ValuesAre, LocatedIs
    <3> QED
      BY <3>1, <3>2, <3>3
  <2>9. /\ Linked(k, at(p), at(x), at(y)) /\ Agreed(k, at(p), at(x), at(y), b(p), b(x), b(y))
        /\ Agreed(k, at(p), at(x), at(y), v(p), v(x), v(y))
    <3> HIDE DEF at
    <3> QED
      BY <2>7, FieldsAgreed DEF Goes
  <2> HIDE DEF at, b, v
  <2>10. Goes(k, at(p), at(x), at(y), w(p), w(x), w(y))
    BY <2>8, <2>9, WriteGoes
  <2> HIDE DEF w
  <2>11. Goes(k, w(p), w(x), w(y), mem(p), mem(x), mem(y))
    BY <2>10, FreeGoes DEF Goes
  <2> HIDE DEF mem
  <2> QED
    BY <2>1, <2>7, <2>10, <2>11, GoesOn
<1> QED
  BY <1>1, <1>2 DEF Place

\* The computation of an instruction that reads, computes and writes.
LEMMA QuickOk ==
  ASSUME NEW t, NEW r, NEW e, NEW n \in Sizes, NEW lk, Loaded(t, r, e, n, lk)
  PROVE  Settled(r, AluX(r, Quick(r)))
<1> DEFINE q == Quick(r)
           m == Len(r.v)
<1>1. Good(r) /\ r.v \in Seq(Byte)
  BY DEF Loaded, Good, Safe, State
<1>2. q \in Seq(Byte) /\ Len(q) = m
  <2>1. 8 \in Byte
    BY DEF Byte
  <2> QED
    BY <1>1, <2>1, FilledAs DEF Quick
<1> HIDE DEF q
<1>3. ~r.fault => m \in {1, 2, 4}
  BY DEF Loaded, Sizes
<1> HIDE DEF m
<1>4. ~r.fault => q \in Seq(Byte) /\ Len(q) >= m /\ m >= 1
  BY <1>2, <1>3
<1> QED
  BY <1>1, <1>4, AluXOk DEF q, m

\* Rmw.
LEMMA RmwGoes ==
  ASSUME NEW k, NEW p, NEW x, NEW y, Linked(k, p, x, y), Good(p),
         NEW i, i.sz \in Sizes, Place(i.e), ~Steps(i.e)
  PROVE  Goes(k, p, x, y, Rmw(p, i), Rmw(x, i), Rmw(y, i))
<1> DEFINE lk == TRUE
           n == i.sz
           r(t) == EaRead(t, i.e, n, lk)
           q(t) == Quick(r(t))
           c(t) == AluX(r(t), q(t))
           w(t) == EaWrite(c(t), i.e)
<1>1. \A t : Rmw(t, i) = w(t)
  BY DEF Rmw
<1>2. Source(i.e) /\ lk \in BOOLEAN
  BY DEF Source
<1> HIDE DEF lk
<1>3. Goes(k, p, x, y, r(p), r(x), r(y)) /\ Loaded(p, r(p), i.e, n, lk)
  BY <1>2, EaReadGoes, EaReadOk
<1> HIDE DEF r
<1>4. Linked(k, r(p), r(x), r(y)) /\ Agreed(k, r(p), r(x), r(y), q(p), q(x), q(y))
  <2>1. Linked(k, r(p), r(x), r(y))
    BY <1>3 DEF Goes
  <2>2. Agreed(k, r(p), r(x), r(y), r(p).v, r(x).v, r(y).v)
    BY <2>1, FieldsAgreed
  <2> QED
    BY <2>1, <2>2 DEF Agreed, Quick
<1>5. Settled(r(p), c(p))
  BY <1>3, QuickOk
<1> HIDE DEF q
<1>6. Goes(k, r(p), r(x), r(y), c(p), c(x), c(y))
  BY <1>4, AluXGoes
<1>7. Good(c(p)) /\ (~c(p).fault => Len(c(p).v) \in Sizes)
  BY <1>3, <1>5 DEF Settled, Loaded
<1> HIDE DEF c
<1>8. Goes(k, c(p), c(x), c(y), w(p), w(x), w(y))
  BY <1>6, <1>7, EaWriteGoes DEF Goes
<1> HIDE DEF w
<1> QED
  BY <1>1, <1>3, <1>6, <1>8, GoesOn

\* Immediate.
LEMMA ImmediateGoes ==
  ASSUME NEW k, NEW p, NEW x, NEW y, Linked(k, p, x, y), Good(p),
         NEW i, i.sz \in Sizes, Place(i.e), ~Steps(i.e)
  PROVE  Goes(k, p, x, y, Immediate(p, i), Immediate(x, i), Immediate(y, i))
<1> DEFINE f(t) == Fetch(t)
<1>1. Goes(k, p, x, y, f(p), f(x), f(y)) /\ Good(f(p))
  BY FetchGoes, FetchOk DEF Fetched
<1>2. \A t : Immediate(t, i) = Rmw(f(t), i)
  BY DEF Immediate
<1> HIDE DEF f
<1>3. Goes(k, f(p), f(x), f(y), Rmw(f(p), i), Rmw(f(x), i), Rmw(f(y), i))
  BY <1>1, RmwGoes DEF Goes
<1> QED
  BY <1>1, <1>2, <1>3, GoesOn

\* ToDn.
LEMMA ToDnGoes ==
  ASSUME NEW k, NEW p, NEW x, NEW y, Linked(k, p, x, y), Good(p),
         NEW i, i.sz \in Sizes, Source(i.e), ~Steps(i.e)
  PROVE  Goes(k, p, x, y, ToDn(p, i), ToDn(x, i), ToDn(y, i))
<1> DEFINE lk == FALSE
           n == i.sz
           r(t) == EaRead(t, i.e, n, lk)
           q(t) == Dn(t, n)
           c(t) == Alu2(r(t), q(t))
           v(t) == c(t).v
           w(t) == Go(c(t), InReg(c(t), v(t)))
<1>1. \A t : ToDn(t, i) = w(t)
  BY DEF ToDn
<1> HIDE DEF lk
<1>2. Goes(k, p, x, y, r(p), r(x), r(y))
  BY EaReadGoes
<1>3. Agreed(k, p, x, y, q(p), q(x), q(y))
  <2>1. Agreed(k, p, x, y, p.D, x.D, y.D)
    BY FieldsAgreed
  <2> QED
    BY <2>1 DEF Agreed, Dn
<1> HIDE DEF r, q
<1>4. Linked(k, r(p), r(x), r(y)) /\ Agreed(k, r(p), r(x), r(y), q(p), q(x), q(y))
  BY <1>2, <1>3, AgreedOn DEF Goes
<1>5. Goes(k, r(p), r(x), r(y), c(p), c(x), c(y))
  BY <1>4, Alu2Goes
<1> HIDE DEF c
<1>6. Linked(k, c(p), c(x), c(y)) /\ Agreed(k, c(p), c(x), c(y), v(p), v(x), v(y))
  BY <1>5, FieldsAgreed DEF Goes
<1> HIDE DEF v
<1>7. Goes(k, c(p), c(x), c(y), w(p), w(x), w(y))
  BY <1>6, InRegGoes
<1> HIDE DEF w
<1> QED
  BY <1>1, <1>2, <1>5, <1>7, GoesOn

\* FetchToDn.
LEMMA FetchToDnGoes ==
  ASSUME NEW k, NEW p, NEW x, NEW y, Linked(k, p, x, y), Good(p),
         NEW i, i.sz \in Sizes, Source(i.e), ~Steps(i.e)
  PROVE  Goes(k, p, x, y, FetchToDn(p, i), FetchToDn(x, i), FetchToDn(y, i))
<1> DEFINE f(t) == Fetch(t)
<1>1. Goes(k, p, x, y, f(p), f(x), f(y)) /\ Good(f(p))
  BY FetchGoes, FetchOk DEF Fetched
<1>2. \A t : FetchToDn(t, i) = ToDn(f(t), i)
  BY DEF FetchToDn
<1> HIDE DEF f
<1>3. Goes(k, f(p), f(x), f(y), ToDn(f(p), i), ToDn(f(x), i), ToDn(f(y), i))
  BY <1>1, ToDnGoes DEF Goes
<1> QED
  BY <1>1, <1>2, <1>3, GoesOn

\* Move.
LEMMA MoveGoes ==
  ASSUME NEW k, NEW p, NEW x, NEW y, Linked(k, p, x, y), Good(p),
         NEW i, i.sz \in Sizes, Source(i.e), ~Steps(i.e), Place(i.f), ~Steps(i.f)
  PROVE  Goes(k, p, x, y, Move(p, i), Move(x, i), Move(y, i))
<1> DEFINE lk == FALSE
           n == i.sz
           r(t) == EaRead(t, i.e, n, lk)
           v(t) == r(t).v
           c(t) == Flags(r(t), v(t))
           w(t) == EaWrite(c(t), i.f)
<1>1. (\A t : Move(t, i) = w(t)) /\ lk \in BOOLEAN
  BY DEF Move
<1> HIDE DEF lk
<1>2. Goes(k, p, x, y, r(p), r(x), r(y)) /\ Loaded(p, r(p), i.e, n, lk)
  BY <1>1, EaReadGoes, EaReadOk
<1> HIDE DEF r
<1>3. Linked(k, r(p), r(x), r(y)) /\ Agreed(k, r(p), r(x), r(y), v(p), v(x), v(y))
  BY <1>2, FieldsAgreed DEF Goes
<1>4. Good(c(p)) /\ (~c(p).fault => Len(c(p).v) \in Sizes)
  <2>1. Good(r(p)) /\ v(p) \in Seq(Byte)
    BY <1>2, ValuesAre DEF Loaded
  <2>2. Settled(r(p), c(p))
    BY <2>1, FlagsOk
  <2> QED
    BY <1>2, <2>2 DEF Settled, Loaded
<1> HIDE DEF v
<1>5. Goes(k, r(p), r(x), r(y), c(p), c(x), c(y))
  BY <1>3, FlagsGoes
<1> HIDE DEF c
<1>6. Goes(k, c(p), c(x), c(y), w(p), w(x), w(y))
  BY <1>4, <1>5, EaWriteGoes DEF Goes
<1> HIDE DEF w
<1> QED
  BY <1>1, <1>2, <1>5, <1>6, GoesOn

\* Codes that are set or kept, before the value is written.
LEMMA ZeroGoes ==
  ASSUME NEW k, NEW p, NEW x, NEW y, Linked(k, p, x, y), NEW v
  PROVE  Goes(k, p, x, y, Go(p, [p EXCEPT !.v = v]), Go(x, [x EXCEPT !.v = v]), Go(y, [y EXCEPT !.v = v]))
  BY DEF Goes, Linked, Agreed, Tied, Twin, Before, Clean, Follows, Like, Shaped, Go, Fields

\* WriteOnly.
LEMMA WriteOnlyGoes ==
  ASSUME NEW k, NEW p, NEW x, NEW y, Linked(k, p, x, y), Good(p),
         NEW i, i.sz \in Sizes, Place(i.e), ~Steps(i.e)
  PROVE  Goes(k, p, x, y, WriteOnly(p, i), WriteOnly(x, i), WriteOnly(y, i))
<1> DEFINE z == [j \in 1..i.sz |-> 0]
           set(t) == Go(t, [t EXCEPT !.v = z, !.NZVC = z])
           kept(t) == Go(t, [t EXCEPT !.v = z])
           c(t) == Go(t, [t EXCEPT !.v = z, !.NZVC = IF i.h = "clr" THEN z ELSE @])
           w(t) == EaWrite(c(t), i.e)
<1>1. \A t : WriteOnly(t, i) = w(t)
  BY DEF WriteOnly
<1>2. z \in Seq(Byte) /\ Len(z) = i.sz
  <2>1. 0 \in Byte /\ i.sz \in Nat
    BY DEF Byte, Sizes
  <2> QED
    BY <2>1, FilledIs
<1> HIDE DEF z
<1>3. Agreed(k, p, x, y, z, z, z)
  BY DEF Agreed
<1>4. Goes(k, p, x, y, c(p), c(x), c(y))
  <2>1. CASE i.h = "clr"
    <3>1. \A t : c(t) = set(t)
      BY <2>1
    <3>2. Goes(k, p, x, y, set(p), set(x), set(y))
      BY <1>3, ResultGoes
    <3> HIDE DEF c, set
    <3> QED
      BY <3>1, <3>2
  <2>2. CASE i.h # "clr"
    <3>1. c(p) = kept(p) /\ c(x) = kept(x) /\ c(y) = kept(y)
      <4>1. ASSUME NEW t, Shaped(t) PROVE c(t) = kept(t)
        BY <2>2, <4>1 DEF Shaped, Fields, Go
      <4> QED
        BY <4>1 DEF Linked
    <3>2. Goes(k, p, x, y, kept(p), kept(x), kept(y))
      BY ZeroGoes
    <3> HIDE DEF c, kept
    <3> QED
      BY <3>1, <3>2
  <2> QED
    BY <2>1, <2>2
<1>5. Good(c(p)) /\ (~c(p).fault => Len(c(p).v) \in Sizes)
  <2>1. CASE p.fault
    <3>1. c(p) = p
      BY <2>1 DEF Go
    <3> HIDE DEF c
    <3> QED
      BY <2>1, <3>1
  <2>2. CASE ~p.fault
    <3> DEFINE b == IF i.h = "clr" THEN z ELSE p.NZVC
    <3>1. p \in State /\ b \in Seq(Byte)
      BY <1>2 DEF Good, Safe, State
    <3>2. c(p) = [p EXCEPT !.v = z, !.NZVC = b]
      BY <2>2 DEF Go
    <3> DEFINE e == c(p)
    <3> HIDE DEF b, c, e
    <3>3. e \in State /\ e.fault = p.fault /\ e.perm = p.perm /\ e.rd = p.rd /\ e.wr = p.wr
          /\ e.ssw = p.ssw /\ e.v = z
      BY <1>2, <3>1, <3>2 DEF State, e
    <3>4. Good(e)
      BY <3>3, Aside
    <3> QED
      BY <1>2, <3>3, <3>4 DEF e
  <2> QED
    BY <2>1, <2>2
<1> HIDE DEF c
<1>6. Goes(k, c(p), c(x), c(y), w(p), w(x), w(y))
  BY <1>4, <1>5, EaWriteGoes DEF Goes
<1> HIDE DEF w
<1> QED
  BY <1>1, <1>4, <1>6, GoesOn

\* A fetch, an address, the effective address.
LEMMA AimedGoes ==
  ASSUME NEW k, NEW p, NEW x, NEW y, Linked(k, p, x, y), Good(p),
         NEW e, InPlace(e), ~Steps(e), NEW n \in {0, 1, 2, 4}
  PROVE  LET a(t) == GetAddr(Fetch(t), e, n).a IN
         /\ Goes(k, p, x, y, Aim(p, e, n), Aim(x, e, n), Aim(y, e, n))
         /\ Agreed(k, Aim(p, e, n), Aim(x, e, n), Aim(y, e, n), a(p), a(x), a(y))
<1> DEFINE f(t) == Fetch(t)
           g(t) == GetAddr(f(t), e, n)
           a(t) == g(t).a
           h(t) == Go(g(t), [g(t) EXCEPT !.EA = g(t).a])
<1>1. \A t : Aim(t, e, n) = h(t)
  BY DEF Aim
<1>2. Goes(k, p, x, y, f(p), f(x), f(y)) /\ f(p) \in State
  BY FetchGoes, FetchOk DEF Fetched, Good, Safe
<1> HIDE DEF f
<1>3. Goes(k, f(p), f(x), f(y), g(p), g(x), g(y))
  BY <1>2, GetAddrGoes DEF Goes
<1> HIDE DEF g
<1>4. Linked(k, g(p), g(x), g(y)) /\ Agreed(k, g(p), g(x), g(y), a(p), a(x), a(y))
  BY <1>3, FieldsAgreed DEF Goes
<1>5. Goes(k, g(p), g(x), g(y), h(p), h(x), h(y))
  BY <1>4, AimGoes
<1> HIDE DEF h, a
<1>6. Agreed(k, h(p), h(x), h(y), a(p), a(x), a(y))
  BY <1>4, <1>5, AgreedOn
<1>7. Goes(k, p, x, y, h(p), h(x), h(y))
  BY <1>2, <1>3, <1>5, GoesOn
<1>8. \A t : a(t) = GetAddr(Fetch(t), e, n).a
  BY DEF a, g, f
<1> QED
  BY <1>1, <1>6, <1>7, <1>8

\* Cmp2.
LEMMA Cmp2Goes ==
  ASSUME NEW k, NEW p, NEW x, NEW y, Linked(k, p, x, y), Good(p),
         NEW i, i.sz \in Sizes, InPlace(i.e), ~Steps(i.e)
  PROVE  Goes(k, p, x, y, Cmp2(p, i), Cmp2(x, i), Cmp2(y, i))
<1> DEFINE n == i.sz
           h(t) == Aim(t, i.e, n)
           a(t) == GetAddr(Fetch(t), i.e, n).a
           b(t) == a(t) + n
           l(t) == Read(h(t), a(t), n)
           u(t) == Read(l(t), b(t), n)
           z(t) == Res(u(t).u, u(t).v)
           r(t) == Flags(u(t), z(t))
<1>1. \A t : Cmp2(t, i) = r(t)
  BY DEF Cmp2, Aim
<1>2. n \in {0, 1, 2, 4} /\ n \in Nat /\ n \in Int
  BY DEF Sizes
<1>3. /\ Goes(k, p, x, y, h(p), h(x), h(y)) /\ Agreed(k, h(p), h(x), h(y), a(p), a(x), a(y))
      /\ a(p) \in Int
  BY <1>2, AimedGoes, AimedOk
<1> HIDE DEF h, a
<1>4. Agreed(k, h(p), h(x), h(y), b(p), b(x), b(y)) /\ b(p) \in Int
  BY <1>2, <1>3 DEF Agreed
<1> HIDE DEF b
<1>5. Goes(k, h(p), h(x), h(y), l(p), l(x), l(y))
  BY <1>2, <1>3, ReadGoes DEF Goes
<1> HIDE DEF l
<1>6. Linked(k, l(p), l(x), l(y)) /\ Agreed(k, l(p), l(x), l(y), b(p), b(x), b(y))
  BY <1>4, <1>5, AgreedOn DEF Goes
<1>7. Goes(k, l(p), l(x), l(y), u(p), u(x), u(y))
  BY <1>2, <1>4, <1>6, ReadGoes
<1> HIDE DEF u
<1>8. Linked(k, u(p), u(x), u(y)) /\ Agreed(k, u(p), u(x), u(y), z(p), z(x), z(y))
  <2>1. Linked(k, u(p), u(x), u(y))
    BY <1>7 DEF Goes
  <2>2. Agreed(k, u(p), u(x), u(y), u(p).u, u(x).u, u(y).u) /\ Agreed(k, u(p), u(x), u(y), u(p).v, u(x).v, u(y).v)
    BY <2>1, FieldsAgreed
  <2> QED
    BY <2>1, <2>2 DEF Agreed
<1> HIDE DEF z
<1>9. Goes(k, u(p), u(x), u(y), r(p), r(x), r(y))
  BY <1>8, FlagsGoes
<1> HIDE DEF r
<1> QED
  BY <1>1, <1>3, <1>5, <1>7, <1>9, GoesOn

\* Bit.
LEMMA BitGoes ==
  ASSUME NEW k, NEW p, NEW x, NEW y, Linked(k, p, x, y), Good(p),
         NEW i, InPlace(i.e), ~Steps(i.e)
  PROVE  Goes(k, p, x, y, Bit(p, i), Bit(x, i), Bit(y, i))
<1> DEFINE h(t) == Aim(t, i.e, 1)
           a(t) == GetAddr(Fetch(t), i.e, 1).a
           r(t) == Read(h(t), a(t), 1)
           v(t) == r(t).v
           z(t) == Res(v(t), <<1>>)
           c(t) == Go(r(t), [r(t) EXCEPT !.v = z(t), !.NZVC = v(t)])
           b(t) == c(t).EA
           d(t) == c(t).v
           w(t) == Write(c(t), b(t), d(t))
<1>1. Bit(p, i) = (IF i.h = "btst" THEN c(p) ELSE w(p)) /\ Bit(x, i) = (IF i.h = "btst" THEN c(x) ELSE w(x))
      /\ Bit(y, i) = (IF i.h = "btst" THEN c(y) ELSE w(y))
  <2>1. ASSUME NEW t PROVE Bit(t, i) = IF i.h = "btst" THEN c(t) ELSE w(t)
    <3> DEFINE c2 == Go(r(t), [r(t) EXCEPT !.NZVC = r(t).v, !.v = Res(@, <<1>>)])
    <3>1. Bit(t, i) = IF i.h = "btst" THEN c2 ELSE Write(c2, c2.EA, c2.v)
      BY DEF Bit, Aim
    <3> HIDE DEF r
    <3>2. c2 = c(t)
      OBVIOUS
    <3> HIDE DEF c2, c
    <3> QED
      BY <3>1, <3>2
  <2> QED
    BY <2>1
<1>2. 1 \in {0, 1, 2, 4} /\ 1 \in Nat /\ 1 \in Sizes
  BY DEF Sizes
<1>3. /\ Goes(k, p, x, y, h(p), h(x), h(y)) /\ Agreed(k, h(p), h(x), h(y), a(p), a(x), a(y))
      /\ a(p) \in Int /\ Good(h(p))
  BY <1>2, AimedGoes, AimedOk DEF Quiet
<1> HIDE DEF h, a
<1>4. Goes(k, h(p), h(x), h(y), r(p), r(x), r(y)) /\ Reads(h(p), r(p), 1)
  BY <1>2, <1>3, ReadGoes, ReadOk DEF Goes
<1> HIDE DEF r
<1>5. Linked(k, r(p), r(x), r(y)) /\ Agreed(k, r(p), r(x), r(y), v(p), v(x), v(y))
  BY <1>4, FieldsAgreed DEF Goes
<1>6. Agreed(k, r(p), r(x), r(y), z(p), z(x), z(y))
  BY <1>5 DEF Agreed
<1>7. Good(c(p)) /\ (~c(p).fault => d(p) \in Seq(Byte) /\ Len(d(p)) \in Sizes)
  <2>1. Good(r(p)) /\ v(p) \in Seq(Byte)
    BY <1>4, ValuesAre DEF Reads
  <2>2. CASE r(p).fault
    <3>1. c(p) = r(p)
      BY <2>2 DEF Go
    <3> HIDE DEF c
    <3> QED
      BY <2>1, <2>2, <3>1
  <2>3. CASE ~r(p).fault
    <3>1. z(p) \in Seq(Byte) /\ Len(z(p)) = 1
      <4> DEFINE o == <<1>>
      <4>1. o \in Seq(Byte) /\ Len(o) = 1
        BY DEF Byte
      <4>2. Len(v(p)) = 1
        BY <1>4, <2>3 DEF Reads
      <4> HIDE DEF v, o
      <4>3. Res(v(p), o) \in Seq(Byte) /\ Len(Res(v(p), o)) = 1
        BY <1>2, <2>1, <4>1, <4>2, ResOf
      <4> QED
        BY <4>3 DEF o
    <3>2. r(p) \in State
      BY <2>1 DEF Good, Safe
    <3> DEFINE e == c(p)
    <3> HIDE DEF z, v
    <3>3. e = [r(p) EXCEPT !.v = z(p), !.NZVC = v(p)]
      BY <2>3 DEF Go
    <3> HIDE DEF e
    <3>4. e \in State /\ e.fault = r(p).fault /\ e.perm = r(p).perm /\ e.rd = r(p).rd /\ e.wr = r(p).wr
          /\ e.ssw = r(p).ssw /\ e.v = z(p)
      BY <2>1, <3>1, <3>2, <3>3 DEF State
    <3>5. Good(e)
      BY <2>1, <3>4, Aside
    <3>6. e.v \in Seq(Byte) /\ Len(e.v) \in Sizes
      BY <1>2, <3>1, <3>4
    <3> QED
      BY <3>5, <3>6 DEF e
  <2> QED
    BY <2>2, <2>3
<1> HIDE DEF v, z
<1>8. Goes(k, r(p), r(x), r(y), c(p), c(x), c(y))
  BY <1>5, <1>6, ResultGoes
<1>9. Goes(k, p, x, y, c(p), c(x), c(y))
  <2> HIDE DEF c
  <2> QED
    BY <1>3, <1>4, <1>8, GoesOn
<1> HIDE DEF c
<1>10. /\ Linked(k, c(p), c(x), c(y)) /\ Agreed(k, c(p), c(x), c(y), b(p), b(x), b(y))
       /\ Agreed(k, c(p), c(x), c(y), d(p), d(x), d(y)) /\ b(p) \in Int
  BY <1>7, <1>8, FieldsAgreed, LocatedIs DEF Goes
<1> HIDE DEF b, d
<1>11. Goes(k, c(p), c(x), c(y), w(p), w(x), w(y))
  BY <1>7, <1>10, WriteGoes
<1> HIDE DEF w
<1>12. Goes(k, p, x, y, w(p), w(x), w(y))
  BY <1>9, <1>11, GoesOn
<1> QED
  BY <1>1, <1>9, <1>12

\* MovepLoad.
LEMMA MovepLoadGoes ==
  ASSUME NEW k, NEW p, NEW x, NEW y, Linked(k, p, x, y), Good(p), NEW i
  PROVE  Goes(k, p, x, y, MovepLoad(p, i), MovepLoad(x, i), MovepLoad(y, i))
<1> DEFINE f(t) == Fetch(t)
           b(t, j) == f(t).A[0] + 2 * (j - 1)
           r1(t) == Read(f(t), b(t, 1), 1)
           r2(t) == Read(r1(t), b(t, 2), 1)
           r3(t) == Read(r2(t), b(t, 3), 1)
           r4(t) == Read(r3(t), b(t, 4), 1)
           v1(t) == r1(t).v
           v2(t) == r2(t).v
           v3(t) == r3(t).v
           v4(t) == r4(t).v
           two(t) == v1(t) \o v2(t)
           four(t) == v1(t) \o v2(t) \o v3(t) \o v4(t)
           w2(t) == Go(r2(t), InReg(r2(t), two(t)))
           w4(t) == Go(r4(t), InReg(r4(t), four(t)))
<1>1. \A t : MovepLoad(t, i) = IF i.sz = 2 THEN w2(t) ELSE w4(t)
  BY DEF MovepLoad
<1>2. Goes(k, p, x, y, f(p), f(x), f(y)) /\ Good(f(p))
  BY FetchGoes, FetchOk DEF Fetched
<1> HIDE DEF f
<1>3. ASSUME NEW j \in 1..4
      PROVE  b(p, j) \in Int /\ Agreed(k, f(p), f(x), f(y), b(p, j), b(x, j), b(y, j))
  <2>1. f(p).A[0] \in Int /\ 2 * (j - 1) \in Int
    BY <1>2, AddressIs
  <2>2. Agreed(k, f(p), f(x), f(y), f(p).A, f(x).A, f(y).A)
    BY <1>2, FieldsAgreed DEF Goes
  <2> QED
    BY <2>1, <2>2 DEF Agreed
<1>4. 1 \in 1..4 /\ 2 \in 1..4 /\ 3 \in 1..4 /\ 4 \in 1..4 /\ 1 \in Nat
  OBVIOUS
<1> HIDE DEF b
<1>5. Goes(k, f(p), f(x), f(y), r1(p), r1(x), r1(y))
  BY <1>2, <1>3, <1>4, ReadGoes DEF Goes
<1> HIDE DEF r1
<1>6. Linked(k, r1(p), r1(x), r1(y)) /\ Agreed(k, r1(p), r1(x), r1(y), b(p, 2), b(x, 2), b(y, 2))
      /\ Agreed(k, r1(p), r1(x), r1(y), v1(p), v1(x), v1(y))
  BY <1>3, <1>4, <1>5, AgreedOn, FieldsAgreed DEF Goes
<1>7. Goes(k, r1(p), r1(x), r1(y), r2(p), r2(x), r2(y))
  BY <1>3, <1>4, <1>6, ReadGoes
<1> HIDE DEF r2
<1>8. Goes(k, f(p), f(x), f(y), r2(p), r2(x), r2(y))
  BY <1>5, <1>7, GoesOn
<1>9. Linked(k, r2(p), r2(x), r2(y)) /\ Agreed(k, r2(p), r2(x), r2(y), b(p, 3), b(x, 3), b(y, 3))
      /\ Agreed(k, r2(p), r2(x), r2(y), v2(p), v2(x), v2(y))
  BY <1>3, <1>4, <1>8, AgreedOn, FieldsAgreed DEF Goes
<1> HIDE DEF v1
<1>10. Agreed(k, r2(p), r2(x), r2(y), v1(p), v1(x), v1(y))
  BY <1>6, <1>7, AgreedOn
<1> HIDE DEF v2
<1>11. Agreed(k, r2(p), r2(x), r2(y), two(p), two(x), two(y))
  BY <1>9, <1>10 DEF Agreed
<1> HIDE DEF two
<1>12. Goes(k, r2(p), r2(x), r2(y), w2(p), w2(x), w2(y))
  BY <1>9, <1>11, InRegGoes
<1>13. Goes(k, r2(p), r2(x), r2(y), r3(p), r3(x), r3(y))
  BY <1>3, <1>4, <1>9, ReadGoes
<1> HIDE DEF w2, r3
<1>14. Goes(k, f(p), f(x), f(y), r3(p), r3(x), r3(y))
  BY <1>8, <1>13, GoesOn
<1>15. Linked(k, r3(p), r3(x), r3(y)) /\ Agreed(k, r3(p), r3(x), r3(y), b(p, 4), b(x, 4), b(y, 4))
       /\ Agreed(k, r3(p), r3(x), r3(y), v3(p), v3(x), v3(y))
  BY <1>3, <1>4, <1>14, AgreedOn, FieldsAgreed DEF Goes
<1>16. Goes(k, r3(p), r3(x), r3(y), r4(p), r4(x), r4(y))
  BY <1>3, <1>4, <1>15, ReadGoes
<1> HIDE DEF r4, v3
<1>17. Linked(k, r4(p), r4(x), r4(y)) /\ Agreed(k, r4(p), r4(x), r4(y), v4(p), v4(x), v4(y))
  BY <1>16, FieldsAgreed DEF Goes
<1> HIDE DEF v4
<1>18. Goes(k, r2(p), r2(x), r2(y), r4(p), r4(x), r4(y))
  BY <1>13, <1>16, GoesOn
<1>19. /\ Agreed(k, r4(p), r4(x), r4(y), v1(p), v1(x), v1(y))
       /\ Agreed(k, r4(p), r4(x), r4(y), v2(p), v2(x), v2(y))
       /\ Agreed(k, r4(p), r4(x), r4(y), v3(p), v3(x), v3(y))
  BY <1>9, <1>10, <1>15, <1>16, <1>18, AgreedOn
<1>20. Agreed(k, r4(p), r4(x), r4(y), four(p), four(x), four(y))
  BY <1>17, <1>19 DEF Agreed
<1> HIDE DEF four
<1>21. Goes(k, r4(p), r4(x), r4(y), w4(p), w4(x), w4(y))
  BY <1>17, <1>20, InRegGoes
<1> HIDE DEF w4
<1>22. Goes(k, p, x, y, w2(p), w2(x), w2(y)) /\ Goes(k, p, x, y, w4(p), w4(x), w4(y))
  <2>1. Goes(k, p, x, y, r2(p), r2(x), r2(y))
    BY <1>2, <1>8, GoesOn
  <2>2. Goes(k, p, x, y, r4(p), r4(x), r4(y))
    BY <1>18, <2>1, GoesOn
  <2> QED
    BY <1>12, <1>21, <2>1, <2>2, GoesOn
<1> QED
  BY <1>1, <1>22

\* MovepStore.
LEMMA MovepStoreGoes ==
  ASSUME NEW k, NEW p, NEW x, NEW y, Linked(k, p, x, y), Good(p), NEW i, i.sz \in {2, 4}
  PROVE  Goes(k, p, x, y, MovepStore(p, i), MovepStore(x, i), MovepStore(y, i))
<1> DEFINE f(t) == Fetch(t)
           d(t) == Dn(t, i.sz)
           b(t, j) == f(t).A[0] + 2 * (j - 1)
           v(t, j) == <<d(t)[j]>>
           p1(t) == Write(f(t), b(t, 1), v(t, 1))
           p2(t) == Write(p1(t), b(t, 2), v(t, 2))
           p3(t) == Write(p2(t), b(t, 3), v(t, 3))
           p4(t) == Write(p3(t), b(t, 4), v(t, 4))
<1>1. \A t : MovepStore(t, i) = IF i.sz = 2 THEN p2(t) ELSE p4(t)
  BY DEF MovepStore
<1>2. Goes(k, p, x, y, f(p), f(x), f(y)) /\ Good(f(p))
  BY FetchGoes, FetchOk DEF Fetched
<1>3. d(p) \in Seq(Byte) /\ Len(d(p)) = i.sz /\ Agreed(k, p, x, y, d(p), d(x), d(y))
  <2>1. Agreed(k, p, x, y, p.D, x.D, y.D) /\ i.sz \in Sizes
    BY FieldsAgreed DEF Sizes
  <2>2. d(p) \in Seq(Byte) /\ Len(d(p)) = i.sz
    BY <2>1, DnIs
  <2> QED
    BY <2>1, <2>2 DEF Agreed, Dn
<1> HIDE DEF f, d
<1>4. ASSUME NEW j \in 1..4
      PROVE  b(p, j) \in Int /\ Agreed(k, f(p), f(x), f(y), b(p, j), b(x, j), b(y, j))
             /\ Agreed(k, f(p), f(x), f(y), v(p, j), v(x, j), v(y, j))
  <2>1. f(p).A[0] \in Int /\ 2 * (j - 1) \in Int
    BY <1>2, AddressIs
  <2>2. Agreed(k, f(p), f(x), f(y), f(p).A, f(x).A, f(y).A)
    BY <1>2, FieldsAgreed DEF Goes
  <2>3. Agreed(k, f(p), f(x), f(y), d(p), d(x), d(y))
    BY <1>2, <1>3, AgreedOn
  <2> QED
    BY <2>1, <2>2, <2>3 DEF Agreed
<1>5. ASSUME NEW j \in 1..4, j <= i.sz PROVE v(p, j) \in Seq(Byte) /\ Len(v(p, j)) \in Sizes
  <2>1. j \in 1..Len(d(p))
    BY <1>3, <1>5
  <2>2. d(p)[j] \in Byte
    BY <1>3, <2>1, ItemIs, Zenon
  <2> QED
    BY <2>2 DEF Sizes
<1>6. 1 \in 1..4 /\ 2 \in 1..4 /\ 3 \in 1..4 /\ 4 \in 1..4 /\ 1 <= i.sz /\ 2 <= i.sz
  OBVIOUS
<1> HIDE DEF b, v
<1>7. Goes(k, f(p), f(x), f(y), p1(p), p1(x), p1(y)) /\ Good(p1(p))
  <2>1. v(p, 1) \in Seq(Byte) /\ Len(v(p, 1)) \in Sizes
    BY <1>5, <1>6
  <2> QED
    BY <1>2, <1>4, <1>6, <2>1, WriteGoes, WriteOk DEF Goes, Writes
<1> HIDE DEF p1
<1>8. ASSUME NEW j \in 1..4, NEW q, NEW r, NEW z, Goes(k, f(p), f(x), f(y), q, r, z)
      PROVE  Linked(k, q, r, z) /\ Agreed(k, q, r, z, b(p, j), b(x, j), b(y, j))
             /\ Agreed(k, q, r, z, v(p, j), v(x, j), v(y, j))
  BY <1>4, <1>8, AgreedOn DEF Goes
<1>9. Goes(k, p1(p), p1(x), p1(y), p2(p), p2(x), p2(y)) /\ Good(p2(p))
  <2>1. v(p, 2) \in Seq(Byte) /\ Len(v(p, 2)) \in Sizes
    BY <1>5, <1>6
  <2> QED
    BY <1>4, <1>6, <1>7, <1>8, <2>1, WriteGoes, WriteOk DEF Writes
<1> HIDE DEF p2
<1>10. Goes(k, f(p), f(x), f(y), p2(p), p2(x), p2(y))
  BY <1>7, <1>9, GoesOn
<1>11. CASE i.sz = 2
  BY <1>1, <1>2, <1>10, <1>11, GoesOn
<1>12. CASE i.sz = 4
  <2>1. v(p, 3) \in Seq(Byte) /\ Len(v(p, 3)) \in Sizes /\ v(p, 4) \in Seq(Byte) /\ Len(v(p, 4)) \in Sizes
    <3>1. 3 <= i.sz /\ 4 <= i.sz
      BY <1>12
    <3> QED
      BY <1>5, <1>6, <3>1
  <2>2. Goes(k, p2(p), p2(x), p2(y), p3(p), p3(x), p3(y)) /\ Good(p3(p))
    BY <1>4, <1>6, <1>8, <1>9, <1>10, <2>1, WriteGoes, WriteOk DEF Writes
  <2> HIDE DEF p3
  <2>3. Goes(k, f(p), f(x), f(y), p3(p), p3(x), p3(y))
    BY <1>10, <2>2, GoesOn
  <2>4. Goes(k, p3(p), p3(x), p3(y), p4(p), p4(x), p4(y))
    BY <1>4, <1>6, <1>8, <2>1, <2>3, WriteGoes
  <2> HIDE DEF p4
  <2>5. Goes(k, p, x, y, p4(p), p4(x), p4(y))
    BY <1>2, <2>3, <2>4, GoesOn
  <2>6. \A t : MovepStore(t, i) = p4(t)
    <3>1. i.sz # 2
      BY <1>12
    <3> QED
      BY <1>1, <3>1
  <2> QED
    BY <2>5, <2>6
<1> QED
  BY <1>11, <1>12

\* Cas.
LEMMA CasGoes ==
  ASSUME NEW k, NEW p, NEW x, NEW y, Linked(k, p, x, y), Good(p),
         NEW i, i.sz \in Sizes, InPlace(i.e), ~Steps(i.e), Both(p, i.sz)
  PROVE  Goes(k, p, x, y, Cas(p, i), Cas(x, i), Cas(y, i))
<1> DEFINE n == i.sz
           h(t) == Aim(t, i.e, n)
           a(t) == GetAddr(Fetch(t), i.e, n).a
           d(t) == t.dc[1]
           r(t) == Read(h(t), a(t), n)
           v(t) == r(t).v
           z(t) == Res(v(t), d(t))
           c(t) == Flags(r(t), z(t))
           new == New(i)
           b(t) == c(t).EA
           w(t) == Write(c(t), b(t), new)
           B(t) == [c(t).dc EXCEPT ![1] = v(t)]
           u(t) == Go(c(t), [c(t) EXCEPT !.dc = B(t)])
           e(t) == IF v(t) = d(t) THEN w(t) ELSE u(t)
<1>1. \A t : Cas(t, i) = e(t)
  <2> SUFFICES ASSUME NEW t PROVE Cas(t, i) = e(t)
    OBVIOUS
  <2>1. Cas(t, i) = IF r(t).v = t.dc[1] THEN Write(c(t), c(t).EA, New(i))
                    ELSE Go(c(t), [c(t) EXCEPT !.dc[1] = r(t).v])
    BY DEF Cas, Aim
  <2> HIDE DEF r, c
  <2> QED
    BY <2>1
<1>2. n \in {0, 1, 2, 4} /\ n \in Nat
  BY DEF Sizes
<1>3. /\ Goes(k, p, x, y, h(p), h(x), h(y)) /\ Agreed(k, h(p), h(x), h(y), a(p), a(x), a(y))
      /\ a(p) \in Int /\ Good(h(p))
  BY <1>2, AimedGoes, AimedOk DEF Quiet
<1>4. Agreed(k, p, x, y, d(p), d(x), d(y)) /\ d(p) \in Seq(Byte) /\ Len(d(p)) = n
  <2>1. Agreed(k, p, x, y, p.dc, x.dc, y.dc)
    BY FieldsAgreed
  <2> QED
    BY <2>1, PartnersAre DEF Agreed, Both
<1> HIDE DEF h, a, d
<1>5. Goes(k, h(p), h(x), h(y), r(p), r(x), r(y)) /\ Reads(h(p), r(p), n)
  BY <1>2, <1>3, ReadGoes, ReadOk DEF Goes
<1> HIDE DEF r
<1>6. Goes(k, p, x, y, r(p), r(x), r(y))
  BY <1>3, <1>5, GoesOn
<1>7. /\ Linked(k, r(p), r(x), r(y)) /\ Agreed(k, r(p), r(x), r(y), v(p), v(x), v(y))
      /\ Agreed(k, r(p), r(x), r(y), d(p), d(x), d(y))
  BY <1>4, <1>6, FieldsAgreed, AgreedOn DEF Goes
<1>8. Good(r(p)) /\ (~r(p).fault => z(p) \in Seq(Byte))
  <2>1. Good(r(p)) /\ (~r(p).fault => Len(v(p)) = n)
    BY <1>5 DEF Reads
  <2>2. v(p) \in Seq(Byte)
    BY <2>1, ValuesAre
  <2> QED
    BY <1>4, <2>1, <2>2, ResOf
<1> HIDE DEF v
<1>9. Agreed(k, r(p), r(x), r(y), z(p), z(x), z(y))
  BY <1>7 DEF Agreed
<1>10. Good(c(p))
  BY <1>8, FlagsOk DEF Settled
<1> HIDE DEF z
<1>11. Goes(k, r(p), r(x), r(y), c(p), c(x), c(y))
  BY <1>7, <1>9, FlagsGoes
<1> HIDE DEF c
<1>12. /\ Linked(k, c(p), c(x), c(y)) /\ Agreed(k, c(p), c(x), c(y), b(p), b(x), b(y))
       /\ Agreed(k, c(p), c(x), c(y), v(p), v(x), v(y)) /\ Agreed(k, c(p), c(x), c(y), d(p), d(x), d(y))
       /\ b(p) \in Int
  BY <1>7, <1>10, <1>11, FieldsAgreed, AgreedOn, LocatedIs DEF Goes
<1>13. Agreed(k, c(p), c(x), c(y), B(p), B(x), B(y))
  <2>1. Agreed(k, c(p), c(x), c(y), c(p).dc, c(x).dc, c(y).dc)
    BY <1>12, FieldsAgreed
  <2> QED
    BY <1>12, <2>1 DEF Agreed
<1> HIDE DEF b, B
<1>14. Goes(k, c(p), c(x), c(y), w(p), w(x), w(y))
  <2>1. new \in Seq(Byte) /\ Len(new) \in Sizes /\ Agreed(k, c(p), c(x), c(y), new, new, new)
    BY NewIs DEF Agreed
  <2> HIDE DEF new
  <2> QED
    BY <1>12, <2>1, WriteGoes
<1>15. Goes(k, c(p), c(x), c(y), u(p), u(x), u(y))
  BY <1>12, <1>13, CompareGoes
<1> HIDE DEF w, u
<1>16. Goes(k, c(p), c(x), c(y), e(p), e(x), e(y))
  <2>1. e(p) \in {w(p), u(p)} /\ e(x) \in {w(x), u(x)} /\ e(y) \in {w(y), u(y)}
    OBVIOUS
  <2>2. Tied(k, c(p), c(x)) => \/ e(x) = w(x) /\ e(y) = w(y) /\ (c(p).fault \/ e(p) = w(p))
                               \/ e(x) = u(x) /\ e(y) = u(y) /\ (c(p).fault \/ e(p) = u(p))
    BY <1>12 DEF Agreed
  <2> HIDE DEF e
  <2> QED
    BY <1>12, <1>14, <1>15, <2>1, <2>2, EitherGoes
<1> HIDE DEF e
<1> QED
  BY <1>1, <1>6, <1>11, <1>16, GoesOn

\* Cas2.
LEMMA Cas2Goes ==
  ASSUME NEW k, NEW p, NEW x, NEW y, Linked(k, p, x, y), Good(p),
         NEW i, i.sz \in Sizes, Both(p, i.sz)
  PROVE  Goes(k, p, x, y, Cas2(p, i), Cas2(x, i), Cas2(y, i))
<1> DEFINE n == i.sz
           f(t) == Fetch(t)
           a(t) == t.A[0]
           b(t) == t.A[1]
           dc(t) == t.dc
           q(t) == Read(f(t), a(t), n)
           r(t) == Read(q(t), b(t), n)
           z(t) == IF r(t).u = dc(t)[1] THEN Res(r(t).v, dc(t)[2]) ELSE Res(r(t).u, dc(t)[1])
           c(t) == Flags(r(t), z(t))
           B(t) == <<r(t).u, r(t).v>>
           new == New(i)
           w1(t) == Write(c(t), a(t), new)
           w(t) == Write(w1(t), b(t), new)
           u(t) == Go(c(t), [c(t) EXCEPT !.dc = B(t)])
           e(t) == IF B(t) = dc(t) THEN w(t) ELSE u(t)
<1>1. \A t : Cas2(t, i) = e(t)
  BY DEF Cas2
<1>2. n \in Nat
  BY DEF Sizes
<1>3. Goes(k, p, x, y, f(p), f(x), f(y)) /\ Good(f(p)) /\ a(p) \in Int /\ b(p) \in Int
  BY FetchGoes, QuietFetch, AddressIs
<1>4. /\ Agreed(k, p, x, y, a(p), a(x), a(y)) /\ Agreed(k, p, x, y, b(p), b(x), b(y))
      /\ Agreed(k, p, x, y, dc(p), dc(x), dc(y))
  <2>1. Agreed(k, p, x, y, p.A, x.A, y.A) /\ Agreed(k, p, x, y, dc(p), dc(x), dc(y))
    BY FieldsAgreed
  <2> QED
    BY <2>1 DEF Agreed
<1>5. dc(p)[1] \in Seq(Byte) /\ Len(dc(p)[1]) = n /\ dc(p)[2] \in Seq(Byte) /\ Len(dc(p)[2]) = n
  BY PartnersAre DEF Both
<1> HIDE DEF f, a, b, dc
<1>6. Goes(k, f(p), f(x), f(y), q(p), q(x), q(y)) /\ Reads(f(p), q(p), n)
  <2>1. Linked(k, f(p), f(x), f(y)) /\ Agreed(k, f(p), f(x), f(y), a(p), a(x), a(y))
    BY <1>3, <1>4, AgreedOn DEF Goes
  <2> QED
    BY <1>2, <1>3, <2>1, ReadGoes, ReadOk
<1> HIDE DEF q
<1>7. Goes(k, p, x, y, q(p), q(x), q(y)) /\ Good(q(p))
  BY <1>3, <1>6, GoesOn DEF Reads
<1>8. Goes(k, q(p), q(x), q(y), r(p), r(x), r(y)) /\ Reads(q(p), r(p), n)
  <2>1. Linked(k, q(p), q(x), q(y)) /\ Agreed(k, q(p), q(x), q(y), b(p), b(x), b(y))
    BY <1>4, <1>7, AgreedOn DEF Goes
  <2> QED
    BY <1>2, <1>3, <1>7, <2>1, ReadGoes, ReadOk
<1> HIDE DEF r
<1>9. Goes(k, p, x, y, r(p), r(x), r(y)) /\ Good(r(p))
  BY <1>7, <1>8, GoesOn DEF Reads
<1>10. /\ Linked(k, r(p), r(x), r(y)) /\ Agreed(k, r(p), r(x), r(y), dc(p), dc(x), dc(y))
       /\ Agreed(k, r(p), r(x), r(y), r(p).u, r(x).u, r(y).u)
       /\ Agreed(k, r(p), r(x), r(y), r(p).v, r(x).v, r(y).v)
  BY <1>4, <1>9, FieldsAgreed, AgreedOn DEF Goes
<1>11. Agreed(k, r(p), r(x), r(y), z(p), z(x), z(y)) /\ Agreed(k, r(p), r(x), r(y), B(p), B(x), B(y))
  BY <1>10 DEF Agreed
<1>12. ~r(p).fault => z(p) \in Seq(Byte)
  <2>1. ~r(p).fault => Len(r(p).u) = n /\ Len(r(p).v) = n
    BY <1>6, <1>8 DEF Reads
  <2>2. r(p).u \in Seq(Byte) /\ r(p).v \in Seq(Byte)
    BY <1>9, ValuesAre
  <2>3. ~r(p).fault => Res(r(p).v, dc(p)[2]) \in Seq(Byte)
    BY <1>5, <2>1, <2>2, ResOf
  <2>4. ~r(p).fault => Res(r(p).u, dc(p)[1]) \in Seq(Byte)
    BY <1>5, <2>1, <2>2, ResOf
  <2> QED
    BY <2>3, <2>4
<1> HIDE DEF z, B
<1>13. Goes(k, r(p), r(x), r(y), c(p), c(x), c(y)) /\ Good(c(p))
  BY <1>9, <1>10, <1>11, <1>12, FlagsGoes, FlagsOk DEF Settled
<1> HIDE DEF c
<1>14. Goes(k, p, x, y, c(p), c(x), c(y))
  BY <1>9, <1>13, GoesOn
<1>15. /\ Linked(k, c(p), c(x), c(y)) /\ Agreed(k, c(p), c(x), c(y), a(p), a(x), a(y))
       /\ Agreed(k, c(p), c(x), c(y), b(p), b(x), b(y)) /\ Agreed(k, c(p), c(x), c(y), dc(p), dc(x), dc(y))
       /\ Agreed(k, c(p), c(x), c(y), B(p), B(x), B(y))
  BY <1>4, <1>11, <1>13, <1>14, AgreedOn DEF Goes
<1>16. new \in Seq(Byte) /\ Len(new) \in Sizes
  BY NewIs
<1> HIDE DEF new
<1>17. Goes(k, c(p), c(x), c(y), w1(p), w1(x), w1(y))
  <2>1. Agreed(k, c(p), c(x), c(y), new, new, new)
    BY DEF Agreed
  <2> QED
    BY <1>3, <1>15, <1>16, <2>1, WriteGoes
<1> HIDE DEF w1
<1>18. Goes(k, w1(p), w1(x), w1(y), w(p), w(x), w(y))
  <2>1. Agreed(k, w1(p), w1(x), w1(y), new, new, new) /\ Agreed(k, w1(p), w1(x), w1(y), b(p), b(x), b(y))
        /\ Linked(k, w1(p), w1(x), w1(y))
    <3>1. Agreed(k, w1(p), w1(x), w1(y), new, new, new)
      BY DEF Agreed
    <3> QED
      BY <1>15, <1>17, <3>1, AgreedOn DEF Goes
  <2> QED
    BY <1>3, <1>16, <2>1, WriteGoes
<1>19. Goes(k, c(p), c(x), c(y), u(p), u(x), u(y))
  BY <1>15, CompareGoes
<1> HIDE DEF w, u
<1>20. Goes(k, c(p), c(x), c(y), w(p), w(x), w(y))
  BY <1>17, <1>18, GoesOn
<1>21. Goes(k, c(p), c(x), c(y), e(p), e(x), e(y))
  <2>1. e(p) \in {w(p), u(p)} /\ e(x) \in {w(x), u(x)} /\ e(y) \in {w(y), u(y)}
    OBVIOUS
  <2>2. Tied(k, c(p), c(x)) => \/ e(x) = w(x) /\ e(y) = w(y) /\ (c(p).fault \/ e(p) = w(p))
                               \/ e(x) = u(x) /\ e(y) = u(y) /\ (c(p).fault \/ e(p) = u(p))
    BY <1>15 DEF Agreed
  <2> HIDE DEF e
  <2> QED
    BY <1>15, <1>19, <1>20, <2>1, <2>2, EitherGoes
<1> HIDE DEF e
<1> QED
  BY <1>1, <1>14, <1>21, GoesOn

\* Moves.
LEMMA MovesGoes ==
  ASSUME NEW k, NEW p, NEW x, NEW y, Linked(k, p, x, y), Good(p),
         NEW i, i.sz \in Sizes, InPlace(i.e), ~Steps(i.e)
  PROVE  Goes(k, p, x, y, Moves(p, i), Moves(x, i), Moves(y, i))
<1> DEFINE n == i.sz
           W == FALSE
           h(t) == Aim(t, i.e, n)
           b(t) == h(t).EA
           d(t) == Dn(h(t), n)
           r(t) == ReadIn(h(t), b(t), n, W, 2, i.other)
           v(t) == r(t).v
           l(t) == Go(r(t), InReg(r(t), v(t)))
           w(t) == WriteIn(h(t), b(t), d(t), 2, i.other)
<1>1. \A t : Moves(t, i) = IF i.h = "moves_load" THEN l(t) ELSE w(t)
  BY DEF Moves, Aim
<1>2. n \in {0, 1, 2, 4} /\ n \in Nat
  BY DEF Sizes
<1>3. Goes(k, p, x, y, h(p), h(x), h(y)) /\ b(p) \in Int /\ Good(h(p))
  BY <1>2, AimedGoes, AimedOk DEF Quiet
<1> HIDE DEF h
<1>4. d(p) \in Seq(Byte) /\ Len(d(p)) \in Sizes
  BY <1>3, DnIs
<1>5. Linked(k, h(p), h(x), h(y)) /\ Agreed(k, h(p), h(x), h(y), b(p), b(x), b(y))
      /\ Agreed(k, h(p), h(x), h(y), d(p), d(x), d(y)) /\ Agreed(k, h(p), h(x), h(y), W, W, W)
  <2>1. Linked(k, h(p), h(x), h(y)) /\ Agreed(k, h(p), h(x), h(y), b(p), b(x), b(y))
        /\ Agreed(k, h(p), h(x), h(y), h(p).D, h(x).D, h(y).D)
    BY <1>3, FieldsAgreed DEF Goes
  <2> HIDE DEF b, W
  <2> QED
    BY <2>1 DEF Agreed, Dn
<1> HIDE DEF b, d, W
<1>6. Goes(k, h(p), h(x), h(y), r(p), r(x), r(y))
  BY <1>2, <1>3, <1>5, ReadInGoes
<1>7. Goes(k, h(p), h(x), h(y), w(p), w(x), w(y))
  BY <1>3, <1>4, <1>5, WriteInGoes
<1> HIDE DEF r, w
<1>8. Linked(k, r(p), r(x), r(y)) /\ Agreed(k, r(p), r(x), r(y), v(p), v(x), v(y))
  BY <1>6, FieldsAgreed DEF Goes
<1> HIDE DEF v
<1>9. Goes(k, r(p), r(x), r(y), l(p), l(x), l(y))
  BY <1>8, InRegGoes
<1> HIDE DEF l
<1>10. Goes(k, p, x, y, w(p), w(x), w(y)) /\ Goes(k, p, x, y, l(p), l(x), l(y))
  <2>1. Goes(k, p, x, y, r(p), r(x), r(y))
    BY <1>3, <1>6, GoesOn
  <2> QED
    BY <1>3, <1>7, <1>9, <2>1, GoesOn
<1> QED
  BY <1>1, <1>10

\* Address registers and a value together.
LEMMA PoppedGoes ==
  ASSUME NEW k, NEW p, NEW x, NEW y, Linked(k, p, x, y), NEW a, NEW b, NEW c,
         Agreed(k, p, x, y, a, b, c), NEW v, NEW v2, NEW v3, Agreed(k, p, x, y, v, v2, v3)
  PROVE  Goes(k, p, x, y, Go(p, [p EXCEPT !.A = a, !.v = v]), Go(x, [x EXCEPT !.A = b, !.v = v2]),
              Go(y, [y EXCEPT !.A = c, !.v = v3]))
  BY DEF Goes, Linked, Agreed, Tied, Twin, Before, Clean, Follows, Like, Shaped, Go, Fields

\* PUSH32.
LEMMA PushGoes ==
  ASSUME NEW k, NEW p, NEW x, NEW y, Linked(k, p, x, y), Good(p), NEW v, NEW v2, NEW v3,
         v \in Seq(Byte), Len(v) = 4, Agreed(k, p, x, y, v, v2, v3)
  PROVE  Goes(k, p, x, y, Push32(p, v), Push32(x, v2), Push32(y, v3))
<1> DEFINE lo(d) == SubSeq(d, 3, 4)
           hi(d) == SubSeq(d, 1, 2)
           b(t) == t.A[7] - 2
           c(t) == t.A[7] - 4
           h(t, d) == Write(t, b(t), lo(d))
           w(t, d) == Write(h(t, d), c(t), hi(d))
           B(t, d) == [w(t, d).A EXCEPT ![7] = Wrap(w(t, d).A[7] - 4)]
           r(t, d) == Go(w(t, d), [w(t, d) EXCEPT !.A = B(t, d)])
<1>1. \A t, d : Push32(t, d) = r(t, d)
  BY DEF Push32
<1>2. lo(v) \in Seq(Byte) /\ Len(lo(v)) \in Sizes /\ hi(v) \in Seq(Byte) /\ Len(hi(v)) \in Sizes
  <2>1. Len(lo(v)) = 2 /\ Len(hi(v)) = 2 /\ lo(v) \in Seq(Byte) /\ hi(v) \in Seq(Byte)
    BY HalvesAre
  <2> HIDE DEF lo, hi
  <2> QED
    BY <2>1 DEF Sizes
<1>3. Agreed(k, p, x, y, lo(v), lo(v2), lo(v3)) /\ Agreed(k, p, x, y, hi(v), hi(v2), hi(v3))
  BY DEF Agreed
<1>4. /\ Agreed(k, p, x, y, b(p), b(x), b(y)) /\ Agreed(k, p, x, y, c(p), c(x), c(y))
      /\ b(p) \in Int /\ c(p) \in Int
  <2>1. Agreed(k, p, x, y, p.A, x.A, y.A) /\ p.A[7] \in Int
    BY FieldsAgreed, AddressIs
  <2> QED
    BY <2>1 DEF Agreed
<1> HIDE DEF lo, hi, b, c
<1>5. Goes(k, p, x, y, h(p, v), h(x, v2), h(y, v3))
  BY <1>2, <1>3, <1>4, WriteGoes
<1> HIDE DEF h
<1>6. /\ Linked(k, h(p, v), h(x, v2), h(y, v3))
      /\ Agreed(k, h(p, v), h(x, v2), h(y, v3), c(p), c(x), c(y))
      /\ Agreed(k, h(p, v), h(x, v2), h(y, v3), hi(v), hi(v2), hi(v3))
  BY <1>3, <1>4, <1>5, AgreedOn DEF Goes
<1>7. Goes(k, h(p, v), h(x, v2), h(y, v3), w(p, v), w(x, v2), w(y, v3))
  BY <1>2, <1>4, <1>6, WriteGoes
<1> HIDE DEF w
<1>8. Linked(k, w(p, v), w(x, v2), w(y, v3))
      /\ Agreed(k, w(p, v), w(x, v2), w(y, v3), w(p, v).A, w(x, v2).A, w(y, v3).A)
  BY <1>7, FieldsAgreed DEF Goes
<1>9. Agreed(k, w(p, v), w(x, v2), w(y, v3), B(p, v), B(x, v2), B(y, v3))
  BY <1>8 DEF Agreed
<1> HIDE DEF B
<1>10. Goes(k, w(p, v), w(x, v2), w(y, v3), r(p, v), r(x, v2), r(y, v3))
  BY <1>8, <1>9, RegsGoes
<1> HIDE DEF r
<1> QED
  BY <1>1, <1>5, <1>7, <1>10, GoesOn

\* POP32.
LEMMA PopGoes ==
  ASSUME NEW k, NEW p, NEW x, NEW y, Linked(k, p, x, y), Good(p)
  PROVE  Goes(k, p, x, y, Pop32(p), Pop32(x), Pop32(y))
<1> DEFINE b(t) == t.A[7]
           c(t) == t.A[7] + 2
           h(t) == Read(t, b(t), 2)
           q(t) == Read(h(t), c(t), 2)
           B(t) == [q(t).A EXCEPT ![7] = Wrap(q(t).A[7] + 4)]
           v(t) == q(t).u \o q(t).v
           r(t) == Go(q(t), [q(t) EXCEPT !.A = B(t), !.v = v(t)])
<1>1. \A t : Pop32(t) = r(t)
  <2> SUFFICES ASSUME NEW t PROVE Pop32(t) = r(t)
    OBVIOUS
  <2>1. Pop32(t) = Go(q(t), [q(t) EXCEPT !.A[7] = Wrap(@ + 4), !.v = q(t).u \o q(t).v])
    BY DEF Pop32
  <2> HIDE DEF q
  <2> QED
    BY <2>1
<1>2. /\ Agreed(k, p, x, y, b(p), b(x), b(y)) /\ Agreed(k, p, x, y, c(p), c(x), c(y))
      /\ b(p) \in Int /\ c(p) \in Int /\ 2 \in Nat
  <2>1. Agreed(k, p, x, y, p.A, x.A, y.A) /\ p.A[7] \in Int
    BY FieldsAgreed, AddressIs
  <2> QED
    BY <2>1 DEF Agreed
<1> HIDE DEF b, c
<1>3. Goes(k, p, x, y, h(p), h(x), h(y))
  BY <1>2, ReadGoes
<1> HIDE DEF h
<1>4. Linked(k, h(p), h(x), h(y)) /\ Agreed(k, h(p), h(x), h(y), c(p), c(x), c(y))
  BY <1>2, <1>3, AgreedOn DEF Goes
<1>5. Goes(k, h(p), h(x), h(y), q(p), q(x), q(y))
  BY <1>2, <1>4, ReadGoes
<1> HIDE DEF q
<1>6. Linked(k, q(p), q(x), q(y))
  BY <1>5 DEF Goes
<1>7. Agreed(k, q(p), q(x), q(y), B(p), B(x), B(y)) /\ Agreed(k, q(p), q(x), q(y), v(p), v(x), v(y))
  <2>1. Agreed(k, q(p), q(x), q(y), q(p).A, q(x).A, q(y).A)
        /\ Agreed(k, q(p), q(x), q(y), q(p).u, q(x).u, q(y).u)
        /\ Agreed(k, q(p), q(x), q(y), q(p).v, q(x).v, q(y).v)
    BY <1>6, FieldsAgreed
  <2> QED
    BY <2>1 DEF Agreed
<1> HIDE DEF B, v
<1>8. Goes(k, q(p), q(x), q(y), r(p), r(x), r(y))
  BY <1>6, <1>7, PoppedGoes
<1> HIDE DEF r
<1> QED
  BY <1>1, <1>3, <1>5, <1>8, GoesOn

\* Link.
LEMMA LinkGoes ==
  ASSUME NEW k, NEW p, NEW x, NEW y, Linked(k, p, x, y), Good(p), NEW i
  PROVE  Goes(k, p, x, y, Link(p, i), Link(x, i), Link(y, i))
<1> DEFINE f(t) == Fetch(t)
           v(t) == <<0, 0, 0, t.A[0]>>
           q(t) == Push32(f(t), v(t))
           B(t) == [q(t).A EXCEPT ![0] = q(t).A[7], ![7] = Wrap(q(t).A[7] - 2)]
           r(t) == Go(q(t), [q(t) EXCEPT !.A = B(t)])
<1>1. ASSUME NEW t, Shaped(q(t)) PROVE Link(t, i) = r(t)
  <2>1. Link(t, i) = Go(q(t), [q(t) EXCEPT !.A[0] = q(t).A[7], !.A[7] = Wrap(@ - 2)])
    BY DEF Link
  <2> HIDE DEF q
  <2> QED
    BY <1>1, <2>1 DEF Shaped, Fields
<1>2. Goes(k, p, x, y, f(p), f(x), f(y)) /\ Good(f(p))
  BY FetchGoes, FetchOk DEF Fetched
<1>3. v(p) \in Seq(Byte) /\ Len(v(p)) = 4
  BY AddressIs, LongOf
<1>4. Agreed(k, p, x, y, v(p), v(x), v(y))
  <2>1. Agreed(k, p, x, y, p.A, x.A, y.A)
    BY FieldsAgreed
  <2> QED
    BY <2>1 DEF Agreed
<1> HIDE DEF f, v
<1>5. Goes(k, f(p), f(x), f(y), q(p), q(x), q(y))
  <2>1. Linked(k, f(p), f(x), f(y)) /\ Agreed(k, f(p), f(x), f(y), v(p), v(x), v(y))
    BY <1>2, <1>4, AgreedOn DEF Goes
  <2> QED
    BY <1>2, <1>3, <2>1, PushGoes
<1> HIDE DEF q
<1>6. Linked(k, q(p), q(x), q(y)) /\ Agreed(k, q(p), q(x), q(y), q(p).A, q(x).A, q(y).A)
  BY <1>5, FieldsAgreed DEF Goes
<1>7. Agreed(k, q(p), q(x), q(y), B(p), B(x), B(y))
  BY <1>6 DEF Agreed
<1> HIDE DEF B
<1>8. Goes(k, q(p), q(x), q(y), r(p), r(x), r(y))
  BY <1>6, <1>7, RegsGoes
<1> HIDE DEF r
<1>9. Link(p, i) = r(p) /\ Link(x, i) = r(x) /\ Link(y, i) = r(y)
  BY <1>1, <1>6 DEF Linked
<1> QED
  BY <1>2, <1>5, <1>8, <1>9, GoesOn

\* The stack pointer of UNLK, before it pops.
Unlinked(t) == [t EXCEPT !.A[7] = t.A[0]]

\* Unlk, from there.
LEMMA UnlkGoes ==
  ASSUME NEW k, NEW p, NEW x, NEW y, Good(Unlinked(p)),
         Linked(k, Unlinked(p), Unlinked(x), Unlinked(y)), NEW i
  PROVE  Goes(k, Unlinked(p), Unlinked(x), Unlinked(y), Unlk(p, i), Unlk(x, i), Unlk(y, i))
<1> DEFINE f(t) == Unlinked(t)
           q(t) == Pop32(f(t))
           B(t) == [q(t).A EXCEPT ![0] = Wrap(q(t).v[4])]
           r(t) == Go(q(t), [q(t) EXCEPT !.A = B(t)])
<1>1. \A t : Unlk(t, i) = r(t)
  BY DEF Unlk, Unlinked
<1> HIDE DEF f
<1>2. Goes(k, f(p), f(x), f(y), q(p), q(x), q(y))
  BY PopGoes DEF f
<1> HIDE DEF q
<1>3. Linked(k, q(p), q(x), q(y))
  BY <1>2 DEF Goes
<1>4. Agreed(k, q(p), q(x), q(y), B(p), B(x), B(y))
  <2>1. Agreed(k, q(p), q(x), q(y), q(p).A, q(x).A, q(y).A)
        /\ Agreed(k, q(p), q(x), q(y), q(p).v, q(x).v, q(y).v)
    BY <1>3, FieldsAgreed
  <2> QED
    BY <2>1 DEF Agreed
<1> HIDE DEF B
<1>5. Goes(k, q(p), q(x), q(y), r(p), r(x), r(y))
  BY <1>3, <1>4, RegsGoes
<1> HIDE DEF r
<1>6. Goes(k, f(p), f(x), f(y), r(p), r(x), r(y))
  BY <1>2, <1>5, GoesOn
<1> QED
  BY <1>1, <1>6 DEF f

\* Pea.
LEMMA PeaGoes ==
  ASSUME NEW k, NEW p, NEW x, NEW y, Linked(k, p, x, y), Good(p), NEW i, InPlace(i.e), ~Steps(i.e)
  PROVE  Goes(k, p, x, y, Pea(p, i), Pea(x, i), Pea(y, i))
<1> DEFINE g(t) == GetAddr(t, i.e, 0)
           v(t) == <<0, 0, 0, g(t).a>>
           r(t) == Push32(g(t), v(t))
<1>1. \A t : Pea(t, i) = r(t)
  BY DEF Pea
<1>2. Goes(k, p, x, y, g(p), g(x), g(y))
  <2>1. p \in State
    BY DEF Good, Safe
  <2> QED
    BY <2>1, GetAddrGoes
<1>3. Good(g(p)) /\ g(p).a \in Memory
  BY LocatedQuiet
<1> HIDE DEF g
<1>4. v(p) \in Seq(Byte) /\ Len(v(p)) = 4
  BY <1>3, LongOf
<1>5. Linked(k, g(p), g(x), g(y)) /\ Agreed(k, g(p), g(x), g(y), g(p).a, g(x).a, g(y).a)
  BY <1>2, FieldsAgreed DEF Goes
<1>6. Agreed(k, g(p), g(x), g(y), v(p), v(x), v(y))
  BY <1>5 DEF Agreed
<1> HIDE DEF v
<1>7. Goes(k, g(p), g(x), g(y), r(p), r(x), r(y))
  BY <1>3, <1>4, <1>5, <1>6, PushGoes
<1> HIDE DEF r
<1> QED
  BY <1>1, <1>2, <1>7, GoesOn

\* Jsr.
LEMMA JsrGoes ==
  ASSUME NEW k, NEW p, NEW x, NEW y, Linked(k, p, x, y), Good(p), NEW i, InPlace(i.e), ~Steps(i.e)
  PROVE  Goes(k, p, x, y, Jsr(p, i), Jsr(x, i), Jsr(y, i))
<1> DEFINE g(t) == GetAddr(t, i.e, 0)
           v == <<0, 0, 0, 1>>
           a(t) == g(t).a
           q(t) == Push32(g(t), v)
           r(t) == Go(q(t), [q(t) EXCEPT !.PC = a(t)])
<1>1. \A t : Jsr(t, i) = r(t)
  BY DEF Jsr
<1>2. Goes(k, p, x, y, g(p), g(x), g(y)) /\ Good(g(p))
  <2>1. p \in State
    BY DEF Good, Safe
  <2> QED
    BY <2>1, GetAddrGoes, LocatedQuiet
<1> HIDE DEF g
<1>3. v \in Seq(Byte) /\ Len(v) = 4
  BY DEF Byte
<1> HIDE DEF v
<1>4. /\ Linked(k, g(p), g(x), g(y)) /\ Agreed(k, g(p), g(x), g(y), a(p), a(x), a(y))
      /\ Agreed(k, g(p), g(x), g(y), v, v, v)
  <2>1. Agreed(k, g(p), g(x), g(y), v, v, v)
    BY DEF Agreed
  <2> QED
    BY <1>2, <2>1, FieldsAgreed DEF Goes
<1>5. Goes(k, g(p), g(x), g(y), q(p), q(x), q(y))
  BY <1>2, <1>3, <1>4, PushGoes
<1> HIDE DEF q, a
<1>6. Linked(k, q(p), q(x), q(y)) /\ Agreed(k, q(p), q(x), q(y), a(p), a(x), a(y))
  BY <1>4, <1>5, AgreedOn DEF Goes
<1>7. Goes(k, q(p), q(x), q(y), r(p), r(x), r(y))
  BY <1>6, CounterGoes
<1> HIDE DEF r
<1> QED
  BY <1>1, <1>2, <1>5, <1>7, GoesOn

\* Rts.
LEMMA RtsGoes ==
  ASSUME NEW k, NEW p, NEW x, NEW y, Linked(k, p, x, y), Good(p), NEW i
  PROVE  Goes(k, p, x, y, Rts(p, i), Rts(x, i), Rts(y, i))
<1> DEFINE q(t) == Pop32(t)
           a(t) == q(t).v[4]
           r(t) == Go(q(t), [q(t) EXCEPT !.PC = a(t)])
<1>1. \A t : Rts(t, i) = r(t)
  BY DEF Rts
<1>2. Goes(k, p, x, y, q(p), q(x), q(y))
  BY PopGoes
<1> HIDE DEF q
<1>3. Linked(k, q(p), q(x), q(y)) /\ Agreed(k, q(p), q(x), q(y), a(p), a(x), a(y))
  <2>1. Linked(k, q(p), q(x), q(y)) /\ Agreed(k, q(p), q(x), q(y), q(p).v, q(x).v, q(y).v)
    BY <1>2, FieldsAgreed DEF Goes
  <2> QED
    BY <2>1 DEF Agreed
<1> HIDE DEF a
<1>4. Goes(k, q(p), q(x), q(y), r(p), r(x), r(y))
  BY <1>3, CounterGoes
<1> HIDE DEF r
<1> QED
  BY <1>1, <1>2, <1>4, GoesOn

\* A byte of a field.
LEMMA FieldByteGoes ==
  ASSUME NEW k, NEW p, NEW x, NEW y, Linked(k, p, x, y), Good(p), NEW i, NEW n \in Int
  PROVE  Goes(k, p, x, y, FieldByte(p, i, n), FieldByte(x, i, n), FieldByte(y, i, n))
<1> DEFINE a(t) == t.a + n
           r(t) == Read(t, a(t), 1)
           b(t) == r(t).a + n
           v(t) == <<Changed(i.h, r(t).v[1])>>
           w(t) == Write(r(t), b(t), v(t))
<1>1. \A t : FieldByte(t, i, n) = w(t)
  <2> SUFFICES ASSUME NEW t PROVE FieldByte(t, i, n) = w(t)
    OBVIOUS
  <2>1. FieldByte(t, i, n) = Go(r(t), w(t))
    BY DEF FieldByte
  <2>2. r(t).fault => w(t) = r(t)
    BY Passed
  <2> HIDE DEF r, w
  <2> QED
    BY <2>1, <2>2 DEF Go
<1>2. Agreed(k, p, x, y, a(p), a(x), a(y)) /\ a(p) \in Int /\ 1 \in Sizes /\ 1 \in Nat
  <2>1. Agreed(k, p, x, y, p.a, x.a, y.a) /\ p.a \in Int
    BY FieldsAgreed, LocatedIs
  <2> QED
    BY <2>1 DEF Agreed, Sizes
<1> HIDE DEF a
<1>3. Goes(k, p, x, y, r(p), r(x), r(y)) /\ Reads(p, r(p), 1)
  BY <1>2, ReadGoes, ReadOk
<1> HIDE DEF r
<1>4. Linked(k, r(p), r(x), r(y)) /\ Agreed(k, r(p), r(x), r(y), b(p), b(x), b(y))
      /\ Agreed(k, r(p), r(x), r(y), v(p), v(x), v(y)) /\ b(p) \in Int
  <2>1. /\ Linked(k, r(p), r(x), r(y)) /\ Agreed(k, r(p), r(x), r(y), r(p).a, r(x).a, r(y).a)
        /\ Agreed(k, r(p), r(x), r(y), r(p).v, r(x).v, r(y).v) /\ r(p).a \in Int
    BY <1>3, FieldsAgreed, LocatedIs DEF Goes, Reads
  <2> QED
    BY <2>1 DEF Agreed
<1>5. ~r(p).fault => v(p) \in Seq(Byte) /\ Len(v(p)) \in Sizes
  <2> SUFFICES ASSUME ~r(p).fault PROVE v(p) \in Seq(Byte) /\ Len(v(p)) \in Sizes
    OBVIOUS
  <2> DEFINE c == Changed(i.h, r(p).v[1])
  <2>1. c \in Byte
    <3>1. Good(r(p)) /\ Len(r(p).v) = 1 /\ 1 \in Nat /\ 1 \in 1..1
      BY <1>3 DEF Reads
    <3>2. r(p).v[1] \in Byte
      BY <3>1, LastIs, Zenon
    <3> QED
      BY <3>2 DEF Changed, Byte
  <2> HIDE DEF c
  <2>2. <<c>> \in Seq(Byte) /\ Len(<<c>>) \in Sizes
    BY <2>1 DEF Sizes
  <2> QED
    BY <2>2 DEF c
<1> HIDE DEF b, v
<1>6. Goes(k, r(p), r(x), r(y), w(p), w(x), w(y))
  BY <1>4, <1>5, WriteGoes
<1> HIDE DEF w
<1> QED
  BY <1>1, <1>3, <1>6, GoesOn

\* Field.
LEMMA FieldGoes ==
  ASSUME NEW k, NEW p, NEW x, NEW y, Linked(k, p, x, y), Good(p), NEW i, InPlace(i.e), ~Steps(i.e)
  PROVE  Goes(k, p, x, y, Field(p, i), Field(x, i), Field(y, i))
<1> DEFINE f(t) == Fetch(t)
           g(t) == GetAddr(f(t), i.e, 0)
           a(t) == g(t).a
           b(t) == g(t).a + 1
           one(t) == Read(g(t), a(t), 1)
           both(t) == Read(one(t), b(t), 1)
           all(t) == IF i.sz = 1 THEN one(t) ELSE both(t)
           z(t) == Res(all(t).v, all(t).v)
           o == <<9>>
           ins(t) == Flags(g(t), o)
           test(t) == Flags(all(t), z(t))
           c(t) == IF i.h = "bfins" THEN ins(t) ELSE test(t)
           s1(t) == FieldByte(c(t), i, 0)
           s2(t) == FieldByte(s1(t), i, 1)
<1>1. \A t : Field(t, i) = IF i.h = "bftst" THEN c(t) ELSE IF i.sz = 1 THEN s1(t) ELSE s2(t)
  BY DEF Field
<1>2. 0 \in {0, 1, 2, 4} /\ 1 \in Sizes /\ 1 \in Nat /\ 0 \in Int /\ 1 \in Int
  BY DEF Sizes
<1>3. Good(g(p)) /\ a(p) \in Int
  BY <1>2, AimedOk
<1>4. Goes(k, p, x, y, f(p), f(x), f(y)) /\ f(p) \in State
  BY FetchGoes, FetchOk DEF Fetched, Good, Safe
<1> HIDE DEF f
<1>5. Goes(k, f(p), f(x), f(y), g(p), g(x), g(y))
  BY <1>4, GetAddrGoes DEF Goes
<1> HIDE DEF g
<1>6. Goes(k, p, x, y, g(p), g(x), g(y))
  BY <1>4, <1>5, GoesOn
<1>7. /\ Linked(k, g(p), g(x), g(y)) /\ Agreed(k, g(p), g(x), g(y), a(p), a(x), a(y))
      /\ Agreed(k, g(p), g(x), g(y), b(p), b(x), b(y)) /\ b(p) \in Int
  <2>1. Linked(k, g(p), g(x), g(y)) /\ Agreed(k, g(p), g(x), g(y), a(p), a(x), a(y))
    BY <1>6, FieldsAgreed DEF Goes
  <2> QED
    BY <1>3, <2>1 DEF Agreed
<1> HIDE DEF a, b
<1>8. Goes(k, g(p), g(x), g(y), one(p), one(x), one(y)) /\ Reads(g(p), one(p), 1)
  BY <1>2, <1>3, <1>7, ReadGoes, ReadOk
<1> HIDE DEF one
<1>9. Goes(k, one(p), one(x), one(y), both(p), both(x), both(y)) /\ Reads(one(p), both(p), 1)
  <2>1. Linked(k, one(p), one(x), one(y)) /\ Agreed(k, one(p), one(x), one(y), b(p), b(x), b(y))
        /\ Good(one(p))
    BY <1>7, <1>8, AgreedOn DEF Goes, Reads
  <2> QED
    BY <1>2, <1>7, <2>1, ReadGoes, ReadOk
<1> HIDE DEF both
<1>10. Goes(k, g(p), g(x), g(y), all(p), all(x), all(y)) /\ Good(all(p))
       /\ (~all(p).fault => Len(all(p).v) = 1)
  <2>1. Goes(k, g(p), g(x), g(y), both(p), both(x), both(y))
    BY <1>8, <1>9, GoesOn
  <2> QED
    BY <1>8, <1>9, <2>1 DEF Reads
<1> HIDE DEF all
<1>11. Linked(k, all(p), all(x), all(y)) /\ Agreed(k, all(p), all(x), all(y), z(p), z(x), z(y))
  <2>1. Linked(k, all(p), all(x), all(y)) /\ Agreed(k, all(p), all(x), all(y), all(p).v, all(x).v, all(y).v)
    BY <1>10, FieldsAgreed DEF Goes
  <2> QED
    BY <2>1 DEF Agreed
<1>12. ~all(p).fault => z(p) \in Seq(Byte)
  BY <1>2, <1>10, ValuesAre, ResOf
<1>13. o \in Seq(Byte) /\ Agreed(k, g(p), g(x), g(y), o, o, o)
  BY DEF Byte, Agreed
<1> HIDE DEF z, o
<1>14. Goes(k, all(p), all(x), all(y), test(p), test(x), test(y)) /\ Good(test(p))
  BY <1>10, <1>11, <1>12, FlagsGoes, FlagsOk DEF Settled
<1>15. Goes(k, g(p), g(x), g(y), ins(p), ins(x), ins(y)) /\ Good(ins(p))
  BY <1>3, <1>7, <1>13, FlagsGoes, FlagsOk DEF Settled
<1> HIDE DEF test, ins
<1>16. Goes(k, p, x, y, c(p), c(x), c(y)) /\ Good(c(p))
  <2>1. Goes(k, g(p), g(x), g(y), test(p), test(x), test(y))
    BY <1>10, <1>14, GoesOn
  <2>2. Goes(k, p, x, y, test(p), test(x), test(y)) /\ Goes(k, p, x, y, ins(p), ins(x), ins(y))
    BY <1>6, <1>15, <2>1, GoesOn
  <2> QED
    BY <1>14, <1>15, <2>2
<1> HIDE DEF c
<1>17. Goes(k, c(p), c(x), c(y), s1(p), s1(x), s1(y)) /\ Good(s1(p))
  BY <1>2, <1>16, FieldByteGoes, FieldByteOk DEF Goes, Fielded
<1> HIDE DEF s1
<1>18. Goes(k, s1(p), s1(x), s1(y), s2(p), s2(x), s2(y))
  BY <1>2, <1>17, FieldByteGoes DEF Goes
<1> HIDE DEF s2
<1>19. Goes(k, p, x, y, s1(p), s1(x), s1(y))
  BY <1>16, <1>17, GoesOn
<1>20. Goes(k, p, x, y, s2(p), s2(x), s2(y))
  BY <1>18, <1>19, GoesOn
<1> QED
  BY <1>1, <1>16, <1>19, <1>20

\* The line that MOVE16 reads.
LEMMA Read16Goes ==
  ASSUME NEW k, NEW p, NEW x, NEW y, Linked(k, p, x, y), NEW a \in Int, NEW b, NEW c,
         Agreed(k, p, x, y, a, b, c), NEW other
  PROVE  Goes(k, p, x, y, Read16(p, a, other), Read16(x, b, other), Read16(y, c, other))
<1> DEFINE q == Read16(p, a, other)
           r == Read16(x, b, other)
           z == Read16(y, c, other)
           W == FALSE
           S(d) == Range16(d, 4)
           v(t, d) == Bytes(t, d, 4)
           got(t, d) == [t EXCEPT !.v = v(t, d), !.rd = @ \cup S(d)]
<1>1. ASSUME NEW t, Shaped(t), NEW d
      PROVE  LET e == Read16(t, d, other) IN
             /\ Shaped(e) /\ e.wr = t.wr /\ e.mem = t.mem /\ e.NZVC = t.NZVC
             /\ t.fault => e = t
             /\ ~e.fault => ~t.fault /\ Allowed(t, Wrap(d), W)
             /\ ~t.fault /\ Allowed(t, Wrap(d), W) => e = got(t, d)
             /\ e.rd = t.rd \/ e = got(t, d)
             /\ ~t.fault /\ e.fault => e.rd = t.rd
  <2>1. CASE t.fault
    <3>1. Read16(t, d, other) = t
      BY <2>1 DEF Read16, Go
    <3> QED
      BY <1>1, <2>1, <3>1
  <2>2. CASE ~t.fault /\ Allowed(t, Wrap(d), W)
    <3>1. Read16(t, d, other) = got(t, d)
      BY <2>2 DEF Read16, Go
    <3> HIDE DEF v, S, W
    <3>2. /\ Shaped(got(t, d)) /\ got(t, d).wr = t.wr /\ got(t, d).mem = t.mem /\ got(t, d).NZVC = t.NZVC
          /\ got(t, d).fault = t.fault
      BY <1>1 DEF Shaped, Fields
    <3> HIDE DEF got
    <3> QED
      BY <2>2, <3>1, <3>2
  <2>3. CASE ~t.fault /\ ~Allowed(t, Wrap(d), W)
    <3> DEFINE R == Record(t, d, 4, TRUE, 1, 1, other)
    <3>1. Read16(t, d, other) = Raise(t, R)
      BY <2>3 DEF Read16, Go
    <3> HIDE DEF R
    <3>2. LET e == Raise(t, R) IN
          Shaped(e) /\ e.wr = t.wr /\ e.mem = t.mem /\ e.NZVC = t.NZVC /\ e.rd = t.rd /\ e.fault
      BY <1>1 DEF Shaped, Fields, Raise
    <3> HIDE DEF got, W
    <3> QED
      BY <2>3, <3>1, <3>2
  <2> QED
    BY <2>1, <2>2, <2>3
<1> HIDE DEF W
<1>2. /\ Shaped(q) /\ q.wr = p.wr /\ q.mem = p.mem /\ q.NZVC = p.NZVC /\ (p.fault => q = p)
      /\ (~q.fault => ~p.fault /\ q = got(p, a)) /\ (~p.fault /\ q.fault => q.rd = p.rd)
      /\ Shaped(r) /\ (~r.fault => ~x.fault /\ r = got(x, b) /\ Allowed(x, Wrap(b), W))
      /\ Shaped(z) /\ (~y.fault /\ Allowed(y, Wrap(c), W) => z = got(y, c))
      /\ (x.fault => r.fault)
  <2>1. Shaped(p) /\ Shaped(x) /\ Shaped(y)
    BY DEF Linked
  <2> HIDE DEF got
  <2> QED
    BY <1>1, <2>1
<1>3. q.rd = p.rd \/ q.rd = p.rd \cup S(a)
  BY <1>2 DEF Linked, Shaped, Fields
<1>4. Clean(k, q) => Clean(k, p)
  <2> HIDE DEF q, S
  <2> QED
    BY <1>2, <1>3 DEF Clean
<1> HIDE DEF q, r, z, S, v
<1>5. ASSUME Tied(k, q, r)
      PROVE  /\ Tied(k, p, x) /\ r = got(x, b) /\ z = got(y, c) /\ c = b
  <2>1. ~r.fault /\ ~x.fault /\ Allowed(x, Wrap(b), W) /\ r = got(x, b)
    BY <1>2, <1>5 DEF Tied
  <2>2. Tied(k, p, x)
    BY <1>4, <1>5, <2>1 DEF Tied
  <2>3. c = b /\ y.perm = x.perm /\ y.fault = x.fault
    BY <2>2 DEF Linked, Agreed, Twin, Before, Like
  <2>4. z = got(y, c)
    <3>1. Allowed(y, Wrap(c), W)
      BY <2>1, <2>3 DEF Allowed
    <3> HIDE DEF got
    <3> QED
      BY <1>2, <2>1, <2>3, <3>1
  <2> HIDE DEF got
  <2> QED
    BY <2>1, <2>2, <2>3, <2>4
<1>6. ASSUME Shaped(x), Shaped(y), Twin(x, y), ~x.fault PROVE Twin(got(x, b), got(y, b))
  <2>1. v(y, b) = v(x, b)
    BY <1>6, BytesTwin DEF Twin, v
  <2> QED
    BY <1>6, <2>1 DEF Twin, Like, Shaped, Fields
<1>7. ASSUME Tied(k, q, r), q.fault PROVE Twin(r, z)
  <2>1. Twin(x, y)
    <3>1. CASE p.fault
      BY <1>5, <1>7, <3>1 DEF Linked
    <3>2. CASE ~p.fault
      <4>1. Before(k, p, x, y)
        BY <1>5, <1>7, <3>2 DEF Linked
      <4>2. p.NZVC = k.NZVC /\ \A e \in k.wr : p.mem[e] = k.mem[e]
        BY <1>2, <1>7 DEF Tied, Clean
      <4> QED
        BY <4>1, <4>2, BecomeTwins DEF Linked
    <3> QED
      BY <3>1, <3>2
  <2>2. Twin(got(x, b), got(y, b))
    BY <1>5, <1>6, <1>7, <2>1 DEF Linked, Tied
  <2> HIDE DEF got
  <2> QED
    BY <1>5, <1>7, <2>2
<1>8. ASSUME Tied(k, q, r), ~q.fault PROVE Before(k, q, r, z)
  <2>1. Before(k, p, x, y) /\ q = got(p, a) /\ b = a /\ c = a
    <3> HIDE DEF got
    <3> QED
      BY <1>2, <1>5, <1>8 DEF Linked, Agreed
  <2>2. q.rd = p.rd \cup S(a)
    BY <2>1 DEF Linked, Shaped, Fields
  <2>3. S(a) \cap k.wr = {}
    BY <1>8, <2>2 DEF Tied, Clean
  <2>4. v(x, a) = v(p, a)
    BY <2>1, BytesTwin DEF Before, Follows, v
  <2>5. v(y, a) = v(p, a)
    <3>1. 4 \in Nat /\ S(a) \subseteq Memory
      BY RangeIs DEF S
    <3>2. \A e \in S(a) : y.mem[e] = x.mem[e]
      BY <2>1, <2>3, <3>1 DEF Before
    <3>3. v(y, a) = v(x, a)
      BY <3>1, <3>2, BytesSame DEF v, S
    <3> QED
      BY <2>4, <3>3
  <2>6. r = got(x, a) /\ z = got(y, a)
    <3> HIDE DEF got
    <3> QED
      BY <1>5, <1>8, <2>1
  <2> QED
    BY <2>1, <2>4, <2>5, <2>6 DEF Before, Follows, Like, Linked, Shaped, Fields
<1> HIDE DEF got
<1> QED
  BY <1>2, <1>4, <1>5, <1>7, <1>8 DEF Goes, Linked, q, r, z

\* The line that MOVE16 writes, all of it or nothing.
LEMMA Write16Goes ==
  ASSUME NEW k, NEW p, NEW x, NEW y, Linked(k, p, x, y), NEW a \in Int, NEW b, NEW c,
         Agreed(k, p, x, y, a, b, c), NEW other, ~p.fault => p.v \in Seq(Byte) /\ Len(p.v) = 4
  PROVE  Goes(k, p, x, y, Write16(p, a, other), Write16(x, b, other), Write16(y, c, other))
<1> DEFINE q == Write16(p, a, other)
           r == Write16(x, b, other)
           z == Write16(y, c, other)
           W == TRUE
           S(d) == Range16(d, 4)
           m(t, d) == Put(t.mem, Wrap(d), t.v)
           put(t, d) == [t EXCEPT !.mem = m(t, d), !.wr = @ \cup S(d)]
<1>1. ASSUME NEW t, Shaped(t), NEW d
      PROVE  LET e == Write16(t, d, other) IN
             /\ Shaped(e) /\ e.rd = t.rd /\ e.NZVC = t.NZVC
             /\ t.fault => e = t
             /\ ~e.fault => ~t.fault /\ Allowed(t, Wrap(d), W)
             /\ ~t.fault /\ Allowed(t, Wrap(d), W) => e = put(t, d) /\ ~e.fault
             /\ ~t.fault /\ e.fault => e.mem = t.mem /\ e.wr = t.wr
  <2>1. CASE t.fault
    <3>1. Write16(t, d, other) = t
      BY <2>1 DEF Write16, Go
    <3> QED
      BY <1>1, <2>1, <3>1
  <2>2. CASE ~t.fault /\ Allowed(t, Wrap(d), W)
    <3>1. Write16(t, d, other) = put(t, d)
      BY <2>2 DEF Write16, Go
    <3>2. m(t, d) = [e \in Memory |-> m(t, d)[e]]
      BY PutShaped
    <3> HIDE DEF m, S, W
    <3>3. /\ Shaped(put(t, d)) /\ put(t, d).rd = t.rd /\ put(t, d).NZVC = t.NZVC
          /\ put(t, d).fault = t.fault
      BY <1>1, <3>2 DEF Shaped, Fields
    <3> HIDE DEF put
    <3> QED
      BY <2>2, <3>1, <3>3
  <2>3. CASE ~t.fault /\ ~Allowed(t, Wrap(d), W)
    <3> DEFINE R0 == Record(t, d, 4, FALSE, 1, 1, other)
               R == [R0 EXCEPT !.read = t.ssw.read, !.MA = t.ssw.MA,
                                !.LK = @ \/ t.ssw.LK, !.tt = Added(1, t.ssw.tt)]
    <3>1. Write16(t, d, other) = Raise(t, R)
      BY <2>3 DEF Write16, Go
    <3> HIDE DEF R
    <3>2. LET e == Raise(t, R) IN
          Shaped(e) /\ e.wr = t.wr /\ e.mem = t.mem /\ e.NZVC = t.NZVC /\ e.rd = t.rd /\ e.fault
      BY <1>1 DEF Shaped, Fields, Raise
    <3> HIDE DEF put, W
    <3> QED
      BY <2>3, <3>1, <3>2
  <2> QED
    BY <2>1, <2>2, <2>3
<1> HIDE DEF W
<1>2. /\ Shaped(q) /\ q.rd = p.rd /\ q.NZVC = p.NZVC /\ (p.fault => q = p)
      /\ (~q.fault => ~p.fault /\ q = put(p, a)) /\ (~p.fault /\ q.fault => q.mem = p.mem /\ q.wr = p.wr)
      /\ Shaped(r) /\ (~r.fault => ~x.fault /\ r = put(x, b) /\ Allowed(x, Wrap(b), W))
      /\ Shaped(z) /\ (~y.fault /\ Allowed(y, Wrap(c), W) => z = put(y, c))
      /\ (x.fault => r.fault)
  <2>1. Shaped(p) /\ Shaped(x) /\ Shaped(y)
    BY DEF Linked
  <2> HIDE DEF put
  <2> QED
    BY <1>1, <2>1
<1> HIDE DEF q, r, z, S
<1>3. ASSUME ~q.fault
      PROVE  q.wr = p.wr \cup S(a) /\ \A e \in Memory : e \in S(a) \/ q.mem[e] = p.mem[e]
  <2>1. ~p.fault /\ q = put(p, a)
    <3> HIDE DEF put
    <3> QED
      BY <1>2, <1>3
  <2>2. q.wr = p.wr \cup S(a) /\ q.mem = m(p, a)
    <3> HIDE DEF m
    <3> QED
      BY <2>1 DEF Linked, Shaped, Fields
  <2>3. ASSUME NEW e \in Memory PROVE e \in S(a) \/ m(p, a)[e] = p.mem[e]
    <3> DEFINE j == (e - Wrap(a)) % Size
    <3>1. p.v \in Seq(Byte) /\ Len(p.v) = 4
      BY <2>1
    <3>2. /\ m(p, a)[e] = IF j < Len(p.v) THEN p.v[j + 1] ELSE p.mem[e]
          /\ j < Len(p.v) => e \in Range16(a, Len(p.v))
      BY <3>1, PutByte
    <3> HIDE DEF j, m
    <3> QED
      BY <3>1, <3>2 DEF S
  <2> QED
    BY <2>2, <2>3
<1>4. Clean(k, q) => Clean(k, p)
  <2>1. CASE p.fault
    BY <1>2, <2>1
  <2>2. CASE ~p.fault
    BY <1>2, <2>2 DEF Clean
  <2> QED
    BY <2>1, <2>2
<1>5. \A e \in Memory : e \in q.wr \/ q.mem[e] = k.was[e]
  <2>1. CASE q.fault
    BY <1>2, <2>1 DEF Linked
  <2>2. CASE ~q.fault
    BY <1>3, <2>2 DEF Linked
  <2> QED
    BY <2>1, <2>2
<1> HIDE DEF m
<1>6. ASSUME Tied(k, q, r)
      PROVE  /\ Tied(k, p, x) /\ r = put(x, b) /\ z = put(y, c) /\ c = b
  <2>1. ~r.fault /\ ~x.fault /\ Allowed(x, Wrap(b), W) /\ r = put(x, b)
    BY <1>2, <1>6 DEF Tied
  <2>2. Tied(k, p, x)
    BY <1>4, <1>6, <2>1 DEF Tied
  <2>3. c = b /\ y.perm = x.perm /\ y.fault = x.fault
    BY <2>2 DEF Linked, Agreed, Twin, Before, Like
  <2>4. z = put(y, c)
    <3>1. Allowed(y, Wrap(c), W)
      BY <2>1, <2>3 DEF Allowed
    <3> HIDE DEF put
    <3> QED
      BY <1>2, <2>1, <2>3, <3>1
  <2> HIDE DEF put
  <2> QED
    BY <2>1, <2>2, <2>3, <2>4
<1>7. ASSUME Tied(k, q, r), q.fault PROVE Twin(r, z)
  <2>1. Twin(x, y)
    <3>1. CASE p.fault
      BY <1>6, <1>7, <3>1 DEF Linked
    <3>2. CASE ~p.fault
      <4>1. Before(k, p, x, y)
        BY <1>6, <1>7, <3>2 DEF Linked
      <4>2. p.NZVC = k.NZVC /\ \A e \in k.wr : p.mem[e] = k.mem[e]
        BY <1>2, <1>7, <3>2 DEF Tied, Clean
      <4> QED
        BY <4>1, <4>2, BecomeTwins DEF Linked
    <3> QED
      BY <3>1, <3>2
  <2>2. m(y, b) = m(x, b)
    BY <2>1 DEF Twin, Like, m
  <2>3. Twin(put(x, b), put(y, b))
    BY <2>1, <2>2 DEF Twin, Like, Linked, Shaped, Fields
  <2> HIDE DEF put
  <2> QED
    BY <1>6, <1>7, <2>3
<1>8. ASSUME Tied(k, q, r), ~q.fault PROVE Before(k, q, r, z)
  <2>1. Before(k, p, x, y) /\ q = put(p, a) /\ b = a /\ c = a
    <3> HIDE DEF put
    <3> QED
      BY <1>2, <1>6, <1>8 DEF Linked, Agreed
  <2>2. m(x, a) = m(p, a)
    BY <2>1 DEF Before, Follows, m
  <2>3. \A e \in Memory : m(y, a)[e] = m(x, a)[e] \/ (e \in k.wr /\ m(y, a)[e] = k.mem[e])
    <3> SUFFICES ASSUME NEW e \in Memory
                 PROVE  m(y, a)[e] = m(x, a)[e] \/ (e \in k.wr /\ m(y, a)[e] = k.mem[e])
      OBVIOUS
    <3> DEFINE j == (e - Wrap(a)) % Size
               v == x.v
    <3>1. /\ m(x, a)[e] = IF j < Len(v) THEN v[j + 1] ELSE x.mem[e]
          /\ m(y, a)[e] = IF j < Len(v) THEN v[j + 1] ELSE y.mem[e]
      BY <2>1 DEF Before, Like, m, Put
    <3> HIDE DEF j, v
    <3> QED
      BY <2>1, <3>1 DEF Before
  <2>4. r = put(x, a) /\ z = put(y, a)
    <3> HIDE DEF put
    <3> QED
      BY <1>6, <1>8, <2>1
  <2> QED
    BY <2>1, <2>2, <2>3, <2>4 DEF Before, Follows, Like, Linked, Shaped, Fields
<1> HIDE DEF put
<1> QED
  BY <1>2, <1>4, <1>5, <1>6, <1>7, <1>8 DEF Goes, Linked, q, r, z

\* Move16.
LEMMA Move16Goes ==
  ASSUME NEW k, NEW p, NEW x, NEW y, Linked(k, p, x, y), Good(p), NEW i, i.other \in BOOLEAN
  PROVE  Goes(k, p, x, y, Move16(p, i), Move16(x, i), Move16(y, i))
<1> DEFINE f(t) == Fetch(t)
           a(t) == Line(Wrap(t.A[0]))
           b(t) == Line(Wrap(t.A[1]))
           r(t) == Read16(f(t), a(t), i.other)
           m(t) == Write16(r(t), b(t), i.other)
           B(t) == [m(t).A EXCEPT ![0] = Wrap(m(t).A[0] + 4),
                                  ![1] = IF i.f.mode = "incr" THEN Wrap(m(t).A[1] + 4) ELSE m(t).A[1]]
           e(t) == Go(m(t), [m(t) EXCEPT !.A = B(t)])
<1>1. ASSUME NEW t, Shaped(m(t)) PROVE Move16(t, i) = e(t)
  <2>1. Move16(t, i) = Go(m(t), [m(t) EXCEPT !.A[0] = Wrap(@ + 4),
                                             !.A[1] = IF i.f.mode = "incr" THEN Wrap(@ + 4) ELSE @])
    BY DEF Move16, Transfer16
  <2> HIDE DEF m
  <2> QED
    BY <1>1, <2>1 DEF Shaped, Fields
<1>2. Goes(k, p, x, y, f(p), f(x), f(y)) /\ Good(f(p))
  BY FetchGoes, FetchOk DEF Fetched
<1>3. a(p) \in Memory /\ a(p) % 4 = 0 /\ b(p) \in Memory /\ b(p) % 4 = 0 /\ a(p) \in Int /\ b(p) \in Int
  <2>1. p.A[0] \in Int /\ p.A[1] \in Int
    BY AddressIs
  <2> QED
    BY <2>1, LineIs, MemoryInt
<1>4. Agreed(k, p, x, y, a(p), a(x), a(y)) /\ Agreed(k, p, x, y, b(p), b(x), b(y))
  <2>1. Agreed(k, p, x, y, p.A, x.A, y.A)
    BY FieldsAgreed
  <2> QED
    BY <2>1 DEF Agreed
<1> HIDE DEF f, a, b
<1>5. Goes(k, f(p), f(x), f(y), r(p), r(x), r(y))
  <2>1. Linked(k, f(p), f(x), f(y)) /\ Agreed(k, f(p), f(x), f(y), a(p), a(x), a(y))
    BY <1>2, <1>4, AgreedOn DEF Goes
  <2> QED
    BY <1>3, <2>1, Read16Goes
<1>6. ~r(p).fault => r(p).v \in Seq(Byte) /\ Len(r(p).v) = 4
  <2> SUFFICES ASSUME ~r(p).fault PROVE r(p).v \in Seq(Byte) /\ Len(r(p).v) = 4
    OBVIOUS
  <2> DEFINE v == Bytes(f(p), a(p), 4)
  <2>1. f(p) \in State /\ 4 \in Nat
    BY <1>2 DEF Good, Safe
  <2>2. v \in Seq(Byte) /\ Len(v) = 4
    BY <1>3, <2>1, BytesAre
  <2>3. r(p).v = v
    BY <2>1 DEF Read16, Go, Raise, State
  <2> HIDE DEF v
  <2> QED
    BY <2>2, <2>3
<1> HIDE DEF r
<1>7. Goes(k, p, x, y, r(p), r(x), r(y))
  BY <1>2, <1>5, GoesOn
<1>8. Goes(k, r(p), r(x), r(y), m(p), m(x), m(y))
  <2>1. Linked(k, r(p), r(x), r(y)) /\ Agreed(k, r(p), r(x), r(y), b(p), b(x), b(y))
    BY <1>4, <1>7, AgreedOn DEF Goes
  <2> QED
    BY <1>3, <1>6, <2>1, Write16Goes
<1> HIDE DEF m
<1>9. Linked(k, m(p), m(x), m(y)) /\ Agreed(k, m(p), m(x), m(y), m(p).A, m(x).A, m(y).A)
  BY <1>8, FieldsAgreed DEF Goes
<1>10. Agreed(k, m(p), m(x), m(y), B(p), B(x), B(y))
  BY <1>9 DEF Agreed
<1> HIDE DEF B
<1>11. Goes(k, m(p), m(x), m(y), e(p), e(x), e(y))
  BY <1>9, <1>10, RegsGoes
<1> HIDE DEF e
<1>12. Move16(p, i) = e(p) /\ Move16(x, i) = e(x) /\ Move16(y, i) = e(y)
  BY <1>1, <1>9 DEF Linked
<1> QED
  BY <1>7, <1>8, <1>11, <1>12, GoesOn

-----------------------------------------------------------------------------
(* Every handler whose restart is exact, in the three runs.                *)

\* An instruction whose restart is exact.
Restartable(i) == ~Steps(i.e) /\ ~Steps(i.f) /\ i.h \notin StepsEarly \ {"unlk"}

\* UNLK moves the stack pointer before it reads; a second time that changes nothing.
Ready(t, i) == IF i.h = "unlk" THEN Unlinked(t) ELSE t

\* Every handler takes the three runs on.
LEMMA HandlerGoes ==
  ASSUME NEW k, NEW p, NEW x, NEW y, NEW i, Shape(i), Restartable(i), Both(p, i.sz),
         Good(Ready(p, i)), Linked(k, Ready(p, i), Ready(x, i), Ready(y, i))
  PROVE  Goes(k, Ready(p, i), Ready(x, i), Ready(y, i),
              Handler(p, i), Handler(x, i), Handler(y, i))
<1>1. i.sz \in Sizes /\ ~Steps(i.e) /\ ~Steps(i.f) /\ i.other \in BOOLEAN
  BY DEF Shape, Restartable
<1>2. i.h # "unlk" => /\ Good(p) /\ Linked(k, p, x, y)
                      /\ Ready(p, i) = p /\ Ready(x, i) = x /\ Ready(y, i) = y
  BY DEF Ready
<1>3. CASE i.h = "rmw"
  <2>1. \A t : Handler(t, i) = Rmw(t, i)
    BY <1>3 DEF Handler
  <2>2. Place(i.e)
    BY <1>3 DEF Shape
  <2> QED
    BY <1>1, <1>2, <1>3, <2>1, <2>2, RmwGoes
<1>4. CASE i.h = "immediate"
  <2>1. \A t : Handler(t, i) = Immediate(t, i)
    BY <1>4 DEF Handler
  <2>2. Place(i.e)
    BY <1>4 DEF Shape
  <2> QED
    BY <1>1, <1>2, <1>4, <2>1, <2>2, ImmediateGoes
<1>5. CASE i.h = "to_dn"
  <2>1. \A t : Handler(t, i) = ToDn(t, i)
    BY <1>5 DEF Handler
  <2>2. Source(i.e)
    BY <1>5 DEF Shape
  <2> QED
    BY <1>1, <1>2, <1>5, <2>1, <2>2, ToDnGoes
<1>6. CASE i.h = "fetch_to_dn"
  <2>1. \A t : Handler(t, i) = FetchToDn(t, i)
    BY <1>6 DEF Handler
  <2>2. Source(i.e)
    BY <1>6 DEF Shape
  <2> QED
    BY <1>1, <1>2, <1>6, <2>1, <2>2, FetchToDnGoes
<1>7. CASE i.h = "cmp2"
  <2>1. \A t : Handler(t, i) = Cmp2(t, i)
    BY <1>7 DEF Handler
  <2>2. InPlace(i.e)
    BY <1>7 DEF Shape
  <2> QED
    BY <1>1, <1>2, <1>7, <2>1, <2>2, Cmp2Goes
<1>8. CASE i.h \in {"btst", "bchg"}
  <2>1. \A t : Handler(t, i) = Bit(t, i)
    BY <1>8 DEF Handler
  <2>2. InPlace(i.e)
    BY <1>8 DEF Shape
  <2> QED
    BY <1>1, <1>2, <1>8, <2>1, <2>2, BitGoes
<1>9. CASE i.h = "movep_load"
  <2>1. \A t : Handler(t, i) = MovepLoad(t, i)
    BY <1>9 DEF Handler
  <2> QED
    BY <1>1, <1>2, <1>9, <2>1, MovepLoadGoes
<1>10. CASE i.h = "movep_store"
  <2>1. \A t : Handler(t, i) = MovepStore(t, i)
    BY <1>10 DEF Handler
  <2>2. i.sz \in {2, 4}
    BY <1>10 DEF Shape
  <2> QED
    BY <1>1, <1>2, <1>10, <2>1, <2>2, MovepStoreGoes
<1>11. CASE i.h = "cas"
  <2>1. \A t : Handler(t, i) = Cas(t, i)
    BY <1>11 DEF Handler
  <2>2. InPlace(i.e)
    BY <1>11 DEF Shape
  <2> QED
    BY <1>1, <1>2, <1>11, <2>1, <2>2, CasGoes
<1>12. CASE i.h = "cas2"
  <2>1. \A t : Handler(t, i) = Cas2(t, i)
    BY <1>12 DEF Handler
  <2> QED
    BY <1>1, <1>2, <1>12, <2>1, Cas2Goes
<1>13. CASE i.h \in {"moves_load", "moves_store"}
  <2>1. \A t : Handler(t, i) = Moves(t, i)
    BY <1>13 DEF Handler
  <2>2. InPlace(i.e)
    BY <1>13 DEF Shape
  <2> QED
    BY <1>1, <1>2, <1>13, <2>1, <2>2, MovesGoes
<1>14. CASE i.h = "move"
  <2>1. \A t : Handler(t, i) = Move(t, i)
    BY <1>14 DEF Handler
  <2>2. Source(i.e) /\ Place(i.f)
    BY <1>14 DEF Shape
  <2> QED
    BY <1>1, <1>2, <1>14, <2>1, <2>2, MoveGoes
<1>15. CASE i.h \in {"clr", "scc"}
  <2>1. \A t : Handler(t, i) = WriteOnly(t, i)
    BY <1>15 DEF Handler
  <2>2. Place(i.e)
    BY <1>15 DEF Shape
  <2> QED
    BY <1>1, <1>2, <1>15, <2>1, <2>2, WriteOnlyGoes
<1>16. CASE i.h = "link"
  <2>1. \A t : Handler(t, i) = Link(t, i)
    BY <1>16 DEF Handler
  <2> QED
    BY <1>1, <1>2, <1>16, <2>1, LinkGoes
<1>17. CASE i.h = "pea"
  <2>1. \A t : Handler(t, i) = Pea(t, i)
    BY <1>17 DEF Handler
  <2>2. InPlace(i.e)
    BY <1>17 DEF Shape
  <2> QED
    BY <1>1, <1>2, <1>17, <2>1, <2>2, PeaGoes
<1>18. CASE i.h = "jsr"
  <2>1. \A t : Handler(t, i) = Jsr(t, i)
    BY <1>18 DEF Handler
  <2>2. InPlace(i.e)
    BY <1>18 DEF Shape
  <2> QED
    BY <1>1, <1>2, <1>18, <2>1, <2>2, JsrGoes
<1>19. CASE i.h = "rts"
  <2>1. \A t : Handler(t, i) = Rts(t, i)
    BY <1>19 DEF Handler
  <2> QED
    BY <1>1, <1>2, <1>19, <2>1, RtsGoes
<1>20. CASE i.h \in {"bftst", "bfchg", "bfset", "bfins"}
  <2>1. \A t : Handler(t, i) = Field(t, i)
    BY <1>20 DEF Handler
  <2>2. InPlace(i.e)
    BY <1>20 DEF Shape
  <2> QED
    BY <1>1, <1>2, <1>20, <2>1, <2>2, FieldGoes
<1>21. CASE i.h = "move16"
  <2>1. \A t : Handler(t, i) = Move16(t, i)
    BY <1>21 DEF Handler
  <2> QED
    BY <1>1, <1>2, <1>21, <2>1, Move16Goes
<1>22. CASE i.h = "unlk"
  <2>1. \A t : Handler(t, i) = Unlk(t, i) /\ Ready(t, i) = Unlinked(t)
    BY <1>22 DEF Handler, Ready
  <2> QED
    BY <2>1, UnlkGoes
<1>23. i.h \in {"rmw", "immediate", "to_dn", "fetch_to_dn", "cmp2", "btst", "bchg", "movep_load",
                "movep_store", "cas", "cas2", "moves_load", "moves_store", "move", "clr", "scc",
                "link", "unlk", "pea", "jsr", "rts", "bftst", "bfchg", "bfset", "bfins", "move16"}
  BY DEF Shape, Restartable, StepsEarly
<1> QED
  BY <1>3, <1>4, <1>5, <1>6, <1>7, <1>8, <1>9, <1>10, <1>11, <1>12, <1>13, <1>14, <1>15, <1>16, <1>17, <1>18, <1>19, <1>20, <1>21, <1>22, <1>23

-----------------------------------------------------------------------------
(* A run that faults, the run after it and one undisturbed run.            *)

\* Everything is allowed.
AllPages == [q \in 0..Pages |-> "rw"]
Freed(t) == [t EXCEPT !.perm = AllPages]

\* What a program sees of a state.
EndsAs(t, r) ==
  /\ r.A = t.A /\ r.D = t.D /\ r.X = t.X /\ r.NZVC = t.NZVC /\ r.PC = t.PC /\ r.dc = t.dc
  /\ r.mem = t.mem

\* A state has the fields that are compared.
LEMMA StateShaped == ASSUME NEW t \in State PROVE Shaped(t)
<1>1. DOMAIN t = Fields
  BY DEF State, Fields
<1>2. t.mem \in [Memory -> Byte]
  BY DEF State
<1> QED
  BY <1>1, <1>2 DEF Shaped

\* A state with other page tables.
LEMMA FreedOk ==
  ASSUME NEW t \in State
  PROVE  Freed(t) \in State /\ Freed(t).perm = AllPages
<1>1. AllPages \in [0..Pages -> Perms]
  <2>1. "rw" \in Perms
    BY InstrAssumption, Zenon
  <2> QED
    BY <2>1 DEF AllPages
<1> HIDE DEF AllPages
<1> QED
  BY <1>1 DEF Freed, State

\* Where all pages are allowed no access is denied.
LEMMA FreeAllowed ==
  ASSUME NEW t, t.perm = AllPages, NEW w
  PROVE  Allowed(t, ExtWord, w) /\ \A a \in Int : Allowed(t, Wrap(a), w)
<1>1. \A q \in 0..Pages : AllPages[q] = "rw"
  BY DEF AllPages
<1>2. PageOf(ExtWord) \in 0..Pages /\ \A a \in Int : PageOf(Wrap(a)) \in 0..Pages
  BY PagesAre DEF At
<1> HIDE DEF AllPages
<1> QED
  BY <1>1, <1>2 DEF Allowed

\* Where all pages are allowed MOVE16 does not fault.
LEMMA FreeMove16 ==
  ASSUME NEW t, Good(t), ~t.fault, t.perm = AllPages, NEW i
  PROVE  ~Move16(t, i).fault
<1> DEFINE a == Line(Wrap(t.A[0]))
           b == Line(Wrap(t.A[1]))
           r == Read16(t, a, i.other)
           m == Write16(r, b, i.other)
<1>1. t \in State /\ a \in Int /\ b \in Int
  <2>1. t.A[0] \in Int /\ t.A[1] \in Int
    BY AddressIs
  <2> QED
    BY <2>1, LineIs, MemoryInt DEF Good, Safe
<1>2. Fetch(t) = t
  BY FreeAllowed DEF Fetch, Go
<1>3. ~r.fault /\ r.perm = AllPages /\ r.A = t.A
  <2>1. Allowed(t, Wrap(a), FALSE)
    BY <1>1, FreeAllowed
  <2> HIDE DEF a
  <2> QED
    BY <1>1, <2>1 DEF Read16, Go, State
<1>4. r \in State
  <2>1. Bytes(t, a, 4) \in Seq(Byte)
    BY <1>1, BytesAre
  <2>2. Range16(a, 4) \in SUBSET Memory
    BY <1>1, RangeIs
  <2>3. Allowed(t, Wrap(a), FALSE)
    BY <1>1, FreeAllowed
  <2> DEFINE v == Bytes(t, a, 4)
             S == Range16(a, 4)
  <2>4. r = [t EXCEPT !.v = v, !.rd = @ \cup S]
    BY <2>3 DEF Read16, Go
  <2> HIDE DEF v, S, r, a
  <2> QED
    BY <1>1, <2>1, <2>2, <2>4 DEF State, v, S
<1> HIDE DEF r
<1>5. ~m.fault
  <2>1. Allowed(r, Wrap(b), TRUE)
    BY <1>1, <1>3, FreeAllowed
  <2> HIDE DEF b
  <2> QED
    BY <1>3, <1>4, <2>1 DEF Write16, Go, State
<1>6. Move16(t, i) = Go(m, [m EXCEPT !.A[0] = Wrap(@ + 4),
                                     !.A[1] = IF i.f.mode = "incr" THEN Wrap(@ + 4) ELSE @])
  BY <1>2 DEF Move16, Transfer16, r
<1>7. DOMAIN m = DOMAIN r /\ "fault" \in DOMAIN r
  <2>1. Allowed(r, Wrap(b), TRUE)
    BY <1>1, <1>3, FreeAllowed
  <2>2. m = [r EXCEPT !.mem = Put(@, Wrap(b), r.v), !.wr = @ \cup Range16(b, 4)]
    BY <1>3, <2>1 DEF Write16, Go
  <2> HIDE DEF b, m
  <2> QED
    BY <1>4, <2>2 DEF State
<1> HIDE DEF m
<1> QED
  BY <1>5, <1>6, <1>7 DEF Go

\* Where all pages are allowed no handler faults: the record of a fault would name
\* a page that lacks something.
LEMMA FreeHandler ==
  ASSUME NEW t, Good(t), ~t.fault, ~t.lock, t.perm = AllPages, NEW i, Shape(i), Both(t, i.sz)
  PROVE  ~Handler(t, i).fault
<1> DEFINE r == Handler(t, i)
<1>1. CASE i.h = "move16"
  <2>1. r = Move16(t, i)
    BY <1>1 DEF Handler
  <2> QED
    BY <2>1, FreeMove16
<1>2. CASE i.h # "move16"
  <2>1. Proper(t, r, i)
    BY <1>2, HandlerOk
  <2> HIDE DEF r
  <2>2. r.fault => r.perm[Named(r.ssw)] \notin Needed(r.ssw) /\ Named(r.ssw) \in 0..Pages
        /\ r.perm = AllPages
    BY <2>1 DEF Proper, Good, Lacks
  <2>3. \A q \in 0..Pages : AllPages[q] = "rw"
    BY DEF AllPages
  <2> HIDE DEF AllPages
  <2>4. "rw" \in Needed(r.ssw)
    BY DEF Needed
  <2>5. ~r.fault
    BY <2>2, <2>3, <2>4
  <2> QED
    BY <2>5 DEF r
<1> QED
  BY <1>1, <1>2

\* UNLK, before it pops, is good.
LEMMA ReadyGood ==
  ASSUME NEW t, Good(t), ~t.fault, NEW i
  PROVE  Good(Ready(t, i)) /\ Ready(t, i) \in State /\ ~Ready(t, i).fault
<1> DEFINE A7 == [t.A EXCEPT ![7] = t.A[0]]
           x == Unlinked(t)
<1>1. A7 \in [{0, 1, 7} -> Memory]
  BY AddressIs
<1>2. x = [t EXCEPT !.A = A7]
  BY DEF Unlinked
<1> HIDE DEF A7, x
<1>3. Moved(t, x)
  BY <1>1, <1>2, MovedOk
<1>4. Good(x) /\ x \in State
  BY <1>3 DEF Moved, Good, Safe
<1>5. ~x.fault
  BY <1>2 DEF Good, Safe, State
<1> QED
  BY <1>4, <1>5 DEF Ready, x, Good, Safe

\* UNLK has moved the stack pointer when it faults, and no other register.
LEMMA UnlkLeaves ==
  ASSUME NEW t, Good(t), NEW i, Unlk(t, i).fault
  PROVE  Unlk(t, i).A = [t.A EXCEPT ![7] = t.A[0]]
<1> DEFINE A7 == [t.A EXCEPT ![7] = t.A[0]]
           x == [t EXCEPT !.A = A7]
           p == Pop32(x)
<1>1. A7 \in [{0, 1, 7} -> Memory]
  BY AddressIs
<1>2. Unlk(t, i) = Go(p, [p EXCEPT !.A[0] = Wrap(p.v[4])])
  BY DEF Unlk
<1>3. Good(x) /\ x.A = A7
  <2> HIDE DEF A7
  <2>1. Moved(t, x)
    BY <1>1, MovedOk
  <2> QED
    BY <2>1 DEF Moved, Good, Safe, State
<1> HIDE DEF A7, x
<1>4. Popped(x, p, 4)
  BY <1>3, Pop32Ok
<1> HIDE DEF p
<1>5. p.fault
  <2>1. CASE ~p.fault
    <3>1. p \in State /\ Unlk(t, i) = [p EXCEPT !.A[0] = Wrap(p.v[4])]
      BY <1>2, <1>4, <2>1 DEF Go, Popped, Good, Safe
    <3> QED
      BY <2>1, <3>1 DEF State
  <2> QED
    BY <2>1
<1>6. Unlk(t, i) = p
  BY <1>2, <1>5 DEF Go
<1> QED
  BY <1>3, <1>4, <1>5, <1>6 DEF Popped, A7

\* A handler whose restart is exact leaves the address registers as Ready has them.
LEMMA ReadyLeft ==
  ASSUME NEW t, Good(t), ~t.fault, ~t.lock, NEW i, Shape(i), Restartable(i), Both(t, i.sz),
         Handler(t, i).fault
  PROVE  LET r == Handler(t, i) IN
         /\ r.A = Ready(t, i).A
         /\ r.D = t.D /\ r.X = t.X /\ r.PC = t.PC /\ r.dc = t.dc
<1> DEFINE r == Handler(t, i)
<1>1. Left(t, r, i)
  BY HandlerOk DEF Proper, Sane
<1>2. r.D = t.D /\ r.X = t.X /\ r.PC = t.PC /\ r.dc = t.dc
  BY <1>1 DEF Left, Restartable, CarriesEarly, StepsEarly
<1>3. CASE i.h = "unlk"
  <2>1. r = Unlk(t, i) /\ Ready(t, i) = Unlinked(t)
    BY <1>3 DEF Handler, Ready
  <2>2. Unlinked(t).A = [t.A EXCEPT ![7] = t.A[0]]
    BY DEF Unlinked, Good, Safe, State
  <2> QED
    BY <1>2, <2>1, <2>2, UnlkLeaves
<1>4. CASE i.h # "unlk"
  <2>1. Ready(t, i) = t
    BY <1>4 DEF Ready
  <2>2. r.A = t.A
    BY <1>1, <1>4 DEF Left, Restartable, StepsEarly
  <2> QED
    BY <1>2, <2>1, <2>2
<1> QED
  BY <1>3, <1>4

\* Freed of a state that is entered.
LEMMA FreedGood ==
  ASSUME NEW t, Good(t), ~t.fault, t.rd = {}, t.wr = {}
  PROVE  Good(Freed(t)) /\ ~Freed(t).fault /\ Freed(t) \in State
<1> DEFINE r == Freed(t)
<1>1. r \in State
  BY FreedOk DEF Good, Safe
<1>2. r.rd = {} /\ r.wr = {} /\ ~r.fault
  BY DEF Freed, Good, Safe, State
<1> HIDE DEF r
<1> QED
  BY <1>1, <1>2 DEF Good, Safe, Fine, r

\* r: t, in which UNLK has moved the stack pointer.
Readied(t, r, i) ==
  /\ r.A = IF i.h = "unlk" THEN [t.A EXCEPT ![7] = t.A[0]] ELSE t.A
  /\ r.D = t.D /\ r.X = t.X /\ r.NZVC = t.NZVC /\ r.PC = t.PC /\ r.dc = t.dc
  /\ r.mem = t.mem /\ r.perm = t.perm /\ r.EA = t.EA /\ r.lock = t.lock /\ r.fault = t.fault
  /\ r.a = t.a /\ r.u = t.u /\ r.v = t.v

\* Nothing else changes.
LEMMA ReadyFields == ASSUME NEW t \in State, NEW i PROVE Readied(t, Ready(t, i), i)
<1> DEFINE A7 == [t.A EXCEPT ![7] = t.A[0]]
<1>1. Ready(t, i) = IF i.h = "unlk" THEN [t EXCEPT !.A = A7] ELSE t
  BY DEF Ready, Unlinked
<1>2. Readied(t, Ready(t, i), i) <=> Readied(t, IF i.h = "unlk" THEN [t EXCEPT !.A = A7] ELSE t, i)
  BY <1>1
<1> HIDE DEF A7
<1>3. CASE i.h = "unlk"
  BY <1>1, <1>3 DEF Readied, State, A7
<1>4. CASE i.h # "unlk"
  BY <1>1, <1>4 DEF Readied
<1> QED
  BY <1>3, <1>4

\* A handler that is entered, under the page tables and with all pages allowed. k holds
\* nothing; then the third run is the second.
LEMMA FirstRun ==
  ASSUME NEW t, Good(t), ~t.fault, ~t.lock, t.rd = {}, t.wr = {}, NEW i, Shape(i), Restartable(i),
         Both(t, i.sz)
  PROVE  LET r == Handler(t, i) IN
         /\ \A b \in Memory : b \in r.wr \/ r.mem[b] = t.mem[b]
         /\ ~r.fault => EndsAs(r, Handler(Freed(t), i))
<1> DEFINE f == Freed(t)
           p == Ready(t, i)
           x == Ready(f, i)
           k == [was |-> t.mem, wr |-> {}, mem |-> t.mem, NZVC |-> t.NZVC]
           r == Handler(t, i)
           z == Handler(f, i)
<1>1. t \in State /\ f \in State /\ Good(f) /\ ~f.fault
  BY FreedGood DEF Good, Safe
<1>2. f.perm = AllPages /\ f.lock = t.lock /\ f.dc = t.dc /\ f.A = t.A /\ f.D = t.D /\ f.X = t.X
      /\ f.NZVC = t.NZVC /\ f.PC = t.PC /\ f.mem = t.mem /\ f.EA = t.EA /\ f.a = t.a
      /\ f.u = t.u /\ f.v = t.v /\ f.fault = t.fault
  BY <1>1 DEF Freed, State
<1> HIDE DEF f
<1>3. Good(p) /\ p \in State /\ x \in State /\ ~p.fault
  BY <1>1, ReadyGood
<1>4. Shaped(p) /\ Shaped(x)
  BY <1>3, StateShaped
<1>5. Readied(t, p, i) /\ Readied(f, x, i)
  BY <1>1, ReadyFields
<1> HIDE DEF p, x
<1>6. Follows(p, x) /\ Like(x, x) /\ p.mem = t.mem
  BY <1>2, <1>5 DEF Readied, Follows, Like
<1>7. k.was = t.mem /\ k.wr = {}
  OBVIOUS
<1> HIDE DEF k
<1>8. Linked(k, p, x, x)
  BY <1>3, <1>4, <1>6, <1>7 DEF Linked, Before
<1>9. Goes(k, p, x, x, r, z, z)
  BY <1>3, <1>8, HandlerGoes DEF p, x
<1>10. ~z.fault
  BY <1>1, <1>2, FreeHandler DEF Both
<1> HIDE DEF r, z
<1>11. \A b \in Memory : b \in r.wr \/ r.mem[b] = t.mem[b]
  BY <1>7, <1>9 DEF Goes, Linked
<1>12. ASSUME ~r.fault PROVE EndsAs(r, z)
  <2>1. Tied(k, r, z)
    BY <1>7, <1>10, <1>12 DEF Tied, Clean
  <2> QED
    BY <1>9, <1>12, <2>1 DEF Goes, Linked, Before, Follows, EndsAs
<1> QED
  BY <1>11, <1>12 DEF r, z, f

\* The handler again, from what a fault left: with all pages allowed it ends as if
\* there had been no fault.
LEMMA SecondRun ==
  ASSUME NEW t, Good(t), ~t.fault, ~t.lock, t.rd = {}, t.wr = {}, t = Enter(t),
         NEW i, Shape(i), Restartable(i), Both(t, i.sz),
         LET r == Handler(t, i) IN r.fault /\ r.rd \cap r.wr = {}
  PROVE  EndsAs(Handler(Freed(Enter(Caught(Handler(t, i)))), i), Handler(Freed(t), i))
<1> DEFINE r == Handler(t, i)
           f == Freed(t)
           g == Freed(Enter(Caught(r)))
           p == Ready(t, i)
           x == Ready(f, i)
           y == Ready(g, i)
           k == [was |-> t.mem, wr |-> r.wr, mem |-> r.mem, NZVC |-> r.NZVC]
           z == Handler(f, i)
           z2 == Handler(g, i)
<1>1. t \in State /\ f \in State /\ Good(f) /\ ~f.fault
  BY FreedGood DEF Good, Safe
<1>2. f.perm = AllPages /\ f.lock = FALSE /\ f.dc = t.dc /\ f.A = t.A /\ f.D = t.D /\ f.X = t.X
      /\ f.NZVC = t.NZVC /\ f.PC = t.PC /\ f.mem = t.mem /\ f.EA = 0 /\ f.a = 0
      /\ f.u = << >> /\ f.v = << >> /\ f.fault = FALSE
  <2>1. t.EA = 0 /\ t.a = 0 /\ t.u = << >> /\ t.v = << >>
    <3>1. Enter(t).EA = 0 /\ Enter(t).a = 0 /\ Enter(t).u = << >> /\ Enter(t).v = << >>
      BY <1>1 DEF Enter, State
    <3> QED
      BY <3>1
  <2>2. t.lock = FALSE /\ t.fault = FALSE
    BY <1>1 DEF State
  <2> QED
    BY <1>1, <2>1, <2>2 DEF Freed, State
<1> HIDE DEF f
<1>3. r \in State /\ (\A b \in Memory : b \in r.wr \/ r.mem[b] = t.mem[b])
  <2>1. r \in State
    BY HandlerOk DEF Proper, Sane, Good, Safe
  <2> QED
    BY <2>1, FirstRun
<1>4. r.A = p.A /\ r.D = t.D /\ r.X = t.X /\ r.PC = t.PC /\ r.dc = t.dc
  BY ReadyLeft
<1>5. r.fault /\ r.rd \cap r.wr = {}
  OBVIOUS
<1> HIDE DEF r
<1>6. g \in State /\ g.perm = AllPages /\ g.lock = FALSE /\ g.dc = r.dc /\ g.A = r.A /\ g.D = r.D
      /\ g.X = r.X /\ g.NZVC = r.NZVC /\ g.PC = r.PC /\ g.mem = r.mem /\ g.EA = 0 /\ g.a = 0
      /\ g.u = << >> /\ g.v = << >> /\ g.fault = FALSE
  <2> DEFINE c == Caught(r)
             e == Enter(c)
  <2>1. c \in State /\ c = [r EXCEPT !.lock = FALSE]
    BY <1>3 DEF Caught, State
  <2>2. c.lock = FALSE /\ c.dc = r.dc /\ c.A = r.A /\ c.D = r.D /\ c.X = r.X /\ c.NZVC = r.NZVC
        /\ c.PC = r.PC /\ c.mem = r.mem
    BY <1>3 DEF Caught, State
  <2> HIDE DEF c
  <2>3. e \in State
    BY <2>1, EnterOk DEF Good, Safe
  <2>4. e.lock = FALSE /\ e.dc = r.dc /\ e.A = r.A /\ e.D = r.D /\ e.X = r.X /\ e.NZVC = r.NZVC
        /\ e.PC = r.PC /\ e.mem = r.mem /\ e.EA = 0 /\ e.a = 0 /\ e.u = << >> /\ e.v = << >>
        /\ e.fault = FALSE
    BY <2>1, <2>2 DEF Enter, State
  <2> HIDE DEF e
  <2>5. Freed(e) \in State /\ Freed(e).perm = AllPages
    BY <2>3, FreedOk
  <2> QED
    BY <2>3, <2>4, <2>5 DEF Freed, State, e, c
<1> HIDE DEF g
<1>7. Good(p) /\ p \in State /\ ~p.fault /\ x \in State /\ y \in State
  <2>1. y \in State
    <3> DEFINE A7 == [g.A EXCEPT ![7] = g.A[0]]
    <3>1. A7 \in [{0, 1, 7} -> Memory]
      BY <1>6 DEF State
    <3> HIDE DEF A7
    <3>2. y = IF i.h = "unlk" THEN [g EXCEPT !.A = A7] ELSE g
      BY DEF Ready, Unlinked, A7
    <3> HIDE DEF y
    <3> QED
      BY <1>6, <3>1, <3>2 DEF State
  <2> QED
    BY <1>1, <2>1, ReadyGood
<1>8. Shaped(p) /\ Shaped(x) /\ Shaped(y)
  BY <1>7, StateShaped
<1>9. Readied(t, p, i) /\ Readied(f, x, i) /\ Readied(g, y, i)
  BY <1>1, <1>6, ReadyFields
<1>10. t.EA = 0 /\ t.a = 0 /\ t.u = << >> /\ t.v = << >> /\ t.lock = FALSE
      /\ t.A \in [{0, 1, 7} -> Memory]
  <2>1. Enter(t).EA = 0 /\ Enter(t).a = 0 /\ Enter(t).u = << >> /\ Enter(t).v = << >>
    BY <1>1 DEF Enter, State
  <2> QED
    BY <1>1, <2>1 DEF State
<1> HIDE DEF p, x, y
<1>11. x.A = p.A /\ y.A = p.A /\ p.mem = t.mem /\ x.mem = t.mem /\ y.mem = r.mem /\ y.NZVC = r.NZVC
  BY <1>2, <1>4, <1>6, <1>9, <1>10 DEF Readied
<1>12. Follows(p, x)
  <2>1. x.D = p.D /\ x.X = p.X /\ x.NZVC = p.NZVC /\ x.PC = p.PC /\ x.dc = p.dc
    BY <1>2, <1>9 DEF Readied
  <2>2. x.EA = p.EA /\ x.a = p.a /\ x.u = p.u /\ x.v = p.v
    BY <1>2, <1>9, <1>10 DEF Readied
  <2>3. x.lock = p.lock
    BY <1>2, <1>9, <1>10, Zenon DEF Readied
  <2> QED
    BY <1>11, <2>1, <2>2, <2>3 DEF Follows
<1>13. Like(x, y)
  <2>1. y.D = x.D /\ y.X = x.X /\ y.PC = x.PC /\ y.dc = x.dc /\ y.perm = x.perm
    BY <1>2, <1>4, <1>6, <1>9 DEF Readied
  <2>2. y.EA = x.EA /\ y.a = x.a /\ y.u = x.u /\ y.v = x.v
    BY <1>2, <1>6, <1>9 DEF Readied
  <2>3. y.lock = x.lock /\ y.fault = x.fault
    BY <1>2, <1>6, <1>9, Zenon DEF Readied
  <2> QED
    BY <1>11, <2>1, <2>2, <2>3 DEF Like
<1>14. k.was = t.mem /\ k.wr = r.wr /\ k.mem = r.mem /\ k.NZVC = r.NZVC
  OBVIOUS
<1> HIDE DEF k
<1>15. Linked(k, p, x, y)
  BY <1>3, <1>7, <1>8, <1>11, <1>12, <1>13, <1>14 DEF Linked, Before
<1>16. Goes(k, p, x, y, r, z, z2)
  BY <1>7, <1>15, HandlerGoes DEF p, x, y, r
<1>17. ~z.fault
  BY <1>1, <1>2, FreeHandler DEF Both
<1> HIDE DEF z, z2
<1>18. Tied(k, r, z)
  BY <1>5, <1>14, <1>17 DEF Tied, Clean
<1>19. Twin(z, z2)
  BY <1>5, <1>16, <1>18 DEF Goes, Linked
<1>20. EndsAs(z2, z)
  BY <1>19 DEF Twin, Like, EndsAs
<1> QED
  BY <1>20 DEF z, z2, f, g, r

\* The end of the instruction from t on, if every page were allowed.
Undisturbed(t) == Handler(Freed(t), job)

\* While a restartable instruction runs, is denied pages and runs again, an undisturbed
\* run from where it stands would end as one from its start.
RInv ==
  ~torn /\ Restartable(job) =>
     IF phase = "done" THEN EndsAs(s, Undisturbed(first))
     ELSE EndsAs(Undisturbed(Enter(s)), Undisturbed(first))

\* A state that is entered anew.
LEMMA EnterFields ==
  ASSUME NEW t \in State
  PROVE  /\ Enter(t) \in State /\ Good(Enter(t)) /\ ~Enter(t).fault /\ Enter(t).rd = {} /\ Enter(t).wr = {}
         /\ Enter(t).lock = t.lock /\ Enter(t).dc = t.dc /\ Enter(t) = Enter(Enter(t))
<1> DEFINE r == Enter(t)
<1>1. Good(r) /\ ~r.fault /\ r.lock = t.lock /\ r.dc = t.dc /\ r \in State
  BY EnterOk DEF Good, Safe
<1>2. r.rd = {} /\ r.wr = {} /\ r.EA = 0 /\ r.fault = FALSE /\ r.a = 0 /\ r.u = << >> /\ r.v = << >>
  BY DEF Enter, State
<1> HIDE DEF r
<1>3. Enter(r) = r
  BY <1>1, <1>2 DEF Enter, State
<1> QED
  BY <1>1, <1>2, <1>3 DEF r

\* The first state is one that a handler is entered with.
LEMMA InitRInv == Init => RInv
<1> SUFFICES ASSUME Init PROVE RInv
  OBVIOUS
<1>1. phase = "run" /\ first = s /\ s \in State
  BY InitIInv DEF Init, IInv
<1>2. PICK a0 \in Operands, perm \in [0..Pages -> Perms], tt \in Old(job) :
        s = [StateOf(job, a0, perm) EXCEPT !.ssw.tt = tt]
  BY DEF Init
<1>3. s.EA = 0 /\ s.fault = FALSE /\ s.a = 0 /\ s.u = << >> /\ s.v = << >> /\ s.rd = {} /\ s.wr = {}
  <2> DEFINE z == StateOf(job, a0, perm)
  <2>1. z.EA = 0 /\ z.fault = FALSE /\ z.a = 0 /\ z.u = << >> /\ z.v = << >> /\ z.rd = {} /\ z.wr = {}
        /\ {"EA", "fault", "a", "u", "v", "rd", "wr"} \subseteq DOMAIN z
    BY DEF StateOf
  <2>2. s = [z EXCEPT !.ssw.tt = tt]
    BY <1>2
  <2> HIDE DEF z
  <2> QED
    BY <2>1, <2>2
<1>4. Enter(s) = s
  BY <1>1, <1>3 DEF Enter, State
<1> QED
  BY <1>1, <1>4 DEF RInv, EndsAs

\* A run of the handler.
LEMMA RunRInv == ASSUME IInv, RInv, RunOp PROVE RInv'
<1> DEFINE b == Enter(s)
           t == Handler(b, job)
<1> SUFFICES ASSUME ~torn', Restartable(job') PROVE
      IF phase' = "done" THEN EndsAs(s', Undisturbed(first)')
      ELSE EndsAs(Undisturbed(Enter(s))', Undisturbed(first)')
  BY DEF RInv
<1>1. phase = "run" /\ job' = job /\ first' = first
      /\ (IF t.fault THEN phase' = "fault" /\ s' = Caught(t) /\ torn' = (torn \/ t.rd \cap t.wr # {})
          ELSE phase' = "done" /\ s' = t /\ torn' = torn)
  BY DEF RunOp
<1>2. s \in State /\ job \in Instrs /\ Both(s, job.sz) /\ ~s.lock /\ Shape(job) /\ Restartable(job)
  BY <1>1, Shapes DEF IInv
<1>3. Good(b) /\ ~b.fault /\ b.rd = {} /\ b.wr = {} /\ ~b.lock /\ Both(b, job.sz) /\ b = Enter(b)
  BY <1>2, EnterFields DEF Both
<1>4. ~torn /\ (t.fault => t.rd \cap t.wr = {})
  BY <1>1
<1>5. EndsAs(Handler(Freed(b), job), Undisturbed(first))
  BY <1>1, <1>2, <1>4 DEF RInv, Undisturbed
<1> HIDE DEF b
<1>6. CASE t.fault
  <2>1. EndsAs(Handler(Freed(Enter(Caught(t))), job), Handler(Freed(b), job))
    BY <1>2, <1>3, <1>4, <1>6, SecondRun
  <2>2. Undisturbed(Enter(s))' = Handler(Freed(Enter(Caught(t))), job)
        /\ Undisturbed(first)' = Undisturbed(first)
    BY <1>1, <1>6 DEF Undisturbed
  <2> HIDE DEF t
  <2>3. EndsAs(Undisturbed(Enter(s))', Undisturbed(first)')
    BY <1>5, <2>1, <2>2 DEF EndsAs
  <2> QED
    BY <1>1, <1>6, <2>3
<1>7. CASE ~t.fault
  <2>1. EndsAs(t, Handler(Freed(b), job))
    BY <1>2, <1>3, <1>7, FirstRun
  <2>2. Undisturbed(first)' = Undisturbed(first)
    BY <1>1 DEF Undisturbed
  <2>3. s' = t /\ phase' = "done"
    BY <1>1, <1>7
  <2> HIDE DEF t
  <2>4. EndsAs(s', Undisturbed(first)')
    BY <1>5, <2>1, <2>2, <2>3 DEF EndsAs
  <2> QED
    BY <2>3, <2>4
<1> QED
  BY <1>6, <1>7

\* The pager changes nothing that an undisturbed run would see.
LEMMA PagerRInv == ASSUME IInv, RInv, NEW x \in Perms, Pager(x) PROVE RInv'
<1> DEFINE p == Named(s.ssw)
           q == [s.perm EXCEPT ![p] = IF s.ssw.other \/ @ = "rw" THEN @ ELSE x]
<1>1. s \in State /\ s.lock = FALSE /\ phase = "fault" /\ phase' = "run"
      /\ job' = job /\ first' = first /\ torn' = torn
  BY DEF IInv, Pager, State
<1>2. s' = [s EXCEPT !.lock = FALSE, !.ssw = s.ssw, !.fault = FALSE,
                     !.perm[p] = IF s.ssw.other \/ @ = "rw" THEN @ ELSE x]
  BY <1>1 DEF Pager
<1>3. s' = [s EXCEPT !.fault = FALSE, !.perm = q]
  BY <1>1, <1>2 DEF State
<1> HIDE DEF q
<1>4. Freed(Enter(s')) = Freed(Enter(s))
  BY <1>1, <1>3 DEF Freed, Enter, State
<1>5. Undisturbed(Enter(s))' = Undisturbed(Enter(s)) /\ Undisturbed(first)' = Undisturbed(first)
  BY <1>1, <1>4 DEF Undisturbed
<1> QED
  BY <1>1, <1>5 DEF RInv

\* The invariant is inductive, given the first one.
LEMMA NextRInv == IInv /\ RInv /\ [Next]_vars => RInv'
<1> SUFFICES ASSUME IInv, RInv, [Next]_vars PROVE RInv'
  OBVIOUS
<1>1. CASE RunOp
  BY <1>1, RunRInv
<1>2. ASSUME NEW x \in Perms, Pager(x) PROVE RInv'
  BY <1>2, PagerRInv
<1>3. CASE UNCHANGED vars
  BY <1>3 DEF RInv, vars, Undisturbed
<1> QED
  BY <1>1, <1>2, <1>3 DEF Next

\* An instruction that was denied pages, however often, ends as one that was not: with
\* its registers, condition codes and memory. So it is for every handler of op.cc but those
\* that step an address register or are in StepsEarly, if no run that faulted had
\* written over what it had read.
THEOREM AlwaysRestartsExact == Spec => []RestartsExact
<1>1. RInv => RestartsExact
  BY DEF RInv, RestartsExact, Undisturbed, Freed, AllPages, EndsAs, Restartable
<1> QED
  BY <1>1, InitRInv, NextRInv, AlwaysIInv, PTL DEF Spec
=============================================================================
