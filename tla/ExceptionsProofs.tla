-------------------------- MODULE ExceptionsProofs --------------------------
(***************************************************************************)
(* Exceptions lie whole on the stack and RTE gives back what each of them  *)
(* interrupted, for every program, set of exceptions and depth of nesting, *)
(* as long as no exception was taken of which the code is known not to     *)
(* return.                                                                 *)
(*                                                                         *)
(* The argument is about where the frames lie. Until then M is what the    *)
(* program was started with, so all the frames are on one stack, and each  *)
(* was pushed where that stack ended when its exception came: its end is   *)
(* the stack pointer it interrupted, at most MaxPush words below the frame *)
(* under it.  A handler stays in the words below the newest frame, so the  *)
(* words RTE reads are those that were pushed, and RTE leaves the stack    *)
(* pointer where the frame below, or the program, has it.                  *)
(***************************************************************************)
EXTENDS Exceptions, SequenceTheorems, TLAPS

Word == {<<"data">>} \cup ({"lo", "hi", "fmt"} \X Nat) \cup ({"sr"} \X Sr)
        \cup ({"ssw"} \X BOOLEAN)

CpuSet == [A7 : Int, USP : Int, MSP : Int, ISP : Int, S : BOOLEAN, M : BOOLEAN,
           T : 0..2, I : 0..7, PC : Nat \X Nat, oldpc : Nat \X Nat,
           mem : [Addr -> Word]]

FrameSet == [kind : Kinds \cup {"irq"}, sr : Sr, pc : Nat \X Nat, A7 : Int,
             USP : Int, MSP : Int, ISP : Int, at : Int]

Size(n) == IF n = "afault" THEN 30
           ELSE IF n \in {"addr", "chk", "trace"} THEN 6 ELSE 4
FormatOf(n) == IF n = "afault" THEN 7
               ELSE IF n \in {"addr", "chk", "trace"} THEN 2 ELSE 0

\* Of the two stacks of the supervisor: the one in use, and the other.
Base(M) == IF M THEN MasterBase ELSE InterruptBase
Sp(r, M) == IF M THEN r.MSP ELSE r.ISP
Other(r, M) == IF M THEN r.ISP ELSE r.MSP

\* What one exception adds to the stack at most.
Room == 30 + MaxPush

\* The frame of x is in memory.
Whole(c, x) ==
  /\ c.mem[x.at] = <<"sr", x.sr>>
  /\ c.mem[x.at + 2] = <<"lo", x.pc[2]>>
  /\ c.mem[x.at + 3] = <<"fmt", FormatOf(x.kind)>>

\* What RTE will set is what x interrupted.
Resumes(c, x) ==
  /\ x.sr.M = c.M
  /\ x.at + Size(x.kind) = Sp(x, c.M)
  /\ x.A7 = (IF x.sr.S THEN Sp(x, c.M) ELSE x.USP)
  /\ x.USP = c.USP
  /\ Other(x, c.M) = Other(c, c.M)
  /\ x.pc[1] = 0 /\ x.kind # "fp"

\* Where the stack was when the frame i was pushed: at the frame below it, or
\* at the base, or above the words the interrupted handler had pushed.
Under(c, s, i) == IF i = Len(s) THEN Base(c.M) ELSE s[i + 1].at

Placed(c, s, i) ==
  /\ Under(c, s, i) - MaxPush <= Sp(s[i], c.M)
  /\ Sp(s[i], c.M) <= Under(c, s, i)
  /\ ~s[i].sr.S => i = Len(s) /\ Sp(s[i], c.M) = Base(c.M)
  /\ s[i].at >= Base(c.M) - (Len(s) + 1 - i) * Room
  /\ Sp(s[i], c.M) <= Base(c.M)

Frames(c, s) ==
  /\ s \in Seq(FrameSet) /\ Len(s) <= MaxDepth
  /\ \A i \in 1..Len(s) : Whole(c, s[i]) /\ Resumes(c, s[i]) /\ Placed(c, s, i)
  /\ \A i, j \in 1..Len(s) : i < j => Sp(s[i], c.M) <= s[j].at

\* What runs now has its own words below the newest frame.
Running(c, s) ==
  IF Len(s) > 0
  THEN c.S /\ s[1].at - MaxPush <= c.A7 /\ c.A7 <= s[1].at
  ELSE IF c.S THEN Base(c.M) - MaxPush <= c.A7 /\ c.A7 <= Base(c.M)
  ELSE Sp(c, c.M) = Base(c.M)

Good(c, s) == c \in CpuSet /\ Frames(c, s) /\ Running(c, s)

IInv == derailed \in BOOLEAN /\ (~derailed => Good(cpu, ctx))

-----------------------------------------------------------------------------
(* The words of the frames.                                                *)

\* The words of a frame are memory words: a frame may be pushed (ex_PUSH16).
LEMMA WordsTyped ==
  /\ <<"data">> \in Word
  /\ \A ct \in BOOLEAN : <<"ssw", ct>> \in Word
  /\ \A n \in Nat : <<"fmt", n>> \in Word /\ <<"lo", n>> \in Word /\ <<"hi", n>> \in Word
  /\ \A sr \in Sr : <<"sr", sr>> \in Word
BY Zenon DEF Word

\* 26 words lie above the last four of an access fault frame.
LEMMA FaultHead ==
  ASSUME NEW S, NEW d \in S, NEW ssw \in S
  PROVE  /\ [i \in 1..18 |-> d] \o <<d, d>> \o [i \in 1..3 |-> d] \o <<ssw>> \o <<d, d>>
              \in Seq(S)
         /\ Len([i \in 1..18 |-> d] \o <<d, d>> \o [i \in 1..3 |-> d] \o <<ssw>> \o <<d, d>>)
              = 26
OBVIOUS

\* Where the last four words of a frame are.
LEMMA LastFour ==
  ASSUME NEW S, NEW p \in Seq(S), NEW f \in S, NEW lo \in S, NEW hi \in S, NEW sr \in S
  PROVE  /\ p \o <<f>> \o <<lo, hi>> \o <<sr>> \in Seq(S)
         /\ Len(p \o <<f>> \o <<lo, hi>> \o <<sr>>) = Len(p) + 4
         /\ (p \o <<f>> \o <<lo, hi>> \o <<sr>>)[Len(p) + 4] = sr
         /\ (p \o <<f>> \o <<lo, hi>> \o <<sr>>)[Len(p) + 2] = lo
         /\ (p \o <<f>> \o <<lo, hi>> \o <<sr>>)[Len(p) + 1] = f
OBVIOUS

Words(c, n, ct) == IF n = "irq" THEN Frame0(c.PC, GetSR(c)) ELSE Frame(c, n, ct)

\* The words RTE reads of a frame are the status register, the low half of the
\* program counter and the format, counted from the word pushed last.
LEMMA FrameWords ==
  ASSUME NEW c \in CpuSet, NEW n \in (Kinds \cup {"irq"}) \ {"fp"}, NEW ct \in BOOLEAN
  PROVE  LET w == Words(c, n, ct) IN
         /\ w \in Seq(Word)
         /\ Len(w) = Size(n)
         /\ w[Size(n)] = <<"sr", GetSR(c)>>
         /\ w[Size(n) - 2] = <<"lo", Resume(c, n)[2]>>
         /\ w[Size(n) - 3] = <<"fmt", FormatOf(n)>>
<1> DEFINE w == Words(c, n, ct)
           sr == GetSR(c)
           pc == Resume(c, n)
           data == <<"data">>
           f == <<"fmt", FormatOf(n)>>
           lo == <<"lo", pc[2]>>
           hi == <<"hi", pc[1]>>
           st == <<"sr", sr>>
           ssw == <<"ssw", ct>>
<1>1. /\ data \in Word /\ f \in Word /\ lo \in Word /\ hi \in Word /\ st \in Word
      /\ ssw \in Word
  <2>1. sr \in Sr
    BY DEF CpuSet, GetSR, Sr
  <2>2. pc[1] \in Nat /\ pc[2] \in Nat
    BY DEF CpuSet, Resume
  <2>3. FormatOf(n) \in Nat
    BY DEF FormatOf
  <2> HIDE DEF pc, sr
  <2> QED
    BY <2>1, <2>2, <2>3, WordsTyped
<1>2. CASE n \in {"illegal", "trap", "irq"}
  <2>1. w = <<f>> \o <<lo, hi>> \o <<st>>
    BY <1>2 DEF Words, Frame, Resume, Frame0, Format, FormatOf, Pc, Status
  <2>2. Size(n) = 4
    BY <1>2 DEF Size
  <2> HIDE DEF w, f, lo, hi, st
  <2>3. /\ w \in Seq(Word) /\ Len(w) = 4
        /\ w[4] = st /\ w[2] = lo /\ w[1] = f
    BY <1>1, <2>1
  <2> QED
    BY <2>2, <2>3 DEF w, f, lo, st
<1>3. CASE n \in {"addr", "chk", "trace"}
  <2>1. w = <<data, data>> \o <<f>> \o <<lo, hi>> \o <<st>>
    BY <1>3 DEF Words, Frame, Resume, FrameOf, Long, Format, FormatOf, Pc
  <2>2. Size(n) = 6
    BY <1>3 DEF Size
  <2> HIDE DEF w, data, f, lo, hi, st
  <2>3. /\ w \in Seq(Word) /\ Len(w) = 6
        /\ w[6] = st /\ w[4] = lo /\ w[3] = f
    BY <1>1, <2>1
  <2> QED
    BY <2>2, <2>3 DEF w, f, lo, st
<1>4. CASE n = "afault"
  <2> DEFINE p == [i \in 1..18 |-> data] \o <<data, data>> \o [i \in 1..3 |-> data]
                  \o <<ssw>> \o <<data, data>>
  <2>1. w = p \o <<f>> \o <<lo, hi>> \o <<st>>
    BY <1>4 DEF Words, Frame, Resume, FrameFault, Long, Format, FormatOf, Pc, Status
  <2>2. Size(n) = 30
    BY <1>4 DEF Size
  <2> HIDE DEF w, data, ssw, f, lo, hi, st
  <2>3. p \in Seq(Word) /\ Len(p) = 26
    BY <1>1, FaultHead, Zenon
  <2> HIDE DEF p
  <2>4. /\ p \o <<f>> \o <<lo, hi>> \o <<st>> \in Seq(Word)
        /\ Len(p \o <<f>> \o <<lo, hi>> \o <<st>>) = Len(p) + 4
        /\ (p \o <<f>> \o <<lo, hi>> \o <<st>>)[Len(p) + 4] = st
        /\ (p \o <<f>> \o <<lo, hi>> \o <<st>>)[Len(p) + 2] = lo
        /\ (p \o <<f>> \o <<lo, hi>> \o <<st>>)[Len(p) + 1] = f
    <3>1. p \in Seq(Word)
      BY <2>3
    <3> QED
      BY <1>1, <3>1, LastFour
  <2>5. /\ w \in Seq(Word) /\ Len(w) = Len(p) + 4
        /\ w[Len(p) + 4] = st /\ w[Len(p) + 2] = lo /\ w[Len(p) + 1] = f
    BY <2>1, <2>4, Zenon
  <2>6. Len(p) = 26
    BY <2>3
  <2>7. Len(w) = 30 /\ w[30] = st /\ w[28] = lo /\ w[27] = f
    BY <2>5, <2>6
  <2>8. w \in Seq(Word)
    BY <2>5
  <2> QED
    BY <2>2, <2>7, <2>8 DEF w, f, lo, st
<1> QED
  BY <1>2, <1>3, <1>4 DEF Kinds

-----------------------------------------------------------------------------
(* Where the frames lie.                                                   *)

\* A frame put on the list is the newest; the others keep their order.
LEMMA Newest ==
  ASSUME NEW S, NEW s \in Seq(S), NEW x \in S
  PROVE  LET t == <<x>> \o s IN
         /\ t \in Seq(S) /\ t # <<>>
         /\ Len(s) \in Nat /\ Len(t) = Len(s) + 1
         /\ t[1] = x
         /\ \A i \in 2..Len(s) + 1 : t[i] = s[i - 1]
         /\ s = <<>> <=> Len(s) = 0
<1>1. Len(s) \in Nat /\ (s = <<>> <=> Len(s) = 0)
  BY EmptySeq, LenProperties
<1> QED
  BY <1>1

\* The newest frame is taken off the list.
LEMMA Older ==
  ASSUME NEW S, NEW s \in Seq(S), s # <<>>
  PROVE  /\ Len(s) \in Nat \ {0}
         /\ Head(s) = s[1] /\ s[1] \in S
         /\ Tail(s) \in Seq(S) /\ Len(Tail(s)) = Len(s) - 1
         /\ \A i \in 1..Len(s) - 1 : Tail(s)[i] = s[i + 1]
         /\ Tail(s) = <<>> <=> Len(s) = 1
<1>1. Len(s) \in Nat \ {0} /\ Tail(s) \in Seq(S) /\ Len(Tail(s)) = Len(s) - 1
  BY EmptySeq
<1>2. Tail(s) = <<>> <=> Len(Tail(s)) = 0
  BY <1>1, EmptySeq
<1> QED
  BY <1>1, <1>2

\* The stacks have room for MaxDepth exceptions.
LEMMA EnoughRoom ==
  ASSUME NEW n \in 0..MaxDepth
  PROVE  /\ Room \in Nat /\ n * Room \in Nat
         /\ n * Room <= StackWords
         /\ (n + 1) * Room = n * Room + Room
<1>1. Room \in Nat /\ MaxDepth \in Nat /\ n \in Nat
  BY ExceptionsAssumption DEF Room
<1>2. n * Room \in Nat /\ (n + 1) * Room = n * Room + Room
  BY <1>1
<1>3. \A a, b, r \in Nat : a <= b => a * r <= b * r
  OBVIOUS
<1>4. MaxDepth * Room <= StackWords
  BY ExceptionsAssumption DEF Room
<1>5. n * Room <= MaxDepth * Room
  BY <1>1, <1>3
<1>6. MaxDepth * Room \in Nat /\ StackWords \in Nat
  BY <1>1, ExceptionsAssumption
<1> QED
  BY <1>1, <1>2, <1>4, <1>5, <1>6

\* A word within that room is in memory.
LEMMA InMemory ==
  ASSUME NEW M \in BOOLEAN, NEW n \in 0..MaxDepth, NEW a \in Int,
         a >= Base(M) - n * Room, a < Base(M)
  PROVE  a \in Addr
<1>1. n * Room \in Nat /\ n * Room <= StackWords
  BY EnoughRoom
<1> DEFINE r == n * Room
<1>2. r \in Nat /\ r <= StackWords /\ a >= Base(M) - r
  BY <1>1
<1> HIDE DEF r
<1> QED
  BY <1>2, ExceptionsAssumption DEF Base, Addr, InterruptBase, MasterBase, UserBase

\* The types of a frame's fields.
LEMMA FrameTyped ==
  ASSUME NEW x \in FrameSet, NEW M \in BOOLEAN
  PROVE  /\ x.at \in Int /\ x.A7 \in Int /\ x.USP \in Int
         /\ x.MSP \in Int /\ x.ISP \in Int /\ Sp(x, M) \in Int
         /\ x.sr \in Sr /\ x.pc \in Nat \X Nat
         /\ Size(x.kind) \in {4, 6, 30}
         /\ Base(M) \in Int
BY ExceptionsAssumption
   DEF FrameSet, Sp, Size, Base, InterruptBase, MasterBase, UserBase

\* All the words of the frames that RTE reads are in memory, and no frame lies
\* below the newest.
LEMMA Places ==
  ASSUME NEW c \in CpuSet, NEW s, Frames(c, s), NEW i \in 1..Len(s)
  PROVE  /\ s[i].at \in Addr /\ s[i].at + 2 \in Addr /\ s[i].at + 3 \in Addr
         /\ 1 \in 1..Len(s)
         /\ s[1].at <= s[i].at
         /\ s[i].at < Sp(s[i], c.M) /\ Sp(s[i], c.M) <= Base(c.M)
<1>1. /\ s \in Seq(FrameSet) /\ Len(s) <= MaxDepth /\ Len(s) \in Nat
      /\ MaxDepth \in Nat /\ c.M \in BOOLEAN
  BY LenProperties, ExceptionsAssumption DEF Frames, CpuSet
<1>2. 1 \in 1..Len(s) /\ s[i] \in FrameSet /\ s[1] \in FrameSet
  BY <1>1
<1>3. Resumes(c, s[i]) /\ Placed(c, s, i) /\ Resumes(c, s[1])
  BY <1>2 DEF Frames
<1>4. /\ s[i].at \in Int /\ Sp(s[i], c.M) \in Int /\ Size(s[i].kind) \in {4, 6, 30}
      /\ s[1].at \in Int /\ Sp(s[1], c.M) \in Int /\ Size(s[1].kind) \in {4, 6, 30}
      /\ Base(c.M) \in Int
  BY <1>1, <1>2, FrameTyped
<1>5. s[i].at + Size(s[i].kind) = Sp(s[i], c.M) /\ s[1].at + Size(s[1].kind) = Sp(s[1], c.M)
  BY <1>3 DEF Resumes
<1>6. Sp(s[i], c.M) <= Base(c.M) /\ s[i].at >= Base(c.M) - (Len(s) + 1 - i) * Room
  BY <1>3 DEF Placed
<1>7. Len(s) + 1 - i \in 0..MaxDepth
  BY <1>1
<1>8. \A a \in Int : s[i].at <= a /\ a < Sp(s[i], c.M) => a \in Addr
  <2> TAKE a \in Int
  <2> HAVE s[i].at <= a /\ a < Sp(s[i], c.M)
  <2> DEFINE r == (Len(s) + 1 - i) * Room
  <2>1. r \in Nat
    BY <1>7, EnoughRoom
  <2>2. s[i].at >= Base(c.M) - r
    BY <1>6
  <2> HIDE DEF r
  <2>3. a >= Base(c.M) - r /\ a < Base(c.M)
    BY <1>4, <1>6, <2>1, <2>2
  <2> QED
    BY <1>1, <1>7, <2>3, InMemory DEF r
<1>9. s[1].at <= s[i].at
  <2>1. CASE i = 1
    BY <1>4, <2>1
  <2>2. CASE i # 1
    <3>1. Sp(s[1], c.M) <= s[i].at
      BY <1>1, <1>2, <2>2 DEF Frames
    <3> QED
      BY <1>4, <1>5, <3>1
  <2> QED
    BY <2>1, <2>2
<1>10. /\ s[i].at + 2 \in Int /\ s[i].at + 3 \in Int
       /\ s[i].at < Sp(s[i], c.M) /\ s[i].at + 2 < Sp(s[i], c.M) /\ s[i].at + 3 < Sp(s[i], c.M)
       /\ s[i].at <= s[i].at /\ s[i].at <= s[i].at + 2 /\ s[i].at <= s[i].at + 3
  BY <1>4, <1>5
<1>11. s[i].at \in Addr /\ s[i].at + 2 \in Addr /\ s[i].at + 3 \in Addr
  BY <1>4, <1>8, <1>10
<1> QED
  BY <1>2, <1>6, <1>9, <1>10, <1>11

\* Frames stay as they are while nothing is written from the newest one up.
LEMMA FramesKept ==
  ASSUME NEW c \in CpuSet, NEW d \in CpuSet, NEW s, Frames(c, s),
         d.M = c.M,
         Len(s) > 0 => /\ d.USP = c.USP /\ Other(d, c.M) = Other(c, c.M)
                       /\ \A a \in Addr : a >= s[1].at => d.mem[a] = c.mem[a]
  PROVE  Frames(d, s)
<1>1. s \in Seq(FrameSet) /\ Len(s) <= MaxDepth /\ Len(s) \in Nat
  BY LenProperties DEF Frames
<1>2. ASSUME NEW i \in 1..Len(s)
      PROVE  Whole(d, s[i]) /\ Resumes(d, s[i]) /\ Placed(d, s, i)
  <2>1. Len(s) > 0 /\ s[i] \in FrameSet /\ s[1] \in FrameSet
    BY <1>1, EmptySeq
  <2>2. Whole(c, s[i]) /\ Resumes(c, s[i]) /\ Placed(c, s, i)
    BY DEF Frames
  <2>3. /\ s[i].at \in Addr /\ s[i].at + 2 \in Addr /\ s[i].at + 3 \in Addr
        /\ s[1].at <= s[i].at
    BY Places
  <2>4. s[1].at \in Int /\ s[i].at \in Int
    BY <2>1 DEF FrameSet
  <2>5. s[i].at + 2 >= s[1].at /\ s[i].at + 3 >= s[1].at /\ s[i].at >= s[1].at
    BY <2>3, <2>4
  <2>6. Whole(d, s[i])
    BY <2>1, <2>2, <2>3, <2>5 DEF Whole
  <2>7. Resumes(d, s[i])
    BY <2>1, <2>2 DEF Resumes
  <2>8. Placed(d, s, i)
    BY <2>2 DEF Placed, Under
  <2> QED
    BY <2>6, <2>7, <2>8
<1>3. \A i, j \in 1..Len(s) : i < j => Sp(s[i], d.M) <= s[j].at
  BY DEF Frames
<1> QED
  BY <1>1, <1>2, <1>3 DEF Frames

\* x is the frame by which exception n left c for d.
Left(c, d, n, x) ==
  /\ x.kind = n /\ x.sr = GetSR(c) /\ x.pc = Resume(c, n) /\ x.A7 = c.A7
  /\ x.USP = c.USP /\ x.MSP = c.MSP /\ x.ISP = c.ISP /\ x.at = d.A7
  /\ d.S = TRUE /\ d.M = c.M
  /\ d.USP = c.USP /\ d.MSP = c.MSP /\ d.ISP = c.ISP
  /\ d.A7 = Sp(c, c.M) - Size(n)

\* An exception adds its frame below the others, if A7 was saved.
LEMMA FramePushed ==
  ASSUME NEW c \in CpuSet, NEW d \in CpuSet, NEW n \in (Kinds \cup {"irq"}) \ {"fp"},
         NEW s, NEW x \in FrameSet,
         Good(c, s), Len(s) < MaxDepth, Left(c, d, n, x),
         c.A7 = Shadow(c), x.pc[1] = 0,
         x.at \in Addr /\ x.at + 2 \in Addr /\ x.at + 3 \in Addr => Whole(d, x),
         \A a \in Addr : a >= Sp(c, c.M) => d.mem[a] = c.mem[a]
  PROVE  Good(d, <<x>> \o s)
<1> DEFINE t == <<x>> \o s
           top == Sp(c, c.M)
<1>1. /\ s \in Seq(FrameSet) /\ Len(s) \in Nat /\ MaxDepth \in Nat /\ MaxPush \in Nat
      /\ Frames(c, s) /\ Running(c, s) /\ c.M \in BOOLEAN /\ c.S \in BOOLEAN
  BY LenProperties, ExceptionsAssumption DEF Good, Frames, CpuSet
<1>2. /\ t \in Seq(FrameSet) /\ t # <<>> /\ Len(t) = Len(s) + 1
      /\ t[1] = x /\ \A i \in 2..Len(s) + 1 : t[i] = s[i - 1]
        BY <1>1, Newest
<1> HIDE DEF t
<1>3. /\ top \in Int /\ Base(c.M) \in Int /\ x.at \in Int /\ Size(n) \in {4, 6, 30}
      /\ Sp(x, c.M) = top /\ x.at = top - Size(n)
  <2>1. top \in Int
    BY <1>1 DEF Sp, CpuSet
  <2>2. Sp(x, c.M) = top
    BY DEF Left, Sp
  <2> QED
    BY <1>1, <2>1, <2>2, FrameTyped DEF Left
<1>4. x.sr.S = c.S /\ x.sr.M = c.M
  BY DEF Left, GetSR
<1> HIDE DEF top
<1>5. Len(s) = 0 => /\ top <= Base(c.M)
                    /\ Base(c.M) - MaxPush <= top
                    /\ ~c.S => top = Base(c.M)
  BY <1>1, <1>3 DEF Running, Shadow, Sp, top
<1>6. Len(s) > 0 => c.S /\ s[1].at - MaxPush <= top /\ top <= s[1].at
  BY <1>1, <1>3 DEF Running, Shadow, Sp, top
<1>7. ASSUME NEW i \in 1..Len(s)
      PROVE  /\ Len(s) > 0 /\ s[i] \in FrameSet /\ s[i].at \in Int /\ top <= s[i].at
             /\ s[1].at \in Int /\ s[i].at < Base(c.M)
  <2>1. Len(s) > 0 /\ s[i] \in FrameSet /\ s[1] \in FrameSet
    BY <1>1, EmptySeq
  <2>2. s[i].at \in Int /\ s[1].at \in Int /\ Sp(s[i], c.M) \in Int
    BY <1>1, <2>1, FrameTyped
  <2>3. s[1].at <= s[i].at /\ s[i].at < Sp(s[i], c.M) /\ Sp(s[i], c.M) <= Base(c.M)
    BY <1>1, Places
  <2> QED
    BY <1>3, <1>6, <2>1, <2>2, <2>3
<1>8. top <= Base(c.M)
  <2>1. CASE Len(s) = 0
    BY <1>3, <1>5, <2>1
  <2>2. CASE Len(s) > 0
    <3>1. 1 \in 1..Len(s)
      BY <1>1, <1>2, <2>2
    <3> QED
      BY <1>3, <1>7, <3>1
  <2> QED
    BY <2>1, <2>2
<1>9. x.at >= Base(c.M) - (Len(s) + 1) * Room
  <2>1. Len(s) \in 0..MaxDepth /\ Room \in Nat /\ Room = 30 + MaxPush
    BY <1>1, EnoughRoom DEF Room
  <2> DEFINE r == Len(s) * Room
  <2>2. r \in Nat /\ (Len(s) + 1) * Room = r + Room
    BY <2>1, EnoughRoom
  <2> HIDE DEF r
  <2>3. CASE Len(s) = 0
    BY <1>1, <1>3, <1>5, <2>1, <2>2, <2>3
  <2>4. CASE Len(s) > 0
    <3>1. 1 \in 1..Len(s) /\ Len(s) + 1 - 1 = Len(s)
      BY <1>1, <1>2, <2>4
    <3>2. s[1].at >= Base(c.M) - r
      BY <1>1, <3>1 DEF Frames, Placed, r
    <3>3. s[1].at \in Int
      BY <1>7, <3>1
    <3> QED
      BY <1>1, <1>3, <1>6, <2>1, <2>2, <2>4, <3>2, <3>3
  <2> QED
    BY <2>3, <2>4
<1>10. Whole(d, x)
  <2>1. Len(s) + 1 \in 0..MaxDepth /\ c.M \in BOOLEAN
    BY <1>1
  <2> DEFINE r == (Len(s) + 1) * Room
  <2>2. r \in Nat
    BY <2>1, EnoughRoom
  <2>3. x.at >= Base(c.M) - r
    BY <1>9
  <2> HIDE DEF r
  <2>4. \A a \in {x.at, x.at + 2, x.at + 3} :
          a \in Int /\ a >= Base(c.M) - r /\ a < Base(c.M)
    BY <1>3, <1>8, <2>2, <2>3
  <2>5. \A a \in {x.at, x.at + 2, x.at + 3} : a \in Addr
    BY <2>1, <2>4, InMemory DEF r
  <2> QED
    BY <2>5
<1>11. Frames(d, s)
  <2>1. d.M = c.M /\ d.USP = c.USP /\ Other(d, c.M) = Other(c, c.M)
    BY DEF Left, Other
  <2>2. Len(s) > 0 => \A a \in Addr : a >= s[1].at => d.mem[a] = c.mem[a]
    <3>1. \A a \in Addr : a \in Int
      BY ExceptionsAssumption DEF Addr
    <3>2. Len(s) > 0 => s[1].at \in Int
      BY <1>1, <1>2, <1>7
    <3>3. \A a \in Addr : Len(s) > 0 /\ a >= s[1].at => a >= top
      BY <1>3, <1>6, <3>1, <3>2
    <3> QED
      BY <3>3 DEF top
  <2> QED
    BY <1>1, <2>1, <2>2, FramesKept
<1>12. ASSUME NEW i \in 2..Len(s) + 1
       PROVE  Whole(d, t[i]) /\ Resumes(d, t[i]) /\ Placed(d, t, i)
  <2>1. i - 1 \in 1..Len(s) /\ t[i] = s[i - 1]
    BY <1>1, <1>2
  <2>2. Whole(d, s[i - 1]) /\ Resumes(d, s[i - 1]) /\ Placed(d, s, i - 1)
    BY <1>11, <2>1 DEF Frames
  <2>3. Under(d, t, i) = Under(d, s, i - 1)
    <3>1. i = Len(t) <=> i - 1 = Len(s)
      BY <1>1, <1>2
    <3>2. (i + 1) - 1 = i /\ (i - 1) + 1 = i /\ (i # Len(t) => i + 1 \in 2..Len(s) + 1)
      BY <1>1, <1>2
    <3>3. i # Len(t) => t[i + 1] = s[i]
      BY <1>2, <3>2
    <3> QED
      BY <3>1, <3>2, <3>3 DEF Under
  <2>4. /\ Len(t) + 1 - i = Len(s) + 1 - (i - 1)
        /\ i = Len(t) <=> i - 1 = Len(s)
    BY <1>1, <1>2
  <2> QED
    BY <2>1, <2>2, <2>3, <2>4 DEF Placed
<1>13. Resumes(d, x)
  <2>1. x.A7 = IF x.sr.S THEN Sp(x, c.M) ELSE x.USP
    BY <1>1, <1>4 DEF Left, Shadow, Sp
  <2>2. x.at + Size(x.kind) = Sp(x, c.M)
    BY <1>3 DEF Left
  <2>3. x.USP = d.USP /\ Other(x, c.M) = Other(d, c.M) /\ x.kind # "fp" /\ d.M = c.M
    BY DEF Left, Other
  <2> QED
    BY <1>4, <2>1, <2>2, <2>3 DEF Resumes
<1>14. Placed(d, t, 1)
  <2>1. Under(d, t, 1) = IF Len(s) = 0 THEN Base(c.M) ELSE s[1].at
    <3>1. 2 \in 2..Len(s) + 1 <=> Len(s) > 0
      BY <1>1, <1>2
    <3> QED
      BY <1>1, <1>2, <3>1 DEF Under, Left
  <2>2. Under(d, t, 1) - MaxPush <= top /\ top <= Under(d, t, 1)
    <3>1. CASE Len(s) = 0
      BY <1>3, <1>5, <2>1, <3>1
    <3>2. CASE Len(s) > 0
      BY <1>1, <1>3, <1>6, <2>1, <3>2
    <3> QED
      BY <3>1, <3>2
  <2>3. ~x.sr.S => 1 = Len(t) /\ top = Base(c.M)
    <3>1. ~x.sr.S => Len(s) = 0
      BY <1>4, <1>6
    <3>2. Len(s) = 0 => Len(t) = 1
      BY <1>2
    <3> QED
      BY <1>3, <1>4, <1>5, <3>1, <3>2
  <2>5. Len(t) + 1 - 1 = Len(s) + 1
    BY <1>1, <1>2
  <2> QED
    BY <1>2, <1>3, <1>8, <2>2, <2>3, <2>5, <1>9 DEF Placed, Left
<1>15. \A i, j \in 1..Len(t) : i < j => Sp(t[i], d.M) <= t[j].at
  <2> TAKE i, j \in 1..Len(t)
  <2> HAVE i < j
  <2>1. j - 1 \in 1..Len(s) /\ t[j] = s[j - 1] /\ d.M = c.M
    BY <1>1, <1>2 DEF Left
  <2>2. CASE i = 1
    BY <1>2, <1>3, <1>7, <2>1, <2>2
  <2>3. CASE i # 1
    <3>1. i - 1 \in 1..Len(s) /\ t[i] = s[i - 1] /\ i - 1 < j - 1
      BY <1>1, <1>2, <2>3
    <3> QED
      BY <1>1, <2>1, <3>1 DEF Frames
  <2> QED
    BY <2>2, <2>3
<1>16. Frames(d, t)
  <2>1. ASSUME NEW i \in 1..Len(t)
        PROVE  Whole(d, t[i]) /\ Resumes(d, t[i]) /\ Placed(d, t, i)
    <3>1. CASE i = 1
      BY <1>2, <1>10, <1>13, <1>14, <3>1
    <3>2. CASE i # 1
      <4>1. i \in 2..Len(s) + 1
        BY <1>1, <1>2, <3>2
      <4> QED
        BY <1>12, <4>1
    <3> QED
      BY <3>1, <3>2
  <2> QED
    BY <1>1, <1>2, <1>15, <2>1 DEF Frames
<1>17. Running(d, t)
  BY <1>1, <1>2, <1>3 DEF Running, Left
<1> QED
  BY <1>16, <1>17 DEF Good, t

-----------------------------------------------------------------------------
(* What the operations do to the registers and the memory.                 *)

\* The registers and the saved status of a running program have their types.
LEMMA RegistersTyped ==
  ASSUME NEW c \in CpuSet
  PROVE  /\ c.A7 \in Int /\ c.USP \in Int /\ c.MSP \in Int /\ c.ISP \in Int
         /\ c.S \in BOOLEAN /\ c.M \in BOOLEAN /\ c.T \in 0..2 /\ c.I \in 0..7
         /\ c.PC \in Nat \X Nat /\ c.oldpc \in Nat \X Nat
         /\ c.mem \in [Addr -> Word]
         /\ GetSR(c) \in Sr /\ Shadow(c) \in Int /\ Sp(c, c.M) \in Int
BY DEF CpuSet, GetSR, Sr, Shadow, Sp

\* The registers other than A7.
Same(c, d) ==
  /\ d.S = c.S /\ d.M = c.M /\ d.T = c.T /\ d.I = c.I
  /\ d.USP = c.USP /\ d.MSP = c.MSP /\ d.ISP = c.ISP
  /\ d.PC = c.PC /\ d.oldpc = c.oldpc

\* PUSH16 writes its words below A7 and nothing else.
LEMMA PushWrites ==
  ASSUME NEW c \in CpuSet, NEW w \in Seq(Word)
  PROVE  /\ Push(c, w) \in CpuSet
         /\ Push(c, w).A7 = c.A7 - Len(w)
         /\ Same(c, Push(c, w))
         /\ \A a \in Addr : a >= c.A7 => Push(c, w).mem[a] = c.mem[a]
         /\ \A k \in 1..Len(w) : c.A7 - k \in Addr => Push(c, w).mem[c.A7 - k] = w[k]
<1>1. c.A7 \in Int /\ c.mem \in [Addr -> Word] /\ Len(w) \in Nat
  BY RegistersTyped, LenProperties
<1>2. \A a \in Addr : a \in Int
  BY ExceptionsAssumption DEF Addr
<1> DEFINE m == [a \in Addr |-> IF a \in (c.A7 - Len(w))..(c.A7 - 1)
                                THEN w[c.A7 - a] ELSE c.mem[a]]
<1>3. Push(c, w) = [c EXCEPT !.A7 = c.A7 - Len(w), !.mem = m]
  BY DEF Push
<1>4. m \in [Addr -> Word]
  <2>1. ASSUME NEW a \in Addr
        PROVE  (IF a \in (c.A7 - Len(w))..(c.A7 - 1) THEN w[c.A7 - a] ELSE c.mem[a]) \in Word
    <3>1. CASE a \in (c.A7 - Len(w))..(c.A7 - 1)
      <4>1. c.A7 - a \in 1..Len(w)
        BY <1>1, <1>2, <3>1
      <4>2. w[c.A7 - a] \in Word
        BY <4>1
      <4> QED
        BY <3>1, <4>2
    <3>2. CASE a \notin (c.A7 - Len(w))..(c.A7 - 1)
      BY <1>1, <3>2
    <3> QED
      BY <3>1, <3>2
  <2> QED
    BY <2>1
<1>5. \A a \in Addr : a >= c.A7 => m[a] = c.mem[a]
  BY <1>1, <1>2
<1>6. \A k \in 1..Len(w) : c.A7 - k \in Addr => m[c.A7 - k] = w[k]
  <2> TAKE k \in 1..Len(w)
  <2> HAVE c.A7 - k \in Addr
  <2>1. c.A7 - k \in (c.A7 - Len(w))..(c.A7 - 1) /\ c.A7 - (c.A7 - k) = k
    BY <1>1
  <2> QED
    BY <2>1
<1> HIDE DEF m
<1>7. Push(c, w) \in CpuSet
  <2> DEFINE a7 == c.A7 - Len(w)
  <2>1. a7 \in Int
    BY <1>1
  <2> HIDE DEF a7
  <2>2. [c EXCEPT !.A7 = a7, !.mem = m] \in CpuSet
    BY <1>4, <2>1 DEF CpuSet
  <2> QED
    BY <1>3, <2>2 DEF a7
<1>8. Push(c, w).A7 = c.A7 - Len(w) /\ Push(c, w).mem = m
  BY <1>3 DEF CpuSet
<1>9. Same(c, Push(c, w))
  BY <1>3 DEF CpuSet, Same
<1> QED
  BY <1>5, <1>6, <1>7, <1>8, <1>9

\* POP16 forgets the words above A7 and writes nothing else.
LEMMA PopForgets ==
  ASSUME NEW c \in CpuSet, NEW n \in Nat
  PROVE  /\ Pop(c, n) \in CpuSet
         /\ Pop(c, n).A7 = c.A7 + n
         /\ Same(c, Pop(c, n))
         /\ \A a \in Addr : a >= c.A7 + n => Pop(c, n).mem[a] = c.mem[a]
<1>1. c.A7 \in Int /\ c.mem \in [Addr -> Word]
  BY RegistersTyped
<1>2. \A a \in Addr : a \in Int
  BY ExceptionsAssumption DEF Addr
<1> DEFINE m == [a \in Addr |-> IF a \in c.A7..(c.A7 + n - 1)
                                THEN <<"data">> ELSE c.mem[a]]
<1>3. Pop(c, n) = [c EXCEPT !.A7 = c.A7 + n, !.mem = m]
  BY DEF Pop
<1>4. m \in [Addr -> Word]
  BY <1>1, WordsTyped
<1>5. \A a \in Addr : a >= c.A7 + n => m[a] = c.mem[a]
  BY <1>1, <1>2
<1> HIDE DEF m
<1>7. Pop(c, n) \in CpuSet
  <2> DEFINE a7 == c.A7 + n
  <2>1. a7 \in Int
    BY <1>1
  <2> HIDE DEF a7
  <2>2. [c EXCEPT !.A7 = a7, !.mem = m] \in CpuSet
    BY <1>4, <2>1 DEF CpuSet
  <2> QED
    BY <1>3, <2>2 DEF a7
<1>8. Pop(c, n).A7 = c.A7 + n /\ Pop(c, n).mem = m
  BY <1>3 DEF CpuSet
<1>9. Same(c, Pop(c, n))
  BY <1>3 DEF CpuSet, Same
<1> QED
  BY <1>5, <1>7, <1>8, <1>9

\* SetSR saves A7 in its shadow and loads the shadow of the new mode.
LEMMA SetSRMoves ==
  ASSUME NEW c \in CpuSet, NEW v \in Sr, v.M = c.M, c.S
  PROVE  /\ SetSR(c, v) \in CpuSet
         /\ GetSR(SetSR(c, v)) = v
         /\ SetSR(c, v).S = v.S /\ SetSR(c, v).M = c.M
         /\ Sp(SetSR(c, v), c.M) = c.A7
         /\ Other(SetSR(c, v), c.M) = Other(c, c.M)
         /\ SetSR(c, v).USP = c.USP
         /\ SetSR(c, v).A7 = (IF v.S THEN c.A7 ELSE c.USP)
         /\ SetSR(c, v).PC = c.PC /\ SetSR(c, v).oldpc = c.oldpc
         /\ SetSR(c, v).mem = c.mem
<1>1. v.S \in BOOLEAN /\ v.M \in BOOLEAN /\ v.T \in 0..2 /\ v.I \in 0..7
      /\ v = [S |-> v.S, M |-> v.M, T |-> v.T, I |-> v.I]
  BY DEF Sr
<1>2. c.M \in BOOLEAN /\ c.S \in BOOLEAN
  BY DEF CpuSet
<1> DEFINE e == SaveSP(c)
           f == [e EXCEPT !.S = v.S, !.M = v.M, !.T = v.T, !.I = v.I]
<1>3. /\ e \in CpuSet
      /\ Sp(e, c.M) = c.A7 /\ Other(e, c.M) = Other(c, c.M) /\ e.USP = c.USP
      /\ e.PC = c.PC /\ e.oldpc = c.oldpc /\ e.mem = c.mem /\ e.A7 = c.A7
  <2>1. CASE c.M
    BY <1>2, <2>1 DEF SaveSP, CpuSet, Sp, Other
  <2>2. CASE ~c.M
    BY <1>2, <2>2 DEF SaveSP, CpuSet, Sp, Other
  <2> QED
    BY <1>2, <2>1, <2>2
<1> HIDE DEF e
<1>4. /\ f \in CpuSet /\ f.S = v.S /\ f.M = v.M /\ f.T = v.T /\ f.I = v.I
      /\ f.USP = e.USP /\ f.MSP = e.MSP /\ f.ISP = e.ISP
      /\ f.PC = e.PC /\ f.oldpc = e.oldpc /\ f.mem = e.mem
  BY <1>1, <1>3 DEF CpuSet
<1>5. SetSR(c, v) = LoadSP(f)
  BY DEF SetSR, e
<1> HIDE DEF f
<1>6. Shadow(f) = IF v.S THEN c.A7 ELSE c.USP
  BY <1>1, <1>2, <1>3, <1>4 DEF Shadow, Sp
<1>7. Shadow(f) \in Int
  BY <1>4, RegistersTyped
<1>8. /\ LoadSP(f) \in CpuSet /\ LoadSP(f).A7 = Shadow(f)
      /\ Same(f, LoadSP(f)) /\ LoadSP(f).mem = f.mem
  BY <1>4, <1>7 DEF LoadSP, CpuSet, Same
<1>9. GetSR(SetSR(c, v)) = v
  BY <1>1, <1>4, <1>5, <1>8 DEF GetSR, Same
<1>10. Sp(SetSR(c, v), c.M) = c.A7 /\ Other(SetSR(c, v), c.M) = Other(c, c.M)
  BY <1>3, <1>4, <1>5, <1>8 DEF Sp, Other, Same
<1> QED
  BY <1>1, <1>3, <1>4, <1>5, <1>6, <1>8, <1>9, <1>10 DEF Same

\* handle_exception runs on the stack of the supervisor in use.
LEMMA Enters ==
  ASSUME NEW c \in CpuSet
  PROVE  /\ Enter(c) \in CpuSet
         /\ Enter(c).A7 = Sp(c, c.M) /\ Enter(c).S = TRUE /\ Enter(c).M = c.M
         /\ Enter(c).USP = c.USP /\ Enter(c).MSP = c.MSP /\ Enter(c).ISP = c.ISP
         /\ Enter(c).mem = c.mem
<1> DEFINE e == [c EXCEPT !.S = TRUE]
<1>1. /\ e \in CpuSet /\ e.S = TRUE /\ e.M = c.M /\ e.mem = c.mem
      /\ e.USP = c.USP /\ e.MSP = c.MSP /\ e.ISP = c.ISP
  BY DEF CpuSet
<1>2. Enter(c) = [LoadSP(e) EXCEPT !.T = 0]
  BY DEF Enter
<1> HIDE DEF e
<1>3. Shadow(e) = Sp(c, c.M) /\ Shadow(e) \in Int
  BY <1>1, RegistersTyped DEF Shadow, Sp
<1>4. /\ LoadSP(e) \in CpuSet /\ LoadSP(e).A7 = Shadow(e)
      /\ Same(e, LoadSP(e)) /\ LoadSP(e).mem = e.mem
  BY <1>1, <1>3 DEF LoadSP, CpuSet, Same
<1> DEFINE f == LoadSP(e)
<1> HIDE DEF f
<1>5. [f EXCEPT !.T = 0] \in CpuSet /\ Enter(c) = [f EXCEPT !.T = 0] /\ f \in CpuSet
  BY <1>2, <1>4 DEF CpuSet, f
<1>6. f.A7 = Shadow(e) /\ Same(e, f) /\ f.mem = e.mem
  BY <1>4 DEF f
<1> QED
  BY <1>1, <1>3, <1>5, <1>6 DEF CpuSet, Same

-----------------------------------------------------------------------------
(* An exception is taken, and RTE returns from one.                        *)

Record(c, d, n) ==
  [kind |-> n, sr |-> GetSR(c), pc |-> Resume(c, n), A7 |-> c.A7, USP |-> c.USP,
   MSP |-> c.MSP, ISP |-> c.ISP, at |-> d.A7]

\* The words of an exception, pushed on the stack of the supervisor, are a frame
\* below the others. e: the registers after handle_exception's LoadSP.
LEMMA FrameTaken ==
  ASSUME NEW c \in CpuSet, NEW e \in CpuSet, NEW n \in Kinds \cup {"irq"},
         NEW ct \in BOOLEAN, NEW s,
         Good(c, s), Len(s) < MaxDepth, Orderly(c, n, Resume(c, n)),
         e.A7 = Sp(c, c.M), e.S = TRUE, e.M = c.M, e.USP = c.USP, e.MSP = c.MSP,
         e.ISP = c.ISP, e.mem = c.mem
  PROVE  LET d == Vector(Push(e, Words(c, n, ct))) IN Good(d, <<Record(c, d, n)>> \o s)
<1> DEFINE w == Words(c, n, ct)
           p == Push(e, w)
           d == Vector(p)
           x == Record(c, d, n)
<1>1. /\ n \in (Kinds \cup {"irq"}) \ {"fp"} /\ c.A7 = Shadow(c)
      /\ Resume(c, n)[1] = 0
  BY DEF Orderly
<1>2. /\ w \in Seq(Word) /\ Len(w) = Size(n)
      /\ w[Size(n)] = <<"sr", GetSR(c)>>
      /\ w[Size(n) - 2] = <<"lo", Resume(c, n)[2]>>
      /\ w[Size(n) - 3] = <<"fmt", FormatOf(n)>>
  BY <1>1, FrameWords
<1> HIDE DEF w
<1>3. /\ p \in CpuSet /\ p.A7 = e.A7 - Len(w) /\ Same(e, p)
      /\ \A a \in Addr : a >= e.A7 => p.mem[a] = e.mem[a]
      /\ \A k \in 1..Len(w) : e.A7 - k \in Addr => p.mem[e.A7 - k] = w[k]
  BY <1>2, PushWrites
<1> HIDE DEF p
<1>4. d \in CpuSet /\ d.A7 = p.A7 /\ d.mem = p.mem /\ d.S = p.S /\ d.M = p.M
      /\ d.USP = p.USP /\ d.MSP = p.MSP /\ d.ISP = p.ISP
  BY <1>3, ExceptionsAssumption DEF Vector, CpuSet
<1> HIDE DEF d
<1>5. x \in FrameSet
  BY <1>1, <1>4, RegistersTyped DEF Record, FrameSet, Resume
<1>6. /\ x.kind = n /\ x.sr = GetSR(c) /\ x.pc = Resume(c, n) /\ x.A7 = c.A7
      /\ x.USP = c.USP /\ x.MSP = c.MSP /\ x.ISP = c.ISP /\ x.at = d.A7
  BY DEF Record
<1> HIDE DEF x
<1>7. Size(n) \in {4, 6, 30} /\ e.A7 \in Int
  BY RegistersTyped DEF Size
<1>8. Left(c, d, n, x)
  BY <1>2, <1>3, <1>4, <1>6 DEF Left, Same
<1>9. x.at \in Addr /\ x.at + 2 \in Addr /\ x.at + 3 \in Addr => Whole(d, x)
  <2>1. /\ x.at = e.A7 - Size(n)
        /\ x.at + 2 = e.A7 - (Size(n) - 2)
        /\ x.at + 3 = e.A7 - (Size(n) - 3)
        /\ Size(n) \in 1..Size(n) /\ Size(n) - 2 \in 1..Size(n) /\ Size(n) - 3 \in 1..Size(n)
    BY <1>2, <1>3, <1>4, <1>6, <1>7
  <2> QED
    BY <1>2, <1>3, <1>4, <1>6, <2>1 DEF Whole
<1>10. \A a \in Addr : a >= Sp(c, c.M) => d.mem[a] = c.mem[a]
  BY <1>3, <1>4
<1>11. Good(d, <<x>> \o s)
  BY <1>1, <1>4, <1>5, <1>6, <1>8, <1>9, <1>10, FramePushed
<1> QED
  BY <1>11 DEF x, d, p, w

\* The frames under the newest are frames.
LEMMA FramesUnder ==
  ASSUME NEW c \in CpuSet, NEW s, Frames(c, s), Len(s) > 0
  PROVE  /\ Frames(c, Tail(s))
         /\ Len(Tail(s)) = Len(s) - 1
         /\ Len(s) > 1 => Tail(s)[1] = s[2]
<1>1. s \in Seq(FrameSet) /\ Len(s) \in Nat /\ s # <<>> /\ Len(s) <= MaxDepth
      /\ MaxDepth \in Nat
  BY EmptySeq, LenProperties, ExceptionsAssumption DEF Frames
<1> DEFINE t == Tail(s)
<1>2. /\ t \in Seq(FrameSet) /\ Len(t) = Len(s) - 1
      /\ \A i \in 1..Len(s) - 1 : t[i] = s[i + 1]
  BY <1>1, Older
<1> HIDE DEF t
<1>3. ASSUME NEW i \in 1..Len(t)
      PROVE  Whole(c, t[i]) /\ Resumes(c, t[i]) /\ Placed(c, t, i)
  <2>1. i + 1 \in 1..Len(s) /\ t[i] = s[i + 1]
    BY <1>1, <1>2
  <2>2. Whole(c, s[i + 1]) /\ Resumes(c, s[i + 1]) /\ Placed(c, s, i + 1)
    BY <2>1 DEF Frames
  <2>3. /\ i = Len(t) <=> i + 1 = Len(s)
        /\ Len(t) + 1 - i = Len(s) + 1 - (i + 1)
        /\ i # Len(t) => i + 1 \in 1..Len(s) - 1
    <3>1. Len(s) \in Nat /\ Len(t) = Len(s) - 1 /\ i \in 1..Len(s) - 1
      BY <1>1, <1>2
    <3> QED
      BY <3>1
  <2>4. Under(c, t, i) = Under(c, s, i + 1)
    BY <1>2, <2>3 DEF Under
  <2>5. (Len(t) + 1 - i) * Room = (Len(s) + 1 - (i + 1)) * Room
    BY <2>3
  <2>6. Placed(c, t, i)
    BY <2>1, <2>2, <2>3, <2>4, <2>5 DEF Placed
  <2> QED
    BY <2>1, <2>2, <2>6
<1>4. \A i, j \in 1..Len(t) : i < j => Sp(t[i], c.M) <= t[j].at
  <2> TAKE i, j \in 1..Len(t)
  <2> HAVE i < j
  <2>1. i + 1 \in 1..Len(s) /\ j + 1 \in 1..Len(s) /\ i + 1 < j + 1
        /\ t[i] = s[i + 1] /\ t[j] = s[j + 1]
    BY <1>1, <1>2
  <2> QED
    BY <2>1 DEF Frames
<1>5. Len(t) <= MaxDepth
  BY <1>1, <1>2
<1>6. Frames(c, t)
  BY <1>2, <1>3, <1>4, <1>5 DEF Frames
<1>7. Len(s) > 1 => t[1] = s[2]
  BY <1>1, <1>2
<1> QED
  BY <1>2, <1>6, <1>7 DEF t

\* RTE at the newest frame gives back the registers it was pushed with, and the
\* frames under it are as they were.
LEMMA Returns ==
  ASSUME NEW c \in CpuSet, NEW s, Good(c, s), Len(s) > 0, c.A7 = s[1].at
  PROVE  LET r == Returned(c)  x == s[1] IN
         /\ Good(r, Tail(s))
         /\ GetSR(r) = x.sr /\ r.PC = x.pc
         /\ r.A7 = x.A7 /\ r.USP = x.USP /\ r.MSP = x.MSP /\ r.ISP = x.ISP
<1> DEFINE x == s[1]
           n == Size(x.kind)
           p == Pop(c, n)
           q == SetSR(p, x.sr)
           r == Returned(c)
<1>1. /\ Frames(c, s) /\ Running(c, s) /\ s \in Seq(FrameSet) /\ Len(s) \in Nat
      /\ 1 \in 1..Len(s) /\ MaxPush \in Nat
  BY LenProperties, ExceptionsAssumption DEF Good, Frames
<1>2. x \in FrameSet /\ Whole(c, x) /\ Resumes(c, x) /\ Placed(c, s, 1) /\ c.S
  BY <1>1 DEF Frames, Running
<1> HIDE DEF x
<1>3. /\ c.A7 = x.at /\ c.M \in BOOLEAN
      /\ x.at \in Int /\ n \in {4, 6, 30} /\ n \in Nat /\ Base(c.M) \in Int
      /\ x.sr \in Sr /\ x.pc \in Nat \X Nat /\ Sp(x, c.M) \in Int
  <2>1. c.A7 = x.at
    BY DEF x
  <2> QED
    BY <1>2, <2>1, FrameTyped, RegistersTyped
<1>4. r = [q EXCEPT !.PC = x.pc]
  <2>1. Field(c, 0) = x.sr /\ Field(c, 2) = x.pc[2] /\ Field(c, 3) = FormatOf(x.kind)
    BY <1>2, <1>3 DEF Field, Whole
  <2>2. <<0, x.pc[2]>> = x.pc
    BY <1>2, <1>3 DEF Resumes
  <2>3. n = IF FormatOf(x.kind) = 7 THEN 4 + 26
            ELSE IF FormatOf(x.kind) \in {2, 3} THEN 4 + 2 ELSE 4
    BY DEF Size, FormatOf
  <2>4. FormatOf(x.kind) # 3 /\ FormatOf(x.kind) # 1
    BY DEF FormatOf
  <2>5. r = TakeDown(c)
    BY <2>1, <2>4 DEF Returned
  <2> HIDE DEF r, n
  <2>6. TakeDown(c) = [SetSR(Pop(c, n), x.sr) EXCEPT !.PC = x.pc]
    BY <2>1, <2>2, <2>3 DEF TakeDown
  <2> QED
    BY <2>5, <2>6
<1> HIDE DEF r
<1>5. /\ p \in CpuSet /\ p.A7 = c.A7 + n /\ Same(c, p)
      /\ \A a \in Addr : a >= c.A7 + n => p.mem[a] = c.mem[a]
  BY <1>3, PopForgets
<1> HIDE DEF p
<1>6. /\ q \in CpuSet /\ GetSR(q) = x.sr /\ q.S = x.sr.S /\ q.M = p.M
      /\ Sp(q, p.M) = p.A7 /\ Other(q, p.M) = Other(p, p.M) /\ q.USP = p.USP
      /\ q.A7 = (IF x.sr.S THEN p.A7 ELSE p.USP) /\ q.mem = p.mem
  <2>1. x.sr.M = p.M /\ p.S
    BY <1>2, <1>5 DEF Resumes, Same
  <2> QED
    BY <1>3, <1>5, <2>1, SetSRMoves
<1> HIDE DEF q
<1>7. /\ r \in CpuSet /\ r.PC = x.pc
      /\ r.S = q.S /\ r.M = q.M /\ r.T = q.T /\ r.I = q.I
      /\ r.A7 = q.A7 /\ r.USP = q.USP /\ r.MSP = q.MSP /\ r.ISP = q.ISP
      /\ r.mem = q.mem
  BY <1>3, <1>4, <1>6 DEF CpuSet
<1>8. GetSR(r) = x.sr
  BY <1>6, <1>7 DEF GetSR
<1>9. /\ p.A7 = Sp(x, c.M) /\ p.M = c.M /\ p.USP = c.USP /\ r.M = c.M
      /\ Sp(r, c.M) = Sp(x, c.M) /\ Other(r, c.M) = Other(x, c.M)
      /\ Other(r, c.M) = Other(c, c.M)
      /\ r.USP = x.USP /\ r.USP = c.USP /\ r.A7 = x.A7 /\ r.S = x.sr.S
  <2>1. p.A7 = Sp(x, c.M)
    BY <1>2, <1>3, <1>5 DEF Resumes
  <2>2. p.M = c.M /\ p.USP = c.USP /\ Other(p, c.M) = Other(c, c.M)
    BY <1>5 DEF Same, Other
  <2>3. Sp(r, c.M) = Sp(q, c.M) /\ Other(r, c.M) = Other(q, c.M)
    BY <1>7 DEF Sp, Other
  <2> QED
    BY <1>2, <1>6, <1>7, <2>1, <2>2, <2>3 DEF Resumes
<1>10. r.MSP = x.MSP /\ r.ISP = x.ISP
  BY <1>3, <1>9 DEF Sp, Other
<1>11. Frames(r, Tail(s))
  <2>1. Frames(c, Tail(s)) /\ Len(Tail(s)) = Len(s) - 1 /\ (Len(s) > 1 => Tail(s)[1] = s[2])
    BY <1>1, FramesUnder
  <2>2. ASSUME Len(s) > 1
        PROVE  \A a \in Addr : a >= Tail(s)[1].at => r.mem[a] = c.mem[a]
    <3>1. s[2] \in FrameSet /\ 2 \in 1..Len(s) /\ Sp(x, c.M) <= s[2].at
      BY <1>1, <2>2 DEF Frames, x
    <3>2. s[2].at \in Int /\ c.A7 + n = Sp(x, c.M)
      BY <1>2, <1>3, <3>1, FrameTyped DEF Resumes
    <3>3. \A a \in Addr : a \in Int
      BY ExceptionsAssumption DEF Addr
    <3>4. \A a \in Addr : a >= s[2].at => a >= c.A7 + n
      BY <1>3, <3>1, <3>2, <3>3
    <3> QED
      BY <1>5, <1>6, <1>7, <2>1, <2>2, <3>4
  <2>3. Len(Tail(s)) > 0 => Len(s) > 1
    BY <1>1, <2>1
  <2>4. Len(Tail(s)) > 0 =>
          /\ r.USP = c.USP /\ Other(r, c.M) = Other(c, c.M)
          /\ \A a \in Addr : a >= Tail(s)[1].at => r.mem[a] = c.mem[a]
    BY <1>9, <2>2, <2>3
  <2> QED
    BY <1>7, <1>9, <2>1, <2>4, FramesKept
<1>12. Running(r, Tail(s))
  <2>1. Len(Tail(s)) = Len(s) - 1 /\ (Len(s) > 1 => Tail(s)[1] = s[2])
    BY <1>1, FramesUnder
  <2>2. /\ Under(c, s, 1) - MaxPush <= Sp(x, c.M) /\ Sp(x, c.M) <= Under(c, s, 1)
        /\ ~x.sr.S => 1 = Len(s) /\ Sp(x, c.M) = Base(c.M)
    BY <1>2 DEF Placed, x
  <2>3. x.sr.S \in BOOLEAN /\ (x.sr.S => r.A7 = Sp(x, c.M))
    BY <1>2, <1>3, <1>9 DEF Resumes, Sr
  <2>4. CASE Len(s) > 1
    <3>1. Under(c, s, 1) = Tail(s)[1].at /\ Len(Tail(s)) > 0
      BY <1>1, <2>1, <2>4 DEF Under
    <3> QED
      BY <1>9, <2>2, <2>3, <2>4, <3>1 DEF Running
  <2>5. CASE ~(Len(s) > 1)
    <3>1. Under(c, s, 1) = Base(c.M) /\ ~(Len(Tail(s)) > 0)
      <4>1. \A k \in Nat : k > 0 /\ ~(k > 1) => 1 = k /\ ~(k - 1 > 0)
        OBVIOUS
      <4>2. 1 = Len(s) /\ ~(Len(Tail(s)) > 0)
        BY <1>1, <2>1, <2>5, <4>1, Zenon
      <4> QED
        BY <4>2 DEF Under
    <3>2. CASE x.sr.S
      <4>1. Base(c.M) - MaxPush <= r.A7 /\ r.A7 <= Base(c.M)
        BY <2>2, <2>3, <3>1, <3>2
      <4> QED
        BY <1>9, <3>1, <3>2, <4>1 DEF Running
    <3>3. CASE ~x.sr.S
      BY <1>9, <2>2, <3>1, <3>3 DEF Running
    <3> QED
      BY <3>2, <3>3
  <2> QED
    BY <2>4, <2>5
<1>13. Good(r, Tail(s))
  BY <1>7, <1>11, <1>12 DEF Good
<1> QED
  BY <1>7, <1>8, <1>9, <1>10, <1>13 DEF r, x

-----------------------------------------------------------------------------
(* The steps.                                                              *)

\* The next instruction is fetched: only the program counters change.
LEMMA FetchedGood ==
  ASSUME Good(cpu, ctx), NEW pc \in Nat \X Nat
  PROVE  /\ Good(Fetched(pc), ctx)
         /\ Fetched(pc).A7 = cpu.A7 /\ Fetched(pc).S = cpu.S /\ Fetched(pc).M = cpu.M
         /\ Fetched(pc).mem = cpu.mem
<1> DEFINE d == Fetched(pc)
<1>1. cpu \in CpuSet /\ Frames(cpu, ctx) /\ Running(cpu, ctx)
  BY DEF Good
<1>2. /\ d \in CpuSet /\ d.A7 = cpu.A7 /\ d.S = cpu.S /\ d.M = cpu.M
      /\ d.USP = cpu.USP /\ d.MSP = cpu.MSP /\ d.ISP = cpu.ISP /\ d.mem = cpu.mem
  BY <1>1 DEF Fetched, CpuSet
<1> HIDE DEF d
<1>3. Other(d, cpu.M) = Other(cpu, cpu.M) /\ Sp(d, cpu.M) = Sp(cpu, cpu.M)
  BY <1>2 DEF Other, Sp
<1>4. Frames(d, ctx)
  BY <1>1, <1>2, <1>3, FramesKept
<1>5. Running(d, ctx)
  BY <1>1, <1>2, <1>3 DEF Running
<1> QED
  BY <1>2, <1>4, <1>5 DEF Good, d

\* handle_exception.
LEMMA TookGood ==
  ASSUME NEW c \in CpuSet, NEW n \in Kinds, NEW ct \in BOOLEAN, NEW s, Good(c, s),
         Took(c, Raise(c, n, ct), n, s)
  PROVE  IInv'
<1> DEFINE d == Vector(Push(Enter(c), Words(c, n, ct)))
<1>1. Raise(c, n, ct) = d
  BY DEF Raise, Words, Kinds
<1> HIDE DEF d
<1>2. /\ cpu' = d /\ ctx' = <<Record(c, d, n)>> \o s /\ Len(s) < MaxDepth
      /\ derailed' = ~Orderly(c, n, Resume(c, n))
  BY <1>1 DEF Took, Record
<1>3. derailed' \in BOOLEAN
  BY <1>2 DEF Orderly
<1>4. ASSUME Orderly(c, n, Resume(c, n))
      PROVE  Good(d, <<Record(c, d, n)>> \o s)
  BY <1>2, <1>4, Enters, FrameTaken DEF d
<1>5. ~derailed' => Good(cpu', ctx')
  BY <1>2, <1>4, Zenon
<1> QED
  BY <1>3, <1>5 DEF IInv

\* The interrupt of op_prologue.
LEMMA InterruptGood ==
  ASSUME Good(cpu, ctx), NEW l \in Levels, Interrupt(l)
  PROVE  IInv'
<1> DEFINE e == [Enter(cpu) EXCEPT !.I = l]
           d == Vector(Push(e, Words(cpu, "irq", FALSE)))
<1>1. cpu \in CpuSet /\ l \in 0..7
  BY ExceptionsAssumption DEF Good
<1>2. /\ e \in CpuSet /\ e.A7 = Sp(cpu, cpu.M) /\ e.S = TRUE /\ e.M = cpu.M
      /\ e.USP = cpu.USP /\ e.MSP = cpu.MSP /\ e.ISP = cpu.ISP /\ e.mem = cpu.mem
  <2> DEFINE f == Enter(cpu)
  <2>1. /\ f \in CpuSet /\ f.A7 = Sp(cpu, cpu.M) /\ f.S = TRUE /\ f.M = cpu.M
        /\ f.USP = cpu.USP /\ f.MSP = cpu.MSP /\ f.ISP = cpu.ISP /\ f.mem = cpu.mem
    BY <1>1, Enters
  <2> HIDE DEF f
  <2>2. /\ [f EXCEPT !.I = l] \in CpuSet
        /\ [f EXCEPT !.I = l].A7 = f.A7 /\ [f EXCEPT !.I = l].S = f.S
        /\ [f EXCEPT !.I = l].M = f.M /\ [f EXCEPT !.I = l].mem = f.mem
        /\ [f EXCEPT !.I = l].USP = f.USP /\ [f EXCEPT !.I = l].MSP = f.MSP
        /\ [f EXCEPT !.I = l].ISP = f.ISP
    BY <1>1, <2>1 DEF CpuSet
  <2> QED
    BY <2>1, <2>2 DEF f
<1>3. ~cpu.M => Irq(cpu, l) = d
  BY DEF Irq, Words
<1> HIDE DEF e
<1>4. /\ cpu' = Irq(cpu, l)
      /\ ctx' = <<Record(cpu, Irq(cpu, l), "irq")>> \o ctx /\ Len(ctx) < MaxDepth
      /\ derailed' = ~Orderly(cpu, "irq", Resume(cpu, "irq"))
  BY DEF Interrupt, Took, Record
<1>5. derailed' \in BOOLEAN
  BY <1>4 DEF Orderly
<1>6. ASSUME Orderly(cpu, "irq", Resume(cpu, "irq"))
      PROVE  Good(d, <<Record(cpu, d, "irq")>> \o ctx) /\ Irq(cpu, l) = d
  <2>1. ~cpu.M
    BY <1>6 DEF Orderly
  <2> QED
    BY <1>1, <1>2, <1>3, <1>4, <1>6, <2>1, FrameTaken
<1> HIDE DEF d
<1>7. ~derailed' => Good(cpu', ctx')
  BY <1>4, <1>6, Zenon
<1> QED
  BY <1>5, <1>7 DEF IInv

\* run_op: the instruction ends, or is traced.
LEMMA EndsGood ==
  ASSUME NEW c \in CpuSet, NEW mt \in BOOLEAN, NEW s, Good(c, s), ~derailed,
         derailed \in BOOLEAN, Ends(c, mt, s)
  PROVE  IInv'
<1>1. CASE mt
  <2>1. Took(c, Raise(c, "trace", FALSE), "trace", s)
    BY <1>1 DEF Ends
  <2> QED
    BY <2>1, TookGood DEF Kinds
<1>2. CASE ~mt
  BY <1>2 DEF Ends, IInv
<1> QED
  BY <1>1, <1>2

\* The words of what runs now end at the newest frame or at the base.
LEMMA OwnWords ==
  ASSUME Good(cpu, ctx)
  PROVE  /\ Len(ctx) \in Nat /\ (ctx # <<>> <=> Len(ctx) > 0)
         /\ Len(ctx) > 0 => ctx[1].at \in Int /\ Own = ctx[1].at - cpu.A7
         /\ ~(Len(ctx) > 0) /\ cpu.S => Own = Base(cpu.M) - cpu.A7
         /\ cpu.A7 \in Int /\ Base(cpu.M) \in Int /\ MaxPush \in Nat
<1>1. /\ cpu \in CpuSet /\ ctx \in Seq(FrameSet) /\ Len(ctx) \in Nat /\ MaxPush \in Nat
      /\ cpu.M \in BOOLEAN
  BY LenProperties, ExceptionsAssumption, RegistersTyped DEF Good, Frames
<1>2. ctx # <<>> <=> Len(ctx) > 0
  BY <1>1, EmptySeq
<1>3. cpu.A7 \in Int /\ Base(cpu.M) \in Int
  BY <1>1, RegistersTyped, ExceptionsAssumption
     DEF Base, MasterBase, InterruptBase, UserBase
<1>4. CASE Len(ctx) > 0
  <2>1. Head(ctx) = ctx[1] /\ ctx[1] \in FrameSet
    BY <1>1, <1>2, <1>4, Older
  <2>2. Own = ctx[1].at - cpu.A7
    BY <1>2, <1>4, <2>1 DEF Own
  <2> QED
    BY <1>1, <1>2, <1>3, <1>4, <2>1, <2>2 DEF FrameSet
<1>5. CASE ~(Len(ctx) > 0)
  <2>1. cpu.S => Own = Base(cpu.M) - cpu.A7
    BY <1>2, <1>5 DEF Own, Base
  <2> QED
    BY <1>1, <1>2, <1>3, <1>5, <2>1
<1> QED
  BY <1>4, <1>5

\* What runs now may use the stack below the newest frame.
LEMMA StackMoved ==
  ASSUME NEW c \in CpuSet, NEW d \in CpuSet, NEW s, Good(c, s),
         d.S = c.S, d.M = c.M, d.USP = c.USP, d.MSP = c.MSP, d.ISP = c.ISP,
         Len(s) > 0 => /\ s[1].at - MaxPush <= d.A7 /\ d.A7 <= s[1].at
                       /\ \A a \in Addr : a >= s[1].at => d.mem[a] = c.mem[a],
         ~(Len(s) > 0) /\ c.S => Base(c.M) - MaxPush <= d.A7 /\ d.A7 <= Base(c.M)
  PROVE  Good(d, s)
<1>1. Frames(c, s) /\ Running(c, s) /\ c.S \in BOOLEAN
  BY RegistersTyped DEF Good
<1>2. Other(d, c.M) = Other(c, c.M) /\ Sp(d, c.M) = Sp(c, c.M)
  BY DEF Other, Sp
<1>3. Frames(d, s)
  BY <1>1, <1>2, FramesKept
<1>4. Running(d, s)
  BY <1>1, <1>2 DEF Running
<1> QED
  BY <1>3, <1>4 DEF Good

\* A handler that pushes a word of its own leaves every frame below it as it
\* was stacked (PUSH16).
LEMMA PushWordGood ==
  ASSUME Good(cpu, ctx), derailed \in BOOLEAN, NEW pc \in Nat \X Nat, PushWord(pc)
  PROVE  IInv'
<1> DEFINE f == Fetched(pc)
           w == <<<<"data">>>>
           d == Push(f, w)
<1>1. Good(f, ctx) /\ f.A7 = cpu.A7 /\ f.S = cpu.S /\ f.M = cpu.M
  BY FetchedGood
<1> HIDE DEF f
<1>2. f \in CpuSet /\ w \in Seq(Word) /\ Len(w) = 1
  BY <1>1, WordsTyped DEF Good
<1> HIDE DEF w
<1>3. /\ d \in CpuSet /\ d.A7 = f.A7 - 1 /\ Same(f, d)
      /\ \A a \in Addr : a >= f.A7 => d.mem[a] = f.mem[a]
  BY <1>2, PushWrites
<1> HIDE DEF d
<1>4. Own < MaxPush
  BY DEF PushWord
<1>5. Running(f, ctx) /\ \A a \in Addr : a \in Int
  BY <1>1, ExceptionsAssumption DEF Good, Addr
<1>6. Len(ctx) > 0 => /\ ctx[1].at - MaxPush <= d.A7 /\ d.A7 <= ctx[1].at
                      /\ \A a \in Addr : a >= ctx[1].at => d.mem[a] = f.mem[a]
  BY <1>1, <1>3, <1>4, <1>5, OwnWords DEF Running
<1>7. ~(Len(ctx) > 0) /\ f.S => Base(f.M) - MaxPush <= d.A7 /\ d.A7 <= Base(f.M)
  BY <1>1, <1>3, <1>4, <1>5, OwnWords DEF Running
<1>8. Good(d, ctx)
  BY <1>1, <1>2, <1>3, <1>6, <1>7, StackMoved DEF Same
<1>9. ~derailed /\ Ends(d, Traced(cpu), ctx) /\ Traced(cpu) \in BOOLEAN
  BY DEF PushWord, Traced, d, f, w
<1> QED
  BY <1>3, <1>8, <1>9, EndsGood

\* A handler takes back only words of its own, so no frame changes (POP16).
LEMMA PopWordGood ==
  ASSUME Good(cpu, ctx), derailed \in BOOLEAN, NEW pc \in Nat \X Nat, PopWord(pc)
  PROVE  IInv'
<1> DEFINE f == Fetched(pc)
           d == Pop(f, 1)
<1>1. Good(f, ctx) /\ f.A7 = cpu.A7 /\ f.S = cpu.S /\ f.M = cpu.M
  BY FetchedGood
<1> HIDE DEF f
<1>2. f \in CpuSet
  BY <1>1 DEF Good
<1>3. /\ d \in CpuSet /\ d.A7 = f.A7 + 1 /\ Same(f, d)
      /\ \A a \in Addr : a >= f.A7 + 1 => d.mem[a] = f.mem[a]
  BY <1>2, PopForgets
<1> HIDE DEF d
<1>4. Own > 0
  BY DEF PopWord
<1>5. Running(f, ctx) /\ \A a \in Addr : a \in Int
  BY <1>1, ExceptionsAssumption DEF Good, Addr
<1>6. Len(ctx) > 0 => /\ ctx[1].at - MaxPush <= d.A7 /\ d.A7 <= ctx[1].at
                      /\ \A a \in Addr : a >= ctx[1].at => d.mem[a] = f.mem[a]
  BY <1>1, <1>3, <1>4, <1>5, OwnWords DEF Running
<1>7. ~(Len(ctx) > 0) /\ f.S => Base(f.M) - MaxPush <= d.A7 /\ d.A7 <= Base(f.M)
  BY <1>1, <1>3, <1>4, <1>5, OwnWords DEF Running
<1>8. Good(d, ctx)
  BY <1>1, <1>2, <1>3, <1>6, <1>7, StackMoved DEF Same
<1>9. ~derailed /\ Ends(d, Traced(cpu), ctx) /\ Traced(cpu) \in BOOLEAN
  BY DEF PopWord, Traced, d, f
<1> QED
  BY <1>3, <1>8, <1>9, EndsGood

\* MOVE to SR saves A7; the supervisor stays on its stack.
LEMMA LoadSrGood ==
  ASSUME Good(cpu, ctx), derailed \in BOOLEAN, NEW pc \in Nat \X Nat,
         NEW t \in 0..2, NEW i \in 0..7, LoadSr(t, i, pc)
  PROVE  IInv'
<1> DEFINE f == Fetched(pc)
           v == [S |-> TRUE, M |-> cpu.M, T |-> t, I |-> i]
           d == SetSR(f, v)
<1>1. Good(f, ctx) /\ f.A7 = cpu.A7 /\ f.S = cpu.S /\ f.M = cpu.M
  BY FetchedGood
<1> HIDE DEF f
<1>2. f \in CpuSet /\ Frames(f, ctx) /\ Running(f, ctx) /\ cpu.S
  BY <1>1 DEF Good, LoadSr
<1>3. v \in Sr /\ v.M = f.M /\ v.S = TRUE
  BY <1>1, <1>2, RegistersTyped DEF Sr
<1> HIDE DEF v
<1>4. /\ d \in CpuSet /\ d.S = TRUE /\ d.M = f.M /\ d.A7 = f.A7 /\ d.USP = f.USP
      /\ Other(d, f.M) = Other(f, f.M) /\ d.mem = f.mem
  BY <1>1, <1>2, <1>3, SetSRMoves
<1> HIDE DEF d
<1>5. Frames(d, ctx)
  BY <1>2, <1>4, FramesKept
<1>6. Running(d, ctx)
  BY <1>1, <1>2, <1>4 DEF Running
<1>7. Good(d, ctx)
  BY <1>4, <1>5, <1>6 DEF Good
<1>8. ~derailed /\ Ends(d, Traced(cpu) \/ d.T = 1, ctx)
  BY DEF LoadSr, d, f, v
<1>9. (Traced(cpu) \/ d.T = 1) \in BOOLEAN
  BY DEF Traced
<1> QED
  BY <1>4, <1>7, <1>8, <1>9, EndsGood

\* RTE takes down the innermost frame and no other (do_rte).
LEMMA RteGood ==
  ASSUME Good(cpu, ctx), derailed \in BOOLEAN, Rte
  PROVE  IInv'
<1> DEFINE f == Fetched(Handler)
           r == Returned(f)
<1>1. Good(f, ctx) /\ f.A7 = cpu.A7
  BY FetchedGood, ExceptionsAssumption
<1>2. Len(ctx) > 0 /\ f.A7 = ctx[1].at
  <2>1. ctx # <<>> /\ Own = 0
    BY DEF Rte
  <2> QED
    BY <1>1, <2>1, OwnWords
<1> HIDE DEF f
<1>3. Good(r, Tail(ctx)) /\ r \in CpuSet
  <2>1. f \in CpuSet
    BY <1>1 DEF Good
  <2>2. Good(r, Tail(ctx))
    BY <1>1, <1>2, <2>1, Returns
  <2> QED
    BY <2>2 DEF Good
<1> HIDE DEF r
<1>4. CASE RestartsTrace(cpu)
  <2>1. Took(r, Raise(r, "trace", FALSE), "trace", Tail(ctx))
    BY <1>4 DEF Rte, r, f
  <2> QED
    BY <1>3, <2>1, TookGood DEF Kinds
<1>5. CASE ~RestartsTrace(cpu)
  <2>1. ~derailed /\ Ends(r, Traced(cpu) \/ r.T = 1, Tail(ctx))
    BY <1>5 DEF Rte, r, f
  <2>2. (Traced(cpu) \/ r.T = 1) \in BOOLEAN
    BY DEF Traced
  <2> QED
    BY <1>3, <2>1, <2>2, EndsGood
<1> QED
  BY <1>4, <1>5

\* The program starts with A7 in its shadow and no frame anywhere.
LEMMA InitGood ==
  ASSUME Init
  PROVE  IInv
<1>1. PICK sr \in Programs, pc \in Pcs :
        /\ cpu = LoadSP([A7 |-> 0, USP |-> UserBase, MSP |-> MasterBase,
                         ISP |-> InterruptBase, S |-> sr.S, M |-> sr.M, T |-> sr.T,
                         I |-> sr.I, PC |-> pc, oldpc |-> pc,
                         mem |-> [a \in Addr |-> <<"data">>]])
        /\ ctx = <<>> /\ derailed = FALSE
  BY DEF Init
<1> DEFINE m == [a \in Addr |-> <<"data">>]
           c == [A7 |-> 0, USP |-> UserBase, MSP |-> MasterBase, ISP |-> InterruptBase,
                 S |-> sr.S, M |-> sr.M, T |-> sr.T, I |-> sr.I, PC |-> pc, oldpc |-> pc,
                 mem |-> m]
<1>2. /\ sr.S \in BOOLEAN /\ sr.M \in BOOLEAN /\ sr.T \in 0..2 /\ sr.I \in 0..7
      /\ pc \in Nat \X Nat /\ m \in [Addr -> Word] /\ MaxPush \in Nat /\ MaxDepth \in Nat
      /\ UserBase \in Int /\ MasterBase \in Int /\ InterruptBase \in Int
  BY ExceptionsAssumption, WordsTyped DEF Sr, UserBase, MasterBase, InterruptBase
<1>3. cpu = LoadSP(c)
  BY <1>1
<1> HIDE DEF m
<1>4. /\ c \in CpuSet /\ c.S = sr.S /\ c.M = sr.M
      /\ c.USP = UserBase /\ c.MSP = MasterBase /\ c.ISP = InterruptBase
  BY <1>2 DEF CpuSet
<1> HIDE DEF c
<1>5. Shadow(c) \in Int /\ (sr.S => Shadow(c) = Base(sr.M)) /\ Sp(c, sr.M) = Base(sr.M)
  BY <1>2, <1>4 DEF Shadow, Base, Sp
<1>6. /\ cpu \in CpuSet /\ cpu.A7 = Shadow(c) /\ Same(c, cpu)
  BY <1>3, <1>4, <1>5 DEF LoadSP, CpuSet, Same
<1>7. Frames(cpu, <<>>)
  <2>1. <<>> \in Seq(FrameSet) /\ Len(<<>>) = 0
    OBVIOUS
  <2> QED
    BY <1>2, <2>1 DEF Frames
<1>8. Running(cpu, <<>>)
  <2>1. ~(Len(<<>>) > 0)
    OBVIOUS
  <2>2. cpu.S = sr.S /\ cpu.M = sr.M /\ Sp(cpu, cpu.M) = Base(cpu.M)
    BY <1>4, <1>5, <1>6 DEF Same, Sp
  <2>3. cpu.S => cpu.A7 = Base(cpu.M)
    BY <1>5, <1>6, <2>2
  <2>4. Base(cpu.M) \in Int
    BY <1>2 DEF Base
  <2> QED
    BY <1>2, <2>1, <2>2, <2>3, <2>4 DEF Running
<1> QED
  BY <1>1, <1>6, <1>7, <1>8 DEF IInv, Good

\* IInv is inductive.
LEMMA NextGood ==
  ASSUME IInv, [Next]_vars
  PROVE  IInv'
<1>1. CASE UNCHANGED vars
  BY <1>1 DEF vars, IInv
<1>2. ASSUME Next, ~derailed
      PROVE  IInv'
  <2>1. Good(cpu, ctx) /\ derailed \in BOOLEAN
    BY <1>2 DEF IInv
  <2>2. NextPcs \subseteq Nat \X Nat
    BY ExceptionsAssumption DEF NextPcs
  <2>3. ASSUME NEW pc \in NextPcs, Branch(pc)
        PROVE  IInv'
    <3>1. Good(Fetched(pc), ctx) /\ Fetched(pc) \in CpuSet
      BY <2>1, <2>2, FetchedGood DEF Good
    <3>2. ~derailed /\ Ends(Fetched(pc), Traced(cpu) \/ cpu.T = 1, ctx)
      BY <2>3 DEF Branch
    <3>3. (Traced(cpu) \/ cpu.T = 1) \in BOOLEAN
      BY DEF Traced
    <3> QED
      BY <2>1, <3>1, <3>2, <3>3, EndsGood
  <2>4. ASSUME NEW pc \in NextPcs, PushWord(pc)
        PROVE  IInv'
    BY <2>1, <2>2, <2>4, PushWordGood
  <2>5. ASSUME NEW pc \in NextPcs, PopWord(pc)
        PROVE  IInv'
    BY <2>1, <2>2, <2>5, PopWordGood
  <2>6. ASSUME NEW x \in SrLoads, NEW pc \in NextPcs, LoadSr(x[1], x[2], pc)
        PROVE  IInv'
    <3>1. x[1] \in 0..2 /\ x[2] \in 0..7
      BY ExceptionsAssumption
    <3> QED
      BY <2>1, <2>2, <2>6, <3>1, LoadSrGood
  <2>7. ASSUME NEW n \in Raisers, NEW pc \in NextPcs, Fail(n, pc)
        PROVE  IInv'
    <3>1. Good(Fetched(pc), ctx) /\ Fetched(pc) \in CpuSet
      BY <2>1, <2>2, FetchedGood DEF Good
    <3>2. n \in Kinds /\ Traced(cpu) \in BOOLEAN
      BY ExceptionsAssumption DEF Traced
    <3>3. Took(Fetched(pc), Raise(Fetched(pc), n, Traced(cpu)), n, ctx)
      BY <2>7 DEF Fail
    <3> QED
      BY <3>1, <3>2, <3>3, TookGood
  <2>8. ASSUME NEW l \in Levels, Interrupt(l)
        PROVE  IInv'
    BY <2>1, <2>8, InterruptGood
  <2>9. CASE Rte
    BY <2>1, <2>9, RteGood
  <2> QED
    BY <1>2, <2>3, <2>4, <2>5, <2>6, <2>7, <2>8, <2>9 DEF Next
<1>3. Next => ~derailed
  BY DEF Next, Branch, PushWord, PopWord, LoadSr, Fail, Interrupt, Rte
<1> QED
  BY <1>1, <1>2, <1>3

\* Until an exception is taken of which the code does not return, the frames lie
\* whole and in order on one stack, and what runs stays below them.
THEOREM FramesInductive == Spec => []IInv
<1>1. Init => IInv
  BY InitGood
<1>2. IInv /\ [Next]_vars => IInv'
  BY NextGood
<1> QED
  BY <1>1, <1>2, PTL DEF Spec

\* No frame is damaged before its handler returns and no two lie on each other,
\* whatever the handlers push and however exceptions nest (handle_exception,
\* PUSH16), as long as A7 was saved when each of them came.
THEOREM FramesAlwaysIntact == Spec => []FramesIntact
<1>1. IInv => FramesIntact
  <2> SUFFICES ASSUME Good(cpu, ctx), NEW i \in 1..Len(ctx)
               PROVE  /\ cpu.mem[ctx[i].at] = <<"sr", ctx[i].sr>>
                      /\ cpu.mem[ctx[i].at + 2] = <<"lo", ctx[i].pc[2]>>
                      /\ cpu.A7 <= ctx[i].at /\ (i > 1 => ctx[i - 1].at < ctx[i].at)
    BY DEF IInv, FramesIntact, FramesApart
  <2>1. /\ cpu \in CpuSet /\ Frames(cpu, ctx) /\ Running(cpu, ctx)
        /\ ctx \in Seq(FrameSet) /\ Len(ctx) \in Nat /\ cpu.A7 \in Int
        /\ cpu.M \in BOOLEAN
    BY LenProperties, RegistersTyped DEF Good, Frames
  <2>2. Whole(cpu, ctx[i])
    BY <2>1 DEF Frames
  <2>3. ctx[1].at <= ctx[i].at /\ 1 \in 1..Len(ctx)
    BY <2>1, Places
  <2>4. ctx[1].at \in Int /\ ctx[i].at \in Int
    BY <2>1, <2>3, FrameTyped
  <2>5. Len(ctx) > 0
    BY <2>1
  <2>6. cpu.A7 <= ctx[1].at
    BY <2>1, <2>5 DEF Running
  <2>7. ASSUME i > 1
        PROVE  ctx[i - 1].at < ctx[i].at
    <3>1. i - 1 \in 1..Len(ctx) /\ i - 1 < i
      BY <2>1, <2>7
    <3>2. Sp(ctx[i - 1], cpu.M) <= ctx[i].at
      BY <2>1, <3>1 DEF Frames
    <3>3. ctx[i - 1].at < Sp(ctx[i - 1], cpu.M)
      BY <2>1, <3>1, Places
    <3>4. ctx[i - 1].at \in Int /\ Sp(ctx[i - 1], cpu.M) \in Int
      BY <2>1, <3>1, FrameTyped
    <3> QED
      BY <2>4, <3>2, <3>3, <3>4
  <2> QED
    BY <2>1, <2>2, <2>3, <2>4, <2>6, <2>7 DEF Whole
<1> QED
  BY <1>1, FramesInductive, PTL

\* RTE gives back what the exception interrupted, the status register, the
\* program counter and all the stack pointers, for every nesting of exceptions
\* and interrupts (handle_exception, do_rte).
THEOREM AlwaysReturns == Spec => []ReturnsToInterrupted
<1>1. IInv => ReturnsToInterrupted
  <2> SUFFICES ASSUME Good(cpu, ctx), MayReturn
               PROVE  LET c == Returned(cpu)  x == Head(ctx) IN
                      /\ GetSR(c) = x.sr /\ c.PC = x.pc
                      /\ <<c.A7, c.USP, c.MSP, c.ISP>> = <<x.A7, x.USP, x.MSP, x.ISP>>
    BY DEF IInv, ReturnsToInterrupted
  <2>1. ctx # <<>> /\ Own = 0
    BY DEF MayReturn
  <2>2. Len(ctx) > 0 /\ cpu.A7 = ctx[1].at
    BY <2>1, OwnWords
  <2>3. cpu \in CpuSet /\ ctx \in Seq(FrameSet)
    BY DEF Good, Frames
  <2>4. Head(ctx) = ctx[1]
    BY <2>1, <2>3, Older
  <2> DEFINE c == Returned(cpu)
             x == ctx[1]
  <2>5. /\ GetSR(c) = x.sr /\ c.PC = x.pc
        /\ c.A7 = x.A7 /\ c.USP = x.USP /\ c.MSP = x.MSP /\ c.ISP = x.ISP
    BY <2>2, <2>3, Returns
  <2> QED
    BY <2>4, <2>5
<1> QED
  BY <1>1, FramesInductive, PTL

=============================================================================
