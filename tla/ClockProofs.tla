---------------------------- MODULE ClockProofs ----------------------------
(***************************************************************************)
(* The real-time clock behind port B of VIA 1: the commands that the guest *)
(* shifts in bit by bit are obeyed and answered, though the ADB driver     *)
(* reads and writes the same port between any two edges of the clock.      *)
(***************************************************************************)
EXTENDS ViaProofs

\* The binary digits of a byte.
LEMMA Bitwise8 ==
  \A b \in Byte :
     b = (b % 2) + 2 * ((b \div 2) % 2) + 4 * ((b \div 4) % 2) + 8 * ((b \div 8) % 2)
         + 16 * ((b \div 16) % 2) + 32 * ((b \div 32) % 2) + 64 * ((b \div 64) % 2)
         + 128 * ((b \div 128) % 2)
<1> SUFFICES ASSUME NEW b \in Byte
    PROVE b = (b % 2) + 2 * ((b \div 2) % 2) + 4 * ((b \div 4) % 2) + 8 * ((b \div 8) % 2)
              + 16 * ((b \div 16) % 2) + 32 * ((b \div 32) % 2) + 64 * ((b \div 64) % 2)
              + 128 * ((b \div 128) % 2)
  OBVIOUS
<1>9. b \in 0..255
  BY DEF Byte
<1>1. b = (b % 2) + 2 * (b \div 2)
  BY <1>9
<1>2. b \div 2 = ((b \div 2) % 2) + 2 * (b \div 4)
  BY <1>9
<1>3. b \div 4 = ((b \div 4) % 2) + 2 * (b \div 8)
  BY <1>9
<1>4. b \div 8 = ((b \div 8) % 2) + 2 * (b \div 16)
  BY <1>9
<1>5. b \div 16 = ((b \div 16) % 2) + 2 * (b \div 32)
  BY <1>9
<1>6. b \div 32 = ((b \div 32) % 2) + 2 * (b \div 64)
  BY <1>9
<1>7. b \div 64 = ((b \div 64) % 2) + 2 * (b \div 128)
  BY <1>9
<1>8. b \div 128 = (b \div 128) % 2 
  BY <1>9
<1> QED
  BY <1>1, <1>2, <1>3, <1>4, <1>5, <1>6, <1>7, <1>8, <1>9

\* A bit of a byte is a digit of it.
LEMMA Weights ==
  ASSUME NEW b \in Byte
  PROVE  /\ BitOf(b, 0) = b % 2 /\ BitOf(b, 1) = (b \div 2) % 2 /\ BitOf(b, 2) = (b \div 4) % 2
         /\ BitOf(b, 3) = (b \div 8) % 2 /\ BitOf(b, 4) = (b \div 16) % 2
         /\ BitOf(b, 5) = (b \div 32) % 2 /\ BitOf(b, 6) = (b \div 64) % 2
         /\ BitOf(b, 7) = (b \div 128) % 2
<1>1. /\ Weight[0 + 1] = 1 /\ Weight[1 + 1] = 2 /\ Weight[2 + 1] = 4 /\ Weight[3 + 1] = 8
      /\ Weight[4 + 1] = 16 /\ Weight[5 + 1] = 32 /\ Weight[6 + 1] = 64 /\ Weight[7 + 1] = 128
  BY DEF Weight
<1>2. b \in Int /\ b \div 1 = b
  BY DEF Byte
<1> QED
  BY <1>1, <1>2 DEF BitOf

\* The bits of a byte, the lowest first, make the byte again.
LEMMA ByteAgain ==
  ASSUME NEW b \in Byte, NEW s, \A k \in 1..8 : s[k] = BitOf(b, k - 1)
  PROVE  ByteOf(s) = b
<1>1. /\ s[1] = BitOf(b, 0) /\ s[2] = BitOf(b, 1) /\ s[3] = BitOf(b, 2) /\ s[4] = BitOf(b, 3)
      /\ s[5] = BitOf(b, 4) /\ s[6] = BitOf(b, 5) /\ s[7] = BitOf(b, 6) /\ s[8] = BitOf(b, 7)
  <2>1. /\ s[1] = BitOf(b, 1 - 1) /\ s[2] = BitOf(b, 2 - 1) /\ s[3] = BitOf(b, 3 - 1)
        /\ s[4] = BitOf(b, 4 - 1) /\ s[5] = BitOf(b, 5 - 1) /\ s[6] = BitOf(b, 6 - 1)
        /\ s[7] = BitOf(b, 7 - 1) /\ s[8] = BitOf(b, 8 - 1)
    OBVIOUS
  <2>2. 1 - 1 = 0 /\ 2 - 1 = 1 /\ 3 - 1 = 2 /\ 4 - 1 = 3 /\ 5 - 1 = 4 /\ 6 - 1 = 5 /\ 7 - 1 = 6
        /\ 8 - 1 = 7
    OBVIOUS
  <2> QED
    BY <2>1, <2>2
<1>2. ByteOf(s) = (b % 2) + 2 * ((b \div 2) % 2) + 4 * ((b \div 4) % 2) + 8 * ((b \div 8) % 2)
        + 16 * ((b \div 16) % 2) + 32 * ((b \div 32) % 2) + 64 * ((b \div 64) % 2)
        + 128 * ((b \div 128) % 2)
  BY <1>1, Weights DEF ByteOf
<1> QED
  BY <1>2, Bitwise8

\* The fields of the records, which EXCEPT keeps.
PortFields == {"dirb", "orb", "rtc_clock", "rtc_val"}
ChipFields == {"bits", "lists", "val", "cnt_r"}
GuestFields == {"phase", "job", "rest", "n", "half", "got"}

\* The driver is sending a command, or receiving its answer.
Sends == guest.phase = "send"
Receives == guest.phase = "receive"
\* The bits of a command, and how many halves of a bit have begun.
InAll == 8 * Len(guest.job)
Halves == guest.n + guest.half

\* The port and the driver.
InPort ==
  /\ DOMAIN port = PortFields /\ DOMAIN guest = GuestFields
  /\ guest.phase \in {"idle", "send", "receive", "restore"}
  /\ guest.rest = 1 /\ guest.half \in Bit /\ guest.n \in Nat
  /\ Sends \/ Receives => guest.job \in Commands /\ rtcEnable
  /\ Sends => guest.n <= InAll /\ (guest.half = 1 => guest.n < InAll) /\ guest.got = <<>>
  /\ Receives => IsRead(guest.job[1]) /\ guest.n <= 8 /\ (guest.half = 1 => guest.n < 8)
  /\ ~(Sends \/ Receives) => guest.half = 0
  /\ port.dirb = IF guest.phase \in {"receive", "restore"} THEN DataInput ELSE AllOutputs
  /\ DOMAIN port.orb = Line /\ port.orb[Clock] \in Bit /\ port.orb[Enable] = 0
  /\ rtcEnable \in BOOLEAN /\ port.rtc_clock \in Bit
  /\ ~Receives /\ guest.half = 0 => port.rtc_clock = 1
  /\ Receives /\ guest.half = 0 /\ port.rtc_clock = 0 => guest.n = 0 /\ port.orb[Clock] = 0
  /\ guest.phase = "restore" /\ rtcEnable => port.orb[Clock] = 1

\* The bits of a command that have gone to the chip.
Shifted ==
  /\ DOMAIN chip = ChipFields
  /\ ~Sends \/ Halves = InAll => chip.bits = <<>> /\ chip.lists = <<>>
  /\ Sends /\ Halves < 8 =>
       /\ chip.lists = <<>> /\ IsSeq(chip.bits) /\ Len(chip.bits) = Halves
       /\ \A k \in 1..Halves : chip.bits[k] = BitOf(guest.job[1], k - 1)
  /\ Sends /\ Halves >= 8 /\ Halves < InAll =>
       /\ chip.lists = <<guest.job[1]>> /\ IsSeq(chip.bits) /\ Len(chip.bits) = Halves - 8
       /\ \A k \in 1..Halves - 8 : chip.bits[k] = BitOf(guest.job[2], k - 1)

\* What has been written, and what is to be read.
Finished(c) == WrittenBy(want, c[1], Arg(c, 2), Arg(c, 3))
Carried ==
  /\ XPRAM = IF Sends /\ Halves = InAll /\ ~IsRead(guest.job[1]) THEN Finished(guest.job) ELSE want
  /\ DOMAIN want = Registers
  /\ Receives \/ (Sends /\ Halves = InAll /\ IsRead(guest.job[1])) =>
       chip.val \in Readable(want, PlainReg(guest.job[1]))
  /\ Sends /\ Halves = InAll /\ IsRead(guest.job[1]) => chip.cnt_r = 0

\* The clock edges since the line turned round, and the bits they gave.
Falls == IF guest.half = 0 THEN guest.n + 1 - port.rtc_clock ELSE guest.n + 1
Answering ==
  Receives =>
    /\ chip.cnt_r = Falls /\ IsSeq(guest.got)
    /\ Len(guest.got) = guest.n \/ (guest.half = 1 /\ Len(guest.got) = guest.n + 1)
    /\ \A k \in 1..Len(guest.got) : guest.got[k] = BitOf(chip.val, k - 1)
    /\ Falls > guest.n => port.rtc_val = BitOf(chip.val, guest.n)

\* The ADB driver is in one of its transfers.
Chosen == driver.phase = "send" => \E t \in Transfers : driver.cmd = t.cmd

\* The part of the invariant that is the clock's.
ClockInv == InPort /\ Shifted /\ Carried /\ Answering

\* A command has one byte when it reads and two when it writes.
LEMMA Sizes ==
  ASSUME RtcAssumption, Conventions, NEW c \in Commands
  PROVE  /\ c \in Seq(Byte) /\ c[1] \in Byte
         /\ Len(c) = IF IsRead(c[1]) THEN 1 ELSE 2
         /\ ~IsRead(c[1]) => c[2] \in Byte
<1>1. /\ c \in Seq(Byte) /\ c # <<>> /\ Len(c) = Length(c[1])
      /\ ~IsXpramRead(c[1]) /\ ~IsXpramWrite(c[1])
  BY DEF RtcAssumption, Conventions
<1>2. Len(c) = IF IsRead(c[1]) THEN 1 ELSE 2
  BY <1>1 DEF Length
<1>3. c[1] \in Byte
  BY <1>1, FirstOf, Zenon
<1>4. ASSUME ~IsRead(c[1]) PROVE c[2] \in Byte
  <2>1. 2 \in 1..Len(c)
    BY <1>2, <1>4
  <2> QED
    BY <1>1, <2>1, ItemOf, Zenon
<1> QED
  BY <1>1, <1>2, <1>3, <1>4

\* The lines that the port drives, by its direction register.
LEMMA Outs == Outputs(AllOutputs) = Line /\ Outputs(DataInput) = {Clock, Enable}
  BY DEF Outputs, AllOutputs, DataInput, Line, Data, Clock, Enable

\* A level on the lines that is no falling edge of the clock.
LEMMA DriveKeeps ==
  ASSUME NEW drive, NEW v, NEW dirb, NEW orb, NEW w, Drive(drive, v, dirb, orb, w),
         ~(Clock \in drive /\ rtcEnable /\ port.rtc_clock = 1 /\ v[Clock] = 0)
  PROVE  /\ chip' = chip /\ XPRAM' = Patched(XPRAM, w)
         /\ port'.rtc_val = IF Data \in drive /\ rtcEnable THEN v[Data] ELSE port.rtc_val
  BY DEF Drive

\* A falling edge with the data line an output: a bit goes in.
LEMMA DriveSends ==
  ASSUME NEW drive, NEW v, NEW dirb, NEW orb, Drive(drive, v, dirb, orb, <<>>),
         Clock \in drive, Data \in drive, rtcEnable, port.rtc_clock = 1, v[Clock] = 0, dirb[Data] = 1
  PROVE  /\ port'.rtc_val = v[Data]
         /\ \E o \in send_rtc(v[Data]) : chip' = o.chip /\ XPRAM' = o.ram
  BY DEF Drive, Patched

\* A falling edge with the data line an input: a bit comes out.
LEMMA DriveReceives ==
  ASSUME NEW drive, NEW v, NEW dirb, NEW orb, NEW w, Drive(drive, v, dirb, orb, w),
         Clock \in drive, rtcEnable, port.rtc_clock = 1, v[Clock] = 0, dirb[Data] = 0
  PROVE  /\ port'.rtc_val = recv_rtc /\ chip' = [chip EXCEPT !.cnt_r = (@ % 8) + 1]
         /\ XPRAM' = Patched(XPRAM, w)
  BY DEF Drive

\* The lines after a write.
LEMMA DriveLines ==
  ASSUME NEW drive, NEW v, NEW dirb, NEW orb, NEW w, Drive(drive, v, dirb, orb, w)
  PROVE  /\ DOMAIN port' = PortFields /\ port'.dirb = dirb /\ port'.orb = orb
         /\ port'.rtc_clock = IF Clock \in drive /\ rtcEnable THEN v[Clock] ELSE port.rtc_clock
         /\ rtcEnable' = IF Enable \in drive THEN v[Enable] = 0 ELSE rtcEnable
  BY DEF Drive, PortFields

\* A write of register 0 with a level for each line (VIA::write, writePB).
LEMMA Written ==
  ASSUME InPort, NEW v, NEW w, WriteOrb(v, w)
  PROVE  /\ DOMAIN port' = PortFields /\ port'.dirb = port.dirb
         /\ DOMAIN port'.orb = Line /\ port'.orb[Enable] = 0 /\ port'.orb[Clock] = port.orb[Clock]
         /\ port'.rtc_clock = IF rtcEnable THEN v[Clock] ELSE port.rtc_clock
         /\ (rtcEnable' <=> v[Enable] = 0) /\ rtcEnable' \in BOOLEAN
         /\ ~(rtcEnable /\ port.rtc_clock = 1 /\ v[Clock] = 0) =>
              /\ chip' = chip /\ XPRAM' = Patched(XPRAM, w)
              /\ port'.rtc_val = IF port.dirb = AllOutputs /\ rtcEnable THEN v[Data] ELSE port.rtc_val
         /\ rtcEnable /\ port.rtc_clock = 1 /\ v[Clock] = 0 /\ port.dirb = AllOutputs /\ w = <<>> =>
              /\ port'.rtc_val = v[Data]
              /\ \E o \in send_rtc(v[Data]) : chip' = o.chip /\ XPRAM' = o.ram
         /\ rtcEnable /\ port.rtc_clock = 1 /\ v[Clock] = 0 /\ port.dirb = DataInput =>
              /\ port'.rtc_val = recv_rtc /\ chip' = [chip EXCEPT !.cnt_r = (@ % 8) + 1]
              /\ XPRAM' = Patched(XPRAM, w)
<1> DEFINE drive == Outputs(port.dirb)
           orb == [i \in Line |-> IF port.dirb[i] = 1 THEN port.orb[i] ELSE v[i]]
           dirb == port.dirb
<1>1. Drive(drive, v, dirb, orb, w)
  BY DEF WriteOrb
<1>2. /\ dirb \in {AllOutputs, DataInput} /\ Clock \in drive /\ Enable \in drive
      /\ dirb = AllOutputs => Data \in drive /\ dirb[Data] = 1
      /\ dirb = DataInput => Data \notin drive /\ dirb[Data] = 0
      /\ dirb[Enable] = 1 /\ dirb[Clock] = 1
  BY Outs DEF InPort, Line, Data, Clock, Enable, AllOutputs, DataInput
<1>3. DOMAIN orb = Line /\ orb[Enable] = 0 /\ orb[Clock] = port.orb[Clock]
  <2>1. port.orb[Enable] = 0 /\ Enable \in Line /\ Clock \in Line
    BY DEF InPort, Line
  <2> QED
    BY <1>2, <2>1
<1> HIDE DEF drive, orb, dirb
<1>4. /\ DOMAIN port' = PortFields /\ port'.dirb = dirb /\ port'.orb = orb
      /\ port'.rtc_clock = IF rtcEnable THEN v[Clock] ELSE port.rtc_clock
      /\ (rtcEnable' <=> v[Enable] = 0) /\ rtcEnable' \in BOOLEAN
  <2>1. /\ DOMAIN port' = PortFields /\ port'.dirb = dirb /\ port'.orb = orb
        /\ port'.rtc_clock = IF Clock \in drive /\ rtcEnable THEN v[Clock] ELSE port.rtc_clock
        /\ rtcEnable' = IF Enable \in drive THEN v[Enable] = 0 ELSE rtcEnable
    BY <1>1, DriveLines
  <2> QED
    BY <1>2, <2>1
<1>5. ASSUME ~(rtcEnable /\ port.rtc_clock = 1 /\ v[Clock] = 0)
      PROVE  /\ chip' = chip /\ XPRAM' = Patched(XPRAM, w)
             /\ port'.rtc_val = IF dirb = AllOutputs /\ rtcEnable THEN v[Data] ELSE port.rtc_val
  <2>1. /\ chip' = chip /\ XPRAM' = Patched(XPRAM, w)
        /\ port'.rtc_val = IF Data \in drive /\ rtcEnable THEN v[Data] ELSE port.rtc_val
    BY <1>1, <1>5, DriveKeeps
  <2>2. Data \in drive <=> dirb = AllOutputs
    BY <1>2
  <2> QED
    BY <2>1, <2>2
<1>6. ASSUME rtcEnable, port.rtc_clock = 1, v[Clock] = 0, dirb = AllOutputs, w = <<>>
      PROVE  /\ port'.rtc_val = v[Data]
             /\ \E o \in send_rtc(v[Data]) : chip' = o.chip /\ XPRAM' = o.ram
  BY <1>1, <1>2, <1>6, DriveSends
<1>7. ASSUME rtcEnable, port.rtc_clock = 1, v[Clock] = 0, dirb = DataInput
      PROVE  /\ port'.rtc_val = recv_rtc /\ chip' = [chip EXCEPT !.cnt_r = (@ % 8) + 1]
             /\ XPRAM' = Patched(XPRAM, w)
  BY <1>1, <1>2, <1>7, DriveReceives
<1> QED
  BY <1>3, <1>4, <1>5, <1>6, <1>7 DEF dirb

\* The lines as they are read and written back: the clock stays high, the chip
\* enabled, and nothing is clocked (VIA::read, VIA::write).
LEMMA AdbAccess ==
  ASSUME RtcAssumption, Conventions, ClockInv, port.orb[Clock] = 1, NEW w, WrittenBack(w),
         w = <<>> \/ \A c \in Commands : PlainReg(c[1]) # w[1],
         want' = Patched(want, w), guest' = guest
  PROVE  ClockInv'
<1> DEFINE v == ReadPort
<1>1. WriteOrb(v, w) /\ InPort
  BY DEF WrittenBack, ClockInv
<1>2. v[Clock] = 1 /\ v[Enable] = 0
  <2>1. port.dirb[Clock] = 1 /\ port.dirb[Enable] = 1 /\ Clock \in Line /\ Enable \in Line
    BY <1>1 DEF InPort, AllOutputs, DataInput, Line, Clock, Enable, Data
  <2> QED
    BY <1>1, <2>1 DEF ReadPort, InPort
<1> HIDE DEF v
<1>3. /\ DOMAIN port' = PortFields /\ port'.dirb = port.dirb
      /\ DOMAIN port'.orb = Line /\ port'.orb[Enable] = 0 /\ port'.orb[Clock] = 1
      /\ port'.rtc_clock = IF rtcEnable THEN 1 ELSE port.rtc_clock
      /\ rtcEnable' /\ rtcEnable' \in BOOLEAN /\ chip' = chip /\ XPRAM' = Patched(XPRAM, w)
      /\ port.dirb = DataInput => port'.rtc_val = port.rtc_val
  <2>1. DataInput # AllOutputs
    BY DEF DataInput, AllOutputs, Line, Data
  <2> QED
    BY <1>1, <1>2, <2>1, Written
<1>4. InPort'
  BY <1>1, <1>3 DEF InPort, Sends, Receives, InAll, Bit
<1>5. Shifted'
  BY <1>3 DEF ClockInv, Shifted, Sends, InAll, Halves
<1>6. DOMAIN want' = Registers
  BY DEF Patched, ClockInv, Carried
<1>7. ASSUME NEW c \in Commands
      PROVE  /\ WrittenBy(Patched(want, w), c[1], Arg(c, 2), Arg(c, 3))
                   = Patched(WrittenBy(want, c[1], Arg(c, 2), Arg(c, 3)), w)
             /\ Readable(Patched(want, w), PlainReg(c[1])) = Readable(want, PlainReg(c[1]))
  <2> DEFINE r == PlainReg(c[1])
             x == IF IsXpramWrite(c[1]) THEN Arg(c, 3) ELSE Arg(c, 2)
  <2>1. RegOf(c[1], Arg(c, 2)) = r /\ r \in Registers
    BY DEF RegOf, Conventions
  <2>2. \A f : WrittenBy(f, c[1], Arg(c, 2), Arg(c, 3)) = [f EXCEPT ![r] = x]
    BY <2>1 DEF WrittenBy
  <2>3. w = <<>> \/ w[1] # r
    OBVIOUS
  <2>4. DOMAIN want = Registers
    BY DEF ClockInv, Carried
  <2> HIDE DEF r, x
  <2>5. CASE w = <<>>
    BY <2>2, <2>5 DEF Patched, r
  <2>6. CASE w # <<>>
    <3>1. w[1] # r
      BY <2>3, <2>6
    <3> DEFINE q == w[1]
               y == w[2]
    <3>2. \A f : Patched(f, w) = [f EXCEPT ![q] = y]
      BY <2>6 DEF Patched
    <3> HIDE DEF q, y
    <3>3. q # r
      BY <3>1 DEF q
    <3>4. [[want EXCEPT ![q] = y] EXCEPT ![r] = x] = [[want EXCEPT ![r] = x] EXCEPT ![q] = y]
      BY <3>3
    <3>5. [want EXCEPT ![q] = y][r] = want[r]
      BY <2>1, <2>4, <3>3
    <3>6. Readable([want EXCEPT ![q] = y], r) = Readable(want, r)
      BY <3>5 DEF Readable
    <3> QED
      BY <2>2, <3>2, <3>4, <3>6 DEF r
  <2> QED
    BY <2>5, <2>6
<1>8. Carried'
  <2>1. Sends \/ Receives => guest.job \in Commands
    BY <1>1 DEF InPort
  <2> DEFINE whole == Sends /\ Halves = InAll
  <2>2. /\ Sends' <=> Sends
        /\ Receives' <=> Receives
        /\ Halves' = Halves /\ InAll' = InAll
    BY DEF Sends, Receives, Halves, InAll
  <2>3. XPRAM = IF whole /\ ~IsRead(guest.job[1]) THEN Finished(guest.job) ELSE want
    BY DEF ClockInv, Carried
  <2>4. CASE whole /\ ~IsRead(guest.job[1])
    <3>1. XPRAM' = Patched(Finished(guest.job), w)
      BY <1>3, <2>3, <2>4
    <3>2. Finished(guest.job)' = Patched(Finished(guest.job), w)
      BY <1>7, <2>1, <2>4 DEF Finished
    <3> QED
      BY <1>6, <2>2, <2>4, <3>1, <3>2 DEF Carried, Receives, Sends
  <2>5. CASE ~(whole /\ ~IsRead(guest.job[1]))
    <3>1. XPRAM' = want'
      BY <1>3, <2>3, <2>5
    <3>2. Receives \/ (Sends /\ Halves = InAll /\ IsRead(guest.job[1])) =>
             chip.val \in Readable(want, PlainReg(guest.job[1]))
      BY DEF ClockInv, Carried
    <3>3. Receives \/ (Sends /\ Halves = InAll /\ IsRead(guest.job[1])) =>
             chip.val \in Readable(want', PlainReg(guest.job[1]))
      BY <1>7, <2>1, <3>2
    <3>4. Sends /\ Halves = InAll /\ IsRead(guest.job[1]) => chip.cnt_r = 0
      BY DEF ClockInv, Carried
    <3> QED
      BY <1>3, <1>6, <2>2, <2>5, <3>1, <3>3, <3>4 DEF Carried
  <2> QED
    BY <2>4, <2>5
<1>9. Answering'
  <2> SUFFICES ASSUME Receives PROVE Answering'
    BY DEF Answering, Receives
  <2>1. guest.half = 0 => port.rtc_clock = 1
    BY <1>1 DEF InPort, Bit
  <2>2. port.dirb = DataInput /\ rtcEnable
    BY <1>1 DEF InPort, Receives
  <2>3. Falls' = Falls
    BY <1>3, <2>1, <2>2 DEF Falls
  <2> QED
    BY <1>3, <2>2, <2>3 DEF ClockInv, Answering, Receives
<1> QED
  BY <1>4, <1>5, <1>8, <1>9 DEF ClockInv

\* The levels that the clock driver writes.
LEMMA LinesAre ==
  \A d, c, e : Lines(d, c, e)[Data] = d /\ Lines(d, c, e)[Clock] = c /\ Lines(d, c, e)[Enable] = e
  BY DEF Lines, Line, Data, Clock, Enable

\* The two settings of the direction register differ.
LEMMA NotInput == DataInput # AllOutputs /\ AllOutputs # DataInput
  BY DEF DataInput, AllOutputs, Line, Data

\* A command is begun.
LEMMA SelectStep ==
  ASSUME RtcAssumption, Conventions, ClockInv, NEW c \in Commands, NEW rest \in Rests, Select(c, rest)
  PROVE  ClockInv'
<1> DEFINE v == Lines(0, rest, 0)
<1>1. /\ InPort /\ guest.phase = "idle" /\ WriteOrb(v, <<>>) /\ want' = want
      /\ guest' = [Idle EXCEPT !.phase = "send", !.job = c, !.rest = rest]
  BY DEF ClockInv, Select, Frame
<1>2. v[Clock] = 1 /\ v[Enable] = 0 /\ rest = 1
  <2>1. rest = 1
    BY DEF Conventions
  <2> QED
    BY <2>1, LinesAre
<1>3. /\ DOMAIN guest' = GuestFields /\ guest'.phase = "send" /\ guest'.job = c /\ guest'.rest = 1
      /\ guest'.n = 0 /\ guest'.half = 0 /\ guest'.got = <<>>
  BY <1>1, <1>2 DEF Idle, GuestFields
<1> HIDE DEF v
<1>4. /\ DOMAIN port' = PortFields /\ port'.dirb = port.dirb
      /\ DOMAIN port'.orb = Line /\ port'.orb[Enable] = 0 /\ port'.orb[Clock] = port.orb[Clock]
      /\ port'.rtc_clock = IF rtcEnable THEN 1 ELSE port.rtc_clock
      /\ rtcEnable' /\ rtcEnable' \in BOOLEAN /\ chip' = chip /\ XPRAM' = XPRAM
  BY <1>1, <1>2, Written DEF Patched
<1>5. Len(c) \in {1, 2}
  BY Sizes
<1>6. /\ ~Sends /\ port.rtc_clock = 1 /\ port.dirb = AllOutputs
  BY <1>1 DEF InPort, Sends, Receives
<1>7. Sends' /\ ~Receives' /\ InAll' = 8 * Len(c) /\ Halves' = 0
  BY <1>3 DEF Sends, Receives, InAll, Halves
<1>8. InPort'
  BY <1>1, <1>3, <1>4, <1>5, <1>6, <1>7 DEF InPort, Bit
<1>9. Shifted'
  <2>1. chip.bits = <<>> /\ chip.lists = <<>> /\ DOMAIN chip = ChipFields
    BY <1>6 DEF ClockInv, Shifted
  <2>2. IsSeq(<<>>) /\ Len(<<>>) = 0
    BY Tuples
  <2> QED
    BY <1>4, <1>5, <1>7, <2>1, <2>2 DEF Shifted
<1>10. Carried' /\ Answering'
  <2>1. Halves' # InAll'
    BY <1>5, <1>7
  <2> QED
    BY <1>1, <1>4, <1>6, <1>7, <2>1 DEF ClockInv, Carried, Answering
<1> QED
  BY <1>8, <1>9, <1>10 DEF ClockInv

\* The byte that was sent last: a command, or the first of two (send_rtc).
LEMMA ByteSent ==
  ASSUME RtcAssumption, Conventions, ClockInv, guest.phase = "send", NEW l,
         NEW o \in AfterByte(l), chip' = o.chip, XPRAM' = o.ram,
         l = <<guest.job[1]>> \/ (~IsRead(guest.job[1]) /\ l = <<guest.job[1], guest.job[2]>>),
         Halves < InAll
  PROVE  /\ DOMAIN chip' = ChipFields /\ chip'.bits = <<>>
         /\ l = <<guest.job[1]>> /\ ~IsRead(guest.job[1]) =>
              chip'.lists = <<guest.job[1]>> /\ XPRAM' = want
         /\ l = <<guest.job[1]>> /\ IsRead(guest.job[1]) =>
              /\ chip'.lists = <<>> /\ XPRAM' = want /\ chip'.cnt_r = 0
              /\ chip'.val \in Readable(want, PlainReg(guest.job[1]))
         /\ ~IsRead(guest.job[1]) /\ l = <<guest.job[1], guest.job[2]>> =>
              chip'.lists = <<>> /\ XPRAM' = Finished(guest.job)
<1> DEFINE j == guest.job
<1>1. j \in Commands
  BY DEF ClockInv, InPort, Sends
<1>2. /\ ~IsXpramRead(j[1]) /\ ~IsXpramWrite(j[1])
      /\ Len(j) = IF IsRead(j[1]) THEN 1 ELSE 2
  BY <1>1, Sizes DEF Conventions
<1>3. XPRAM = want /\ DOMAIN chip = ChipFields
  <2>1. Halves # InAll
    <3>1. guest.n \in Nat /\ guest.half \in {0, 1}
      BY DEF ClockInv, InPort, Bit
    <3>2. InAll \in Nat
      BY <1>2 DEF InAll
    <3> QED
      BY <3>1, <3>2 DEF Halves
  <2> QED
    BY <2>1 DEF ClockInv, Carried, Shifted
<1>4. \A b, k : LET h == Held(b, k) IN
         /\ DOMAIN h.chip = ChipFields /\ h.chip.bits = b /\ h.chip.lists = k /\ h.ram = XPRAM
         /\ DOMAIN h = {"chip", "ram"}
  BY <1>3 DEF Held, ChipFields
<1>5. CASE l = <<j[1]>> /\ ~IsRead(j[1])
  <2>1. l[1] = j[1] /\ Len(l) = 1
    BY <1>5
  <2>2. ~Complete(l)
    BY <1>2, <1>5, <2>1 DEF Complete
  <2>3. o = Held(<<>>, l)
    BY <2>2 DEF AfterByte
  <2>4. l # <<j[1], j[2]>>
    BY <2>1
  <2> QED
    BY <1>3, <1>4, <1>5, <2>3, <2>4
<1>6. CASE l = <<j[1]>> /\ IsRead(j[1])
  <2>1. l[1] = j[1] /\ Len(l) = 1
    BY <1>6
  <2>2. Complete(l) /\ IsRead(l[1])
    BY <1>6, <2>1 DEF Complete
  <2>3. PICK b \in Readable(XPRAM, RegOf(l[1], Arg(l, 2))) :
          o = [chip |-> [bits |-> <<>>, lists |-> <<>>, val |-> b, cnt_r |-> 0], ram |-> XPRAM]
    BY <2>2 DEF AfterByte
  <2>4. RegOf(l[1], Arg(l, 2)) = PlainReg(j[1])
    BY <1>2, <2>1 DEF RegOf
  <2> QED
    BY <1>3, <1>6, <2>3, <2>4 DEF ChipFields
<1>7. CASE l = <<j[1], j[2]>> /\ ~IsRead(j[1])
  <2>1. l[1] = j[1] /\ l[2] = j[2] /\ Len(l) = 2
    BY <1>7
  <2>2. Complete(l) /\ ~IsRead(l[1])
    BY <1>7, <2>1 DEF Complete
  <2>3. o = [Held(<<>>, <<>>) EXCEPT !.ram = WrittenBy(@, l[1], Arg(l, 2), Arg(l, 3))]
    BY <2>2 DEF AfterByte
  <2>4. Arg(l, 2) = Arg(j, 2) /\ Arg(l, 3) = Arg(j, 3)
    BY <1>2, <1>7, <2>1 DEF Arg
  <2>5. o.chip = Held(<<>>, <<>>).chip /\ o.ram = WrittenBy(XPRAM, l[1], Arg(l, 2), Arg(l, 3))
    BY <1>4, <2>3
  <2>6. XPRAM' = Finished(j)
    BY <1>3, <2>1, <2>4, <2>5 DEF Finished
  <2>7. l # <<j[1]>>
    BY <2>1
  <2> QED
    BY <1>4, <1>7, <2>5, <2>6, <2>7
<1> QED
  BY <1>5, <1>6, <1>7

\* Sequences of one and two items, as send_rtc gathers its bytes.
LEMMA Listed ==
  ASSUME NEW x, NEW y PROVE Append(<<>>, x) = <<x>> /\ Append(<<x>>, y) = <<x, y>>
<1>1. Append(<<>>, x) = <<x>>
  OBVIOUS
<1>2. <<x>> \in Seq({x, y}) /\ <<x, y>> \in Seq({x, y}) /\ Len(<<x>>) = 1 /\ Len(<<x, y>>) = 2
  OBVIOUS
<1>3. /\ Append(<<x>>, y) \in Seq({x, y}) /\ Len(Append(<<x>>, y)) = 2
      /\ Append(<<x>>, y)[1] = x /\ Append(<<x>>, y)[2] = y
  BY <1>2
<1> DEFINE t == Append(<<x>>, y)
           u == <<x, y>>
<1>4. u[1] = x /\ u[2] = y
  OBVIOUS
<1>5. /\ t \in Seq({x, y}) /\ u \in Seq({x, y}) /\ Len(t) = Len(u) /\ Len(t) = 2
      /\ t[1] = u[1] /\ t[2] = u[2]
  BY <1>2, <1>3, <1>4
<1> HIDE DEF t, u
<1>6. \A i \in 1..Len(t) : t[i] = u[i]
  BY <1>5
<1>7. t = u
  BY <1>5, <1>6, SameSeq, Zenon
<1> QED
  BY <1>1, <1>7 DEF t, u

\* The numbers that a command in the middle of its bits goes by.
LEMMA Numbers ==
  ASSUME RtcAssumption, Conventions, ClockInv, guest.phase = "send"
  PROVE  /\ guest.n \in Nat /\ guest.half \in {0, 1} /\ guest.job \in Commands
         /\ InAll = IF IsRead(guest.job[1]) THEN 8 ELSE 16
         /\ InAll \in Nat /\ InAll <= 16
         /\ Halves \in Nat /\ Halves <= InAll
         /\ guest.half = 0 => Halves = guest.n
         /\ guest.half = 1 => Halves = guest.n + 1
<1>1. guest.n \in Nat /\ guest.half \in {0, 1} /\ guest.job \in Commands
  BY DEF ClockInv, InPort, Sends, Bit
<1>2. InAll = IF IsRead(guest.job[1]) THEN 8 ELSE 16
  <2>1. Len(guest.job) = IF IsRead(guest.job[1]) THEN 1 ELSE 2
    BY <1>1, Sizes
  <2>2. CASE IsRead(guest.job[1])
    BY <2>1, <2>2 DEF InAll
  <2>3. CASE ~IsRead(guest.job[1])
    BY <2>1, <2>3 DEF InAll
  <2> QED
    BY <2>2, <2>3
<1>3. guest.n <= InAll /\ (guest.half = 1 => guest.n < InAll)
  BY DEF ClockInv, InPort, Sends
<1>4. InAll \in Nat /\ InAll <= 16
  <2>1. 8 \in Nat /\ 16 \in Nat /\ 8 <= 16 /\ 16 <= 16
    OBVIOUS
  <2> QED
    BY <1>2, <2>1, Zenon
<1> QED
  BY <1>1, <1>2, <1>3, <1>4 DEF Halves

\* One bit goes to the chip.
Sent(x) ==
  /\ guest.phase = "send" /\ Halves < InAll
  /\ x = BitOf(guest.job[(Halves \div 8) + 1], Halves % 8)
  /\ \E o \in send_rtc(x) : chip' = o.chip /\ XPRAM' = o.ram
  /\ want' = want /\ guest'.phase = "send" /\ guest'.job = guest.job
  /\ Halves' = Halves + 1 /\ InAll' = InAll

\* The bit is shifted in; with the last the command is carried out (send_rtc).
LEMMA BitSent ==
  ASSUME RtcAssumption, Conventions, ClockInv, NEW x, Sent(x)
  PROVE  Shifted' /\ Carried'
<1> DEFINE j == guest.job
           k == Halves
           s == chip.bits
           t == Append(s, x)
<1>1. j \in Commands /\ k \in Nat /\ InAll = IF IsRead(j[1]) THEN 8 ELSE 16
  BY Numbers DEF Sent
<1>a. PICK o \in send_rtc(x) : chip' = o.chip /\ XPRAM' = o.ram
  BY DEF Sent
<1>2. /\ DOMAIN chip = ChipFields /\ XPRAM = want /\ DOMAIN want = Registers
      /\ k < 8 => chip.lists = <<>> /\ IsSeq(s) /\ Len(s) = k
                  /\ \A i \in 1..k : s[i] = BitOf(j[1], i - 1)
      /\ ~(k < 8) => chip.lists = <<j[1]>> /\ IsSeq(s) /\ Len(s) = k - 8
                    /\ \A i \in 1..k - 8 : s[i] = BitOf(j[2], i - 1)
  <2>a. k < InAll
    BY DEF Sent
  <2>3. k \in Nat /\ InAll \in Nat
    BY Numbers DEF Sent
  <2>1. k # InAll /\ (~(k < 8) => k >= 8) /\ k < InAll
    BY <2>a, <2>3
  <2>2. Sends
    BY DEF Sent, Sends
  <2> QED
    BY <2>1, <2>2 DEF ClockInv, Shifted, Carried
<1>3. Sends' /\ ~Receives'
  BY DEF Sends, Receives, Sent
<1>4. IsSeq(s)
  BY <1>2
<1>5. /\ IsSeq(t) /\ Len(t) = Len(s) + 1 /\ t[Len(s) + 1] = x /\ \A i \in 1..Len(s) : t[i] = s[i]
  BY <1>4, Extended
<1>6. o \in IF Len(t) = 8 THEN AfterByte(Append(chip.lists, ByteOf(t))) ELSE {Held(t, chip.lists)}
  BY <1>a DEF send_rtc
<1>7. \A b, l : LET h == Held(b, l) IN
        /\ DOMAIN h.chip = ChipFields /\ h.chip.bits = b /\ h.chip.lists = l /\ h.ram = XPRAM
  BY <1>2 DEF Held, ChipFields
<1>8. j[1] \in Byte /\ (~IsRead(j[1]) => j[2] \in Byte)
  BY <1>1, Sizes
<1>9. x = BitOf(j[(k \div 8) + 1], k % 8)
  BY DEF Sent
<1>10. k < 8 => x = BitOf(j[1], k)
  <2>1. k < 8 => (k \div 8) + 1 = 1 /\ k % 8 = k
    BY <1>1
  <2> QED
    BY <1>9, <2>1
<1>11. ~(k < 8) => x = BitOf(j[2], k - 8)
  <2>a. k \in Nat /\ k < 16
    <3>1. k \in Nat /\ InAll \in Nat /\ InAll <= 16
      BY Numbers DEF Sent
    <3>2. k < InAll
      BY DEF Sent
    <3> QED
      BY <3>1, <3>2
  <2>1. ~(k < 8) => (k \div 8) + 1 = 2 /\ k % 8 = k - 8
    BY <2>a
  <2> QED
    BY <1>9, <2>1
<1>12. /\ Halves' = k + 1 /\ InAll' = InAll /\ guest'.job = j /\ want' = want
       /\ chip' = o.chip /\ XPRAM' = o.ram
      /\ guest.phase = "send" /\ k < InAll
  BY <1>a DEF Sent
<1> HIDE DEF j, k, s, t
<1>13. CASE k < 8
  <2>1. \A i \in 1..k + 1 : t[i] = BitOf(j[1], i - 1)
    <3> TAKE i \in 1..k + 1
    <3>1. Len(s) = k
      BY <1>2, <1>13
    <3>2. i \in 1..k \/ i = k + 1
      BY <1>1
    <3>3. CASE i \in 1..k
      BY <1>2, <1>5, <1>13, <3>1, <3>3
    <3>4. CASE i = k + 1
      <4>1. i - 1 = k
        BY <1>1, <3>4
      <4> QED
        BY <1>5, <1>10, <1>13, <3>1, <3>4, <4>1
    <3> QED
      BY <3>2, <3>3, <3>4
  <2>2. CASE k < 7
    <3>1. Len(t) # 8 /\ Len(t) = k + 1 /\ k + 1 < 8 /\ k + 1 # InAll /\ k + 1 \in Nat
      BY <1>1, <1>2, <1>5, <2>2
    <3>2. o = Held(t, chip.lists)
      BY <1>6, <3>1
    <3>3. chip'.bits = t /\ chip'.lists = <<>> /\ DOMAIN chip' = ChipFields /\ XPRAM' = XPRAM
      BY <1>2, <1>7, <1>12, <1>13, <3>2
    <3>4. Shifted'
      <4>1. ~(k + 1 >= 8)
        BY <3>1
      <4> QED
        BY <1>3, <1>5, <1>12, <2>1, <3>1, <3>3, <4>1 DEF Shifted
    <3>5. Carried'
      BY <1>2, <1>3, <1>12, <3>1, <3>3 DEF Carried
    <3> QED
      BY <3>4, <3>5
  <2>3. CASE k >= 7
    <3>1. Len(t) = 8 /\ k + 1 = 8
      BY <1>1, <1>2, <1>5, <1>13, <2>3
    <3>2. ByteOf(t) = j[1]
      BY <1>8, <2>1, <3>1, ByteAgain
    <3>3. Append(chip.lists, ByteOf(t)) = <<j[1]>>
      BY <1>2, <1>13, <3>2, Listed, Zenon
    <3>4. o \in AfterByte(<<j[1]>>)
      BY <1>6, <3>1, <3>3
    <3>5. /\ DOMAIN chip' = ChipFields /\ chip'.bits = <<>> /\ XPRAM' = want
          /\ ~IsRead(j[1]) => chip'.lists = <<j[1]>>
          /\ IsRead(j[1]) => /\ chip'.lists = <<>> /\ chip'.cnt_r = 0
                             /\ chip'.val \in Readable(want, PlainReg(j[1]))
      BY <1>12, <3>4, ByteSent DEF j, k
    <3>6. IsSeq(<<>>) /\ Len(<<>>) = 0 /\ 8 - 8 = 0 /\ \A i \in 1..0 : FALSE
      BY Tuples
    <3>7. CASE IsRead(j[1])
      <4>1. Halves' = InAll' /\ ~(8 < 8)
        BY <1>1, <1>12, <3>1, <3>7
      <4>2. Shifted'
        BY <1>3, <1>12, <3>1, <3>5, <3>7, <4>1 DEF Shifted
      <4>3. Carried'
        BY <1>2, <1>3, <1>12, <3>5, <3>7 DEF Carried
      <4> QED
        BY <4>2, <4>3
    <3>8. CASE ~IsRead(j[1])
      <4>1. Halves' # InAll' /\ ~(8 < 8)
        BY <1>1, <1>12, <3>1, <3>8
      <4>2. Shifted'
        BY <1>3, <1>12, <3>1, <3>5, <3>6, <3>8, <4>1 DEF Shifted
      <4>3. Carried'
        BY <1>2, <1>3, <1>12, <3>5, <3>8, <4>1 DEF Carried
      <4> QED
        BY <4>2, <4>3
    <3> QED
      BY <3>7, <3>8
  <2> QED
    BY <1>1, <1>13, <2>2, <2>3
<1>14. CASE ~(k < 8)
  <2>1. \A i \in 1..k + 1 - 8 : t[i] = BitOf(j[2], i - 1)
    <3> TAKE i \in 1..k + 1 - 8
    <3>1. Len(s) = k - 8
      BY <1>2, <1>14
    <3>2. i \in 1..k - 8 \/ i = k - 8 + 1
      BY <1>1
    <3>3. CASE i \in 1..k - 8
      BY <1>2, <1>5, <1>14, <3>1, <3>3
    <3>4. CASE i = k - 8 + 1
      <4>1. i - 1 = k - 8
        BY <1>1, <3>4
      <4> QED
        BY <1>5, <1>11, <1>14, <3>1, <3>4, <4>1
    <3> QED
      BY <3>2, <3>3, <3>4
  <2>2. ~IsRead(j[1]) /\ InAll = 16 /\ k < 16
    <3> QED
      BY <1>1, <1>12, <1>14
  <2>3. CASE k < 15
    <3>1. /\ Len(t) # 8 /\ Len(t) = k + 1 - 8 /\ k + 1 >= 8 /\ k + 1 < InAll /\ k + 1 # InAll
          /\ ~(k + 1 < 8)
      BY <1>1, <1>2, <1>5, <1>14, <2>2, <2>3
    <3>2. o = Held(t, chip.lists)
      BY <1>6, <3>1
    <3>3. chip'.bits = t /\ chip'.lists = <<j[1]>> /\ DOMAIN chip' = ChipFields /\ XPRAM' = XPRAM
      BY <1>2, <1>7, <1>12, <1>14, <3>2
    <3>4. Shifted'
      <4>1. /\ ~(Halves' < 8) /\ Halves' # InAll' /\ Len(t) = Halves' - 8 /\ guest'.job = j
        BY <1>1, <1>12, <3>1
      <4>2. \A i \in 1..Halves' - 8 : t[i] = BitOf(j[2], i - 1)
        BY <1>1, <1>12, <2>1
      <4> QED
        BY <1>3, <1>5, <3>3, <4>1, <4>2 DEF Shifted
    <3>5. Carried'
      BY <1>2, <1>3, <1>12, <3>1, <3>3 DEF Carried
    <3> QED
      BY <3>4, <3>5
  <2>4. CASE k >= 15
    <3>1. Len(t) = 8 /\ k + 1 = 16 /\ k + 1 - 8 = 8
      BY <1>1, <1>2, <1>5, <1>14, <2>2, <2>4
    <3>2. ByteOf(t) = j[2]
      BY <1>8, <2>1, <2>2, <3>1, ByteAgain
    <3>3. Append(chip.lists, ByteOf(t)) = <<j[1], j[2]>>
      <4>1. chip.lists = <<j[1]>>
        BY <1>2, <1>14
      <4>2. Append(<<j[1]>>, j[2]) = <<j[1], j[2]>>
        BY Listed, Zenon
      <4> QED
        BY <3>2, <4>1, <4>2
    <3>4. o \in AfterByte(<<j[1], j[2]>>)
      BY <1>6, <3>1, <3>3
    <3>5. /\ DOMAIN chip' = ChipFields /\ chip'.bits = <<>> /\ chip'.lists = <<>>
          /\ XPRAM' = Finished(j)
      BY <1>12, <2>2, <3>4, ByteSent DEF j, k
    <3>6. Halves' = InAll' /\ ~(16 < 8)
      BY <1>12, <2>2, <3>1
    <3>7. Shifted'
      BY <1>3, <1>12, <2>2, <3>1, <3>5, <3>6 DEF Shifted
    <3>8. Finished(guest.job)' = Finished(j)
      BY <1>12 DEF Finished
    <3>9. Carried'
      BY <1>2, <1>3, <1>12, <2>2, <3>5, <3>6, <3>8 DEF Carried
    <3> QED
      BY <3>7, <3>9
  <2> QED
    BY <1>1, <2>2, <2>3, <2>4
<1> QED
  BY <1>13, <1>14

\* Both halves of a bit sent.
LEMMA SendHalfStep ==
  ASSUME RtcAssumption, Conventions, ClockInv, SendHalf
  PROVE  ClockInv'
<1> DEFINE v == Lines(SentBit, Level, 0)
<1>1. /\ guest.phase = "send" /\ guest.n < 8 * Len(guest.job) /\ WriteOrb(v, <<>>)
      /\ guest' = Cycled /\ want' = want
  BY DEF SendHalf, Frame
<1>2. /\ guest.n \in Nat /\ guest.half \in {0, 1} /\ guest.job \in Commands
      /\ InAll \in {8, 16} /\ guest.n < InAll
      /\ guest.half = 0 => Halves = guest.n
      /\ guest.half = 1 => Halves = guest.n + 1
  BY <1>1, Numbers DEF InAll
<1>3. InPort /\ DOMAIN guest = GuestFields /\ guest.rest = 1 /\ rtcEnable /\ port.dirb = AllOutputs
  BY <1>1 DEF ClockInv, InPort, Sends
<1>4. /\ DOMAIN guest' = GuestFields /\ guest'.phase = "send" /\ guest'.job = guest.job
      /\ guest'.rest = 1 /\ guest'.half = 1 - guest.half /\ guest'.got = guest.got
      /\ guest'.n = IF guest.half = 1 THEN guest.n + 1 ELSE guest.n
  BY <1>1, <1>3 DEF Cycled, GuestFields
<1>5. /\ v[Data] = SentBit /\ v[Enable] = 0
      /\ v[Clock] = IF guest.half = 0 THEN 0 ELSE 1
  BY <1>3, LinesAre DEF Level
<1> HIDE DEF v
<1>6. /\ DOMAIN port' = PortFields /\ port'.dirb = port.dirb
      /\ DOMAIN port'.orb = Line /\ port'.orb[Enable] = 0 /\ port'.orb[Clock] = port.orb[Clock]
      /\ port'.rtc_clock = v[Clock] /\ rtcEnable' /\ rtcEnable' \in BOOLEAN
      /\ v[Clock] = 1 => chip' = chip /\ XPRAM' = XPRAM
      /\ port.rtc_clock = 1 /\ v[Clock] = 0 =>
            \E o \in send_rtc(v[Data]) : chip' = o.chip /\ XPRAM' = o.ram
  BY <1>1, <1>3, <1>5, Written DEF Patched
<1>7. Sends' /\ ~Receives' /\ InAll' = InAll /\ Sends
  BY <1>1, <1>4 DEF Sends, Receives, InAll
<1>8. InPort'
  BY <1>2, <1>3, <1>4, <1>5, <1>6, <1>7 DEF InPort, Bit
<1>9. Answering'
  BY <1>7 DEF Answering
<1>10. CASE guest.half = 1
  <2>1. Halves' = Halves /\ chip' = chip /\ XPRAM' = XPRAM
    BY <1>2, <1>4, <1>5, <1>6, <1>10 DEF Halves
  <2>2. Shifted' /\ Carried'
    BY <1>1, <1>4, <1>7, <2>1 DEF ClockInv, Shifted, Carried, Finished, Receives
  <2> QED
    BY <1>8, <1>9, <2>2 DEF ClockInv
<1>11. CASE guest.half = 0
  <2>1. port.rtc_clock = 1
    BY <1>1, <1>11 DEF ClockInv, InPort, Receives
  <2>2. PICK o \in send_rtc(v[Data]) : chip' = o.chip /\ XPRAM' = o.ram
    BY <1>5, <1>6, <1>11, <2>1
  <2>3. v[Data] = BitOf(guest.job[(Halves \div 8) + 1], Halves % 8)
    BY <1>2, <1>5, <1>11 DEF SentBit
  <2>4. Halves' = Halves + 1 /\ Halves < InAll
    BY <1>2, <1>4, <1>11 DEF Halves
  <2>5. Sent(v[Data])
    BY <1>1, <1>4, <1>7, <2>2, <2>3, <2>4 DEF Sent
  <2>6. Shifted' /\ Carried'
    BY <2>5, BitSent
  <2> QED
    BY <1>8, <1>9, <2>6 DEF ClockInv
<1> QED
  BY <1>2, <1>10, <1>11

\* After a command that reads the data line becomes an input; the clock line is
\* driven again from the output register, which may be its first edge.
LEMMA TurnStep ==
  ASSUME RtcAssumption, Conventions, ClockInv, Turn
  PROVE  ClockInv'
<1> DEFINE drive == Outputs(DataInput)
           j == guest.job
<1>1. /\ guest.phase = "send" /\ guest.n = 8 * Len(j) /\ IsRead(j[1])
      /\ Drive(drive, port.orb, DataInput, port.orb, <<>>)
      /\ guest' = [guest EXCEPT !.phase = "receive", !.n = 0] /\ want' = want
  BY DEF Turn, WriteDdr, Frame
<1>2. /\ InPort /\ DOMAIN guest = GuestFields /\ guest.rest = 1 /\ rtcEnable
      /\ DOMAIN port.orb = Line /\ port.orb[Enable] = 0 /\ port.orb[Clock] \in Bit
      /\ guest.job \in Commands
  BY <1>1 DEF ClockInv, InPort, Sends
<1>3. Halves = InAll /\ guest.half = 0 /\ guest.got = <<>> /\ Sends /\ port.rtc_clock = 1
  <2>1. guest.half = 0
    BY <1>1 DEF ClockInv, InPort, Sends, InAll, Bit
  <2>2. guest.n \in Nat /\ guest.n = InAll
    BY <1>1 DEF ClockInv, InPort, InAll
  <2>3. Halves = InAll
    BY <2>1, <2>2 DEF Halves
  <2>4. guest.got = <<>> /\ port.rtc_clock = 1
    BY <1>1, <2>1 DEF ClockInv, InPort, Sends, Receives
  <2> QED
    BY <1>1, <2>1, <2>3, <2>4 DEF Sends
<1>4. /\ DOMAIN guest' = GuestFields /\ guest'.phase = "receive" /\ guest'.job = j /\ guest'.rest = 1
      /\ guest'.n = 0 /\ guest'.half = 0 /\ guest'.got = <<>>
  BY <1>1, <1>2, <1>3 DEF GuestFields
<1>5. Clock \in drive /\ Enable \in drive /\ DataInput[Data] = 0
  BY Outs DEF DataInput, AllOutputs, Line, Data
<1> HIDE DEF drive, j
<1>6. /\ DOMAIN port' = PortFields /\ port'.dirb = DataInput /\ port'.orb = port.orb
      /\ port'.rtc_clock = port.orb[Clock] /\ rtcEnable' /\ rtcEnable' \in BOOLEAN
  <2>1. /\ DOMAIN port' = PortFields /\ port'.dirb = DataInput /\ port'.orb = port.orb
        /\ port'.rtc_clock = IF Clock \in drive /\ rtcEnable THEN port.orb[Clock] ELSE port.rtc_clock
        /\ rtcEnable' = IF Enable \in drive THEN port.orb[Enable] = 0 ELSE rtcEnable
    BY <1>1, DriveLines
  <2> QED
    BY <1>2, <1>5, <2>1
<1>7. /\ DOMAIN chip = ChipFields /\ chip.bits = <<>> /\ chip.lists = <<>> /\ chip.cnt_r = 0
      /\ XPRAM = want /\ DOMAIN want = Registers /\ chip.val \in Readable(want, PlainReg(j[1]))
  BY <1>1, <1>3 DEF ClockInv, Shifted, Carried, j
<1>8. /\ DOMAIN chip' = ChipFields /\ chip'.bits = <<>> /\ chip'.lists = <<>> /\ chip'.val = chip.val
      /\ XPRAM' = XPRAM /\ chip'.cnt_r = 1 - port'.rtc_clock
      /\ chip'.cnt_r > 0 => port'.rtc_val = BitOf(chip.val, 0)
  <2>1. CASE port.orb[Clock] = 0
    <3>1. /\ port'.rtc_val = recv_rtc /\ chip' = [chip EXCEPT !.cnt_r = (@ % 8) + 1]
          /\ XPRAM' = Patched(XPRAM, <<>>)
      BY <1>1, <1>2, <1>3, <1>5, <2>1, DriveReceives
    <3>2. chip'.cnt_r = 1 /\ chip'.val = chip.val
      BY <1>7, <3>1 DEF ChipFields
    <3>3. recv_rtc = BitOf(chip.val, 0)
      BY <1>7 DEF recv_rtc
    <3> QED
      BY <1>6, <1>7, <2>1, <3>1, <3>2, <3>3 DEF ChipFields, Patched
  <2>2. CASE port.orb[Clock] = 1
    <3>1. chip' = chip /\ XPRAM' = Patched(XPRAM, <<>>)
      BY <1>1, <2>2, DriveKeeps
    <3> QED
      BY <1>6, <1>7, <2>2, <3>1 DEF Patched
  <2> QED
    BY <1>2, <2>1, <2>2 DEF Bit
<1>9. Receives' /\ ~Sends'
  BY <1>4 DEF Receives, Sends
<1>10. InPort'
  BY <1>1, <1>2, <1>4, <1>6, <1>9 DEF InPort, Bit, j
<1>11. Shifted' /\ Carried'
  BY <1>1, <1>4, <1>7, <1>8, <1>9 DEF Shifted, Carried
<1>12. Answering'
  <2>1. Falls' = chip'.cnt_r
    <3>1. Falls' = 1 - port'.rtc_clock
      BY <1>2, <1>4, <1>6 DEF Falls, Bit
    <3> QED
      BY <1>8, <3>1
  <2>2. IsSeq(<<>>) /\ Len(<<>>) = 0
    BY Tuples
  <2> QED
    BY <1>4, <1>8, <1>9, <2>1, <2>2 DEF Answering
<1> QED
  BY <1>10, <1>11, <1>12 DEF ClockInv

\* Both halves of a bit received.
LEMMA RecvHalfStep ==
  ASSUME RtcAssumption, Conventions, ClockInv, RecvHalf
  PROVE  ClockInv'
<1> DEFINE v == Lines(0, Level, 0)
           n == guest.n
           g == guest.got
<1>1. /\ guest.phase = "receive" /\ n < 8 /\ ~BitDue /\ WriteOrb(v, <<>>)
      /\ guest' = Cycled /\ want' = want
  BY DEF RecvHalf, Frame
<1>2. /\ InPort /\ DOMAIN guest = GuestFields /\ guest.rest = 1 /\ rtcEnable /\ port.dirb = DataInput
      /\ guest.job \in Commands /\ IsRead(guest.job[1]) /\ n \in Nat /\ guest.half \in {0, 1}
      /\ port.rtc_clock \in {0, 1} /\ (guest.half = 0 /\ port.rtc_clock = 0 => n = 0)
  BY <1>1 DEF ClockInv, InPort, Receives, Bit
<1>3. /\ DOMAIN guest' = GuestFields /\ guest'.phase = "receive" /\ guest'.job = guest.job
      /\ guest'.rest = 1 /\ guest'.half = 1 - guest.half /\ guest'.got = g
      /\ guest'.n = IF guest.half = 1 THEN n + 1 ELSE n
  BY <1>1, <1>2 DEF Cycled, GuestFields
<1>4. /\ v[Enable] = 0 /\ v[Clock] = IF guest.half = 0 THEN 0 ELSE 1
  BY <1>2, LinesAre DEF Level
<1>5. /\ DOMAIN chip = ChipFields /\ chip.bits = <<>> /\ chip.lists = <<>>
      /\ XPRAM = want /\ DOMAIN want = Registers
      /\ chip.val \in Readable(want, PlainReg(guest.job[1]))
      /\ chip.cnt_r = Falls /\ IsSeq(g)
      /\ Len(g) = n \/ (guest.half = 1 /\ Len(g) = n + 1)
      /\ \A k \in 1..Len(g) : g[k] = BitOf(chip.val, k - 1)
      /\ Falls > n => port.rtc_val = BitOf(chip.val, n)
  BY <1>1 DEF ClockInv, Shifted, Carried, Answering, Sends, Receives
<1>6. guest.half = 1 => Len(g) = n + 1
  BY <1>1, <1>2, <1>5 DEF BitDue
<1> HIDE DEF v, n, g
<1>7. /\ DOMAIN port' = PortFields /\ port'.dirb = DataInput
      /\ DOMAIN port'.orb = Line /\ port'.orb[Enable] = 0 /\ port'.orb[Clock] = port.orb[Clock]
      /\ port'.rtc_clock = v[Clock] /\ rtcEnable' /\ rtcEnable' \in BOOLEAN
      /\ ~(port.rtc_clock = 1 /\ v[Clock] = 0) =>
            chip' = chip /\ XPRAM' = XPRAM /\ port'.rtc_val = port.rtc_val
      /\ port.rtc_clock = 1 /\ v[Clock] = 0 =>
            /\ port'.rtc_val = recv_rtc /\ chip' = [chip EXCEPT !.cnt_r = (@ % 8) + 1]
            /\ XPRAM' = XPRAM
  BY <1>1, <1>2, <1>4, NotInput, Written DEF Patched
<1>8. Receives' /\ ~Sends'
  BY <1>3 DEF Receives, Sends
<1>9. InPort'
  <2>1. guest'.n <= 8 /\ (guest'.half = 1 => guest'.n < 8) /\ guest'.n \in Nat /\ guest'.half \in Bit
    BY <1>1, <1>2, <1>3 DEF n, Bit
  <2>2. guest'.half = 0 => port'.rtc_clock = 1
    BY <1>2, <1>3, <1>4, <1>7
  <2>3. port'.orb[Clock] \in Bit /\ port'.rtc_clock \in Bit
    BY <1>2, <1>4, <1>7 DEF InPort, Bit
  <2> QED
    BY <1>2, <1>3, <1>7, <1>8, <2>1, <2>2, <2>3 DEF InPort
<1>10. ASSUME DOMAIN chip' = ChipFields, chip'.bits = <<>>, chip'.lists = <<>>, chip'.val = chip.val,
              XPRAM' = XPRAM
       PROVE  Shifted' /\ Carried'
  BY <1>1, <1>3, <1>5, <1>8, <1>10 DEF Shifted, Carried
<1>11. CASE guest.half = 1
  <2>1. chip' = chip /\ XPRAM' = XPRAM
    BY <1>4, <1>7, <1>11
  <2>2. Falls = n + 1 /\ Falls' = n + 1 /\ guest'.n = n + 1
    BY <1>2, <1>3, <1>4, <1>7, <1>11 DEF Falls, n
  <2>3. Answering'
    <3>1. ~(n + 1 > n + 1)
      BY <1>2
    <3> QED
      BY <1>3, <1>5, <1>6, <1>11, <2>1, <2>2, <3>1 DEF Answering
  <2> QED
    BY <1>5, <1>9, <1>10, <2>1, <2>3 DEF ClockInv
<1>12. CASE guest.half = 0
  <2>1. guest'.half = 1 /\ guest'.n = n /\ Falls' = n + 1 /\ Len(g) = n /\ v[Clock] = 0
    BY <1>3, <1>4, <1>5, <1>12 DEF Falls
  <2>2. /\ DOMAIN chip' = ChipFields /\ chip'.bits = <<>> /\ chip'.lists = <<>> /\ chip'.val = chip.val
        /\ XPRAM' = XPRAM /\ chip'.cnt_r = n + 1 /\ port'.rtc_val = BitOf(chip.val, n)
    <3>1. CASE port.rtc_clock = 1
      <4>1. Falls = n
        BY <1>2, <1>12, <3>1 DEF Falls, n
      <4>2. chip.cnt_r % 8 = n
        <5>1. n % 8 = n
          BY <1>1, <1>2
        <5> QED
          BY <1>5, <4>1, <5>1
      <4>3. port'.rtc_val = BitOf(chip.val, n)
        BY <1>7, <2>1, <3>1, <4>2 DEF recv_rtc
      <4> QED
        BY <1>5, <1>7, <2>1, <3>1, <4>2, <4>3 DEF ChipFields
    <3>2. CASE port.rtc_clock = 0
      <4>1. Falls = n + 1 /\ n + 1 > n
        BY <1>2, <1>12, <3>2 DEF Falls, n
      <4> QED
        BY <1>5, <1>7, <3>2, <4>1
    <3> QED
      BY <1>2, <3>1, <3>2
  <2>3. Answering'
    BY <1>3, <1>5, <2>1, <2>2 DEF Answering
  <2> QED
    BY <1>9, <1>10, <2>2, <2>3 DEF ClockInv
<1> QED
  BY <1>2, <1>11, <1>12

\* The driver reads a bit that the last edge has put on the line.
LEMMA RecvBitStep ==
  ASSUME RtcAssumption, Conventions, ClockInv, RecvBit
  PROVE  ClockInv'
<1> DEFINE n == guest.n
           g == guest.got
           x == ReadPort[Data]
           h == Append(g, x)
<1>1. /\ guest.phase = "receive" /\ BitDue /\ guest' = [guest EXCEPT !.got = h]
      /\ port' = port /\ rtcEnable' = rtcEnable /\ chip' = chip /\ XPRAM' = XPRAM /\ want' = want
  BY DEF RecvBit, Frame
<1>2. /\ InPort /\ DOMAIN guest = GuestFields /\ guest.rest = 1 /\ port.dirb = DataInput
      /\ n \in Nat
  BY <1>1 DEF ClockInv, InPort, Receives
<1>3. guest.half = 1 /\ Len(g) = n
  BY <1>1, <1>2 DEF BitDue
<1>4. /\ DOMAIN guest' = GuestFields /\ guest'.phase = "receive" /\ guest'.job = guest.job
      /\ guest'.rest = 1 /\ guest'.half = 1 /\ guest'.got = h /\ guest'.n = n
  BY <1>1, <1>2, <1>3 DEF GuestFields
<1>5. /\ chip.cnt_r = Falls /\ IsSeq(g) /\ (\A k \in 1..Len(g) : g[k] = BitOf(chip.val, k - 1))
      /\ Falls > n => port.rtc_val = BitOf(chip.val, n)
      /\ Falls = n + 1
  BY <1>1, <1>3 DEF ClockInv, Answering, Receives, Falls
<1>6. x = port.rtc_val
  BY <1>2 DEF ReadPort, ReadPB, DataInput, AllOutputs, Line, Data
<1>7. /\ IsSeq(h) /\ Len(h) = n + 1 /\ h[n + 1] = x /\ \A i \in 1..n : h[i] = g[i]
  BY <1>3, <1>5, Extended
<1> HIDE DEF n, g, x, h
<1>8. Receives /\ ~Sends /\ Receives' /\ ~Sends'
  BY <1>1, <1>4 DEF Receives, Sends
<1>9. InPort'
  BY <1>1, <1>2, <1>3, <1>4, <1>8 DEF InPort, Bit, n
<1>10. Shifted' /\ Carried'
  BY <1>1, <1>4, <1>8 DEF ClockInv, Shifted, Carried
<1>11. Answering'
  <2>1. Falls' = n + 1
    BY <1>3, <1>4 DEF Falls
  <2>2. x = BitOf(chip.val, n)
    BY <1>2, <1>5, <1>6
  <2>3. ASSUME NEW k \in 1..Len(h) PROVE h[k] = BitOf(chip.val, k - 1)
    <3>1. k \in 1..n \/ (k = n + 1 /\ k - 1 = n)
      BY <1>2, <1>7
    <3> QED
      BY <1>3, <1>5, <1>7, <2>2, <3>1
  <2> QED
    BY <1>1, <1>4, <1>5, <1>6, <1>7, <2>1, <2>2, <2>3 DEF Answering
<1> QED
  BY <1>9, <1>10, <1>11 DEF ClockInv

\* The chip is disabled after the last bit.
LEMMA DeselectStep ==
  ASSUME RtcAssumption, Conventions, ClockInv, Deselect
  PROVE  ClockInv'
<1> DEFINE v == Lines(0, guest.rest, 1)
           c == guest.job
           new == IF IsRead(c[1]) THEN [Idle EXCEPT !.phase = "restore"] ELSE Idle
<1>1. /\ guest.phase \in {"send", "receive"} /\ Through /\ WriteOrb(v, <<>>) /\ guest' = new
      /\ want' = IF IsRead(c[1]) THEN want ELSE Finished(c)
  BY DEF Deselect, Finished, ClockInv, InPort
<1>2. InPort /\ guest.rest = 1 /\ rtcEnable /\ c \in Commands /\ guest.n \in Nat
  BY <1>1 DEF ClockInv, InPort, Sends, Receives
<1>3. v[Enable] = 1 /\ v[Clock] = 1
  BY <1>2, LinesAre
<1>4. /\ DOMAIN guest' = GuestFields /\ guest'.rest = 1 /\ guest'.n = 0 /\ guest'.half = 0
      /\ guest'.phase = IF IsRead(c[1]) THEN "restore" ELSE "idle"
  BY <1>1 DEF Idle, GuestFields
<1> HIDE DEF v, c, new
<1>5. /\ DOMAIN port' = PortFields /\ port'.dirb = port.dirb
      /\ DOMAIN port'.orb = Line /\ port'.orb[Enable] = 0 /\ port'.orb[Clock] = port.orb[Clock]
      /\ port'.rtc_clock = 1 /\ ~rtcEnable' /\ rtcEnable' \in BOOLEAN
      /\ chip' = chip /\ XPRAM' = XPRAM
  BY <1>1, <1>2, <1>3, Written DEF Patched
<1>6. ~Receives' /\ ~Sends'
  BY <1>4 DEF Receives, Sends
<1>7. /\ port.dirb = IF IsRead(c[1]) THEN DataInput ELSE AllOutputs
      /\ chip.bits = <<>> /\ chip.lists = <<>> /\ DOMAIN chip = ChipFields
      /\ XPRAM = IF IsRead(c[1]) THEN want ELSE Finished(c)
      /\ DOMAIN want = Registers
  <2>1. DOMAIN chip = ChipFields /\ DOMAIN want = Registers
    BY DEF ClockInv, Shifted, Carried
  <2>2. CASE IsRead(c[1])
    <3>1. guest.phase = "receive"
      BY <2>2 DEF Deselect, Through, c
    <3> QED
      BY <1>2, <2>1, <2>2, <3>1 DEF ClockInv, InPort, Shifted, Carried, Sends
  <2>3. CASE ~IsRead(c[1])
    <3>1. guest.phase = "send" /\ guest.n = InAll
      BY <2>3 DEF Deselect, Through, InAll, c
    <3>2. guest.half = 0
      BY <1>2, <3>1 DEF InPort, Sends, Bit
    <3>3. Halves = InAll
      BY <1>2, <3>1, <3>2 DEF Halves
    <3> QED
      BY <1>2, <2>1, <2>3, <3>1, <3>3 DEF ClockInv, InPort, Shifted, Carried, Sends, c
  <2> QED
    BY <2>2, <2>3
<1>8. InPort'
  BY <1>2, <1>4, <1>5, <1>6, <1>7 DEF InPort, Bit
<1>9. Shifted' /\ Answering'
  BY <1>5, <1>6, <1>7 DEF Shifted, Answering
<1>10. DOMAIN want' = Registers
  BY <1>1, <1>7 DEF Finished, WrittenBy
<1>11. Carried'
  BY <1>1, <1>5, <1>6, <1>7, <1>10 DEF Carried
<1> QED
  BY <1>8, <1>9, <1>11 DEF ClockInv

\* The data line becomes an output again.
LEMMA RestoreStep ==
  ASSUME RtcAssumption, Conventions, ClockInv, Restore
  PROVE  ClockInv'
<1>1. /\ guest.phase = "restore" /\ guest' = Idle /\ want' = want
      /\ Drive(Line, port.orb, AllOutputs, port.orb, <<>>)
  BY Outs DEF Restore, WriteDdr, Frame
<1>2. /\ InPort /\ port.rtc_clock = 1 /\ DOMAIN port.orb = Line /\ port.orb[Enable] = 0
      /\ port.orb[Clock] \in Bit /\ (rtcEnable => port.orb[Clock] = 1)
  BY <1>1 DEF ClockInv, InPort, Receives, Sends
<1>3. /\ DOMAIN guest' = GuestFields /\ guest'.rest = 1 /\ guest'.n = 0 /\ guest'.half = 0
      /\ guest'.phase = "idle"
  BY <1>1 DEF Idle, GuestFields
<1>4. chip' = chip /\ XPRAM' = XPRAM
  BY <1>1, <1>2, DriveKeeps DEF Patched
<1>5. /\ DOMAIN port' = PortFields /\ port'.dirb = AllOutputs /\ port'.orb = port.orb
      /\ port'.rtc_clock = 1 /\ rtcEnable' \in BOOLEAN
  <2>1. /\ DOMAIN port' = PortFields /\ port'.dirb = AllOutputs /\ port'.orb = port.orb
        /\ port'.rtc_clock = IF Clock \in Line /\ rtcEnable THEN port.orb[Clock] ELSE port.rtc_clock
        /\ rtcEnable' = IF Enable \in Line THEN port.orb[Enable] = 0 ELSE rtcEnable
    BY <1>1, DriveLines
  <2> QED
    BY <1>2, <2>1 DEF Line
<1>6. ~Receives' /\ ~Sends' /\ ~Sends /\ ~Receives
  BY <1>1, <1>3 DEF Receives, Sends
<1>7. InPort'
  BY <1>2, <1>3, <1>5, <1>6 DEF InPort, Bit
<1>8. Shifted' /\ Answering' /\ Carried'
  BY <1>1, <1>4, <1>6 DEF ClockInv, Shifted, Answering, Carried
<1> QED
  BY <1>7, <1>8 DEF ClockInv

\* The ADB driver's accesses: what each writes to the parameter RAM is the
\* guest's to expect, and no register of the clock driver's commands.
LEMMA SendStateAccess ==
  ASSUME ViaAssumption, Conventions, AdbInv, Chosen, SendState
  PROVE  /\ port.orb[Clock] = 1 /\ guest' = guest
         /\ \E w : /\ WrittenBack(w) /\ want' = Patched(want, w)
                   /\ w = <<>> \/ \A c \in Commands : PlainReg(c[1]) # w[1]
<1> DEFINE c == driver.cmd
           ends == driver.n = Len(c) /\ c[1] = 7
<1>1. /\ driver.phase = "send" /\ guest' = guest /\ port.orb[Clock] \in AdbClocks
      /\ want' = IF ends THEN [want EXCEPT ![c[3]] = c[4]] ELSE want
  BY DEF SendState, PortState
<1>2. /\ ~ends => WrittenBack(<<>>)
      /\ ends /\ Len(c) = 4 => WrittenBack(<<c[3], c[4]>>)
  BY SendStateStep
<1>3. port.orb[Clock] = 1
  BY <1>1 DEF Conventions
<1>4. CASE ~ends
  BY <1>1, <1>2, <1>3, <1>4 DEF Patched
<1>5. CASE ends
  <2>1. Len(c) = 4 /\ \A d \in Commands : PlainReg(d[1]) # c[3]
    BY <1>1, <1>5 DEF Chosen, Conventions
  <2> DEFINE w == <<c[3], c[4]>>
  <2>2. WrittenBack(w)
    BY <1>2, <1>5, <2>1
  <2>3. w # <<>> /\ w[1] = c[3] /\ w[2] = c[4]
    OBVIOUS
  <2> HIDE DEF w
  <2>4. want' = Patched(want, w)
    BY <1>1, <1>5, <2>3 DEF Patched
  <2>5. \A d \in Commands : PlainReg(d[1]) # w[1]
    BY <2>1, <2>3
  <2> QED
    BY <1>1, <1>3, <2>2, <2>4, <2>5
<1> QED
  BY <1>4, <1>5

\* While a reply is read the parameter RAM is not written.
LEMMA ReplyStateAccess ==
  ASSUME Conventions, AdbInv, ReplyState
  PROVE  port.orb[Clock] = 1 /\ guest' = guest /\ want' = want /\ WrittenBack(<<>>)
<1> DEFINE s == IF driver.left = 0 THEN 3 ELSE 1 + (Len(driver.got) % 2)
<1>1. /\ driver.phase = "receive" /\ change_state(s) /\ guest' = guest /\ want' = want
      /\ port.orb[Clock] \in AdbClocks
  BY DEF ReplyState, PortState
<1>2. Shapes /\ sr.dir = "in"
  BY <1>1 DEF AdbInv, Replying
<1> HIDE DEF s
<1>3. WrittenBack(<<>>)
  BY <1>1, <1>2, ReceiveStep DEF change_state
<1>4. port.orb[Clock] = 1
  BY <1>1 DEF Conventions
<1> QED
  BY <1>1, <1>3, <1>4

\* A step that leaves the clock, the port and the clock driver alone.
LEMMA ClockAside == ASSUME ClockInv, UNCHANGED clockVars PROVE ClockInv'
  BY DEF ClockInv, clockVars, InPort, Shifted, Carried, Answering, Sends, Receives, InAll, Halves,
         Falls, Finished

\* A command on its way is one of the guest's transfers.
LEMMA ChosenStep == ASSUME AdbInv, Chosen, [Next]_vars PROVE Chosen'
<1>1. CASE driver' = driver
  BY <1>1 DEF Chosen
<1>2. CASE AdbDriver
  <2>1. driver'.phase = "send" => driver.phase = "send" /\ driver'.cmd = driver.cmd
    <3>1. CASE SendByte
      BY <3>1 DEF SendByte, Step, AdbInv, Shapes, DriverFields
    <3>2. CASE SendState
      BY <3>2 DEF SendState, Step, AdbInv, Shapes, DriverFields
    <3>3. CASE Wait
      BY <3>3 DEF Wait, Step, AdbInv, Shapes, DriverFields, Resting
    <3>4. CASE Direction
      BY <3>4 DEF Direction, Step, AdbInv, Shapes, DriverFields, Resting
    <3>5. CASE ReplyState
      BY <3>5 DEF ReplyState, Step, AdbInv, Shapes, DriverFields
    <3>6. CASE ReplyByte
      BY <3>6 DEF ReplyByte, Step, AdbInv, Shapes, DriverFields
    <3> QED
      BY <1>2, <3>1, <3>2, <3>3, <3>4, <3>5, <3>6 DEF AdbDriver
  <2> QED
    BY <2>1 DEF Chosen
<1>3. ASSUME NEW t \in Transfers, Begin(t) PROVE Chosen'
  <2>1. driver'.cmd = t.cmd
    BY <1>3 DEF Begin, Step, Resting
  <2> QED
    BY <2>1 DEF Chosen
<1>4. Next => driver' = driver \/ AdbDriver \/ \E t \in Transfers : Begin(t)
  BY DEF Next, Load, ClockDriver, LoadTimer, ReadTimer, Expire, NoTimer, Repeat, Tick, Callback, Key,
         KeyIrq
<1>5. UNCHANGED vars => driver' = driver
  BY DEF vars, viaVars
<1> QED
  BY <1>1, <1>2, <1>3, <1>4, <1>5

\* Every step of every thread keeps the clock's invariant.
LEMMA ClockInductive ==
  ASSUME RtcAssumption, ViaAssumption, Conventions, AdbInv, Chosen, ClockInv, [Next]_vars
  PROVE  ClockInv'
<1>1. CASE UNCHANGED clockVars
  BY <1>1, ClockAside
<1>2. CASE SendState
  BY <1>2, SendStateAccess, AdbAccess DEF ClockInv
<1>3. CASE ReplyState
  BY <1>3, ReplyStateAccess, AdbAccess DEF Patched
<1>4. CASE ClockDriver
  BY <1>4, SelectStep, SendHalfStep, TurnStep, RecvHalfStep, RecvBitStep, DeselectStep, RestoreStep
  DEF ClockDriver, ClockAccess
<1>5. Next => UNCHANGED clockVars \/ SendState \/ ReplyState \/ ClockDriver
  BY DEF Next, AdbDriver, NoAdb, SendByte, Wait, Direction, ReplyByte, Begin, Load, LoadTimer, ReadTimer,
         Expire, NoTimer, Repeat, Tick, Callback, Key, KeyIrq
<1>6. UNCHANGED vars => UNCHANGED clockVars
  BY DEF vars
<1> QED
  BY <1>1, <1>2, <1>3, <1>4, <1>5, <1>6

\* The invariant holds at the start.
LEMMA ClockStart == ASSUME RtcAssumption, Conventions, Init PROVE ClockInv /\ Chosen
<1>1. PICK orb \in BootOrbs :
        /\ port = [dirb |-> AllOutputs, orb |-> orb, rtc_clock |-> 1, rtc_val |-> 0]
        /\ rtcEnable = (orb[Enable] = 0)
  BY DEF Init, ClockInit
<1>2. /\ chip = [bits |-> <<>>, lists |-> <<>>, val |-> 0, cnt_r |-> 0]
      /\ XPRAM = [r \in Registers |-> 0] /\ guest = Idle /\ want = [r \in Registers |-> 0]
      /\ driver = Resting(<<>>)
  BY DEF Init, ClockInit
<1>3. /\ DOMAIN port = PortFields /\ port.dirb = AllOutputs /\ port.orb = orb /\ port.rtc_clock = 1
      /\ rtcEnable \in BOOLEAN /\ DOMAIN orb = Line /\ orb[Enable] = 0 /\ orb[Clock] \in Bit
  <2>1. orb \in [Line -> Bit] /\ orb[Enable] = 0
    BY DEF RtcAssumption, Conventions
  <2> QED
    BY <1>1, <2>1 DEF PortFields, Line
<1>4. /\ DOMAIN guest = GuestFields /\ guest.phase = "idle" /\ guest.rest = 1 /\ guest.n = 0
      /\ guest.half = 0 /\ guest.got = <<>>
  BY <1>2 DEF Idle, GuestFields
<1>5. ~Sends /\ ~Receives
  BY <1>4 DEF Sends, Receives
<1>6. InPort
  BY <1>3, <1>4, <1>5 DEF InPort, Bit
<1>7. Shifted /\ Carried /\ Answering
  BY <1>2, <1>5 DEF Shifted, Carried, Answering, ChipFields
<1>8. Chosen
  BY <1>2 DEF Chosen, Resting
<1> QED
  BY <1>6, <1>7, <1>8 DEF ClockInv

\* The inductive invariant of the port: transceiver, clock and both drivers.
PortInv == AdbInv /\ Chosen /\ ClockInv

\* It holds at the start and every step keeps it.
LEMMA PortInductive == Conventions => (Init => PortInv) /\ (PortInv /\ [Next]_vars => PortInv')
  BY RtcAssumption, ViaAssumption, AdbStart, ClockStart, AdbInductive, ChosenStep, ClockInductive
  DEF PortInv

\* Between two commands of the guest the chip has no half-received command: the
\* two stay in step though ADB accesses come between the bits (VIA::writePB).
THEOREM AlwaysInStep == ASSUME Conventions PROVE Spec => []InStep
<1>1. PortInv => InStep
  BY DEF PortInv, ClockInv, Shifted, Sends, InStep
<1> QED
  BY <1>1, PortInductive, PTL DEF Spec

\* A register of the clock holds what the guest wrote last, by the clock or by ADB.
THEOREM CommandsAlwaysObeyed == ASSUME Conventions PROVE Spec => []CommandsObeyed
<1>1. PortInv => CommandsObeyed
  BY DEF PortInv, ClockInv, Carried, Sends, CommandsObeyed
<1> QED
  BY <1>1, PortInductive, PTL DEF Spec

\* The eight bits that the guest reads are those of the register it asked for.
THEOREM AnswersAlwaysRight == ASSUME Conventions PROVE Spec => []AnswersRight
<1>1. ASSUME PortInv PROVE AnswersRight
  <2> SUFFICES ASSUME guest.phase = "receive", Len(guest.got) = 8
               PROVE  \E b \in Readable(want, RegOf(guest.job[1], Arg(guest.job, 2))) :
                        guest.got = Bits(b)
    BY DEF AnswersRight
  <2>1. /\ guest.job \in Commands /\ chip.val \in Readable(want, PlainReg(guest.job[1]))
        /\ IsSeq(guest.got) /\ \A k \in 1..8 : guest.got[k] = BitOf(chip.val, k - 1)
    BY <1>1 DEF PortInv, ClockInv, InPort, Carried, Answering, Receives
  <2>2. RegOf(guest.job[1], Arg(guest.job, 2)) = PlainReg(guest.job[1])
    BY <2>1 DEF RegOf, Conventions
  <2> DEFINE g == guest.got
  <2>3. PICK S : g \in Seq(S)
    BY <2>1 DEF IsSeq
  <2>4. Len(g) = 8 /\ \A k \in 1..8 : g[k] = BitOf(chip.val, k - 1)
    BY <2>1
  <2> HIDE DEF g
  <2>5. g = [k \in 1..Len(g) |-> g[k]]
    BY <2>3
  <2>6. g = [k \in 1..8 |-> BitOf(chip.val, k - 1)]
    BY <2>4, <2>5
  <2> QED
    BY <2>1, <2>2, <2>6 DEF Bits, g
<1> QED
  BY <1>1, PortInductive, PTL DEF Spec
=============================================================================
