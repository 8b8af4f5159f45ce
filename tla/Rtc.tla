-------------------------------- MODULE Rtc --------------------------------
(***************************************************************************)
(* The clock chip behind bits 0 to 2 of port B of VIA 1: data, clock and   *)
(* enable (low). The guest clocks commands in and answers out one bit at a *)
(* time; VIA::write and VIA::read find out, from the data directions and   *)
(* the output register, what each access does to the lines; send_rtc cuts  *)
(* the bits into bytes and the bytes into commands.                        *)
(*                                                                         *)
(* Via composes the clock driver here with the other users of the port.    *)
(***************************************************************************)
EXTENDS Integers, Sequences

CONSTANTS
  Registers, \* the registers of the parameter RAM and the clock that are used
  Commands,  \* the commands of the clock driver: sequences of bytes
  BootOrbs,  \* what the boot code may leave in the output register
  ClockBytes,\* the bytes a register of the clock may read
  Rests      \* the levels a clock driver leaves the clock line at

Byte == 0..255
Data == 0
Clock == 1
Enable == 2
Line == {Data, Clock, Enable}
Bit == {0, 1}

Weight == <<1, 2, 4, 8, 16, 32, 64, 128>>
BitOf(b, i) == (b \div Weight[i + 1]) % 2

\* (b & 0xB8) == 0xB8, and == 0x38
IsXpramRead(b) == \A i \in {3, 4, 5, 7} : BitOf(b, i) = 1
IsXpramWrite(b) == BitOf(b, 7) = 0 /\ \A i \in {3, 4, 5} : BitOf(b, i) = 1
IsRead(b) == BitOf(b, 7) = 1

\* The bytes a command has, as the branches of send_rtc are labelled.
Length(b) ==
  IF IsXpramRead(b) THEN 2 ELSE IF IsXpramWrite(b) THEN 3
  ELSE IF IsRead(b) THEN 1 ELSE 2

ASSUME RtcAssumption ==
  /\ Commands \subseteq Seq(Byte)
  /\ \A c \in Commands : c # <<>> /\ Len(c) = Length(c[1])
  /\ Registers \subseteq Byte
  /\ BootOrbs \subseteq [Line -> Bit]
  /\ ClockBytes \subseteq Byte
  /\ Rests \subseteq Bit

VARIABLES
  port,   \* VIA 1: dirb, orb (bits 0 to 2), rtc_clock, rtc_val
  rtcEnable,
  chip,   \* rtc.cc: rtc_cmd with rtc_cnt_w, rtc_lists, rtc_val, rtc_cnt_r
  XPRAM,
  guest,  \* the clock driver: its command, where it is in it, what it received
  want,   \* history: the parameter RAM as the finished commands leave it
  done    \* commands finished

clockVars == <<port, rtcEnable, chip, XPRAM, guest, want, done>>

-----------------------------------------------------------------------------
(* rtc.cc.                                                                 *)

XpramReg(cmd, param) == (cmd % 8) * 32 + ((param \div 4) % 32)
PlainReg(cmd) == (cmd \div 4) % 32

\* xpram_read; a register below 8 is the clock.
Readable(ram, reg) == IF reg < 8 THEN ClockBytes ELSE {ram[reg]}

\* The argument i of do_rtc: 0 where the command has no byte i.
Arg(l, i) == IF i <= Len(l) THEN l[i] ELSE 0

\* do_rtc: the register a command reaches, and what it writes there.
RegOf(c, v0) ==
  IF IsXpramRead(c) \/ IsXpramWrite(c) THEN XpramReg(c, v0) ELSE PlainReg(c)
WrittenBy(ram, c, v0, v1) ==
  [ram EXCEPT ![RegOf(c, v0)] = IF IsXpramWrite(c) THEN v1 ELSE v0]

\* Defect: the most significant bit comes first.
MutByteOf(bits) ==
  128 * bits[1] + 64 * bits[2] + 32 * bits[3] + 16 * bits[4]
    + 8 * bits[5] + 4 * bits[6] + 2 * bits[7] + bits[8]

\* rtc_cmd | v << rtc_cnt_w++ for 8 bits.
ByteOf(bits) ==
  bits[1] + 2 * bits[2] + 4 * bits[3] + 8 * bits[4]
    + 16 * bits[5] + 32 * bits[6] + 64 * bits[7] + 128 * bits[8]

Bits(b) == [i \in 1..8 |-> BitOf(b, i - 1)]

\* The bytes l make a command. The last branch of send_rtc takes every read at
\* its first byte and every other command at its second, so the branches for
\* the extended commands are never reached.
Complete(l) ==
  \/ IsXpramRead(l[1]) /\ Len(l) = 2
  \/ IsXpramWrite(l[1]) /\ Len(l) = 3
  \/ IsRead(l[1]) /\ Len(l) = 1
  \/ Len(l) = 2

\* Outcomes of a byte: the chip's counters and latch, and the parameter RAM.
Held(bits, lists) == [chip |-> [chip EXCEPT !.bits = bits, !.lists = lists], ram |-> XPRAM]

\* Defect: the bytes of a finished write stay for the next command.
MutAfterByte(l) ==
  IF ~Complete(l) THEN {Held(<<>>, l)}
  ELSE IF IsRead(l[1])
  THEN {[chip |-> [bits |-> <<>>, lists |-> <<>>, val |-> b, cnt_r |-> 0], ram |-> XPRAM] :
          b \in Readable(XPRAM, RegOf(l[1], Arg(l, 2)))}
  ELSE {[Held(<<>>, l) EXCEPT !.ram = WrittenBy(@, l[1], Arg(l, 2), Arg(l, 3))]}

\* A byte has arrived, the last of l.
AfterByte(l) ==
  IF ~Complete(l) THEN {Held(<<>>, l)}
  ELSE IF IsRead(l[1])
  THEN {[chip |-> [bits |-> <<>>, lists |-> <<>>, val |-> b, cnt_r |-> 0], ram |-> XPRAM] :
          b \in Readable(XPRAM, RegOf(l[1], Arg(l, 2)))}
  ELSE {[Held(<<>>, <<>>) EXCEPT !.ram = WrittenBy(@, l[1], Arg(l, 2), Arg(l, 3))]}

\* Defect: the counter is incremented first.
Mutrecv_rtc == BitOf(chip.val, (chip.cnt_r + 1) % 8)

recv_rtc == BitOf(chip.val, chip.cnt_r % 8)

send_rtc(v) ==
  LET bits == Append(chip.bits, v) IN
  IF Len(bits) = 8 THEN AfterByte(Append(chip.lists, ByteOf(bits)))
  ELSE {Held(bits, chip.lists)}

-----------------------------------------------------------------------------
(* Port B of VIA 1.                                                        *)

\* readPB, for the lines the chip drives or the VIA reads.
ReadPB(i) == IF i = Data THEN port.rtc_val ELSE 0

\* VIA::read of register 0, no latching.
ReadPort == [i \in Line |-> IF port.dirb[i] = 1 THEN port.orb[i] ELSE ReadPB(i)]

Patched(ram, w) == IF w = <<>> THEN ram ELSE [ram EXCEPT ![w[1]] = w[2]]

\* VIA1::writePB of the lines in the set drive, in the order of their bits, to
\* the values in v; dirb and orb are already those of the end of the access.
\* w: the register of the parameter RAM and the byte that the lines above write,
\* if any.
Drive(drive, v, dirb, orb, w) ==
  LET data == IF Data \in drive /\ rtcEnable THEN v[Data] ELSE port.rtc_val
      clocks == Clock \in drive /\ rtcEnable
      falls == clocks /\ port.rtc_clock = 1 /\ v[Clock] = 0
      receives == falls /\ dirb[Data] = 0
  IN /\ rtcEnable' = IF Enable \in drive THEN v[Enable] = 0 ELSE rtcEnable
     /\ port' = [dirb |-> dirb, orb |-> orb,
                 rtc_clock |-> IF clocks THEN v[Clock] ELSE port.rtc_clock,
                 rtc_val |-> IF receives THEN recv_rtc ELSE data]
     /\ \E o \in IF falls /\ ~receives THEN send_rtc(data)
                 ELSE {[chip |-> IF receives THEN [chip EXCEPT !.cnt_r = (@ % 8) + 1]
                                 ELSE chip, ram |-> XPRAM]} :
          chip' = o.chip /\ XPRAM' = Patched(o.ram, w)

Outputs(dirb) == {i \in Line : dirb[i] = 1}

\* VIA::write of register 0: an output is driven and not kept in orb.
WriteOrb(v, w) ==
  Drive(Outputs(port.dirb), v, port.dirb,
        [i \in Line |-> IF port.dirb[i] = 1 THEN port.orb[i] ELSE v[i]], w)

\* VIA::write of register 2: every output is driven from orb.
WriteDdr(dirb) == Drive(Outputs(dirb), port.orb, dirb, port.orb, <<>>)

-----------------------------------------------------------------------------
(* The guest's drivers.                                                    *)

Lines(d, c, e) == [i \in Line |-> IF i = Data THEN d ELSE IF i = Clock THEN c ELSE e]
AllOutputs == [i \in Line |-> 1]
DataInput == [AllOutputs EXCEPT ![Data] = 0]

Idle == [phase |-> "idle", job |-> <<>>, rest |-> 1, n |-> 0, half |-> 0, got |-> <<>>]

\* The boot code stores a byte in register 0, then makes the lines outputs.
ClockInit ==
  \E orb \in BootOrbs :
    /\ port = [dirb |-> AllOutputs, orb |-> orb, rtc_clock |-> 1, rtc_val |-> 0]
    /\ rtcEnable = (orb[Enable] = 0)
    /\ chip = [bits |-> <<>>, lists |-> <<>>, val |-> 0, cnt_r |-> 0]
    /\ XPRAM = [r \in Registers |-> 0]
    /\ guest = Idle /\ want = [r \in Registers |-> 0] /\ done = 0

Frame == UNCHANGED <<want, done>>

\* A command is begun; rest: the level the driver leaves the clock at.
Select(c, rest) ==
  /\ guest.phase = "idle"
  /\ WriteOrb(Lines(0, rest, 0), <<>>)
  /\ guest' = [Idle EXCEPT !.phase = "send", !.job = c, !.rest = rest]
  /\ Frame

\* Both halves of a clock cycle of a bit sent, the last ending in rest.
SentBit == BitOf(guest.job[(guest.n \div 8) + 1], guest.n % 8)
Level == IF guest.half = 0 THEN 1 - guest.rest ELSE guest.rest
Cycled == [guest EXCEPT !.half = 1 - @, !.n = IF guest.half = 1 THEN @ + 1 ELSE @]

SendHalf ==
  /\ guest.phase = "send" /\ guest.n < 8 * Len(guest.job)
  /\ WriteOrb(Lines(SentBit, Level, 0), <<>>)
  /\ guest' = Cycled /\ Frame

\* After a command that reads the data line becomes an input.
Turn ==
  /\ guest.phase = "send" /\ guest.n = 8 * Len(guest.job) /\ IsRead(guest.job[1])
  /\ WriteDdr(DataInput)
  /\ guest' = [guest EXCEPT !.phase = "receive", !.n = 0] /\ Frame

\* A bit is due to be read: the clock has just been taken low.
BitDue ==
  IF guest.rest = 1 THEN guest.half = 1 /\ Len(guest.got) = guest.n
  ELSE guest.half = 0 /\ Len(guest.got) < guest.n

RecvHalf ==
  /\ guest.phase = "receive" /\ guest.n < 8 /\ ~BitDue
  /\ WriteOrb(Lines(0, Level, 0), <<>>)
  /\ guest' = Cycled /\ Frame

RecvBit ==
  /\ guest.phase = "receive" /\ BitDue
  /\ guest' = [guest EXCEPT !.got = Append(@, ReadPort[Data])]
  /\ UNCHANGED <<port, rtcEnable, chip, XPRAM>> /\ Frame

\* All bits have gone through.
Through ==
  IF IsRead(guest.job[1])
  THEN guest.phase = "receive" /\ guest.n = 8 /\ ~BitDue
  ELSE guest.phase = "send" /\ guest.n = 8 * Len(guest.job)

\* The chip is disabled; after a command that reads the line becomes an output
\* again.
Deselect ==
  LET c == guest.job IN
  /\ guest.phase # "idle" /\ guest.phase # "restore" /\ Through
  /\ WriteOrb(Lines(0, guest.rest, 1), <<>>)
  /\ guest' = IF IsRead(c[1]) THEN [Idle EXCEPT !.phase = "restore"] ELSE Idle
  /\ want' = IF IsRead(c[1]) THEN want ELSE WrittenBy(want, c[1], Arg(c, 2), Arg(c, 3))
  /\ done' = done + 1

Restore ==
  /\ guest.phase = "restore"
  /\ WriteDdr(AllOutputs) /\ guest' = Idle /\ Frame

-----------------------------------------------------------------------------
(* Correctness.                                                            *)

\* Between commands the parameter RAM holds what the commands sent so far wrote,
\* in their order, and nothing else: no bit is lost, doubled or taken for
\* another command's by the changes of direction (VIA::write, writePB,
\* send_rtc).
CommandsObeyed == guest.phase \in {"idle", "restore"} => XPRAM = want

\* A read gives back, bit by bit and in order, what the register held (send_rtc,
\* recv_rtc, writePB, readPB).
AnswersRight ==
  guest.phase = "receive" /\ Len(guest.got) = 8 =>
    \E b \in Readable(want, RegOf(guest.job[1], Arg(guest.job, 2))) : guest.got = Bits(b)

\* Between commands the chip is in step: it holds no part of a command, so that
\* the next byte is the first of one (send_rtc).
InStep == guest.phase = "idle" => chip.bits = <<>> /\ chip.lists = <<>>
=============================================================================
