-------------------------------- MODULE Via --------------------------------
(***************************************************************************)
(* VIA 1: the shift register and the two state lines behind which the ADB  *)
(* transceiver sits, the interrupt flags, the two timers, and port B, which*)
(* the ADB driver shares with the clock driver. Composed with Adb and Rtc. *)
(*                                                                         *)
(* Three threads change the flags IF without a lock: the CPU thread (an    *)
(* access by the guest), the timer thread of SDL (callbacks of the timers, *)
(* the tick of the clock) and the main thread (keys). A change is a load   *)
(* and a store. cpu and hand hold what a thread has loaded; what a CPU     *)
(* access reads of the list of keys is read when it loads the flags.       *)
(***************************************************************************)
EXTENDS Adb

CONSTANTS
  AdbClocks,   \* the ADB driver runs if boot left the clock line at one of these
  Transfers,   \* what the ADB driver sends, and how many bytes it reads then
  Typed,       \* the keys that are pressed
  Budgets      \* bounds: how much of each kind happens in a behaviour

Timer == {"TIMER1", "TIMER2"}
Flag == {"CA2", "CA1", "SR", "CB2", "CB1"} \cup Timer
Thread == {"main", "timer"}

ASSUME ViaAssumption ==
  /\ AdbClocks \subseteq Bit /\ Typed \subseteq ScanCode
  /\ \A t \in Transfers : t.cmd \in Seq(2..255) /\ t.cmd # <<>> /\ t.bytes \in Nat
  /\ \A b \in Budgets : \A k \in DOMAIN b : b[k] \in Nat

\* What the theorems about the clock assume of the guest. The clock line rests
\* high, and is high when the ADB driver touches the port, whose access drives
\* every output again: from a low line that would be an edge. Boot leaves the chip
\* enabled, for a change of direction drives the register as it was left. No
\* command is an extended one, which send_rtc takes for a plain one. The register
\* that an ADB command writes (command 7) is no register of a clock command.
Conventions ==
  /\ Rests \subseteq {1} /\ AdbClocks \subseteq {1}
  /\ \A o \in BootOrbs : o[Enable] = 0
  /\ \A c \in Commands :
       ~IsXpramRead(c[1]) /\ ~IsXpramWrite(c[1]) /\ PlainReg(c[1]) \in Registers
  /\ \A t \in Transfers :
       t.cmd[1] = 7 => Len(t.cmd) = 4 /\ \A c \in Commands : PlainReg(c[1]) # t.cmd[3]

VARIABLES
  IF_,       \* IF
  sr,        \* sr, ACR.sr_c ("in", "out"), ACR.T1_REP, old_state
  tm,        \* each timer: loads so far, loads whose SDL timer is armed, the load
             \* that set its base, and whether a callback overlapped the last load
  cpu, hand, \* what each thread has loaded and not yet stored
  raced,     \* history: a store has overwritten another thread's change of IF
  driver,    \* the ADB driver
  budget

viaVars == <<IF_, sr, tm, cpu, hand, raced, driver, budget>>
vars == <<clockVars, adbVars, viaVars>>

None == [thread |-> "none"]

\* The driver between transfers; sent: the commands it has sent to their end.
Resting(sent) == [phase |-> "idle", step |-> "none", cmd |-> <<>>, n |-> 0, left |-> 0,
                  got |-> <<>>, sent |-> sent]

Init ==
  /\ ClockInit /\ AdbInit
  /\ IF_ = {} /\ sr = [v |-> 0, dir |-> "out", rep |-> FALSE, old_state |-> 3]
  /\ tm = [t \in Timer |-> [loads |-> 0, armed |-> {}, base |-> 0, overlap |-> FALSE]]
  /\ cpu = None /\ hand = [t \in Thread |-> None]
  /\ raced = FALSE /\ driver = Resting(<<>>)
  /\ budget \in Budgets

Spend(k) == budget[k] > 0 /\ budget' = [budget EXCEPT ![k] = @ - 1]

-----------------------------------------------------------------------------
(* Flags.                                                                  *)

\* The CPU thread comes to an access: it loads what the access will change.
Load ==
  /\ cpu = None
  /\ cpu' = [thread |-> "cpu", loaded |-> IF_, seen |-> keys]
  /\ UNCHANGED <<clockVars, adbVars, IF_, sr, tm, hand, raced, driver, budget>>

\* The access stores: clears are the flags it acknowledges, raises those it sets.
Store(clears, raises) ==
  /\ cpu # None /\ cpu' = None
  /\ IF_' = (cpu.loaded \ clears) \cup raises
  /\ raced' = (raced \/ IF_ # cpu.loaded)

\* An access of a register that has no part in the flags.
Plain == cpu' = None /\ UNCHANGED <<IF_, raced>>

\* VIA::irq in another thread: the load, and the store that sets the flag.
Raising(t, f, load) ==
  hand' = [hand EXCEPT ![t] = [thread |-> t, flag |-> f, load |-> load, loaded |-> IF_]]

irq(t) ==
  /\ IF_' = hand[t].loaded \cup {hand[t].flag}
  /\ raced' = (raced \/ IF_ # hand[t].loaded)
  /\ hand' = [hand EXCEPT ![t] = None]

\* VIA::read (registers 0, 1, 4, 8, 10) and VIA::write (0, 1, 5, 9, 10): the
\* flags that an access clears.
Clears(reg) ==
  CASE reg = 0 -> {"CB1", "CB2"}
    [] reg = 1 -> {"CA1", "CA2"}
    [] reg = 10 -> {"SR"}
    [] reg \in {4, 5} -> {"TIMER1"}
    [] reg \in {8, 9} -> {"TIMER2"}

-----------------------------------------------------------------------------
(* Port B: the state lines of the transceiver, bits 4 and 5.               *)

\* The ADB driver writes the bits of the clock chip as it read them; w is the
\* register of the parameter RAM and the byte that an ADB command writes.
WrittenBack(w) ==
  WriteOrb(ReadPort, w)

\* Defect: a byte for the transceiver raises no flag.
Mutchange_state(s) ==
  \/ /\ sr.old_state = s
     /\ Store(Clears(0), {}) /\ WrittenBack(<<>>) /\ UNCHANGED <<adbVars, sr>>
  \/ /\ sr.old_state # s /\ sr.dir = "in"
     /\ Store(Clears(0), {"SR"}) /\ WrittenBack(<<>>)
     /\ adb' = recieveAdb(s).adb
     /\ sr' = [sr EXCEPT !.v = recieveAdb(s).v, !.old_state = s]
     /\ UNCHANGED <<devs, keys, typed, log>>
  \/ /\ sr.old_state # s /\ sr.dir = "out"
     /\ Store(Clears(0), {})
     /\ \E t \in Transmitted(s, sr.v, cpu.seen) :
          transmitAdb(t, cpu.seen) /\ WrittenBack(t.out.ram)
     /\ sr' = [sr EXCEPT !.old_state = s]

\* A write of register 0 with the state s: VIA1::change_state after the clock
\* chip's bits. The flag SR rises before the byte is there, in the same access.
change_state(s) ==
  \/ /\ sr.old_state = s
     /\ Store(Clears(0), {}) /\ WrittenBack(<<>>) /\ UNCHANGED <<adbVars, sr>>
  \/ /\ sr.old_state # s /\ sr.dir = "in"
     /\ Store(Clears(0), {"SR"}) /\ WrittenBack(<<>>)
     /\ adb' = recieveAdb(s).adb
     /\ sr' = [sr EXCEPT !.v = recieveAdb(s).v, !.old_state = s]
     /\ UNCHANGED <<devs, keys, typed, log>>
  \/ /\ sr.old_state # s /\ sr.dir = "out"
     /\ Store(Clears(0), {"SR"})
     /\ \E t \in Transmitted(s, sr.v, cpu.seen) :
          transmitAdb(t, cpu.seen) /\ WrittenBack(t.out.ram)
     /\ sr' = [sr EXCEPT !.old_state = s]

\* The driver makes its access while boot's level of the clock line allows it.
PortState(s) == port.orb[Clock] \in AdbClocks /\ change_state(s)

-----------------------------------------------------------------------------
(* The ADB driver, as test_adb.cc has it: the first byte of a command with *)
(* state 0, the others with 1 and 2 in turn, then the byte 1 with state 3; *)
(* the reply with 1 and 2 in turn, then state 3. It waits for the flag SR  *)
(* after every byte. It runs to its end before the clock driver goes on.   *)

Step(d) == driver' = d
NoDriver == UNCHANGED <<tm, hand, budget>>
NoAdb == UNCHANGED <<clockVars, adbVars>>

Begin(t) ==
  /\ cpu = None /\ driver.phase = "idle" /\ Spend("transfers")
  /\ port.orb[Clock] \in AdbClocks
  /\ Step([Resting(driver.sent) EXCEPT !.phase = "send", !.step = "byte", !.cmd = t.cmd, !.left = t.bytes])
  /\ UNCHANGED <<clockVars, adbVars, IF_, sr, tm, cpu, hand, raced>>

\* A write of register 10.
SendByte ==
  /\ driver.phase = "send" /\ driver.step = "byte"
  /\ Store(Clears(10), {})
  /\ sr' = IF sr.dir = "out"
           THEN [sr EXCEPT !.v = IF driver.n = Len(driver.cmd) THEN 1 ELSE driver.cmd[driver.n + 1]]
           ELSE sr
  /\ Step([driver EXCEPT !.step = "state"]) /\ NoDriver /\ NoAdb

\* The parameter RAM a command writes is the guest's to expect.
SendState ==
  LET c == driver.cmd last == driver.n = Len(c) IN
  /\ driver.phase = "send" /\ driver.step = "state"
  /\ PortState(IF last THEN 3 ELSE IF driver.n = 0 THEN 0 ELSE 2 - (driver.n % 2))
  /\ Step([driver EXCEPT !.step = "wait", !.n = @ + 1, !.sent = IF last THEN Append(@, c) ELSE @])
  /\ want' = IF last /\ c[1] = 7 THEN [want EXCEPT ![c[3]] = c[4]] ELSE want
  /\ NoDriver /\ UNCHANGED <<guest, done>>

\* Reads of register 13 until SR is set.
Wait ==
  /\ driver.step = "wait" /\ cpu # None /\ "SR" \in IF_
  /\ Step(IF driver.phase = "receive"
          THEN [driver EXCEPT !.step = "byte"]
          ELSE IF driver.n <= Len(driver.cmd) THEN [driver EXCEPT !.step = "byte"]
          ELSE IF driver.left = 0 THEN Resting(driver.sent)
          ELSE [driver EXCEPT !.step = "turn"])
  /\ Plain /\ NoDriver /\ NoAdb /\ UNCHANGED sr

\* A write of register 11: the direction of the shift register.
Direction ==
  /\ driver.step \in {"turn", "return"} /\ Plain
  /\ sr' = [sr EXCEPT !.dir = IF driver.step = "turn" THEN "in" ELSE "out"]
  /\ Step(IF driver.step = "return" THEN Resting(driver.sent)
          ELSE [driver EXCEPT !.phase = "receive", !.step = "state"])
  /\ NoDriver /\ NoAdb

ReplyState ==
  /\ driver.phase = "receive" /\ driver.step = "state"
  /\ PortState(IF driver.left = 0 THEN 3 ELSE 1 + (Len(driver.got) % 2))
  /\ Step([driver EXCEPT !.step = IF driver.left = 0 THEN "return" ELSE "wait"])
  /\ NoDriver /\ UNCHANGED <<guest, done, want>>

\* A read of register 10.
ReplyByte ==
  /\ driver.phase = "receive" /\ driver.step = "byte"
  /\ Store(Clears(10), {})
  /\ Step([driver EXCEPT !.step = "state", !.left = @ - 1, !.got = Append(@, sr.v)])
  /\ NoDriver /\ NoAdb /\ UNCHANGED sr

AdbDriver ==
  \/ SendByte \/ SendState \/ Wait \/ Direction \/ ReplyState \/ ReplyByte

-----------------------------------------------------------------------------
(* The clock driver. Boot has left ones in bits 4 and 5, which it writes   *)
(* as they read: the transceiver stays in state 3.                         *)

ClockAccess ==
  \/ RecvBit /\ Store(Clears(0), {})
  \/ (SendHalf \/ RecvHalf \/ Deselect) /\ Store(Clears(0), {})
  \/ (Turn \/ Restore) /\ cpu # None /\ Plain

ClockDriver ==
  /\ driver.phase = "idle" /\ sr.old_state = 3
  /\ \/ /\ \E c \in Commands, rest \in Rests : Select(c, rest)
        /\ Store(Clears(0), {}) /\ Spend("commands")
     \/ ClockAccess /\ UNCHANGED budget
  /\ UNCHANGED <<adbVars, sr, tm, hand, driver>>

-----------------------------------------------------------------------------
(* The timers: registers 4 and 5, 8 and 9.                                 *)

Guest(k) == cpu # None /\ driver.phase = "idle" /\ guest.phase = "idle" /\ Spend(k)
NoTimer == UNCHANGED <<clockVars, adbVars, hand, driver>>
Runs(t) == hand["timer"] # None /\ hand["timer"].flag = t

\* Defect: the SDL timer of the last load goes on.
MutLoadTimer(t) ==
  LET n == tm[t].loads + 1 IN
  /\ Guest("loads") /\ Store(Clears(IF t = "TIMER1" THEN 5 ELSE 9), {})
  /\ tm' = [tm EXCEPT ![t] = [loads |-> n, armed |-> @.armed \cup {n}, base |-> n, overlap |-> Runs(t)]]
  /\ NoTimer /\ UNCHANGED sr

\* A write of the high byte of the counter: SDL_RemoveTimer does not wait for a
\* callback that runs.
LoadTimer(t) ==
  LET n == tm[t].loads + 1 IN
  /\ Guest("loads") /\ Store(Clears(IF t = "TIMER1" THEN 5 ELSE 9), {})
  /\ tm' = [tm EXCEPT ![t] = [loads |-> n, armed |-> {n}, base |-> n, overlap |-> Runs(t)]]
  /\ NoTimer /\ UNCHANGED sr

\* A read of the low byte of the counter acknowledges the flag.
ReadTimer(t) ==
  /\ Guest("reads") /\ t \in IF_
  /\ Store(Clears(IF t = "TIMER1" THEN 4 ELSE 8), {})
  /\ NoTimer /\ UNCHANGED <<sr, tm>>

\* A write of register 11: ACR.T1_REP.
Repeat(r) ==
  /\ Guest("modes") /\ r # sr.rep /\ Plain /\ sr' = [sr EXCEPT !.rep = r]
  /\ NoTimer /\ UNCHANGED tm

\* The timer thread begins the callback of a timer that is armed.
Expire(t) ==
  /\ hand["timer"] = None /\ Spend("expiries")
  /\ \E n \in tm[t].armed : Raising("timer", t, n)
  /\ UNCHANGED <<clockVars, adbVars, IF_, sr, tm, cpu, raced, driver>>

\* rtc_callback, every second.
Tick ==
  /\ hand["timer"] = None /\ Spend("expiries") /\ Raising("timer", "CA2", 0)
  /\ UNCHANGED <<clockVars, adbVars, IF_, sr, tm, cpu, raced, driver>>

\* via_timer1_callback, via_timer2_callback and rtc_callback: the base, the
\* flag; timer 1 stays armed in repeat mode unless it was removed meanwhile.
Callback ==
  LET h == hand["timer"] t == h.flag IN
  /\ h # None /\ irq("timer")
  /\ tm' = IF t = "CA2" THEN tm
           ELSE [tm EXCEPT ![t] =
                  [loads |-> @.loads, base |-> h.load, overlap |-> @.overlap,
                   armed |-> IF t = "TIMER1" /\ sr.rep THEN @.armed ELSE @.armed \ {h.load}]]
  /\ UNCHANGED <<clockVars, adbVars, sr, cpu, driver, budget>>

-----------------------------------------------------------------------------
(* The main thread: keydown and keyup, which raise SR.                     *)

Key(down, sc) ==
  /\ hand["main"] = None /\ Spend("keys")
  /\ IF down THEN PressKey(sc) ELSE ReleaseKey(sc)
  /\ Raising("main", "SR", 0)
  /\ UNCHANGED <<clockVars, IF_, sr, tm, cpu, raced, driver>>

KeyIrq ==
  /\ hand["main"] # None /\ irq("main")
  /\ UNCHANGED <<clockVars, adbVars, sr, tm, cpu, driver, budget>>

-----------------------------------------------------------------------------
Next ==
  \/ Load \/ AdbDriver \/ ClockDriver
  \/ \E t \in Transfers : Begin(t)
  \/ \E t \in Timer : LoadTimer(t) \/ ReadTimer(t) \/ Expire(t)
  \/ \E r \in BOOLEAN : Repeat(r)
  \/ Tick \/ Callback
  \/ \E down \in BOOLEAN, sc \in Typed : Key(down, sc)
  \/ KeyIrq

\* The guest polls without end, and every thread runs.
Fairness == WF_vars(Load) /\ WF_vars(AdbDriver) /\ WF_vars(Callback) /\ WF_vars(KeyIrq)

Spec == Init /\ [][Next]_vars /\ Fairness

-----------------------------------------------------------------------------
(* Correctness.                                                            *)

\* The transceiver carries out what the driver has sent: each command once, whole
\* and with no byte of another, whatever was typed, read or left unread before
\* (transmitAdb, change_state). The commands have no byte 0 or 1.
CommandsWhole == log.ran = driver.sent

\* What the driver reads after a command that is answered is the answer, byte
\* by byte and from its beginning; its last byte repeats (adb_in, adb_run).
AnswersInOrder ==
  driver.phase = "receive" /\ log.answer # <<>> =>
    \A i \in DOMAIN driver.got : driver.got[i] = log.answer[Min({i, Len(log.answer)})]

\* Every press is in the list, or was taken by a Talk, or was released or
\* flushed before, and in one of them only; Talks take them in the order they
\* were typed. The exception is a list that changed during a Talk (talk,
\* keydown, keyup).
KeysKept ==
  ~log.overlap =>
    LET listed == {keys[i].press : i \in DOMAIN keys}
        taken == {log.taken[i] : i \in DOMAIN log.taken}
    IN /\ listed \cup taken \cup typed.gone = 1..typed.presses
       /\ Len(keys) + Len(log.taken) + Cardinality(typed.gone) = typed.presses
       /\ \A i, j \in DOMAIN log.taken : i < j => log.taken[i] < log.taken[j]

\* The counter of a timer goes back to the last load of it or to an expiry of
\* that load, unless a callback was running when it was loaded (VIA::write,
\* via_timer1_callback, via_timer2_callback).
TimersFollowLoad == \A t \in Timer : tm[t].base = tm[t].loads \/ tm[t].overlap

\* A transfer that was begun ends: the flag SR rises for every byte and is not
\* lost, but for a store of one thread over the change of another's (irq,
\* change_state, adb_in).
TransfersEnd == driver.phase # "idle" ~> (driver.phase = "idle" \/ raced)
=============================================================================
