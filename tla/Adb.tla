-------------------------------- MODULE Adb --------------------------------
(***************************************************************************)
(* The ADB transceiver and its two devices (ebus/adb.cc). VIA 1 gives it a *)
(* byte or takes one whenever the two state lines change: transmitAdb      *)
(* gathers the bytes of a command in adb_buf and has adb_run carry it out; *)
(* recieveAdb hands out the reply in buf. The main thread appends the keys *)
(* typed to a list that the keyboard's Talk takes them from.               *)
(*                                                                         *)
(* A byte is 0 to 255, as the bits of a command are its address, operation *)
(* and register. A key in the list carries the number of its press, which  *)
(* the code does not have: it tells two presses of a key apart.            *)
(***************************************************************************)
EXTENDS Rtc, FiniteSetsExt, SequencesExt

CONSTANTS
  Moves,     \* what the mouse may report: <<dx, dy, buttons>>
  Holds,     \* the sets of modifiers that may be held down
  Nibbles,   \* rand() & 15
  Strays     \* what the memory behind a command shorter than its kind holds

ASSUME AdbAssumption ==
  /\ \A m \in Moves : Len(m) = 3 /\ m[1] \in -512..511 /\ m[2] \in -1024..1023
  /\ Nibbles \subseteq 0..15 /\ Nibbles # {} /\ Strays \subseteq Byte /\ Strays # {}

VARIABLES
  adb,       \* buf, the static byte of adb_in, adb_buf
  devs,      \* the address and handler in reg3, the LEDs of the keyboard
  keys,      \* the list keys
  typed,     \* history: presses so far, and those released or flushed unread
  log        \* history: commands run, the last answer, presses taken, overlaps

adbVars == <<adb, devs, keys, typed, log>>

Mouse == 0
Keyboard == 1
Device == {Mouse, Keyboard}

\* Two keys of the table have one code.
mac_keys == [escape |-> 53, equals |-> 30, rightbracket |-> 30]
ScanCode == DOMAIN mac_keys \cup {"volumeup"}

\* adb_reset, which leaves the list of keys.
NewDevices ==
  [d \in Device |-> IF d = Mouse THEN [adr |-> 3, handler |-> 1, leds |-> 7]
                    ELSE [adr |-> 2, handler |-> 5, leds |-> 7]]

AdbInit ==
  /\ adb = [buf |-> <<>>, last |-> 0, adb_buf |-> <<>>]
  /\ devs = NewDevices /\ keys = <<>>
  /\ typed = [presses |-> 0, gone |-> {}]
  /\ log = [ran |-> <<>>, answer |-> <<>>, taken |-> <<>>, overlap |-> FALSE]

-----------------------------------------------------------------------------
(* The devices.                                                            *)

\* listen(reg, v) with v[0], v[1] and v[2].
Listened(d, reg, v0, v1, v2) ==
  IF reg = 2 /\ d = Keyboard THEN [devs[d] EXCEPT !.leds = v1 % 8]
  ELSE IF reg # 3 THEN devs[d]
  ELSE IF v1 \in {254, 0} THEN [devs[d] EXCEPT !.adr = v0 % 16]
  ELSE IF d = Mouse /\ v1 \in {1, 2, 4} THEN [devs[d] EXCEPT !.handler = v2]
  ELSE devs[d]

\* Register 0 of the mouse: seven bits of each movement, the rest and the
\* buttons (high when up) in the third byte.
MouseReport(m) ==
  LET up(b) == IF b \in m[3] THEN 0 ELSE 128 IN
  <<(m[1] % 128) + up("left"), (m[2] % 128) + up("right"),
    ((m[2] \div 128) % 8) * 16 + ((m[1] \div 128) % 8) + up("middle") + 8>>

\* Register 2 of the keyboard: the bits of what is held are low.
HighBits == [command |-> 1, option |-> 2, shift |-> 4, control |-> 8, caps |-> 32, delete |-> 64]
LowBits == [scroll |-> 64, num |-> 128]
BitsOf(bits, held) == MapThenSumSet(LAMBDA k : bits[k], DOMAIN bits \cap held)
Modifiers(held) ==
  <<1, 255 - BitsOf(HighBits, held), 248 + devs[Keyboard].leds - BitsOf(LowBits, held)>>

\* Register 0 of the keyboard: two keys of the list as the CPU thread saw it.
KeyReport(seen) ==
  <<1, IF seen = <<>> THEN 255 ELSE seen[1].code,
       IF Len(seen) < 2 THEN 255 ELSE seen[2].code>>

\* talk(reg): what device d may answer.
Talk(d, reg, seen) ==
  CASE d = Mouse /\ reg = 0 -> {MouseReport(m) : m \in Moves}
    [] d = Mouse /\ reg = 1 -> {<<97, 112, 112, 108, 1, 44, 1, 3>>}
    [] d = Mouse /\ reg = 2 -> {<<>>}
    [] d = Mouse /\ reg = 3 -> {<<96 + n, devs[d].handler>> : n \in Nibbles}
    [] d = Keyboard /\ reg = 0 -> {KeyReport(seen)}
    [] d = Keyboard /\ reg = 1 -> {<<1>>}
    [] d = Keyboard /\ reg = 2 -> {Modifiers(h) : h \in Holds}
    [] d = Keyboard /\ reg = 3 -> {<<1, 1, 96 + n, devs[d].handler>> : n \in Nibbles}

\* The list without a key it may have.
Erased(list, key) ==
  LET at == {i \in DOMAIN list : list[i].press = key.press}
  IN  IF at = {} THEN list ELSE RemoveAt(list, Min(at))

\* Defect: only the first of two keys is erased.
MutKeysAfter(seen) ==
  CASE seen = <<>> -> keys
    [] Len(seen) = 1 -> <<>>
    [] OTHER -> Erased(keys, seen[1])

\* What the keyboard's Talk 0 leaves: a single key is removed with clear(), two
\* are erased one by one.
KeysAfter(seen) ==
  CASE seen = <<>> -> keys
    [] Len(seen) = 1 -> <<>>
    [] OTHER -> Erased(Erased(keys, seen[1]), seen[2])

-----------------------------------------------------------------------------
(* The transceiver. What an operation does is a set of outcomes.           *)

Same == [buf |-> adb.buf, devs |-> devs, keys |-> keys, ram |-> <<>>,
         ran |-> <<>>, answer |-> <<>>, taken |-> 0, flushed |-> FALSE]

At(b, i) == IF i <= Len(b) THEN {b[i]} ELSE Strays

\* The devices at an address, in the order of adbDevs.
Here(adr) == {d \in Device : devs[d].adr = adr}

\* Talk: each device at the address answers, the answer of the last is left.
Talked(here, reg, seen) ==
  LET takes == Keyboard \in here /\ reg = 0 IN
  {[Same EXCEPT !.buf = a \o <<0, 1>>, !.answer = a \o <<0, 1>>,
                !.keys = IF takes THEN KeysAfter(seen) ELSE keys,
                !.taken = IF takes THEN Min({2, Len(seen)}) ELSE 0] :
     a \in Talk(Max(here), reg, seen)}

\* Every other command for a device but Listen leaves a byte 1.
Stopped(here, flushes) ==
  [Same EXCEPT !.buf = @ \o [i \in 1..Cardinality(here) |-> 1],
               !.keys = IF flushes /\ Keyboard \in here THEN <<>> ELSE @,
               !.flushed = flushes /\ Keyboard \in here]

\* A command of the parameter RAM: 7 writes, 12 reads.
RamWrite(b) == {[Same EXCEPT !.ram = <<i, x>>] : i \in At(b, 3), x \in At(b, 4)}
RamRead(b) ==
  {[Same EXCEPT !.buf = <<1, 0, 0, 7, x, 0>>, !.answer = <<1, 0, 0, 7, x, 0>>] :
     x \in UNION {Readable(XPRAM, i) : i \in At(b, 3)}}

\* Only the first device at an address listens.
Listens(b, d, reg) ==
  {[Same EXCEPT !.devs[d] = Listened(d, reg, v0, v1, v2)] :
     v0 \in At(b, 2), v1 \in At(b, 3), v2 \in At(b, 4)}

adb_run(b, seen) ==
  LET here == Here(b[1] \div 16)
      cmd == (b[1] \div 4) % 4
      reg == b[1] % 4
      done_ == CASE cmd = 0 /\ reg = 0 -> {[Same EXCEPT !.devs = NewDevices]}
                 [] b[1] = 1 -> {[Same EXCEPT !.buf = <<1, 0>>]}
                 [] b[1] = 7 -> RamWrite(b)
                 [] b[1] = 12 -> RamRead(b)
                 [] OTHER ->
                      IF here = {} THEN {Same}
                      ELSE IF cmd = 2 THEN Listens(b, Min(here), reg)
                      ELSE IF cmd = 3 THEN Talked(here, reg, seen)
                      ELSE {Stopped(here, cmd = 0 /\ reg = 1)}
  IN {[o EXCEPT !.ran = b] : o \in done_}

\* Defect: the bytes of a command stay when the byte 1 has ended it.
MutTransmitted(s, v, seen) ==
  LET ends == adb.adb_buf # <<>> /\ (s = 0 \/ v = 1)
      left == IF s = 0 THEN <<>> ELSE adb.adb_buf
      asks == v = 1 /\ (s = 0 \/ adb.adb_buf = <<>>)
  IN {[out |-> IF asks THEN [o EXCEPT !.buf = <<1>>] ELSE o,
       adb_buf |-> IF v > 1 THEN Append(left, v) ELSE left] :
        o \in IF ends THEN adb_run(adb.adb_buf, seen) ELSE {Same}}

\* transmitAdb(s, v): the byte 1, or state 0, ends the command gathered; a 1 that
\* ends none asks for attention; the byte 0 is dropped.
Transmitted(s, v, seen) ==
  LET ends == adb.adb_buf # <<>> /\ (s = 0 \/ v = 1)
      left == IF s = 0 \/ v = 1 THEN <<>> ELSE adb.adb_buf
      asks == v = 1 /\ (s = 0 \/ adb.adb_buf = <<>>)
  IN {[out |-> IF asks THEN [o EXCEPT !.buf = <<1>>] ELSE o,
       adb_buf |-> IF v > 1 THEN Append(left, v) ELSE left] :
        o \in IF ends THEN adb_run(adb.adb_buf, seen) ELSE {Same}}

\* What the outcome t of Transmitted changes; its write to the parameter RAM is
\* done with the other lines of the access (Drive).
transmitAdb(t, seen) ==
  LET o == t.out IN
  /\ adb' = [adb EXCEPT !.buf = o.buf, !.adb_buf = t.adb_buf]
  /\ devs' = o.devs /\ keys' = o.keys
  /\ typed' = IF o.flushed THEN [typed EXCEPT !.gone = @ \cup {keys[i].press : i \in DOMAIN keys}]
              ELSE typed
  /\ log' = [ran |-> IF o.ran = <<>> THEN log.ran ELSE Append(log.ran, o.ran),
             answer |-> IF o.ran = <<>> THEN log.answer ELSE o.answer,
             taken |-> log.taken \o [i \in 1..o.taken |-> seen[i].press],
             overlap |-> log.overlap \/ (o.taken > 0 /\ keys # seen)]

\* Defect: in state 2 the byte handed out is not removed.
MutrecieveAdb(s) ==
  CASE s = 0 -> [v |-> 0, adb |-> [adb EXCEPT !.buf = <<>>]]
    [] s \in {1, 2} ->
         IF adb.buf = <<>> THEN [v |-> adb.last, adb |-> adb]
         ELSE [v |-> Head(adb.buf),
               adb |-> [adb EXCEPT !.last = Head(adb.buf),
                                   !.buf = IF s = 2 THEN @ ELSE Tail(@)]]
    [] s = 3 -> [v |-> 0, adb |-> adb]

\* recieveAdb(s) and adb_in: after the last byte of a reply it comes again.
recieveAdb(s) ==
  CASE s = 0 -> [v |-> 0, adb |-> [adb EXCEPT !.buf = <<>>]]
    [] s \in {1, 2} ->
         IF adb.buf = <<>> THEN [v |-> adb.last, adb |-> adb]
         ELSE [v |-> Head(adb.buf),
               adb |-> [adb EXCEPT !.last = Head(adb.buf), !.buf = Tail(@)]]
    [] s = 3 -> [v |-> 0, adb |-> adb]

-----------------------------------------------------------------------------
(* The list of keys, in the main thread.                                   *)

\* keydown, before its interrupt.
PressKey(sc) ==
  /\ IF sc \in DOMAIN mac_keys
     THEN /\ keys' = Append(keys, [code |-> mac_keys[sc], press |-> typed.presses + 1])
          /\ typed' = [typed EXCEPT !.presses = @ + 1]
     ELSE UNCHANGED <<keys, typed>>
  /\ UNCHANGED <<adb, devs, log>>

\* keyup, before its interrupt: the first press of that code leaves the list.
ReleaseKey(sc) ==
  LET same == {i \in DOMAIN keys : sc \in DOMAIN mac_keys /\ keys[i].code = mac_keys[sc]} IN
  /\ IF same = {} THEN UNCHANGED <<keys, typed>>
     ELSE /\ keys' = RemoveAt(keys, Min(same))
          /\ typed' = [typed EXCEPT !.gone = @ \cup {keys[Min(same)].press}]
  /\ UNCHANGED <<adb, devs, log>>
=============================================================================
