------------------------------ MODULE ViaProofs ------------------------------
(***************************************************************************)
(* The timers of VIA 1 follow their last load, for every driver, every     *)
(* number of loads and expiries, and every order of the threads, but for a *)
(* callback that was running when the timer was loaded. Its ADB            *)
(* transceiver carries out the commands that the guest sends, whole and in *)
(* order, the guest reads each answer byte for byte, and no key typed is   *)
(* lost or taken twice.                                                    *)
(***************************************************************************)
EXTENDS Via, SequenceTheorems, FiniteSetTheorems, WellFoundedInduction, TLAPS

\* A timer, and a callback that the timer thread may be in.
TimerState == [loads : Nat, armed : SUBSET Nat, base : Nat, overlap : BOOLEAN]

Shape ==
  /\ tm \in [Timer -> TimerState]
  /\ DOMAIN hand = Thread
  /\ hand["timer"] # None => /\ hand["timer"].flag \in Timer \cup {"CA2"}
                             /\ hand["timer"].load \in Nat

\* The only SDL timer of a timer is that of its last load.
LastArmed == \A t \in Timer : tm[t].armed \subseteq {tm[t].loads}

\* A callback that runs is one of the last load, or the load came over it.
CallbackKnown ==
  \A t \in Timer : Runs(t) => hand["timer"].load = tm[t].loads \/ tm[t].overlap

IInv == Shape /\ LastArmed /\ CallbackKnown /\ TimersFollowLoad

\* A step that leaves the timers and the timer thread alone keeps the invariant.
LEMMA Untouched ==
  ASSUME IInv, tm' = tm, hand'["timer"] = hand["timer"], DOMAIN hand' = DOMAIN hand
  PROVE  IInv'
  BY DEF IInv, Shape, LastArmed, CallbackKnown, TimersFollowLoad, Runs, None

\* The accesses of the two drivers (test_adb.cc; the clock driver).
LEMMA DriverSteps == Load \/ AdbDriver \/ ClockDriver => tm' = tm /\ hand' = hand
  BY DEF Load, AdbDriver, SendByte, SendState, Wait, Direction, ReplyState, ReplyByte,
         ClockDriver, NoDriver

\* A write of the high byte of a counter (VIA::write).
LEMMA LoadStep == ASSUME IInv, NEW t \in Timer, LoadTimer(t) PROVE IInv'
<1> DEFINE n == tm[t].loads + 1
           new == [loads |-> n, armed |-> {n}, base |-> n, overlap |-> Runs(t)]
<1>1. tm' = [tm EXCEPT ![t] = new] /\ hand' = hand
  BY DEF LoadTimer, NoTimer
<1>2. new \in TimerState
  <2>1. tm[t].loads \in Nat
    BY DEF IInv, Shape, TimerState
  <2>2. Runs(t) \in BOOLEAN
    BY DEF Runs
  <2> QED
    BY <2>1, <2>2 DEF TimerState
<1> HIDE DEF new
<1>3. tm'[t] = new /\ \A u \in Timer \ {t} : tm'[u] = tm[u]
  BY <1>1 DEF IInv, Shape
<1>4. Shape'
  BY <1>1, <1>2 DEF IInv, Shape
<1>5. \A u \in Timer : Runs(u)' <=> Runs(u)
  BY <1>1 DEF Runs, None
<1>6. new.loads = n /\ new.armed = {n} /\ new.base = n /\ (new.overlap <=> Runs(t))
  BY DEF new
<1>7. LastArmed' /\ TimersFollowLoad'
  <2> SUFFICES ASSUME NEW u \in Timer
               PROVE  /\ tm'[u].armed \subseteq {tm'[u].loads}
                      /\ tm'[u].base = tm'[u].loads \/ tm'[u].overlap
    BY DEF LastArmed, TimersFollowLoad
  <2>1. CASE u = t
    <3>1. tm'[u] = new
      BY <1>3, <2>1
    <3>2. tm'[u].armed = {n} /\ tm'[u].loads = n /\ tm'[u].base = n
      BY <1>6, <3>1
    <3> HIDE DEF n
    <3> QED
      BY <3>2
  <2>2. CASE u # t
    BY <1>3, <2>2 DEF IInv, LastArmed, TimersFollowLoad
  <2> QED
    BY <2>1, <2>2
<1>8. CallbackKnown'
  BY <1>1, <1>3, <1>5, <1>6 DEF IInv, CallbackKnown
<1> QED
  BY <1>4, <1>7, <1>8 DEF IInv

\* The timer thread begins a callback: of an armed timer, or of the clock (SDL;
\* rtc_callback).
LEMMA ExpireStep == ASSUME IInv, NEW t \in Timer, Expire(t) PROVE IInv'
<1>1. tm' = tm /\ DOMAIN hand' = DOMAIN hand
  BY DEF Expire, Raising
<1>2. PICK l \in tm[t].armed : Raising("timer", t, l)
  BY DEF Expire
<1>3. hand'["timer"] = [thread |-> "timer", flag |-> t, load |-> l, loaded |-> IF_]
  BY <1>2 DEF Raising, IInv, Shape, Thread
<1>4. hand'["timer"].flag = t /\ hand'["timer"].load = l
  BY <1>3
<1>5. l = tm[t].loads /\ l \in Nat
  BY <1>2 DEF IInv, LastArmed, Shape, TimerState
<1>6. CallbackKnown'
  BY <1>1, <1>4, <1>5 DEF CallbackKnown, Runs
<1> QED
  BY <1>1, <1>4, <1>5, <1>6 DEF IInv, Shape, LastArmed, TimersFollowLoad

\* The callback of the clock begins (rtc_callback).
LEMMA TickStep == ASSUME IInv, Tick PROVE IInv'
<1>1. tm' = tm /\ DOMAIN hand' = DOMAIN hand
  BY DEF Tick, Raising
<1>2. hand'["timer"] = [thread |-> "timer", flag |-> "CA2", load |-> 0, loaded |-> IF_]
  BY DEF Tick, Raising, IInv, Shape, Thread
<1>3. \A t \in Timer : ~Runs(t)'
  BY <1>2 DEF Runs, Timer
<1> QED
  BY <1>1, <1>2, <1>3 DEF IInv, Shape, LastArmed, TimersFollowLoad, CallbackKnown

\* A callback ends (via_timer1_callback, via_timer2_callback, rtc_callback): the
\* base it stores is that of the last load, unless the load came over it.
LEMMA CallbackStep == ASSUME IInv, Callback PROVE IInv'
<1> DEFINE h == hand["timer"]
           t == h.flag
           left == IF t = "TIMER1" /\ sr.rep THEN tm[t].armed ELSE tm[t].armed \ {h.load}
           new == [loads |-> tm[t].loads, armed |-> left, base |-> h.load,
                   overlap |-> tm[t].overlap]
<1>1. hand'["timer"] = None /\ DOMAIN hand' = DOMAIN hand
  BY DEF Callback, irq, IInv, Shape, Thread
<1>2. CallbackKnown'
  BY <1>1 DEF Runs, CallbackKnown
<1>3. h # None /\ tm' = IF t = "CA2" THEN tm
                        ELSE [tm EXCEPT ![t] = new]
  BY Zenon DEF Callback
<1>4. CASE t = "CA2"
  BY <1>1, <1>2, <1>3, <1>4 DEF IInv, Shape, LastArmed, TimersFollowLoad
<1>5. CASE t \in Timer
  <2>1. tm[t] \in TimerState
    BY <1>5 DEF IInv, Shape
  <2>2. tm' = [tm EXCEPT ![t] = new]
    BY <1>3, <1>5 DEF Timer
  <2>3. Runs(t)
    BY <1>3 DEF Runs
  <2>4. h.load = tm[t].loads \/ tm[t].overlap
    BY <1>5, <2>3 DEF IInv, CallbackKnown
  <2>5. left \subseteq tm[t].armed
    OBVIOUS
  <2>6. new \in TimerState
    <3>1. h.load \in Nat
      BY <1>3 DEF IInv, Shape
    <3>2. left \in SUBSET Nat
      BY <2>1, <2>5 DEF TimerState
    <3> HIDE DEF left, h
    <3> QED
      BY <2>1, <3>1, <3>2 DEF TimerState
  <2>7. /\ new.loads = tm[t].loads /\ new.armed = left
        /\ new.base = h.load /\ new.overlap = tm[t].overlap
    OBVIOUS
  <2> HIDE DEF new, left
  <2>8. tm' \in [Timer -> TimerState]
    BY <2>2, <2>6 DEF IInv, Shape
  <2>9. LastArmed' /\ TimersFollowLoad'
    <3> SUFFICES ASSUME NEW u \in Timer
                 PROVE  /\ tm'[u].armed \subseteq {tm'[u].loads}
                        /\ tm'[u].base = tm'[u].loads \/ tm'[u].overlap
      BY DEF LastArmed, TimersFollowLoad
    <3>1. CASE u = t
      BY <1>5, <2>2, <2>4, <2>5, <2>7, <3>1 DEF IInv, Shape, LastArmed
    <3>2. CASE u # t
      BY <2>2, <3>2 DEF IInv, Shape, LastArmed, TimersFollowLoad
    <3> QED
      BY <3>1, <3>2
  <2> QED
    BY <1>1, <1>2, <2>8, <2>9 DEF IInv, Shape
<1> QED
  BY <1>3, <1>4, <1>5 DEF IInv, Shape

\* Init and every step (VIA::read, VIA::write, the callbacks, keydown, keyup).
LEMMA Inductive == IInv /\ [Next]_vars => IInv'
<1> SUFFICES ASSUME IInv, [Next]_vars PROVE IInv'
  OBVIOUS
<1>1. CASE Load \/ AdbDriver \/ ClockDriver
  BY <1>1, DriverSteps, Untouched
<1>2. ASSUME NEW t \in Transfers, Begin(t) PROVE IInv'
  BY <1>2, Untouched DEF Begin
<1>3. ASSUME NEW t \in Timer, LoadTimer(t) PROVE IInv'
  BY <1>3, LoadStep
<1>4. ASSUME NEW t \in Timer, ReadTimer(t) PROVE IInv'
  BY <1>4, Untouched DEF ReadTimer, NoTimer
<1>5. ASSUME NEW t \in Timer, Expire(t) PROVE IInv'
  BY <1>5, ExpireStep
<1>6. ASSUME NEW r \in BOOLEAN, Repeat(r) PROVE IInv'
  BY <1>6, Untouched DEF Repeat, NoTimer
<1>7. CASE Tick
  BY <1>7, TickStep
<1>8. CASE Callback
  BY <1>8, CallbackStep
<1>9. ASSUME NEW down \in BOOLEAN, NEW sc \in Typed, Key(down, sc) PROVE IInv'
  <2>1. tm' = tm /\ hand'["timer"] = hand["timer"] /\ DOMAIN hand' = DOMAIN hand
    BY <1>9 DEF Key, Raising
  <2> QED
    BY <2>1, Untouched
<1>10. CASE KeyIrq
  <2>1. tm' = tm /\ hand'["timer"] = hand["timer"] /\ DOMAIN hand' = DOMAIN hand
    BY <1>10 DEF KeyIrq, irq
  <2> QED
    BY <2>1, Untouched
<1>11. CASE UNCHANGED vars
  BY <1>11, Untouched DEF vars, viaVars
<1> QED
  BY <1>1, <1>2, <1>3, <1>4, <1>5, <1>6, <1>7, <1>8, <1>9, <1>10, <1>11 DEF Next

\* The machine starts with no timer loaded and no callback.
LEMMA Start == Init => IInv
  BY DEF Init, IInv, Shape, TimerState, LastArmed, CallbackKnown, TimersFollowLoad,
         Runs, Timer, Thread, None

\* The counter of each timer goes back to its last load, or the load came over a
\* running callback: for every mix of loads, expiries, repeats, ADB and clock
\* transfers (VIA::write, via_timer1_callback, via_timer2_callback).
THEOREM TimersAlwaysFollow == Spec => []TimersFollowLoad
<1>1. IInv => TimersFollowLoad
  BY DEF IInv
<1> QED
  BY <1>1, Start, Inductive, PTL DEF Spec

(***************************************************************************)
(* The ADB transceiver and its driver.                                     *)
(***************************************************************************)

\* A sequence, of whatever its items are.
IsSeq(s) == \E S : s \in Seq(S)

\* What adb_run leaves: an answer is what the guest will read, and the command
\* 7 alone writes the parameter RAM, the register and the value it names.
Reply(o, b) ==
  /\ DOMAIN o = {"buf", "devs", "keys", "ram", "ran", "answer", "taken", "flushed"}
  /\ o.answer # <<>> => o.buf = o.answer /\ IsSeq(o.answer)
  /\ b[1] # 7 => o.ram = <<>>
  /\ b[1] = 7 /\ Len(b) = 4 => o.ram = <<b[3], b[4]>>

\* Nothing done is a reply without an answer.
LEMMA SameReply ==
  /\ DOMAIN Same = {"buf", "devs", "keys", "ram", "ran", "answer", "taken", "flushed"}
  /\ Same.answer = <<>> /\ Same.ram = <<>>
BY DEF Same

\* The tuples that the replies are written as are sequences.
LEMMA Tuples ==
  /\ IsSeq(<<>>)
  /\ \A x : IsSeq(<<x>>)
  /\ \A x, y : IsSeq(<<x, y>>)
  /\ \A x, y, z : IsSeq(<<x, y, z>>)
  /\ \A x, y, z, u : IsSeq(<<x, y, z, u>>)
  /\ \A x, y, z, u, v, w : IsSeq(<<x, y, z, u, v, w>>)
  /\ \A x, y, z, u, v, w, p, q : IsSeq(<<x, y, z, u, v, w, p, q>>)
<1>1. \A x, y, z, u, v, w, p, q :
       /\ <<>> \in Seq({x}) /\ <<x>> \in Seq({x}) /\ <<x, y>> \in Seq({x, y})
       /\ <<x, y, z>> \in Seq({x, y, z}) /\ <<x, y, z, u>> \in Seq({x, y, z, u})
       /\ <<x, y, z, u, v, w>> \in Seq({x, y, z, u, v, w})
       /\ <<x, y, z, u, v, w, p, q>> \in Seq({x, y, z, u, v, w, p, q})
  OBVIOUS
<1> QED
  BY <1>1, Zenon DEF IsSeq

\* What a device answers a Talk with is a sequence of bytes (mouse, keyboard).
LEMMA TalkSeq == ASSUME NEW d \in Device, NEW reg \in 0..3, NEW seen, NEW a \in Talk(d, reg, seen)
  PROVE IsSeq(a)
<1>1. CASE d = Mouse
  <2>1. \/ reg = 0 /\ Talk(d, reg, seen) = {MouseReport(m) : m \in Moves}
        \/ reg = 1 /\ Talk(d, reg, seen) = {<<97, 112, 112, 108, 1, 44, 1, 3>>}
        \/ reg = 2 /\ Talk(d, reg, seen) = {<<>>}
        \/ reg = 3 /\ Talk(d, reg, seen) = {<<96 + n, devs[d].handler>> : n \in Nibbles}
    BY <1>1 DEF Talk, Mouse, Keyboard
  <2>2. \A m \in Moves : IsSeq(MouseReport(m))
    BY Tuples DEF MouseReport
  <2> QED
    BY <2>1, <2>2, Tuples
<1>2. CASE d = Keyboard
  <2>1. \/ reg = 0 /\ Talk(d, reg, seen) = {KeyReport(seen)}
        \/ reg = 1 /\ Talk(d, reg, seen) = {<<1>>}
        \/ reg = 2 /\ Talk(d, reg, seen) = {Modifiers(h) : h \in Holds}
        \/ reg = 3 /\ Talk(d, reg, seen) = {<<1, 1, 96 + n, devs[d].handler>> : n \in Nibbles}
    BY <1>2 DEF Talk, Mouse, Keyboard
  <2>2. IsSeq(KeyReport(seen)) /\ \A h \in Holds : IsSeq(Modifiers(h))
    BY Tuples, Zenon DEF KeyReport, Modifiers
  <2> QED
    BY <2>1, <2>2, Tuples
<1> QED
  BY <1>1, <1>2 DEF Device

\* Append puts one item behind the others.
LEMMA Extended ==
  ASSUME NEW s, IsSeq(s), NEW x
  PROVE  /\ IsSeq(Append(s, x)) /\ Len(s) \in Nat /\ Len(Append(s, x)) = Len(s) + 1
         /\ Append(s, x)[Len(s) + 1] = x
         /\ \A i \in 1..Len(s) : Append(s, x)[i] = s[i]
<1>1. PICK S : s \in Seq(S)
  BY DEF IsSeq
<1>2. s \in Seq(S \cup {x})
  BY <1>1
<1>3. Append(s, x) \in Seq(S \cup {x})
  BY <1>2
<1> QED
  BY <1>2, <1>3 DEF IsSeq

\* Tail takes the first item away.
LEMMA Shortened ==
  ASSUME NEW s, IsSeq(s), s # <<>>
  PROVE  /\ IsSeq(Tail(s)) /\ Len(s) \in Nat /\ Len(s) > 0 /\ Len(Tail(s)) = Len(s) - 1
         /\ Head(s) = s[1]
         /\ \A i \in 1..Len(s) - 1 : Tail(s)[i] = s[i + 1]
<1>1. PICK S : s \in Seq(S)
  BY DEF IsSeq
<1>2. Tail(s) \in Seq(S)
  BY <1>1
<1> QED
  BY <1>1, <1>2, EmptySeq DEF IsSeq

\* Two bytes more behind a reply, as every Talk ends.
LEMMA TwoMore ==
  ASSUME NEW s, IsSeq(s), NEW x, NEW y
  PROVE IsSeq(s \o <<x, y>>)
<1>1. PICK S : s \in Seq(S)
  BY DEF IsSeq
<1>2. s \in Seq(S \cup {x, y})
  BY <1>1
<1>3. <<x, y>> \in Seq(S \cup {x, y})
  OBVIOUS
<1>4. s \o <<x, y>> \in Seq(S \cup {x, y})
  BY <1>2, <1>3
<1> QED
  BY <1>4 DEF IsSeq

\* A sequence that is not empty has a first item.
LEMMA FirstOf == ASSUME NEW S, NEW s \in Seq(S), s # <<>> PROVE Len(s) > 0 /\ s[1] \in S
  BY EmptySeq

\* The items of a sequence are in its set.
LEMMA ItemOf == ASSUME NEW S, NEW s \in Seq(S), NEW i \in 1..Len(s) PROVE s[i] \in S
  OBVIOUS

\* A byte of a command is no end of command.
LEMMA Bytes == \A x \in 2..255 : x \in Nat /\ x > 1
  OBVIOUS

\* The states of the lines that the driver goes through differ from each to the next.
LEMMA Alternate ==
  \A n, l \in Nat : n <= l /\ l > 0 =>
    /\ (IF n = 0 THEN 3 ELSE IF n = 1 THEN 0 ELSE 2 - ((n - 1) % 2)) #
         (IF n = l THEN 3 ELSE IF n = 0 THEN 0 ELSE 2 - (n % 2))
    /\ n < l => (IF n = l THEN 3 ELSE IF n = 0 THEN 0 ELSE 2 - (n % 2)) =
                  (IF n + 1 = 1 THEN 0 ELSE 2 - (((n + 1) - 1) % 2))
  OBVIOUS

\* A sequence of length zero is empty.
LEMMA NoneOf == ASSUME NEW S, NEW s \in Seq(S), Len(s) = 0 PROVE s = <<>>
  BY EmptySeq

\* Sequences of one length and the same items are equal.
LEMMA SameSeq ==
  ASSUME NEW S, NEW s \in Seq(S), NEW t \in Seq(S), Len(s) = Len(t), \A i \in 1..Len(s) : s[i] = t[i]
  PROVE s = t
  OBVIOUS

\* The smaller of two numbers.
LEMMA MinOfTwo == ASSUME NEW a \in Int, NEW b \in Int PROVE Min({a, b}) = IF a <= b THEN a ELSE b
BY DEF Min

\* The devices that answer an address are two at most, and one of them is taken.
LEMMA HereDevice ==
  ASSUME NEW adr, Here(adr) # {}
  PROVE  Max(Here(adr)) \in Device /\ Min(Here(adr)) \in Device
<1>1. Here(adr) \subseteq {0, 1}
  BY DEF Here, Device, Mouse, Keyboard
<1>2. \E x \in Here(adr) : \A y \in Here(adr) : x >= y
  BY <1>1
<1>3. \E x \in Here(adr) : \A y \in Here(adr) : x <= y
  BY <1>1
<1>4. Max(Here(adr)) \in Here(adr) /\ Min(Here(adr)) \in Here(adr)
  BY <1>2, <1>3 DEF Max, Min
<1> QED
  BY <1>4 DEF Here

\* The two commands for the parameter RAM (adb_run, 7 and 12).
LEMMA RamReply ==
  ASSUME NEW b, NEW seen, NEW o \in RamWrite(b) \cup RamRead(b)
  PROVE  /\ o \in RamWrite(b) /\ b[1] = 7 => Reply(o, b)
         /\ o \in RamRead(b) /\ b[1] = 12 => Reply(o, b)
<1>1. ASSUME o \in RamWrite(b), b[1] = 7 PROVE Reply(o, b)
  <2>1. PICK i \in At(b, 3), x \in At(b, 4) : o = [Same EXCEPT !.ram = <<i, x>>]
    BY <1>1 DEF RamWrite
  <2>2. DOMAIN o = DOMAIN Same /\ o.answer = Same.answer /\ o.ram = <<i, x>>
    BY <2>1 DEF Same
  <2>3. Len(b) = 4 => i = b[3] /\ x = b[4]
    BY <2>1 DEF At
  <2> QED
    BY <1>1, <2>2, <2>3, SameReply DEF Reply
<1>2. ASSUME o \in RamRead(b), b[1] = 12 PROVE Reply(o, b)
  <2>1. PICK x : o = [Same EXCEPT !.buf = <<1, 0, 0, 7, x, 0>>, !.answer = <<1, 0, 0, 7, x, 0>>]
    BY <1>2 DEF RamRead
  <2> DEFINE a == <<1, 0, 0, 7, x, 0>>
  <2>2. IsSeq(a)
    BY Tuples
  <2> HIDE DEF a
  <2>3. o = [Same EXCEPT !.buf = a, !.answer = a]
    BY <2>1 DEF a
  <2>4. DOMAIN o = DOMAIN Same /\ o.answer = a /\ o.buf = a /\ o.ram = Same.ram
    BY <2>3 DEF Same
  <2> QED
    BY <1>2, <2>2, <2>4, SameReply DEF Reply
<1> QED
  BY <1>1, <1>2

\* The commands for a device: Talk, Listen, and the rest (adb_run).
LEMMA DeviceReply ==
  ASSUME NEW b, NEW seen, NEW here, Max(here) \in Device, NEW reg \in 0..3, NEW flushes, b[1] # 7,
         NEW o, \/ o \in Talked(here, reg, seen)
                \/ o = Stopped(here, flushes)
                \/ o \in Listens(b, Min(here), reg)
  PROVE  Reply(o, b)
<1>1. CASE o \in Talked(here, reg, seen)
  <2> DEFINE takes == Keyboard \in here /\ reg = 0
             k == IF takes THEN KeysAfter(seen) ELSE keys
             n == IF takes THEN Min({2, Len(seen)}) ELSE 0
  <2>1. PICK a \in Talk(Max(here), reg, seen) :
          o = [Same EXCEPT !.buf = a \o <<0, 1>>, !.answer = a \o <<0, 1>>, !.keys = k, !.taken = n]
    BY <1>1 DEF Talked
  <2> HIDE DEF takes, k, n
  <2>2. IsSeq(a \o <<0, 1>>)
    BY TalkSeq, TwoMore
  <2> DEFINE r == a \o <<0, 1>>
  <2>3. o = [Same EXCEPT !.buf = r, !.answer = r, !.keys = k, !.taken = n] /\ IsSeq(r)
    BY <2>1, <2>2
  <2> HIDE DEF r
  <2>4. DOMAIN o = DOMAIN Same /\ o.answer = r /\ o.buf = r /\ o.ram = Same.ram
    BY <2>3 DEF Same
  <2> QED
    BY <2>3, <2>4, SameReply DEF Reply
<1>2. CASE o = Stopped(here, flushes)
  <2>1. DOMAIN o = DOMAIN Same /\ o.answer = Same.answer /\ o.ram = Same.ram
    BY <1>2 DEF Stopped, Same
  <2> QED
    BY <2>1, SameReply DEF Reply
<1>3. CASE o \in Listens(b, Min(here), reg)
  <2>1. \E v0, v1, v2 : o = [Same EXCEPT !.devs[Min(here)] = Listened(Min(here), reg, v0, v1, v2)]
    BY <1>3 DEF Listens
  <2>2. DOMAIN o = DOMAIN Same /\ o.answer = Same.answer /\ o.ram = Same.ram
    BY <2>1 DEF Same
  <2> QED
    BY <2>2, SameReply DEF Reply
<1> QED
  BY <1>1, <1>2, <1>3

\* Whatever the command, what it leaves is a reply to it (adb_run).
LEMMA RunReply ==
  ASSUME NEW b, b[1] \in Nat, NEW seen, NEW o \in adb_run(b, seen)
  PROVE  Reply(o, b) /\ o.ran = b
<1> DEFINE here == Here(b[1] \div 16)
           cmd == (b[1] \div 4) % 4
           reg == b[1] % 4
           done_ == CASE cmd = 0 /\ reg = 0 -> {[Same EXCEPT !.devs = NewDevices]}
                      [] b[1] = 1 -> {[Same EXCEPT !.buf = <<1, 0>>]}
                      [] b[1] = 7 -> RamWrite(b)
                      [] b[1] = 12 -> RamRead(b)
                      [] OTHER ->
                           IF here = {} THEN {Same}
                           ELSE IF cmd = 2 THEN Listens(b, Min(here), reg)
                           ELSE IF cmd = 3 THEN Talked(here, reg, seen)
                           ELSE {Stopped(here, cmd = 0 /\ reg = 1)}
<1>1. PICK r \in done_ : o = [r EXCEPT !.ran = b]
  BY DEF adb_run
<1>2. Reply(r, b)
  <2>1. reg \in 0..3 /\ (cmd = 0 /\ reg = 0 => b[1] # 7)
    OBVIOUS
  <2>2. CASE cmd = 0 /\ reg = 0
    <3>1. r = [Same EXCEPT !.devs = NewDevices] 
      BY <2>2, <1>1
    <3>2. DOMAIN r = DOMAIN Same /\ r.answer = Same.answer /\ r.ram = Same.ram
      BY <3>1 DEF Same
    <3> QED
      BY <2>1, <2>2, <3>2, SameReply DEF Reply
  <2>3. CASE ~(cmd = 0 /\ reg = 0) /\ b[1] = 1
    <3>1. r = [Same EXCEPT !.buf = <<1, 0>>] 
      BY <2>3, <1>1
    <3>2. DOMAIN r = DOMAIN Same /\ r.answer = Same.answer /\ r.ram = Same.ram
      BY <3>1 DEF Same
    <3> QED
      BY <2>3, <3>2, SameReply DEF Reply
  <2>4. CASE ~(cmd = 0 /\ reg = 0) /\ b[1] = 7
    <3>1. r \in RamWrite(b)
      BY <2>4, <1>1
    <3> QED
      BY <2>4, <3>1, RamReply
  <2>5. CASE ~(cmd = 0 /\ reg = 0) /\ b[1] = 12
    <3>1. r \in RamRead(b)
      BY <2>5, <1>1
    <3> QED
      BY <2>5, <3>1, RamReply
  <2>6. CASE ~(cmd = 0 /\ reg = 0) /\ b[1] \notin {1, 7, 12}
    <3>1. r \in IF here = {} THEN {Same}
                ELSE IF cmd = 2 THEN Listens(b, Min(here), reg)
                ELSE IF cmd = 3 THEN Talked(here, reg, seen)
                ELSE {Stopped(here, cmd = 0 /\ reg = 1)}
      BY <2>6, <1>1
    <3>2. CASE here = {}
      <4>1. r = Same
        BY <3>1, <3>2
      <4> QED
        BY <2>6, <4>1, SameReply DEF Reply
    <3>3. CASE here # {}
      <4>1. Max(here) \in Device
        BY <3>3, HereDevice
      <4> QED
        BY <2>1, <2>6, <3>1, <3>3, <4>1, DeviceReply
    <3> QED
      BY <3>2, <3>3
  <2> QED
    BY <2>2, <2>3, <2>4, <2>5, <2>6
<1> HIDE DEF done_
<1>3. o.ran = b /\ DOMAIN o = DOMAIN r /\ o.buf = r.buf /\ o.answer = r.answer /\ o.ram = r.ram
  BY <1>1, <1>2 DEF Reply
<1> QED
  BY <1>2, <1>3 DEF Reply

\* The fields of the records, which EXCEPT keeps.
AdbFields == {"buf", "last", "adb_buf"}
SrFields == {"v", "dir", "rep", "old_state"}
DriverFields == {"phase", "step", "cmd", "n", "left", "got", "sent"}

\* The records keep their fields, a command is gathered from bytes above 1.
Shapes ==
  /\ DOMAIN adb = AdbFields /\ DOMAIN sr = SrFields /\ DOMAIN driver = DriverFields
  /\ driver.phase \in {"idle", "send", "receive"} /\ IsSeq(driver.got)
  /\ adb.adb_buf \in Seq(2..255) /\ IsSeq(log.answer)

\* A byte that does not end a command is gathered; the byte 1 ends the command
\* gathered, which is carried out (transmitAdb, adb_run).
LEMMA TransmitStep ==
  ASSUME Shapes, sr.dir = "out", sr.v \in Nat, adb.adb_buf \in Seq(2..255),
         NEW s, sr.old_state # s, change_state(s)
  PROVE  LET b == adb.adb_buf IN
         /\ sr' = [sr EXCEPT !.old_state = s] /\ DOMAIN adb' = AdbFields
         /\ sr.v > 1 /\ (s # 0 \/ b = <<>>) =>
              /\ adb'.adb_buf = Append(b, sr.v) /\ log'.ran = log.ran
              /\ log'.answer = log.answer /\ WrittenBack(<<>>)
         /\ sr.v = 1 /\ s # 0 /\ b # <<>> =>
              /\ adb'.adb_buf = <<>> /\ log'.ran = Append(log.ran, b)
              /\ log'.answer # <<>> => adb'.buf = log'.answer /\ IsSeq(log'.answer)
              /\ b[1] # 7 => WrittenBack(<<>>)
              /\ b[1] = 7 /\ Len(b) = 4 => WrittenBack(<<b[3], b[4]>>)
<1> DEFINE b == adb.adb_buf
           v == sr.v
           ends == b # <<>> /\ (s = 0 \/ v = 1)
           asks == v = 1 /\ (s = 0 \/ b = <<>>)
           left == IF s = 0 \/ v = 1 THEN <<>> ELSE b
<1>1. PICK t \in Transmitted(s, v, cpu.seen) :
        /\ transmitAdb(t, cpu.seen) /\ WrittenBack(t.out.ram)
        /\ sr' = [sr EXCEPT !.old_state = s]
  BY DEF change_state
<1>2. PICK o \in IF ends THEN adb_run(b, cpu.seen) ELSE {Same} :
        t = [out |-> IF asks THEN [o EXCEPT !.buf = <<1>>] ELSE o,
             adb_buf |-> IF v > 1 THEN Append(left, v) ELSE left]
  BY <1>1 DEF Transmitted
<1> HIDE DEF asks, left, ends
<1>3. t.out = IF asks THEN [o EXCEPT !.buf = <<1>>] ELSE o
  BY <1>2
<1>4. t.adb_buf = IF v > 1 THEN Append(left, v) ELSE left
  BY <1>2
<1>5. adb' = [adb EXCEPT !.buf = t.out.buf, !.adb_buf = t.adb_buf]
  BY <1>1 DEF transmitAdb
<1>6. DOMAIN adb' = AdbFields /\ adb'.buf = t.out.buf /\ adb'.adb_buf = t.adb_buf
  BY <1>5 DEF Shapes, AdbFields
<1>7. /\ log'.ran = IF t.out.ran = <<>> THEN log.ran ELSE Append(log.ran, t.out.ran)
      /\ log'.answer = IF t.out.ran = <<>> THEN log.answer ELSE t.out.answer
  BY <1>1 DEF transmitAdb
<1>8. ASSUME v > 1, s # 0 \/ b = <<>>
      PROVE  /\ adb'.adb_buf = Append(b, v) /\ log'.ran = log.ran
             /\ log'.answer = log.answer /\ WrittenBack(<<>>)
  <2>1. ~ends /\ ~asks /\ left = b
    BY <1>8 DEF ends, asks, left
  <2>2. t.out = Same
    BY <1>2, <1>3, <2>1
  <2>3. t.out.ran = <<>> /\ t.out.ram = <<>>
    BY <2>2 DEF Same
  <2>4. adb'.adb_buf = Append(b, v)
    BY <1>4, <1>6, <1>8, <2>1
  <2> QED
    BY <1>1, <1>7, <2>3, <2>4
<1>9. ASSUME v = 1, s # 0, b # <<>>
      PROVE  /\ adb'.adb_buf = <<>> /\ log'.ran = Append(log.ran, b)
             /\ log'.answer # <<>> => adb'.buf = log'.answer /\ IsSeq(log'.answer)
             /\ b[1] # 7 => WrittenBack(<<>>)
             /\ b[1] = 7 /\ Len(b) = 4 => WrittenBack(<<b[3], b[4]>>)
  <2>1. ends /\ ~asks /\ left = <<>>
    BY <1>9 DEF ends, asks, left
  <2>2. o \in adb_run(b, cpu.seen) /\ t.out = o
    BY <1>2, <1>3, <2>1
  <2>3. b[1] \in Nat
    <3>1. b \in Seq(2..255)
      OBVIOUS
    <3> HIDE DEF b
    <3>2. b[1] \in 2..255
      BY <1>9, <3>1, FirstOf, Zenon
    <3> QED
      BY <3>2, Bytes, Zenon
  <2>4. Reply(o, b) /\ o.ran = b
    BY <2>2, <2>3, RunReply
  <2>5. ~(v > 1)
    BY <1>9
  <2>6. adb'.adb_buf = <<>>
    BY <1>4, <1>6, <2>1, <2>5
  <2> QED
    BY <1>1, <1>6, <1>7, <1>9, <2>2, <2>4, <2>6 DEF Reply
<1> QED
  BY <1>1, <1>6, <1>8, <1>9

\* The state lines ask for the next byte of the reply (recieveAdb).
LEMMA ReceiveStep ==
  ASSUME Shapes, sr.dir = "in", NEW s, sr.old_state # s, change_state(s)
  PROVE  /\ sr' = [sr EXCEPT !.v = recieveAdb(s).v, !.old_state = s]
         /\ adb' = recieveAdb(s).adb /\ log' = log /\ WrittenBack(<<>>)
BY DEF change_state

\* The index read from a reply: beyond its end the last byte comes again.
Least(a, b) == IF a <= b THEN a ELSE b

\* Between two transfers nothing is gathered and the lines are at 3.
AtRest ==
  driver.phase = "idle" =>
    /\ driver.step = "none" /\ sr.dir = "out" /\ adb.adb_buf = <<>> /\ sr.old_state = 3

\* While a command is sent the transceiver has gathered exactly what the driver
\* has sent of it, and the lines stand where the driver left them.
Sending ==
  LET c == driver.cmd  n == driver.n IN
  driver.phase = "send" =>
    /\ sr.dir = "out" /\ c \in Seq(2..255) /\ Len(c) > 0 /\ n \in 0..Len(c) + 1
    /\ driver.step \in {"byte", "state", "wait", "turn"} /\ driver.got = <<>>
    /\ Len(adb.adb_buf) = IF n <= Len(c) THEN n ELSE 0
    /\ \A i \in 1..Len(adb.adb_buf) : adb.adb_buf[i] = c[i]
    /\ sr.old_state = IF n = 0 \/ n = Len(c) + 1 THEN 3 ELSE IF n = 1 THEN 0 ELSE 2 - ((n - 1) % 2)
    /\ driver.step = "state" => n <= Len(c) /\ sr.v = IF n = Len(c) THEN 1 ELSE c[n + 1]
    /\ driver.step = "byte" => n <= Len(c)
    /\ driver.step = "turn" => n = Len(c) + 1

\* While a reply is read nothing is gathered, and the lines alternate.
Replying ==
  driver.phase = "receive" =>
    /\ sr.dir = "in" /\ adb.adb_buf = <<>> /\ driver.step \in {"state", "wait", "byte", "return"}
    /\ driver.step = "state" =>
         sr.old_state = IF Len(driver.got) = 0 THEN 3 ELSE 2 - (Len(driver.got) % 2)
    /\ driver.step \in {"wait", "byte"} => sr.old_state = 1 + (Len(driver.got) % 2)
    /\ driver.step = "return" => sr.old_state = 3

\* Of the answer a all but its first k bytes are left, and the last byte handed
\* out is the k-th.
Remains(q, last, a, k) ==
  /\ IsSeq(q)
  /\ Len(q) = IF k <= Len(a) THEN Len(a) - k ELSE 0
  /\ \A i \in 1..Len(q) : q[i] = a[k + i]
  /\ k > 0 => last = a[Least(k, Len(a))]
\* What is left of the answer when k of its bytes have been handed out.
Left(k) == Remains(adb.buf, adb.last, log.answer, k)

\* What the driver has read is a beginning of the answer, and what the transceiver
\* keeps is the rest of it (buf, last), the byte in the shift register between them.
Replies ==
  LET a == log.answer  k == Len(driver.got) IN
  a # <<>> =>
    /\ driver.phase = "send" /\ driver.n = Len(driver.cmd) + 1 => Left(0)
    /\ driver.phase = "receive" =>
         /\ \A i \in 1..k : driver.got[i] = a[Least(i, Len(a))]
         /\ driver.step = "state" => Left(k)
         /\ driver.step \in {"wait", "byte"} => Left(k + 1) /\ sr.v = a[Least(k + 1, Len(a))]

\* The inductive invariant of the transceiver and its driver.
AdbInv == Shapes /\ AtRest /\ Sending /\ Replying /\ Replies /\ CommandsWhole

\* A step that leaves the transceiver, its log and its driver alone.
LEMMA Aside ==
  ASSUME AdbInv, adb' = adb, log' = log, driver' = driver,
         sr' = sr \/ (\E r : sr' = [sr EXCEPT !.rep = r])
  PROVE  AdbInv'
<1>1. /\ sr'.v = sr.v /\ sr'.dir = sr.dir /\ sr'.old_state = sr.old_state
      /\ DOMAIN sr' = DOMAIN sr
  BY DEF AdbInv, Shapes, SrFields
<1>2. Shapes'
  BY <1>1 DEF AdbInv, Shapes
<1>3. AtRest' /\ Sending' /\ Replying'
  BY <1>1 DEF AdbInv, AtRest, Sending, Replying
<1>4. Replies' /\ CommandsWhole'
  BY <1>1 DEF AdbInv, Replies, Left, CommandsWhole
<1> QED
  BY <1>2, <1>3, <1>4 DEF AdbInv

\* A transfer begins (the guest chooses a command).
LEMMA BeginStep == ASSUME AdbInv, ViaAssumption, NEW t \in Transfers, Begin(t) PROVE AdbInv'
<1> DEFINE c == t.cmd
<1>1. c \in Seq(2..255) /\ c # <<>>
  BY DEF ViaAssumption
<1>2. /\ DOMAIN driver' = DriverFields /\ driver'.phase = "send" /\ driver'.step = "byte"
      /\ driver'.cmd = c /\ driver'.n = 0 /\ driver'.got = <<>> /\ driver'.sent = driver.sent
  BY DEF Begin, Step, Resting, DriverFields
<1>3. adb' = adb /\ log' = log /\ sr' = sr /\ driver.phase = "idle"
  BY DEF Begin, adbVars
<1> HIDE DEF c
<1>4. Len(c) > 0
  BY <1>1, FirstOf, Zenon
<1>5. IsSeq(<<>>) /\ Len(adb.adb_buf) = 0
  BY <1>3, Tuples DEF AdbInv, AtRest
<1>6. Shapes'
  BY <1>2, <1>3, <1>5 DEF AdbInv, Shapes
<1>7. AtRest' /\ Replying' /\ Replies' /\ CommandsWhole'
  <2>1. 0 # Len(c) + 1
    BY <1>1, <1>4
  <2> QED
    BY <1>2, <1>3, <2>1 DEF AdbInv, AtRest, Replying, Replies, CommandsWhole
<1>8. Sending'
  BY <1>1, <1>2, <1>3, <1>4, <1>5 DEF AdbInv, AtRest, Sending
<1> QED
  BY <1>6, <1>7, <1>8 DEF AdbInv

\* The next byte of a command goes to the shift register.
LEMMA SendByteStep == ASSUME AdbInv, SendByte PROVE AdbInv'
<1>1. driver.phase = "send" /\ driver.step = "byte" /\ sr.dir = "out"
  BY DEF AdbInv, SendByte, Sending
<1>2. /\ DOMAIN driver' = DriverFields /\ driver'.phase = "send" /\ driver'.step = "state"
      /\ driver'.cmd = driver.cmd /\ driver'.n = driver.n /\ driver'.got = driver.got
      /\ driver'.sent = driver.sent
  BY <1>1 DEF SendByte, Step, AdbInv, Shapes, DriverFields
<1>3. adb' = adb /\ log' = log
  BY DEF SendByte, NoAdb, adbVars
<1>4. /\ DOMAIN sr' = SrFields /\ sr'.dir = "out" /\ sr'.old_state = sr.old_state
      /\ sr'.v = IF driver.n = Len(driver.cmd) THEN 1 ELSE driver.cmd[driver.n + 1]
  BY <1>1 DEF SendByte, AdbInv, Shapes, SrFields
<1>5. Shapes'
  BY <1>2, <1>3, <1>4 DEF AdbInv, Shapes
<1>6. AtRest' /\ Replying' /\ CommandsWhole'
  BY <1>2, <1>3 DEF AdbInv, AtRest, Replying, CommandsWhole
<1>7. Sending'
  BY <1>1, <1>2, <1>3, <1>4 DEF AdbInv, Sending
<1>8. Replies'
  BY <1>1, <1>2, <1>3 DEF AdbInv, Replies, Left
<1> QED
  BY <1>5, <1>6, <1>7, <1>8 DEF AdbInv

\* The state lines move on to the next byte of a command, or end it: then it is
\* carried out, and its write to the parameter RAM is done with the same access.
LEMMA SendStateStep ==
  ASSUME AdbInv, SendState
  PROVE  /\ AdbInv'
         /\ LET c == driver.cmd IN
            /\ driver.n # Len(c) \/ c[1] # 7 => WrittenBack(<<>>)
            /\ driver.n = Len(c) /\ c[1] = 7 /\ Len(c) = 4 => WrittenBack(<<c[3], c[4]>>)
<1> DEFINE c == driver.cmd
           n == driver.n
           b == adb.adb_buf
           s == IF n = Len(c) THEN 3 ELSE IF n = 0 THEN 0 ELSE 2 - (n % 2)
<1>1. /\ driver.phase = "send" /\ driver.step = "state" /\ change_state(s)
      /\ driver' = [driver EXCEPT !.step = "wait", !.n = @ + 1,
                                  !.sent = IF n = Len(c) THEN Append(@, c) ELSE @]
  BY DEF SendState, PortState, Step
<1>2. /\ sr.dir = "out" /\ c \in Seq(2..255) /\ Len(c) > 0 /\ n \in 0..Len(c)
      /\ driver.got = <<>> /\ Len(b) = n /\ (\A i \in 1..Len(b) : b[i] = c[i])
      /\ sr.old_state = IF n = 0 THEN 3 ELSE IF n = 1 THEN 0 ELSE 2 - ((n - 1) % 2)
      /\ sr.v = IF n = Len(c) THEN 1 ELSE c[n + 1]
  BY <1>1 DEF AdbInv, Sending
<1>3. /\ DOMAIN driver' = DriverFields /\ driver'.phase = "send" /\ driver'.step = "wait"
      /\ driver'.cmd = c /\ driver'.n = n + 1 /\ driver'.got = <<>>
      /\ driver'.sent = IF n = Len(c) THEN Append(driver.sent, c) ELSE driver.sent
  BY <1>1, <1>2 DEF AdbInv, Shapes, DriverFields
<1>4. b \in Seq(2..255) /\ IsSeq(<<>>) /\ IsSeq(log.answer) /\ log.ran = driver.sent /\ Shapes
  BY Tuples DEF AdbInv, Shapes, CommandsWhole
<1> HIDE DEF c, n, b, s
<1>5. sr.v \in Nat
  <2>1. CASE n = Len(c)
    BY <1>2, <2>1
  <2>2. CASE n # Len(c)
    <3>1. n + 1 \in 1..Len(c)
      BY <1>2, <2>2
    <3>2. c[n + 1] \in 2..255
      BY <1>2, <3>1, ItemOf, Zenon
    <3> QED
      BY <1>2, <2>2, <3>2, Bytes, Zenon
  <2> QED
    BY <2>1, <2>2
<1>a. sr.old_state # s
  <2>1. n \in Nat /\ Len(c) \in Nat /\ n <= Len(c)
    BY <1>2
  <2> QED
    BY <1>2, <2>1, Alternate, Zenon DEF s
<1>6. /\ sr' = [sr EXCEPT !.old_state = s] /\ DOMAIN adb' = AdbFields
      /\ sr.v > 1 /\ (s # 0 \/ b = <<>>) =>
           /\ adb'.adb_buf = Append(b, sr.v) /\ log'.ran = log.ran
           /\ log'.answer = log.answer /\ WrittenBack(<<>>)
      /\ sr.v = 1 /\ s # 0 /\ b # <<>> =>
           /\ adb'.adb_buf = <<>> /\ log'.ran = Append(log.ran, b)
           /\ log'.answer # <<>> => adb'.buf = log'.answer /\ IsSeq(log'.answer)
           /\ b[1] # 7 => WrittenBack(<<>>)
           /\ b[1] = 7 /\ Len(b) = 4 => WrittenBack(<<b[3], b[4]>>)
  BY <1>1, <1>2, <1>4, <1>5, <1>a, TransmitStep DEF b
<1>7. /\ DOMAIN sr' = SrFields /\ sr'.dir = "out" /\ sr'.old_state = s /\ sr'.v = sr.v
  BY <1>2, <1>4, <1>6 DEF Shapes, SrFields
<1>8. AtRest' /\ Replying'
  BY <1>3 DEF AtRest, Replying
<1>9. ASSUME n < Len(c) PROVE AdbInv' /\ WrittenBack(<<>>)
  <2>1. sr.v \in 2..255 /\ (s # 0 \/ b = <<>>)
    <3>1. sr.v \in 2..255
      <4>1. n + 1 \in 1..Len(c) /\ n # Len(c)
        BY <1>2, <1>9
      <4> QED
        BY <1>2, <4>1, ItemOf, Zenon
    <3>2. n = 0 => b = <<>>
      BY <1>2, <1>4, NoneOf, Zenon
    <3>3. n # 0 => s # 0
      BY <1>2 DEF s
    <3> QED
      BY <3>1, <3>2, <3>3
  <2>2. /\ adb'.adb_buf = Append(b, sr.v) /\ log'.ran = log.ran
        /\ log'.answer = log.answer /\ WrittenBack(<<>>)
    BY <1>6, <2>1, Bytes, Zenon
  <2>3. Append(b, sr.v) \in Seq(2..255) /\ Len(Append(b, sr.v)) = n + 1
    BY <1>2, <1>4, <2>1
  <2>4. \A i \in 1..n + 1 : Append(b, sr.v)[i] = c[i]
    BY <1>2, <1>4, <1>9, <2>1
  <2>5. Shapes'
    BY <1>3, <1>4, <1>6, <1>7, <2>2, <2>3 DEF Shapes
  <2>6. s = IF n + 1 = 1 THEN 0 ELSE 2 - (((n + 1) - 1) % 2)
    BY <1>2, <1>9 DEF s
  <2>7. n + 1 \in 0..Len(c) + 1 /\ n + 1 <= Len(c) /\ n + 1 # Len(c) + 1 /\ n + 1 # 0
    BY <1>2, <1>9
  <2>8. Sending'
    BY <1>2, <1>3, <1>7, <2>2, <2>3, <2>4, <2>6, <2>7 DEF Sending
  <2>9. Replies' /\ CommandsWhole'
    <3>1. n # Len(c)
      BY <1>2, <1>9
    <3> QED
      BY <1>3, <1>4, <2>2, <2>7, <3>1 DEF Replies, CommandsWhole
  <2> QED
    BY <1>8, <2>2, <2>5, <2>8, <2>9 DEF AdbInv
<1>10. ASSUME n = Len(c)
       PROVE  /\ AdbInv'
              /\ c[1] # 7 => WrittenBack(<<>>)
              /\ c[1] = 7 /\ Len(c) = 4 => WrittenBack(<<c[3], c[4]>>)
  <2>1. sr.v = 1 /\ s # 0 /\ b = c /\ s = 3
    <3>1. Len(b) = Len(c)
      BY <1>2, <1>10
    <3>2. b = c
      BY <1>2, <1>4, <3>1, SameSeq, Zenon
    <3> QED
      BY <1>2, <1>10, <3>2 DEF s
  <2>2. b # <<>>
    <3>1. Len(b) > 0
      BY <1>2, <1>10
    <3> QED
      BY <3>1
  <2>3. /\ adb'.adb_buf = <<>> /\ log'.ran = Append(log.ran, b)
        /\ log'.answer # <<>> => adb'.buf = log'.answer /\ IsSeq(log'.answer)
        /\ b[1] # 7 => WrittenBack(<<>>)
        /\ b[1] = 7 /\ Len(b) = 4 => WrittenBack(<<b[3], b[4]>>)
    BY <1>6, <2>1, <2>2
  <2>4. IsSeq(log'.answer) /\ <<>> \in Seq(2..255)
    BY <1>4, <2>3
  <2>5. Shapes'
    BY <1>3, <1>6, <1>7, <1>4, <2>3, <2>4 DEF Shapes
  <2>6. n + 1 \in 0..Len(c) + 1 /\ n + 1 = Len(c) + 1 /\ ~(n + 1 <= Len(c))
    BY <1>2, <1>10
  <2>7. Sending'
    <3>1. Len(<<>>) = 0 /\ \A i \in 1..0 : FALSE
      OBVIOUS
    <3> QED
      BY <1>2, <1>3, <1>7, <2>1, <2>3, <2>6, <3>1 DEF Sending
  <2>8. CommandsWhole'
    BY <1>3, <1>4, <1>10, <2>1, <2>3, Zenon DEF CommandsWhole
  <2>9. Replies'
    <3>1. ASSUME log'.answer # <<>> PROVE Left(0)'
      <4> DEFINE a == log'.answer
      <4>1. adb'.buf = a /\ IsSeq(a) /\ Len(a) \in Nat
        BY <2>3, <3>1, Extended
      <4> HIDE DEF a
      <4>2. IsSeq(adb'.buf) /\ Len(adb'.buf) = IF 0 <= Len(a) THEN Len(a) - 0 ELSE 0
        BY <4>1
      <4>3. \A i \in 1..Len(adb'.buf) : adb'.buf[i] = a[0 + i]
        BY <4>1
      <4> QED
        BY <4>2, <4>3 DEF Left, Remains, a
    <3> QED
      BY <1>3, <3>1 DEF Replies
  <2> QED
    <3>1. AdbInv'
      BY <1>8, <2>5, <2>7, <2>8, <2>9 DEF AdbInv
    <3> QED
      BY <2>1, <2>3, <3>1, Zenon
<1>11. n < Len(c) \/ n = Len(c)
  BY <1>2
<1> QED
  BY <1>9, <1>10, <1>11 DEF c, n

\* The driver waits for the shift register.
LEMMA WaitStep == ASSUME AdbInv, Wait PROVE AdbInv'
<1>1. adb' = adb /\ log' = log /\ sr' = sr
  BY DEF Wait, NoAdb, adbVars
<1>2. driver.step = "wait" /\ driver.phase \in {"send", "receive"}
  BY DEF Wait, AdbInv, Shapes, AtRest
<1>3. ASSUME NEW to \in {"byte", "turn"}, driver' = [driver EXCEPT !.step = to],
             to = "byte" => driver.phase = "receive" \/ driver.n <= Len(driver.cmd),
             to = "turn" => driver.phase = "send" /\ ~(driver.n <= Len(driver.cmd))
      PROVE  AdbInv'
  <2>1. /\ DOMAIN driver' = DriverFields /\ driver'.phase = driver.phase /\ driver'.step = to
        /\ driver'.cmd = driver.cmd /\ driver'.n = driver.n /\ driver'.got = driver.got
        /\ driver'.sent = driver.sent
    BY <1>3 DEF AdbInv, Shapes, DriverFields
  <2>2. Shapes' /\ AtRest' /\ CommandsWhole'
    BY <1>1, <1>2, <2>1 DEF AdbInv, Shapes, AtRest, CommandsWhole
  <2>3. Sending'
    BY <1>1, <1>2, <1>3, <2>1 DEF AdbInv, Sending
  <2>4. Replying' /\ Replies'
    BY <1>1, <1>2, <1>3, <2>1 DEF AdbInv, Replying, Replies, Left
  <2> QED
    BY <2>2, <2>3, <2>4 DEF AdbInv
<1>4. ASSUME driver' = Resting(driver.sent), driver.phase = "send", ~(driver.n <= Len(driver.cmd))
      PROVE  AdbInv'
  <2>1. /\ DOMAIN driver' = DriverFields /\ driver'.phase = "idle" /\ driver'.step = "none"
        /\ driver'.got = <<>> /\ driver'.sent = driver.sent
    BY <1>4 DEF Resting, DriverFields
  <2>2. adb.adb_buf = <<>> /\ sr.old_state = 3 /\ sr.dir = "out"
    <3>1. Len(adb.adb_buf) = 0 /\ sr.dir = "out" /\ driver.n = Len(driver.cmd) + 1
      BY <1>4 DEF AdbInv, Sending
    <3>2. sr.old_state = 3
      BY <1>4, <3>1 DEF AdbInv, Sending
    <3>3. adb.adb_buf \in Seq(2..255)
      BY DEF AdbInv, Shapes
    <3> QED
      BY <3>1, <3>2, <3>3, NoneOf, Zenon
  <2>3. IsSeq(<<>>)
    BY Tuples
  <2>4. Shapes'
    BY <1>1, <2>1, <2>3 DEF AdbInv, Shapes
  <2>5. AtRest' /\ Sending' /\ Replying' /\ Replies' /\ CommandsWhole'
    BY <1>1, <2>1, <2>2 DEF AdbInv, AtRest, Sending, Replying, Replies, CommandsWhole
  <2> QED
    BY <2>4, <2>5 DEF AdbInv
<1>5. \/ driver' = [driver EXCEPT !.step = "byte"]
         /\ (driver.phase = "receive" \/ driver.n <= Len(driver.cmd))
      \/ driver' = Resting(driver.sent) /\ driver.phase = "send" /\ ~(driver.n <= Len(driver.cmd))
      \/ driver' = [driver EXCEPT !.step = "turn"]
         /\ driver.phase = "send" /\ ~(driver.n <= Len(driver.cmd))
  BY <1>2 DEF Wait, Step
<1> QED
  BY <1>3, <1>4, <1>5

\* The shift register turns round for the reply.
LEMMA DirectionStep == ASSUME AdbInv, Direction PROVE AdbInv'
<1>1. /\ adb' = adb /\ log' = log /\ driver.step \in {"turn", "return"}
      /\ sr' = [sr EXCEPT !.dir = IF driver.step = "turn" THEN "in" ELSE "out"]
  BY DEF Direction, NoAdb, adbVars
<1>2. /\ DOMAIN sr' = SrFields /\ sr'.v = sr.v /\ sr'.old_state = sr.old_state
      /\ sr'.dir = IF driver.step = "turn" THEN "in" ELSE "out"
  BY <1>1 DEF AdbInv, Shapes, SrFields
<1>3. CASE driver.step = "turn"
  <2>1. driver.phase = "send"
    BY <1>3 DEF AdbInv, Shapes, AtRest, Replying
  <2>2. /\ DOMAIN driver' = DriverFields /\ driver'.phase = "receive" /\ driver'.step = "state"
        /\ driver'.got = driver.got /\ driver'.sent = driver.sent
    BY <1>3 DEF Direction, Step, AdbInv, Shapes, DriverFields
  <2>3. /\ driver.got = <<>> /\ driver.n = Len(driver.cmd) + 1
        /\ driver.cmd \in Seq(2..255)
    BY <1>3, <2>1 DEF AdbInv, Sending
  <2>4. sr.old_state = 3 /\ Len(adb.adb_buf) = 0
    BY <2>1, <2>3 DEF AdbInv, Sending
  <2>5. adb.adb_buf = <<>>
    <3>1. adb.adb_buf \in Seq(2..255)
      BY DEF AdbInv, Shapes
    <3> QED
      BY <2>4, <3>1, NoneOf, Zenon
  <2>6. Shapes'
    BY <1>1, <1>2, <2>2 DEF AdbInv, Shapes
  <2>7. Len(<<>>) = 0
    OBVIOUS
  <2>8. AtRest' /\ Sending' /\ Replying' /\ CommandsWhole'
    BY <1>1, <1>2, <1>3, <2>2, <2>3, <2>4, <2>5, <2>7
    DEF AdbInv, AtRest, Sending, Replying, CommandsWhole
  <2>9. Replies'
    <3>1. log.answer # <<>> => Left(0)
      BY <2>1, <2>3 DEF AdbInv, Replies
    <3>2. \A i \in 1..0 : FALSE
      OBVIOUS
    <3>3. Left(0) => Left(0)'
      BY <1>1 DEF Left
    <3> QED
      BY <1>1, <2>2, <2>3, <2>7, <3>1, <3>2, <3>3 DEF Replies
  <2> QED
    BY <2>6, <2>8, <2>9 DEF AdbInv
<1>4. CASE driver.step = "return"
  <2>1. driver.phase = "receive"
    BY <1>4 DEF AdbInv, Shapes, AtRest, Sending
  <2>2. driver' = Resting(driver.sent)
    BY <1>4 DEF Direction, Step
  <2>3. /\ DOMAIN driver' = DriverFields /\ driver'.phase = "idle" /\ driver'.step = "none"
        /\ driver'.got = <<>> /\ driver'.sent = driver.sent
    BY <2>2 DEF Resting, DriverFields
  <2>4. IsSeq(<<>>)
    BY Tuples
  <2>5. Shapes'
    BY <1>1, <1>2, <2>3, <2>4 DEF AdbInv, Shapes
  <2>6. AtRest' /\ Sending' /\ Replying' /\ Replies' /\ CommandsWhole'
    BY <1>1, <1>2, <1>4, <2>1, <2>3 DEF AdbInv, AtRest, Sending, Replying, Replies, CommandsWhole
  <2> QED
    BY <2>5, <2>6 DEF AdbInv
<1> QED
  BY <1>1, <1>3, <1>4

\* One byte of a reply is handed out; after the last it comes again.
LEMMA NextByte ==
  ASSUME Shapes, NEW k \in Nat, Remains(adb.buf, adb.last, log.answer, k), log.answer # <<>>,
         NEW s \in {1, 2}, adb' = recieveAdb(s).adb
  PROVE  /\ Remains(adb'.buf, adb'.last, log.answer, k + 1)
         /\ recieveAdb(s).v = log.answer[Least(k + 1, Len(log.answer))]
<1> DEFINE a == log.answer
           q == adb.buf
           r == recieveAdb(s)
<1>1. r = IF q = <<>> THEN [v |-> adb.last, adb |-> adb]
          ELSE [v |-> Head(q), adb |-> [adb EXCEPT !.last = Head(q), !.buf = Tail(q)]]
  BY DEF recieveAdb
<1>2. IsSeq(a) /\ a # <<>> /\ DOMAIN adb = AdbFields
  BY DEF Shapes
<1>3. Len(a) \in Nat /\ Len(a) > 0
  BY <1>2, Shortened
<1>4. /\ IsSeq(q) /\ Len(q) = IF k <= Len(a) THEN Len(a) - k ELSE 0
      /\ \A i \in 1..Len(q) : q[i] = a[k + i]
      /\ k > 0 => adb.last = a[Least(k, Len(a))]
  BY DEF Remains
<1>5. adb' = r.adb
  OBVIOUS
<1> HIDE DEF r
<1>6. CASE q = <<>>
  <2>1. r.v = adb.last /\ r.adb = adb
    BY <1>1, <1>6
  <2>2. Len(q) = 0
    BY <1>6
  <2> HIDE DEF a, q
  <2>3. k >= Len(a) /\ k > 0
    BY <1>3, <1>4, <2>2
  <2>4. Least(k, Len(a)) = Len(a) /\ Least(k + 1, Len(a)) = Len(a)
    BY <1>3, <2>3 DEF Least
  <2>5. r.v = a[Least(k + 1, Len(a))]
    BY <1>4, <2>1, <2>3, <2>4
  <2>6. adb'.buf = q /\ adb'.last = adb.last
    BY <1>5, <2>1 DEF q
  <2>7. Len(q) = IF k + 1 <= Len(a) THEN Len(a) - (k + 1) ELSE 0
    BY <1>3, <2>2, <2>3
  <2>8. \A i \in 1..Len(q) : q[i] = a[k + 1 + i]
    BY <2>2
  <2>9. adb.last = a[Least(k + 1, Len(a))]
    BY <2>1, <2>5
  <2> QED
    BY <1>4, <2>5, <2>6, <2>7, <2>8, <2>9 DEF Remains, a, r
<1>7. CASE q # <<>>
  <2>1. r.v = Head(q) /\ r.adb = [adb EXCEPT !.last = Head(q), !.buf = Tail(q)]
    BY <1>1, <1>7
  <2>2. r.adb.last = Head(q) /\ r.adb.buf = Tail(q)
    BY <1>2, <2>1 DEF AdbFields
  <2> HIDE DEF a, q
  <2>3. /\ IsSeq(Tail(q)) /\ Len(q) \in Nat /\ Len(q) > 0 /\ Len(Tail(q)) = Len(q) - 1
        /\ Head(q) = q[1] /\ \A i \in 1..Len(q) - 1 : Tail(q)[i] = q[i + 1]
    BY <1>4, <1>7, Shortened
  <2>4. k < Len(a) /\ Len(q) = Len(a) - k
    BY <1>3, <1>4, <2>3
  <2>5. Least(k + 1, Len(a)) = k + 1
    BY <1>3, <2>4 DEF Least
  <2>6. Head(q) = a[k + 1]
    <3>1. 1 \in 1..Len(q)
      BY <2>3
    <3> QED
      BY <1>4, <2>3, <3>1
  <2>7. Len(Tail(q)) = IF k + 1 <= Len(a) THEN Len(a) - (k + 1) ELSE 0
    BY <1>3, <2>3, <2>4
  <2>8. \A i \in 1..Len(Tail(q)) : Tail(q)[i] = a[k + 1 + i]
    <3> TAKE i \in 1..Len(Tail(q))
    <3>1. i \in 1..Len(q) - 1 /\ i + 1 \in 1..Len(q) /\ k + (i + 1) = k + 1 + i
      BY <2>3
    <3>2. Tail(q)[i] = q[i + 1] /\ q[i + 1] = a[k + (i + 1)]
      BY <1>4, <2>3, <3>1
    <3> QED
      BY <3>1, <3>2
  <2>9. adb'.buf = Tail(q) /\ adb'.last = Head(q)
    BY <1>5, <2>2
  <2> QED
    BY <2>1, <2>3, <2>5, <2>6, <2>7, <2>8, <2>9 DEF Remains, a, r
<1> QED
  BY <1>6, <1>7

\* The state lines ask for the next byte of the reply.
LEMMA ReplyStateStep == ASSUME AdbInv, ReplyState PROVE AdbInv'
<1> DEFINE g == driver.got
           s == IF driver.left = 0 THEN 3 ELSE 1 + (Len(g) % 2)
           to == IF driver.left = 0 THEN "return" ELSE "wait"
<1>1. /\ driver.phase = "receive" /\ driver.step = "state" /\ change_state(s)
      /\ driver' = [driver EXCEPT !.step = to]
  BY DEF ReplyState, PortState, Step
<1>2. /\ Shapes /\ sr.dir = "in" /\ adb.adb_buf = <<>> /\ IsSeq(g)
      /\ sr.old_state = IF Len(g) = 0 THEN 3 ELSE 2 - (Len(g) % 2)
      /\ log.ran = driver.sent
  BY <1>1 DEF AdbInv, Shapes, Replying, CommandsWhole
<1>3. Len(g) \in Nat
  BY <1>2, Extended
<1>4. /\ DOMAIN driver' = DriverFields /\ driver'.phase = "receive" /\ driver'.step = to
      /\ driver'.got = g /\ driver'.sent = driver.sent
  BY <1>1, <1>2 DEF Shapes, DriverFields
<1>5. log.answer # <<>> => /\ \A i \in 1..Len(g) : g[i] = log.answer[Least(i, Len(log.answer))]
                           /\ Left(Len(g))
  BY <1>1 DEF AdbInv, Replies
<1> HIDE DEF g, s, to
<1>6. \/ sr.old_state = s /\ adb' = adb /\ log' = log /\ sr' = sr
      \/ /\ sr.old_state # s /\ adb' = recieveAdb(s).adb /\ log' = log
         /\ sr' = [sr EXCEPT !.v = recieveAdb(s).v, !.old_state = s]
  BY <1>1, <1>2, ReceiveStep DEF change_state, adbVars
<1>7. /\ DOMAIN sr' = SrFields /\ sr'.dir = "in" /\ sr'.old_state = s /\ log' = log
  BY <1>2, <1>6 DEF Shapes, SrFields
<1>8. DOMAIN adb' = AdbFields /\ adb'.adb_buf = adb.adb_buf
  <2>1. s \in 0..3
    BY <1>3 DEF s
  <2>2. DOMAIN recieveAdb(s).adb = AdbFields /\ recieveAdb(s).adb.adb_buf = adb.adb_buf
    <3>1. CASE s = 0
      BY <1>2, <3>1 DEF recieveAdb, Shapes, AdbFields
    <3>2. CASE s \in {1, 2}
      BY <1>2, <3>2 DEF recieveAdb, Shapes, AdbFields
    <3>3. CASE s = 3
      BY <1>2, <3>3 DEF recieveAdb, Shapes, AdbFields
    <3> QED
      BY <2>1, <3>1, <3>2, <3>3
  <2> QED
    BY <1>2, <1>6, <2>2 DEF Shapes
<1>9. Shapes'
  BY <1>2, <1>4, <1>7, <1>8 DEF Shapes, g
<1>10. AtRest' /\ Sending' /\ CommandsWhole'
  BY <1>2, <1>4, <1>7 DEF AtRest, Sending, CommandsWhole
<1>11. CASE driver.left = 0
  <2>1. s = 3 /\ to = "return"
    BY <1>11 DEF s, to
  <2>2. Replying'
    BY <1>2, <1>4, <1>7, <1>8, <2>1 DEF Replying
  <2>3. Replies'
    BY <1>4, <1>5, <1>7, <2>1 DEF Replies
  <2> QED
    BY <1>9, <1>10, <2>2, <2>3 DEF AdbInv
<1>12. CASE driver.left # 0
  <2>1. s = 1 + (Len(g) % 2) /\ to = "wait"
    BY <1>12 DEF s, to
  <2>2. s \in {1, 2} /\ sr.old_state # s
    BY <1>2, <1>3, <2>1
  <2>3. adb' = recieveAdb(s).adb /\ sr'.v = recieveAdb(s).v
    BY <1>2, <1>6, <2>2 DEF Shapes, SrFields
  <2>4. Replying'
    BY <1>2, <1>4, <1>7, <1>8, <2>1 DEF Replying
  <2>5. log.answer # <<>> =>
          /\ Remains(adb'.buf, adb'.last, log.answer, Len(g) + 1)
          /\ recieveAdb(s).v = log.answer[Least(Len(g) + 1, Len(log.answer))]
    BY <1>2, <1>3, <1>5, <1>7, <2>2, <2>3, NextByte DEF Left
  <2>6. log.answer # <<>> =>
          /\ \A i \in 1..Len(driver'.got) : driver'.got[i] = log'.answer[Least(i, Len(log'.answer))]
          /\ Left(Len(driver.got) + 1)'
          /\ sr'.v = log'.answer[Least(Len(driver'.got) + 1, Len(log'.answer))]
    BY <1>4, <1>5, <1>7, <2>3, <2>5 DEF Left
  <2>7. Replies'
    BY <1>4, <1>7, <2>1, <2>6 DEF Replies
  <2> QED
    BY <1>9, <1>10, <2>4, <2>7 DEF AdbInv
<1> QED
  BY <1>11, <1>12

\* The driver reads a byte of the reply.
LEMMA ReplyByteStep == ASSUME AdbInv, ReplyByte PROVE AdbInv'
<1> DEFINE g == driver.got
           h == Append(g, sr.v)
           a == log.answer
<1>1. /\ driver.phase = "receive" /\ driver.step = "byte" /\ adb' = adb /\ log' = log /\ sr' = sr
      /\ driver' = [driver EXCEPT !.step = "state", !.left = @ - 1, !.got = h]
  BY DEF ReplyByte, Step, NoAdb, adbVars
<1>2. /\ Shapes /\ sr.dir = "in" /\ adb.adb_buf = <<>> /\ IsSeq(g)
      /\ sr.old_state = 1 + (Len(g) % 2) /\ CommandsWhole
  BY <1>1 DEF AdbInv, Shapes, Replying
<1>3. /\ DOMAIN driver' = DriverFields /\ driver'.phase = "receive" /\ driver'.step = "state"
      /\ driver'.got = h /\ driver'.sent = driver.sent
  BY <1>1, <1>2 DEF Shapes, DriverFields
<1>4. a # <<>> => /\ \A i \in 1..Len(g) : g[i] = a[Least(i, Len(a))]
                  /\ Left(Len(g) + 1) /\ sr.v = a[Least(Len(g) + 1, Len(a))]
  BY <1>1 DEF AdbInv, Replies
<1>5. /\ IsSeq(h) /\ Len(g) \in Nat /\ Len(h) = Len(g) + 1 /\ h[Len(g) + 1] = sr.v
      /\ \A i \in 1..Len(g) : h[i] = g[i]
  BY <1>2, Extended
<1> HIDE DEF h, a, g
<1>6. Shapes'
  BY <1>1, <1>2, <1>3, <1>5 DEF Shapes
<1>7. AtRest' /\ Sending' /\ CommandsWhole'
  BY <1>1, <1>2, <1>3 DEF AtRest, Sending, CommandsWhole
<1>8. Replying'
  <2>1. Len(h) # 0 /\ 1 + (Len(g) % 2) = 2 - (Len(h) % 2)
    BY <1>5
  <2> QED
    BY <1>1, <1>2, <1>3, <2>1 DEF Replying
<1>9. a # <<>> => /\ \A i \in 1..Len(h) : h[i] = a[Least(i, Len(a))]
                  /\ Left(Len(h))
  <2> SUFFICES ASSUME a # <<>>
               PROVE  (\A i \in 1..Len(h) : h[i] = a[Least(i, Len(a))]) /\ Left(Len(h))
    OBVIOUS
  <2>1. Left(Len(h))
    BY <1>4, <1>5
  <2>2. ASSUME NEW i \in 1..Len(h) PROVE h[i] = a[Least(i, Len(a))]
    <3>1. i \in 1..Len(g) \/ i = Len(g) + 1
      BY <1>5
    <3> QED
      BY <1>4, <1>5, <3>1
  <2> QED
    BY <2>1, <2>2
<1>10. Replies'
  BY <1>1, <1>3, <1>9 DEF Replies, Left, a
<1> QED
  BY <1>6, <1>7, <1>8, <1>10 DEF AdbInv

\* Every step of every thread keeps the invariant.
LEMMA AdbInductive == ASSUME AdbInv, ViaAssumption, [Next]_vars PROVE AdbInv'
<1>1. CASE Load
  BY <1>1, Aside DEF Load, adbVars
<1>2. CASE AdbDriver
  BY <1>2, SendByteStep, SendStateStep, WaitStep, DirectionStep, ReplyStateStep, ReplyByteStep
  DEF AdbDriver
<1>3. CASE ClockDriver
  BY <1>3, Aside DEF ClockDriver, adbVars
<1>4. ASSUME NEW t \in Transfers, Begin(t) PROVE AdbInv'
  BY <1>4, BeginStep
<1>5. ASSUME NEW t \in Timer, LoadTimer(t) \/ ReadTimer(t) \/ Expire(t) PROVE AdbInv'
  BY <1>5, Aside DEF LoadTimer, ReadTimer, Expire, NoTimer, adbVars
<1>6. ASSUME NEW r \in BOOLEAN, Repeat(r) PROVE AdbInv'
  BY <1>6, Aside DEF Repeat, NoTimer, adbVars
<1>7. CASE Tick \/ Callback
  BY <1>7, Aside DEF Tick, Callback, adbVars
<1>8. ASSUME NEW down \in BOOLEAN, NEW sc \in Typed, Key(down, sc) PROVE AdbInv'
  BY <1>8, Aside DEF Key, PressKey, ReleaseKey
<1>9. CASE KeyIrq
  BY <1>9, Aside DEF KeyIrq, adbVars
<1>10. CASE UNCHANGED vars
  BY <1>10, Aside DEF vars, viaVars, adbVars
<1> QED
  BY <1>1, <1>2, <1>3, <1>4, <1>5, <1>6, <1>7, <1>8, <1>9, <1>10 DEF Next

\* The invariant holds at the start.
LEMMA AdbStart == Init => AdbInv
<1> SUFFICES ASSUME Init PROVE AdbInv
  OBVIOUS
<1>1. IsSeq(<<>>) /\ <<>> \in Seq(2..255)
  BY Tuples
<1>2. /\ driver = Resting(<<>>) /\ adb = [buf |-> <<>>, last |-> 0, adb_buf |-> <<>>]
      /\ log = [ran |-> <<>>, answer |-> <<>>, taken |-> <<>>, overlap |-> FALSE]
      /\ sr = [v |-> 0, dir |-> "out", rep |-> FALSE, old_state |-> 3]
  BY DEF Init, AdbInit
<1>3. /\ DOMAIN driver = DriverFields /\ driver.phase = "idle" /\ driver.step = "none"
      /\ driver.got = <<>> /\ driver.sent = <<>>
  BY <1>2 DEF Resting, DriverFields
<1>4. /\ DOMAIN adb = AdbFields /\ DOMAIN sr = SrFields /\ adb.adb_buf = <<>>
      /\ sr.dir = "out" /\ sr.old_state = 3 /\ log.ran = <<>> /\ log.answer = <<>>
  BY <1>2 DEF AdbFields, SrFields
<1> QED
  BY <1>1, <1>3, <1>4 DEF AdbInv, Shapes, AtRest, Sending, Replying, Replies, CommandsWhole

\* Every command that the transceiver carries out is one the guest sent, whole,
\* once and in order, whatever the timers, the keys and the clock do meanwhile
\* (transmitAdb, adb_run).
THEOREM CommandsAlwaysWhole == Spec => []CommandsWhole
<1>1. AdbInv => CommandsWhole
  BY DEF AdbInv
<1> QED
  BY <1>1, AdbStart, AdbInductive, ViaAssumption, PTL DEF Spec

\* The bytes that the guest reads are those of the answer, in order, the last
\* again and again when it asks for more (recieveAdb).
THEOREM AnswersAlwaysInOrder == Spec => []AnswersInOrder
<1>1. ASSUME AdbInv PROVE AnswersInOrder
  <2> SUFFICES ASSUME driver.phase = "receive", log.answer # <<>>, NEW i \in DOMAIN driver.got
               PROVE  driver.got[i] = log.answer[Min({i, Len(log.answer)})]
    BY DEF AnswersInOrder
  <2>1. IsSeq(driver.got) /\ IsSeq(log.answer)
    BY <1>1 DEF AdbInv, Shapes
  <2>2. Len(log.answer) \in Int
    BY <2>1, Extended
  <2>3. i \in 1..Len(driver.got) /\ i \in Int
    <3>1. PICK S : driver.got \in Seq(S)
      BY <2>1 DEF IsSeq
    <3> QED
      BY <3>1
  <2>4. Min({i, Len(log.answer)}) = Least(i, Len(log.answer))
    BY <2>2, <2>3, MinOfTwo DEF Least
  <2> QED
    BY <1>1, <2>3, <2>4 DEF AdbInv, Replies
<1> QED
  BY <1>1, AdbStart, AdbInductive, ViaAssumption, PTL DEF Spec

(***************************************************************************)
(* The list of keys.                                                       *)
(***************************************************************************)

Codes == {mac_keys[sc] : sc \in DOMAIN mac_keys}
Item == [code : Codes, press : Nat]

\* The presses of a list of keys, and that they come in the order typed.
Presses(list) == {list[i].press : i \in 1..Len(list)}
Rising(list) == \A i, j \in 1..Len(list) : i < j => list[i].press < list[j].press

\* The same of the presses that Talks have taken.
Items(s) == {s[i] : i \in 1..Len(s)}
Climbs(s) == \A i, j \in 1..Len(s) : i < j => s[i] < s[j]

\* Every press is in one of three places: the list, what was taken, what is gone.
Placed(list, taken, gone, presses) ==
  /\ list \in Seq(Item) /\ taken \in Seq(Nat) /\ presses \in Nat
  /\ Rising(list) /\ Climbs(taken)
  /\ \A i \in 1..Len(taken), j \in 1..Len(list) : taken[i] < list[j].press
  /\ Presses(list) \cap gone = {} /\ Items(taken) \cap gone = {}
  /\ Presses(list) \cup Items(taken) \cup gone = 1..presses

\* A list of keys and the presses of its items.
LEMMA Keyed ==
  ASSUME NEW list \in Seq(Item)
  PROVE  /\ Len(list) \in Nat
         /\ \A i \in 1..Len(list) : list[i] \in Item /\ list[i].press \in Nat
<1>1. Len(list) \in Nat /\ \A i \in 1..Len(list) : list[i] \in Item
  OBVIOUS
<1>2. \A x \in Item : x.press \in Nat
  BY DEF Item
<1> QED
  BY <1>1, <1>2

\* A function on the first m numbers is a sequence of m items.
LEMMA Numbered ==
  ASSUME NEW m \in Nat, NEW S, NEW q \in [1..m -> S]
  PROVE  q \in Seq(S) /\ Len(q) = m
  OBVIOUS

\* Two lists one behind the other.
LEMMA Joined ==
  ASSUME NEW S, NEW a \in Seq(S), NEW b \in Seq(S)
  PROVE  /\ Len(a) \in Nat /\ Len(b) \in Nat
         /\ a \o b \in Seq(S) /\ Len(a \o b) = Len(a) + Len(b)
         /\ \A i \in 1..Len(a) : (a \o b)[i] = a[i]
         /\ \A i \in 1..Len(b) : (a \o b)[Len(a) + i] = b[i]
  OBVIOUS

\* A list without its i-th item.
LEMMA Removed ==
  ASSUME NEW S, NEW s \in Seq(S), NEW i \in 1..Len(s)
  PROVE  /\ RemoveAt(s, i) \in Seq(S) /\ Len(RemoveAt(s, i)) = Len(s) - 1
         /\ \A j \in 1..(Len(s) - 1) : RemoveAt(s, i)[j] = IF j < i THEN s[j] ELSE s[j + 1]
<1> DEFINE a == SubSeq(s, 1, i - 1)
           b == SubSeq(s, i + 1, Len(s))
<1>1. /\ a \in Seq(S) /\ Len(a) = i - 1 /\ \A j \in 1..(i - 1) : a[j] = s[j]
  OBVIOUS
<1>2. /\ b \in Seq(S) /\ Len(b) = Len(s) - i /\ \A j \in 1..(Len(s) - i) : b[j] = s[i + j]
  OBVIOUS
<1>3. RemoveAt(s, i) = a \o b
  BY DEF RemoveAt
<1> HIDE DEF a, b
<1>4. a \o b \in Seq(S) /\ Len(a \o b) = Len(s) - 1
  <2>1. a \o b \in Seq(S) /\ Len(a \o b) = Len(a) + Len(b)
    BY <1>1, <1>2, Joined
  <2> QED
    BY <1>1, <1>2, <2>1
<1>5. ASSUME NEW j \in 1..(Len(s) - 1) PROVE (a \o b)[j] = IF j < i THEN s[j] ELSE s[j + 1]
  <2>1. CASE j < i
    BY <1>1, <1>2, <2>1
  <2>2. CASE ~(j < i)
    <3>1. (a \o b)[j] = b[j - (i - 1)]
      BY <1>1, <1>2, <2>2
    <3>2. j - (i - 1) \in 1..(Len(s) - i) /\ i + (j - (i - 1)) = j + 1
      BY <2>2
    <3> QED
      BY <1>2, <2>2, <3>1, <3>2
  <2> QED
    BY <2>1, <2>2
<1> QED
  BY <1>3, <1>4, <1>5

\* A rising sequence has as many items as it is long.
LEMMA AsMany ==
  ASSUME NEW n \in Nat, NEW f \in [1..n -> Nat], \A i, j \in 1..n : i < j => f[i] < f[j]
  PROVE  LET R == {f[i] : i \in 1..n} IN IsFiniteSet(R) /\ Cardinality(R) = n
<1> DEFINE R == {f[i] : i \in 1..n}
<1>1. f \in Bijection(1..n, R)
  <2>1. f \in [1..n -> R]
    OBVIOUS
  <2>2. \A i, j \in 1..n : f[i] = f[j] => i = j
    OBVIOUS
  <2>3. \A r \in R : \E i \in 1..n : f[i] = r
    OBVIOUS
  <2> QED
    BY <2>1, <2>2, <2>3 DEF Bijection, Injection, Surjection, IsInjective
<1>2. IsFiniteSet(1..n) /\ Cardinality(1..n) = n
  BY FS_Interval
<1> HIDE DEF R
<1>3. ExistsBijection(1..n, R)
  BY <1>1, Zenon DEF ExistsBijection
<1> QED
  BY <1>2, <1>3, FS_Bijection, Zenon DEF R

\* So that the three places together have as many as were typed.
LEMMA Counted ==
  ASSUME NEW list, NEW taken, NEW gone, NEW presses, Placed(list, taken, gone, presses)
  PROVE  Len(list) + Len(taken) + Cardinality(gone) = presses
<1> DEFINE L == Presses(list)
           T == Items(taken)
<1>1. IsFiniteSet(L) /\ Cardinality(L) = Len(list) /\ Len(list) \in Nat
  <2> DEFINE f == [i \in 1..Len(list) |-> list[i].press]
  <2>1. Len(list) \in Nat /\ f \in [1..Len(list) -> Nat]
    BY Keyed DEF Placed
  <2>2. \A i, j \in 1..Len(list) : i < j => f[i] < f[j]
    BY DEF Placed, Rising
  <2>3. {f[i] : i \in 1..Len(list)} = L
    BY DEF Presses
  <2> HIDE DEF f, L
  <2> QED
    BY <2>1, <2>2, <2>3, AsMany
<1>2. IsFiniteSet(T) /\ Cardinality(T) = Len(taken) /\ Len(taken) \in Nat
  <2> DEFINE f == [i \in 1..Len(taken) |-> taken[i]]
  <2>1. Len(taken) \in Nat /\ f \in [1..Len(taken) -> Nat]
    BY DEF Placed
  <2>2. \A i, j \in 1..Len(taken) : i < j => f[i] < f[j]
    BY DEF Placed, Climbs
  <2>3. {f[i] : i \in 1..Len(taken)} = T
    BY DEF Items
  <2> HIDE DEF f, T
  <2> QED
    BY <2>1, <2>2, <2>3, AsMany
<1>3. L \cap T = {}
  <2>1. \A i \in 1..Len(list), j \in 1..Len(taken) : list[i].press # taken[j]
    BY Keyed DEF Placed
  <2> QED
    BY <2>1, Zenon DEF Presses, Items
<1>4. L \cap gone = {} /\ T \cap gone = {} /\ L \cup T \cup gone = 1..presses /\ presses \in Nat
  BY DEF Placed
<1>5. IsFiniteSet(1..presses) /\ Cardinality(1..presses) = presses
  BY <1>4, FS_Interval
<1> HIDE DEF L, T
<1>6. IsFiniteSet(gone)
  BY <1>4, <1>5, FS_Subset
<1>a. Cardinality({}) = 0
  BY FS_EmptySet
<1>7. IsFiniteSet(L \cup T) /\ Cardinality(L \cup T) = Cardinality(L) + Cardinality(T)
  <2>1. /\ IsFiniteSet(L \cup T)
        /\ Cardinality(L \cup T) = Cardinality(L) + Cardinality(T) - Cardinality(L \cap T)
    BY <1>1, <1>2, FS_Union
  <2>2. Cardinality(L \cap T) = 0
    BY <1>3, <1>a, Zenon
  <2> QED
    BY <1>1, <1>2, <2>1, <2>2
<1>8. Cardinality((L \cup T) \cup gone) = Cardinality(L \cup T) + Cardinality(gone)
  <2>1. Cardinality((L \cup T) \cup gone)
          = Cardinality(L \cup T) + Cardinality(gone) - Cardinality((L \cup T) \cap gone)
    BY <1>6, <1>7, FS_Union
  <2>2. Cardinality((L \cup T) \cap gone) = 0
    <3>1. (L \cup T) \cap gone = {}
      BY <1>4
    <3> QED
      BY <3>1, <1>a, Zenon
  <2>3. Cardinality(L \cup T) \in Nat /\ Cardinality(gone) \in Nat
    BY <1>6, <1>7, FS_CardinalityType
  <2> QED
    BY <2>1, <2>2, <2>3
<1>9. (L \cup T) \cup gone = 1..presses
  BY <1>4
<1>10. Cardinality(gone) \in Nat
  BY <1>6, FS_CardinalityType
<1> QED
  BY <1>1, <1>2, <1>5, <1>7, <1>8, <1>9, <1>10

\* A key is typed (keydown).
LEMMA PressPlaced ==
  ASSUME NEW list, NEW taken, NEW gone, NEW presses, Placed(list, taken, gone, presses),
         NEW c \in Codes
  PROVE  Placed(Append(list, [code |-> c, press |-> presses + 1]), taken, gone, presses + 1)
<1> DEFINE k == [code |-> c, press |-> presses + 1]
           new == Append(list, k)
           n == Len(list)
<1>1. k \in Item /\ k.press = presses + 1 /\ presses \in Nat /\ list \in Seq(Item)
  BY DEF Item, Placed
<1> HIDE DEF k
<1>2. /\ new \in Seq(Item) /\ n \in Nat /\ Len(new) = n + 1 /\ new[n + 1] = k
      /\ \A i \in 1..n : new[i] = list[i] /\ list[i].press \in Nat
  BY <1>1, Keyed
<1> HIDE DEF new, n
<1>3. Presses(new) = Presses(list) \cup {presses + 1}
  <2>1. 1..(n + 1) = 1..n \cup {n + 1}
    BY <1>2
  <2> QED
    BY <1>1, <1>2, <2>1 DEF Presses, n
<1>4. \A i \in 1..n : list[i].press \in 1..presses
  BY DEF Placed, Presses, n
<1>5. \A i \in 1..Len(taken) : taken[i] \in 1..presses
  BY DEF Placed, Items
<1>6. Rising(new)
  <2>1. \A i, j \in 1..n : i < j => list[i].press < list[j].press
    BY DEF Placed, Rising, n
  <2> SUFFICES ASSUME NEW i \in 1..Len(new), NEW j \in 1..Len(new), i < j
               PROVE  new[i].press < new[j].press
    BY DEF Rising
  <2>2. i \in 1..n
    BY <1>2
  <2>3. CASE j = n + 1
    BY <1>1, <1>2, <1>4, <2>2, <2>3
  <2>4. CASE j # n + 1
    BY <1>2, <2>1, <2>2, <2>4
  <2> QED
    BY <2>3, <2>4
<1>7. \A i \in 1..Len(taken), j \in 1..Len(new) : taken[i] < new[j].press
  BY <1>1, <1>2, <1>5 DEF Placed, n
<1>8. 1..(presses + 1) = 1..presses \cup {presses + 1} /\ presses + 1 \notin 1..presses
  BY <1>1
<1>9. gone \subseteq 1..presses
  BY DEF Placed
<1>10. /\ Presses(new) \cap gone = {}
       /\ Presses(new) \cup Items(taken) \cup gone = 1..(presses + 1)
  BY <1>3, <1>8, <1>9, Zenon DEF Placed
<1> QED
  BY <1>1, <1>2, <1>6, <1>7, <1>10 DEF Placed, k, new

\* A key is released before it was read (keyup).
LEMMA ReleasePlaced ==
  ASSUME NEW list, NEW taken, NEW gone, NEW presses, Placed(list, taken, gone, presses),
         NEW i \in 1..Len(list)
  PROVE  Placed(RemoveAt(list, i), taken, gone \cup {list[i].press}, presses)
<1> DEFINE new == RemoveAt(list, i)
           n == Len(list)
           p == list[i].press
<1>1. list \in Seq(Item) /\ n \in Nat /\ \A j \in 1..n : list[j].press \in Nat
  BY Keyed DEF Placed
<1>2. /\ new \in Seq(Item) /\ Len(new) = n - 1
      /\ \A j \in 1..(n - 1) : new[j] = IF j < i THEN list[j] ELSE list[j + 1]
  BY <1>1, Removed
<1> HIDE DEF new
<1>3. \A j \in 1..n : list[j].press = p => j = i
  BY <1>1 DEF Placed, Rising
<1>4. Presses(new) = Presses(list) \ {p}
  <2>1. ASSUME NEW j \in 1..(n - 1) PROVE new[j].press \in Presses(list) \ {p}
    <3>1. PICK m \in 1..n : m # i /\ new[j] = list[m]
      <4>1. CASE j < i
        BY <1>1, <1>2, <4>1
      <4>2. CASE ~(j < i)
        BY <1>1, <1>2, <4>2
      <4> QED
        BY <4>1, <4>2
    <3> QED
      BY <1>3, <3>1 DEF Presses
  <2>2. ASSUME NEW m \in 1..n, list[m].press # p PROVE list[m].press \in Presses(new)
    <3>1. PICK j \in 1..(n - 1) : new[j] = list[m]
      <4>1. CASE m < i
        BY <1>1, <1>2, <4>1
      <4>2. CASE m > i
        <5>1. m - 1 \in 1..(n - 1) /\ ~(m - 1 < i) /\ (m - 1) + 1 = m
          BY <1>1, <4>2
        <5> QED
          BY <1>2, <5>1
      <4>3. m # i
        BY <2>2
      <4> QED
        BY <4>1, <4>2, <4>3
    <3> QED
      BY <1>2, <3>1 DEF Presses
  <2> QED
    BY <1>2, <2>1, <2>2 DEF Presses
<1>a. /\ \A l, j \in 1..n : l < j => list[l].press < list[j].press
      /\ \A k \in 1..Len(taken), j \in 1..n : taken[k] < list[j].press
  BY DEF Placed, Rising
<1>b. \A j \in 1..Len(new) : (IF j < i THEN j ELSE j + 1) \in 1..n
  BY <1>1, <1>2
<1>5. Rising(new)
  <2> SUFFICES ASSUME NEW l \in 1..Len(new), NEW j \in 1..Len(new), l < j
               PROVE  new[l].press < new[j].press
    BY DEF Rising
  <2> DEFINE at(x) == IF x < i THEN x ELSE x + 1
  <2>1. at(l) < at(j) /\ at(l) \in 1..n /\ at(j) \in 1..n
    BY <1>1, <1>2
  <2>2. new[l] = list[at(l)] /\ new[j] = list[at(j)]
    BY <1>1, <1>2
  <2> HIDE DEF at
  <2> QED
    BY <1>a, <2>1, <2>2
<1>6. \A k \in 1..Len(taken), j \in 1..Len(new) : taken[k] < new[j].press
  BY <1>1, <1>2, <1>a, <1>b
<1>7. p \in Presses(list) /\ p \notin Items(taken)
  <2>1. p \in Presses(list)
    BY DEF Presses
  <2>2. \A k \in 1..Len(taken) : taken[k] # p
    BY <1>1 DEF Placed
  <2> QED
    BY <2>1, <2>2, Zenon DEF Items
<1> HIDE DEF p
<1>8. /\ Presses(new) \cap (gone \cup {p}) = {} /\ Items(taken) \cap (gone \cup {p}) = {}
      /\ Presses(new) \cup Items(taken) \cup (gone \cup {p}) = 1..presses
  BY <1>4, <1>7 DEF Placed
<1> QED
  BY <1>2, <1>5, <1>6, <1>8 DEF Placed, new, p

\* The list is flushed.
LEMMA FlushPlaced ==
  ASSUME NEW list, NEW taken, NEW gone, NEW presses, Placed(list, taken, gone, presses)
  PROVE  Placed(<<>>, taken, gone \cup Presses(list), presses)
<1>1. Presses(list) \cap Items(taken) = {}
  <2>1. \A i \in 1..Len(list), j \in 1..Len(taken) : list[i].press # taken[j]
    BY Keyed DEF Placed
  <2> QED
    BY <2>1, Zenon DEF Presses, Items
<1>2. <<>> \in Seq(Item) /\ Len(<<>>) = 0 /\ 1..0 = {}
  OBVIOUS
<1>3. Presses(<<>>) = {} /\ Rising(<<>>)
  BY <1>2 DEF Presses, Rising
<1>4. /\ {} \cup Items(taken) \cup (gone \cup Presses(list)) = 1..presses
      /\ Items(taken) \cap (gone \cup Presses(list)) = {}
  BY <1>1 DEF Placed
<1> QED
  BY <1>2, <1>3, <1>4 DEF Placed

\* A Talk takes the first m keys of the list.
LEMMA TalkPlaced ==
  ASSUME NEW list, NEW taken, NEW gone, NEW presses, Placed(list, taken, gone, presses),
         NEW m \in 0..Len(list), NEW new \in Seq(Item), Len(new) = Len(list) - m,
         \A j \in 1..(Len(list) - m) : new[j] = list[j + m]
  PROVE  Placed(new, taken \o [i \in 1..m |-> list[i].press], gone, presses)
<1> DEFINE n == Len(list)
           t == Len(taken)
           q == [i \in 1..m |-> list[i].press]
           all == taken \o q
<1>1. /\ list \in Seq(Item) /\ n \in Nat /\ t \in Nat /\ taken \in Seq(Nat)
      /\ \A j \in 1..n : list[j].press \in Nat
  BY Keyed DEF Placed
<1>a. /\ \A l, j \in 1..n : l < j => list[l].press < list[j].press
      /\ \A l, j \in 1..t : l < j => taken[l] < taken[j]
      /\ \A k \in 1..t, j \in 1..n : taken[k] < list[j].press
  BY DEF Placed, Rising, Climbs
<1>b. m \in Nat /\ m <= n /\ 1..m \subseteq 1..n
  BY <1>1
<1>2. q \in Seq(Nat) /\ Len(q) = m /\ \A i \in 1..m : q[i] = list[i].press
  <2>1. q \in [1..m -> Nat] /\ \A i \in 1..m : q[i] = list[i].press
    BY <1>1, <1>b
  <2> HIDE DEF q
  <2> QED
    BY <1>b, <2>1, Numbered
<1> HIDE DEF q
<1>3. /\ all \in Seq(Nat) /\ Len(all) = t + m
      /\ \A i \in 1..t : all[i] = taken[i]
      /\ \A i \in 1..m : all[t + i] = list[i].press
  <2>1. /\ taken \o q \in Seq(Nat) /\ Len(taken \o q) = Len(taken) + Len(q)
        /\ \A i \in 1..Len(taken) : (taken \o q)[i] = taken[i]
        /\ \A i \in 1..Len(q) : (taken \o q)[Len(taken) + i] = q[i]
    <3>1. taken \in Seq(Nat) /\ q \in Seq(Nat)
      BY <1>1, <1>2
    <3> HIDE DEF t, n
    <3> QED
      BY <3>1
  <2> QED
    BY <1>2, <2>1
<1> HIDE DEF all, t, n
<1>4. \A i \in 1..Len(all) : i \in 1..t \/ \E k \in 1..m : i = t + k
  <2> TAKE i \in 1..Len(all)
  <2>1. CASE i <= t
    BY <1>1, <1>3, <2>1
  <2>2. CASE i > t
    <3>1. i - t \in 1..m /\ i = t + (i - t)
      BY <1>1, <1>3, <2>2
    <3> QED
      BY <3>1
  <2> QED
    BY <1>1, <1>3, <2>1, <2>2
<1>5. Rising(new)
  <2> SUFFICES ASSUME NEW l \in 1..Len(new), NEW j \in 1..Len(new), l < j
               PROVE  new[l].press < new[j].press
    BY DEF Rising
  <2>1. new[l] = list[l + m] /\ new[j] = list[j + m] /\ l + m \in 1..n /\ j + m \in 1..n
    BY <1>1, <1>b DEF n
  <2>2. l + m < j + m
    BY <1>b
  <2> QED
    BY <1>a, <2>1, <2>2
<1>6. Climbs(all)
  <2> SUFFICES ASSUME NEW i \in 1..Len(all), NEW j \in 1..Len(all), i < j PROVE all[i] < all[j]
    BY DEF Climbs
  <2>1. CASE i \in 1..t /\ j \in 1..t
    BY <1>3, <1>a, <2>1
  <2>2. CASE i \in 1..t /\ \E k \in 1..m : j = t + k
    BY <1>1, <1>3, <1>a, <1>b, <2>2
  <2>3. CASE (\E k \in 1..m : i = t + k) /\ \E k \in 1..m : j = t + k
    <3>1. PICK k \in 1..m, l \in 1..m : i = t + k /\ j = t + l
      BY <2>3
    <3>2. k < l /\ k \in 1..n /\ l \in 1..n
      BY <1>1, <1>b, <3>1
    <3> QED
      BY <1>3, <1>a, <3>1, <3>2
  <2>4. ~((\E k \in 1..m : i = t + k) /\ j \in 1..t)
    BY <1>1
  <2> QED
    BY <1>4, <2>1, <2>2, <2>3, <2>4
<1>7. \A i \in 1..Len(all), j \in 1..Len(new) : all[i] < new[j].press
  <2> SUFFICES ASSUME NEW i \in 1..Len(all), NEW j \in 1..Len(new) PROVE all[i] < new[j].press
    OBVIOUS
  <2>1. new[j] = list[j + m] /\ j + m \in 1..n
    BY <1>1, <1>b DEF n
  <2>2. CASE i \in 1..t
    BY <1>3, <1>a, <2>1, <2>2
  <2>3. ASSUME NEW k \in 1..m, i = t + k PROVE all[i] < new[j].press
    <3>1. k < j + m /\ k \in 1..n
      BY <1>1, <1>b, <2>1
    <3> QED
      BY <1>3, <1>a, <2>1, <2>3, <3>1
  <2> QED
    BY <1>4, <2>2, <2>3
<1>8. Presses(new) \subseteq Presses(list) /\ Items(all) \subseteq Items(taken) \cup Presses(list)
  <2>1. \A j \in 1..Len(new) : \E k \in 1..n : new[j].press = list[k].press
    <3> TAKE j \in 1..Len(new)
    <3>1. new[j] = list[j + m] /\ j + m \in 1..n
      BY <1>1, <1>b DEF n
    <3> QED
      BY <3>1
  <2>2. \A i \in 1..Len(all) :
          (\E k \in 1..t : all[i] = taken[k]) \/ (\E k \in 1..n : all[i] = list[k].press)
    <3> TAKE i \in 1..Len(all)
    <3> QED
      BY <1>3, <1>4, <1>b
  <2>3. Presses(new) \subseteq Presses(list)
    <3> SUFFICES ASSUME NEW j \in 1..Len(new) PROVE new[j].press \in Presses(list)
      BY DEF Presses
    <3> QED
      BY <2>1 DEF Presses, n
  <2>4. Items(all) \subseteq Items(taken) \cup Presses(list)
    <3> SUFFICES ASSUME NEW i \in 1..Len(all) PROVE all[i] \in Items(taken) \cup Presses(list)
      BY DEF Items
    <3> QED
      BY <2>2 DEF Items, Presses, t, n
  <2> QED
    BY <2>3, <2>4
<1>9. Presses(list) \cup Items(taken) \subseteq Presses(new) \cup Items(all)
  <2>1. ASSUME NEW k \in 1..n PROVE list[k].press \in Presses(new) \cup Items(all)
    <3>1. CASE k <= m
      <4>1. k \in 1..m /\ t + k \in 1..Len(all)
        BY <1>1, <1>3, <1>b, <3>1
      <4> QED
        BY <1>3, <4>1 DEF Items
    <3>2. CASE k > m
      <4>1. k - m \in 1..(Len(list) - m) /\ (k - m) + m = k /\ k - m \in 1..Len(new)
        BY <1>1, <1>b, <3>2 DEF n
      <4>2. new[k - m] = list[k]
        BY <4>1
      <4> QED
        BY <4>1, <4>2 DEF Presses
    <3> QED
      BY <1>1, <1>b, <3>1, <3>2
  <2>2. ASSUME NEW k \in 1..t PROVE taken[k] \in Items(all)
    <3>1. k \in 1..Len(all)
      BY <1>1, <1>3, <1>b
    <3> QED
      BY <1>3, <3>1 DEF Items
  <2> QED
    BY <2>1, <2>2 DEF Presses, Items, t, n
<1>10. /\ Presses(new) \cap gone = {} /\ Items(all) \cap gone = {}
       /\ Presses(new) \cup Items(all) \cup gone = 1..presses
  BY <1>8, <1>9 DEF Placed
<1> QED
  BY <1>3, <1>5, <1>6, <1>7, <1>10 DEF Placed, all, q, n, t

\* A set of numbers has a least one.
LEMMA LeastIn == ASSUME NEW T \in SUBSET Nat, T # {} PROVE Min(T) \in T /\ \A y \in T : Min(T) <= y
<1> DEFINE R == OpToRel(<, Nat)
<1>1. IsWellFoundedOn(R, Nat)
  BY NatLessThanWellFounded
<1>2. \A x, y \in Nat : <<y, x>> \notin R => x <= y
  BY DEF OpToRel
<1> HIDE DEF R
<1>3. \E x \in T : \A y \in T : ~(<<y, x>> \in R)
  BY <1>1, WFMin, Zenon
<1>4. \E x \in T : \A y \in T : x <= y
  BY <1>2, <1>3
<1> QED
  BY <1>4, Zenon DEF Min

\* Erasing a key leaves a list of keys.
LEMMA ErasedList ==
  ASSUME NEW list \in Seq(Item), NEW key
  PROVE  Erased(list, key) \in Seq(Item)
<1> DEFINE at == {i \in DOMAIN list : list[i].press = key.press}
<1>1. CASE at = {}
  BY <1>1 DEF Erased
<1>2. CASE at # {}
  <2>1. at \in SUBSET Nat /\ at \subseteq 1..Len(list)
    OBVIOUS
  <2>2. Erased(list, key) = RemoveAt(list, Min(at))
    BY <1>2, Zenon DEF Erased
  <2> HIDE DEF at
  <2>3. Min(at) \in 1..Len(list)
    BY <1>2, <2>1, LeastIn
  <2> QED
    BY <2>2, <2>3, Removed
<1> QED
  BY <1>1, <1>2

\* Erasing the first key leaves the others, in their order.
LEMMA ErasedFirst ==
  ASSUME NEW list \in Seq(Item), Rising(list), Len(list) > 0
  PROVE  LET new == Erased(list, list[1]) IN
         /\ new \in Seq(Item) /\ Len(new) = Len(list) - 1 /\ Rising(new)
         /\ \A j \in 1..(Len(list) - 1) : new[j] = list[j + 1]
<1> DEFINE at == {i \in DOMAIN list : list[i].press = list[1].press}
           new == RemoveAt(list, 1)
<1>1. Len(list) \in Nat /\ DOMAIN list = 1..Len(list) /\ \A i \in 1..Len(list) : list[i].press \in Nat
  BY Keyed
<1>2. at = {1}
  <2>1. \A i \in 1..Len(list) : i # 1 => list[1].press < list[i].press
    BY <1>1 DEF Rising
  <2>2. \A i \in 1..Len(list) : list[i].press = list[1].press <=> i = 1
    BY <1>1, <2>1
  <2> QED
    BY <1>1, <2>2
<1>3. Erased(list, list[1]) = new
  <2>1. Erased(list, list[1]) = RemoveAt(list, Min(at))
    BY <1>2, Zenon DEF Erased
  <2>2. Min(at) = 1
    <3>1. {1} \in SUBSET Nat /\ {1} # {}
      OBVIOUS
    <3>2. Min({1}) \in {1}
      BY <3>1, LeastIn
    <3> QED
      BY <1>2, <3>2
  <2> QED
    BY <2>1, <2>2
<1>4. /\ new \in Seq(Item) /\ Len(new) = Len(list) - 1
      /\ \A j \in 1..(Len(list) - 1) : new[j] = IF j < 1 THEN list[j] ELSE list[j + 1]
  <2>1. 1 \in 1..Len(list)
    BY <1>1
  <2> QED
    BY <2>1, Removed
<1> HIDE DEF new
<1>5. \A j \in 1..(Len(list) - 1) : new[j] = list[j + 1]
  BY <1>1, <1>4
<1>6. Rising(new)
  <2> SUFFICES ASSUME NEW i \in 1..Len(new), NEW j \in 1..Len(new), i < j
               PROVE  new[i].press < new[j].press
    BY DEF Rising
  <2>1. i + 1 \in 1..Len(list) /\ j + 1 \in 1..Len(list) /\ i + 1 < j + 1
    BY <1>1, <1>4
  <2> QED
    BY <1>4, <1>5, <2>1 DEF Rising
<1> QED
  BY <1>3, <1>4, <1>5, <1>6

\* What a Talk leaves is a list of keys, whatever it has seen (ADBKeyboard::talk).
LEMMA KeysAfterList ==
  ASSUME keys \in Seq(Item), NEW seen
  PROVE  KeysAfter(seen) \in Seq(Item)
<1>1. <<>> \in Seq(Item)
  OBVIOUS
<1>2. Erased(Erased(keys, seen[1]), seen[2]) \in Seq(Item)
  BY ErasedList
<1> QED
  BY <1>1, <1>2, Zenon DEF KeysAfter

\* A Talk that has seen the list as it is takes the first keys of it, two at most.
LEMMA KeysAfterFirst ==
  ASSUME keys \in Seq(Item), Rising(keys)
  PROVE  LET new == KeysAfter(keys)  m == Min({2, Len(keys)}) IN
         /\ m \in 0..Len(keys) /\ Len(new) = Len(keys) - m
         /\ \A j \in 1..(Len(keys) - m) : new[j] = keys[j + m]
<1> DEFINE new == KeysAfter(keys)
           m == Min({2, Len(keys)})
           Goal == /\ m \in 0..Len(keys) /\ Len(new) = Len(keys) - m
                   /\ \A j \in 1..(Len(keys) - m) : new[j] = keys[j + m]
<1> SUFFICES Goal
  OBVIOUS
<1>1. Len(keys) \in Nat /\ m = IF 2 <= Len(keys) THEN 2 ELSE Len(keys)
  BY MinOfTwo
<1>2. CASE keys = <<>>
  <2>1. new = keys /\ Len(keys) = 0 /\ m = 0
    BY <1>1, <1>2 DEF KeysAfter
  <2> HIDE DEF new, m
  <2> QED
    BY <2>1
<1>3. CASE Len(keys) = 1
  <2>1. new = <<>> /\ m = 1 /\ Len(<<>>) = 0
    BY <1>1, <1>3, EmptySeq DEF KeysAfter
  <2> HIDE DEF new, m
  <2> QED
    BY <1>3, <2>1
<1>4. CASE Len(keys) > 1
  <2> DEFINE one == Erased(keys, keys[1])
  <2>1. /\ one \in Seq(Item) /\ Len(one) = Len(keys) - 1 /\ Rising(one)
        /\ \A j \in 1..(Len(keys) - 1) : one[j] = keys[j + 1]
    BY <1>4, ErasedFirst
  <2>2. m = 2 /\ keys # <<>> /\ Len(keys) # 1
    <3> HIDE DEF m
    <3>1. Len(<<>>) = 0 /\ ~(0 > 1)
      OBVIOUS
    <3>2. keys # <<>>
      BY <1>4, <3>1, Zenon
    <3>3. \A n \in Nat : n > 1 => n # 1 /\ 2 <= n
      OBVIOUS
    <3>4. Len(keys) # 1 /\ 2 <= Len(keys)
      BY <1>1, <1>4, <3>3, Zenon
    <3> QED
      BY <1>1, <3>2, <3>4, Zenon
  <2>3. new = Erased(one, keys[2])
    BY <2>2, Zenon DEF KeysAfter
  <2> HIDE DEF new, m, one
  <2>4. Len(one) > 0 /\ one[1] = keys[2]
    <3>1. 1 \in 1..(Len(keys) - 1) /\ 1 + 1 = 2
      BY <1>1, <1>4
    <3> QED
      BY <1>1, <1>4, <2>1, <3>1
  <2>5. /\ Len(new) = Len(one) - 1
        /\ \A j \in 1..(Len(one) - 1) : new[j] = one[j + 1]
    BY <2>1, <2>3, <2>4, ErasedFirst
  <2>6. \A j \in 1..(Len(keys) - 2) : new[j] = keys[j + 2]
    <3> TAKE j \in 1..(Len(keys) - 2)
    <3>1. j \in 1..(Len(one) - 1) /\ j + 1 \in 1..(Len(keys) - 1) /\ (j + 1) + 1 = j + 2
      BY <1>1, <2>1
    <3> QED
      BY <2>1, <2>5, <3>1
  <2>7. Len(new) = Len(keys) - 2
    BY <1>1, <2>1, <2>5
  <2> QED
    BY <1>1, <1>4, <2>2, <2>6, <2>7
<1>5. Len(keys) = 0 => keys = <<>>
  BY EmptySeq
<1>6. \A n \in Nat : n = 0 \/ n = 1 \/ n > 1
  OBVIOUS
<1> HIDE DEF Goal
<1> QED
  BY <1>1, <1>2, <1>3, <1>4, <1>5, <1>6, Zenon

\* What an outcome of the transceiver does to the list that the access has seen:
\* nothing, a flush, or a Talk.
OnKeys(o, seen) ==
  /\ DOMAIN o = {"buf", "devs", "keys", "ram", "ran", "answer", "taken", "flushed"}
  /\ \/ o.keys = keys /\ o.taken = 0 /\ ~o.flushed
     \/ o.keys = <<>> /\ o.taken = 0 /\ o.flushed
     \/ o.keys = KeysAfter(seen) /\ o.taken = Min({2, Len(seen)}) /\ ~o.flushed

\* Nothing done leaves the list.
LEMMA SameKeys ==
  /\ DOMAIN Same = {"buf", "devs", "keys", "ram", "ran", "answer", "taken", "flushed"}
  /\ Same.keys = keys /\ Same.taken = 0 /\ ~Same.flushed
BY DEF Same

\* The commands of the parameter RAM and for a device (adb_run).
LEMMA DeviceKeys ==
  ASSUME NEW b, NEW seen, NEW here, NEW reg, NEW flushes, NEW d,
         NEW o, \/ o \in RamWrite(b) \/ o \in RamRead(b)
                \/ o \in Talked(here, reg, seen)
                \/ o = Stopped(here, flushes)
                \/ o \in Listens(b, d, reg)
  PROVE  OnKeys(o, seen)
<1>1. CASE o \in RamWrite(b)
  <2>1. PICK i \in At(b, 3), x \in At(b, 4) : o = [Same EXCEPT !.ram = <<i, x>>]
    BY <1>1 DEF RamWrite
  <2>2. DOMAIN o = DOMAIN Same /\ o.keys = Same.keys /\ o.taken = Same.taken /\ o.flushed = Same.flushed
    BY <2>1 DEF Same
  <2> QED
    BY <2>2, SameKeys DEF OnKeys
<1>2. CASE o \in RamRead(b)
  <2>1. PICK x : o = [Same EXCEPT !.buf = <<1, 0, 0, 7, x, 0>>, !.answer = <<1, 0, 0, 7, x, 0>>]
    BY <1>2 DEF RamRead
  <2>2. DOMAIN o = DOMAIN Same /\ o.keys = Same.keys /\ o.taken = Same.taken /\ o.flushed = Same.flushed
    BY <2>1 DEF Same
  <2> QED
    BY <2>2, SameKeys DEF OnKeys
<1>3. CASE o \in Talked(here, reg, seen)
  <2> DEFINE takes == Keyboard \in here /\ reg = 0
             k == IF takes THEN KeysAfter(seen) ELSE keys
             n == IF takes THEN Min({2, Len(seen)}) ELSE 0
  <2>1. PICK a \in Talk(Max(here), reg, seen) :
          o = [Same EXCEPT !.buf = a \o <<0, 1>>, !.answer = a \o <<0, 1>>, !.keys = k, !.taken = n]
    BY <1>3 DEF Talked
  <2>2. (k = keys /\ n = 0) \/ (k = KeysAfter(seen) /\ n = Min({2, Len(seen)}))
    OBVIOUS
  <2> DEFINE r == a \o <<0, 1>>
  <2> HIDE DEF takes, k, n, r
  <2>3. o = [Same EXCEPT !.buf = r, !.answer = r, !.keys = k, !.taken = n]
    BY <2>1 DEF r
  <2>4. DOMAIN o = DOMAIN Same /\ o.keys = k /\ o.taken = n /\ o.flushed = Same.flushed
    BY <2>3 DEF Same
  <2> QED
    BY <2>2, <2>4, SameKeys DEF OnKeys
<1>4. CASE o = Stopped(here, flushes)
  <2> DEFINE f == flushes /\ Keyboard \in here
             k == IF f THEN <<>> ELSE Same.keys
             q == Same.buf \o [i \in 1..Cardinality(here) |-> 1]
  <2>1. o = [Same EXCEPT !.buf = q, !.keys = k, !.flushed = f]
    BY <1>4 DEF Stopped, Same
  <2>2. (f /\ k = <<>>) \/ (~f /\ k = keys)
    BY SameKeys
  <2> HIDE DEF f, k, q
  <2>3. DOMAIN o = DOMAIN Same /\ o.keys = k /\ o.taken = Same.taken /\ o.flushed = f
    BY <2>1 DEF Same
  <2> QED
    BY <2>2, <2>3, SameKeys DEF OnKeys
<1>5. CASE o \in Listens(b, d, reg)
  <2>1. \E v0, v1, v2 : o = [Same EXCEPT !.devs[d] = Listened(d, reg, v0, v1, v2)]
    BY <1>5 DEF Listens
  <2>2. DOMAIN o = DOMAIN Same /\ o.keys = Same.keys /\ o.taken = Same.taken /\ o.flushed = Same.flushed
    BY <2>1 DEF Same
  <2> QED
    BY <2>2, SameKeys DEF OnKeys
<1> QED
  BY <1>1, <1>2, <1>3, <1>4, <1>5

\* Whatever the command, the list is left alone, flushed, or talked about
\* (adb_run, transmitAdb).
LEMMA RunKeys ==
  ASSUME NEW b, NEW seen, NEW o \in adb_run(b, seen)
  PROVE  OnKeys(o, seen)
<1> DEFINE here == Here(b[1] \div 16)
           cmd == (b[1] \div 4) % 4
           reg == b[1] % 4
           done_ == CASE cmd = 0 /\ reg = 0 -> {[Same EXCEPT !.devs = NewDevices]}
                      [] b[1] = 1 -> {[Same EXCEPT !.buf = <<1, 0>>]}
                      [] b[1] = 7 -> RamWrite(b)
                      [] b[1] = 12 -> RamRead(b)
                      [] OTHER ->
                           IF here = {} THEN {Same}
                           ELSE IF cmd = 2 THEN Listens(b, Min(here), reg)
                           ELSE IF cmd = 3 THEN Talked(here, reg, seen)
                           ELSE {Stopped(here, cmd = 0 /\ reg = 1)}
<1>1. PICK r \in done_ : o = [r EXCEPT !.ran = b]
  BY DEF adb_run
<1>2. OnKeys(r, seen)
  <2>1. \/ r = [Same EXCEPT !.devs = NewDevices]
        \/ r = [Same EXCEPT !.buf = <<1, 0>>]
        \/ r = Same
        \/ r \in RamWrite(b) \/ r \in RamRead(b)
        \/ r \in Listens(b, Min(here), reg) \/ r \in Talked(here, reg, seen)
        \/ r = Stopped(here, cmd = 0 /\ reg = 1)
    BY <1>1
  <2>2. CASE r = [Same EXCEPT !.devs = NewDevices]
    <3>1. /\ DOMAIN r = DOMAIN Same /\ r.keys = Same.keys /\ r.taken = Same.taken
          /\ r.flushed = Same.flushed
      BY <2>2 DEF Same
    <3> QED
      BY <3>1, SameKeys DEF OnKeys
  <2>3. CASE r = [Same EXCEPT !.buf = <<1, 0>>]
    <3>1. /\ DOMAIN r = DOMAIN Same /\ r.keys = Same.keys /\ r.taken = Same.taken
          /\ r.flushed = Same.flushed
      BY <2>3 DEF Same
    <3> QED
      BY <3>1, SameKeys DEF OnKeys
  <2>4. CASE r = Same
    BY <2>4, SameKeys DEF OnKeys
  <2> HIDE DEF here, cmd, reg, done_
  <2> QED
    BY <2>1, <2>2, <2>3, <2>4, DeviceKeys
<1> HIDE DEF done_
<1>3. /\ DOMAIN o = DOMAIN r /\ o.keys = r.keys /\ o.taken = r.taken /\ o.flushed = r.flushed
  BY <1>1, <1>2 DEF OnKeys
<1> QED
  BY <1>2, <1>3 DEF OnKeys

\* So it is for a byte that ends a command, or that ends none (transmitAdb).
LEMMA TransmitKeys ==
  ASSUME NEW s, NEW v, NEW seen, NEW t \in Transmitted(s, v, seen)
  PROVE  OnKeys(t.out, seen)
<1> DEFINE b == adb.adb_buf
           ends == b # <<>> /\ (s = 0 \/ v = 1)
           asks == v = 1 /\ (s = 0 \/ b = <<>>)
           left == IF s = 0 \/ v = 1 THEN <<>> ELSE b
<1>1. PICK o \in IF ends THEN adb_run(b, seen) ELSE {Same} :
        t = [out |-> IF asks THEN [o EXCEPT !.buf = <<1>>] ELSE o,
             adb_buf |-> IF v > 1 THEN Append(left, v) ELSE left]
  BY DEF Transmitted
<1> HIDE DEF asks, left, ends
<1>2. t.out = IF asks THEN [o EXCEPT !.buf = <<1>>] ELSE o
  BY <1>1
<1>3. OnKeys(o, seen)
  <2>1. CASE ends
    BY <1>1, <2>1, RunKeys
  <2>2. CASE ~ends
    BY <1>1, <2>2, SameKeys DEF OnKeys
  <2> QED
    BY <2>1, <2>2
<1>4. /\ DOMAIN t.out = DOMAIN o /\ t.out.keys = o.keys /\ t.out.taken = o.taken
      /\ t.out.flushed = o.flushed
  BY <1>2, <1>3 DEF OnKeys
<1> QED
  BY <1>3, <1>4 DEF OnKeys

\* The inductive invariant of the list of keys; what an access has seen of it is
\* a list of keys too.
KeysInv ==
  /\ keys \in Seq(Item) /\ DOMAIN typed = {"presses", "gone"} /\ typed.presses \in Nat
  /\ cpu # None => cpu.seen \in Seq(Item)
  /\ ~log.overlap => Placed(keys, log.taken, typed.gone, typed.presses)

\* An access leaves the list as an outcome of the transceiver says (transmitAdb).
LEMMA TransmitPlaced ==
  ASSUME KeysInv, NEW seen \in Seq(Item), NEW t, OnKeys(t.out, seen), transmitAdb(t, seen)
  PROVE  /\ keys' \in Seq(Item) /\ DOMAIN typed' = {"presses", "gone"} /\ typed'.presses \in Nat
         /\ ~log'.overlap => Placed(keys', log'.taken, typed'.gone, typed'.presses)
<1> DEFINE o == t.out
           q == [i \in 1..o.taken |-> seen[i].press]
           dropped == {keys[i].press : i \in DOMAIN keys}
<1>1. /\ keys' = o.keys
      /\ typed' = IF o.flushed THEN [typed EXCEPT !.gone = @ \cup dropped] ELSE typed
      /\ log'.taken = log.taken \o q
      /\ log'.overlap = (log.overlap \/ (o.taken > 0 /\ keys # seen))
  BY DEF transmitAdb
<1>2. /\ keys \in Seq(Item) /\ DOMAIN typed = {"presses", "gone"} /\ typed.presses \in Nat
      /\ ~log.overlap => Placed(keys, log.taken, typed.gone, typed.presses)
  BY DEF KeysInv
<1>3. /\ DOMAIN typed' = {"presses", "gone"} /\ typed'.presses = typed.presses
      /\ typed'.presses \in Nat
      /\ typed'.gone = IF o.flushed THEN typed.gone \cup dropped ELSE typed.gone
  BY <1>1, <1>2
<1>4. dropped = Presses(keys)
  BY <1>2 DEF Presses
<1>5. ~log'.overlap => ~log.overlap /\ log.taken \in Seq(Nat)
  BY <1>1, <1>2 DEF Placed
<1>6. ASSUME o.taken = 0 PROVE ~log'.overlap => log'.taken = log.taken
  <2>1. q = <<>>
    BY <1>6
  <2> HIDE DEF q
  <2> QED
    BY <1>1, <1>5, <2>1
<1> HIDE DEF o, q, dropped
<1>7. CASE o.keys = keys /\ o.taken = 0 /\ ~o.flushed
  BY <1>1, <1>2, <1>3, <1>5, <1>6, <1>7
<1>8. CASE o.keys = <<>> /\ o.taken = 0 /\ o.flushed
  <2>1. <<>> \in Seq(Item)
    OBVIOUS
  <2>2. ~log'.overlap => Placed(<<>>, log.taken, typed.gone \cup Presses(keys), typed.presses)
    BY <1>2, <1>5, FlushPlaced
  <2> QED
    BY <1>1, <1>3, <1>4, <1>6, <1>8, <2>1, <2>2, Zenon
<1>9. CASE o.keys = KeysAfter(seen) /\ o.taken = Min({2, Len(seen)}) /\ ~o.flushed
  <2>1. KeysAfter(seen) \in Seq(Item)
    BY <1>2, KeysAfterList
  <2>2. Len(seen) \in Nat /\ o.taken = IF 2 <= Len(seen) THEN 2 ELSE Len(seen)
    BY <1>9, MinOfTwo
  <2>3. CASE o.taken = 0
    <3>1. Len(seen) = 0
      BY <2>2, <2>3
    <3>2. seen = <<>>
      BY <3>1, NoneOf, Zenon
    <3>3. KeysAfter(seen) = keys
      BY <3>2 DEF KeysAfter
    <3> QED
      BY <1>1, <1>2, <1>3, <1>5, <1>6, <1>9, <2>3, <3>3, Zenon
  <2>4. CASE o.taken > 0
    <3> SUFFICES ASSUME ~log'.overlap
                 PROVE  Placed(keys', log'.taken, typed'.gone, typed'.presses)
      BY <1>1, <1>3, <1>9, <2>1
    <3>1. keys = seen /\ Placed(keys, log.taken, typed.gone, typed.presses)
      BY <1>1, <1>2, <2>4
    <3>2. Rising(keys)
      BY <3>1 DEF Placed
    <3> DEFINE m == Min({2, Len(keys)})
               new == KeysAfter(keys)
    <3>3. /\ m \in 0..Len(keys) /\ Len(new) = Len(keys) - m
          /\ \A j \in 1..(Len(keys) - m) : new[j] = keys[j + m]
      BY <1>2, <3>2, KeysAfterFirst
    <3>4. o.taken = m /\ new \in Seq(Item) /\ keys' = new
      BY <1>1, <1>9, <2>1, <3>1
    <3> HIDE DEF m, new
    <3>5. Placed(new, log.taken \o [i \in 1..m |-> keys[i].press], typed.gone, typed.presses)
      BY <3>1, <3>3, <3>4, TalkPlaced
    <3>6. log'.taken = log.taken \o [i \in 1..m |-> keys[i].press]
      BY <1>1, <3>1, <3>4 DEF q
    <3> QED
      BY <1>3, <1>9, <3>4, <3>5, <3>6, Zenon
  <2> QED
    BY <2>2, <2>3, <2>4
<1> QED
  BY <1>7, <1>8, <1>9 DEF OnKeys, o

\* A step that leaves the list and its history alone.
LEMMA ListAside ==
  ASSUME KeysInv, keys' = keys, typed' = typed, log' = log, cpu' = cpu \/ cpu' = None
  PROVE  KeysInv'
  BY DEF KeysInv

\* The states of the lines change.
LEMMA StateKeys == ASSUME KeysInv, NEW s, change_state(s) PROVE KeysInv'
<1>1. cpu # None /\ cpu' = None
  BY DEF change_state, Store
<1>2. cpu.seen \in Seq(Item)
  BY <1>1 DEF KeysInv
<1>3. CASE keys' = keys /\ typed' = typed /\ log' = log
  BY <1>1, <1>3, ListAside
<1>4. CASE \E t \in Transmitted(s, sr.v, cpu.seen) : transmitAdb(t, cpu.seen)
  <2>1. PICK t \in Transmitted(s, sr.v, cpu.seen) : transmitAdb(t, cpu.seen)
    BY <1>4
  <2>2. OnKeys(t.out, cpu.seen)
    BY TransmitKeys
  <2>3. /\ keys' \in Seq(Item) /\ DOMAIN typed' = {"presses", "gone"} /\ typed'.presses \in Nat
        /\ ~log'.overlap => Placed(keys', log'.taken, typed'.gone, typed'.presses)
    BY <1>2, <2>1, <2>2, TransmitPlaced
  <2> QED
    BY <1>1, <2>3 DEF KeysInv
<1> QED
  BY <1>3, <1>4 DEF change_state, adbVars

\* A key goes down or up (keydown, keyup).
LEMMA KeyKeys == ASSUME KeysInv, NEW down \in BOOLEAN, NEW sc, Key(down, sc) PROVE KeysInv'
<1>1. cpu' = cpu /\ log' = log
  BY DEF Key, PressKey, ReleaseKey
<1>2. /\ keys \in Seq(Item) /\ DOMAIN typed = {"presses", "gone"} /\ typed.presses \in Nat
      /\ cpu # None => cpu.seen \in Seq(Item)
      /\ ~log.overlap => Placed(keys, log.taken, typed.gone, typed.presses)
  BY DEF KeysInv
<1>3. CASE keys' = keys /\ typed' = typed
  BY <1>1, <1>3, ListAside
<1>4. ASSUME sc \in DOMAIN mac_keys,
             keys' = Append(keys, [code |-> mac_keys[sc], press |-> typed.presses + 1]),
             typed' = [typed EXCEPT !.presses = @ + 1]
      PROVE  KeysInv'
  <2> DEFINE c == mac_keys[sc]
             k == [code |-> c, press |-> typed.presses + 1]
  <2>1. c \in Codes
    BY <1>4 DEF Codes
  <2> HIDE DEF c
  <2>2. k \in Item
    BY <1>2, <2>1 DEF Item
  <2>3. /\ DOMAIN typed' = DOMAIN typed /\ typed'.presses = typed.presses + 1
        /\ typed'.gone = typed.gone
    BY <1>2, <1>4
  <2>4. keys' = Append(keys, k)
    BY <1>4 DEF c
  <2>5. ~log.overlap => Placed(keys', log.taken, typed'.gone, typed'.presses)
    BY <1>2, <2>1, <2>3, <2>4, PressPlaced
  <2> HIDE DEF k
  <2>6. keys' \in Seq(Item)
    BY <1>2, <2>2, <2>4
  <2> QED
    BY <1>1, <1>2, <2>3, <2>5, <2>6 DEF KeysInv
<1>5. ASSUME NEW i \in 1..Len(keys), keys' = RemoveAt(keys, i),
             typed' = [typed EXCEPT !.gone = @ \cup {keys[i].press}]
      PROVE  KeysInv'
  <2>1. /\ DOMAIN typed' = DOMAIN typed /\ typed'.presses = typed.presses
        /\ typed'.gone = typed.gone \cup {keys[i].press}
    BY <1>2, <1>5
  <2>2. keys' \in Seq(Item)
    BY <1>2, <1>5, Removed
  <2>3. ~log.overlap => Placed(keys', log.taken, typed'.gone, typed'.presses)
    BY <1>2, <1>5, <2>1, ReleasePlaced
  <2> QED
    BY <1>1, <1>2, <2>1, <2>2, <2>3 DEF KeysInv
<1>6. CASE down
  BY <1>3, <1>4, <1>6 DEF Key, PressKey
<1>7. CASE ~down
  <2> DEFINE same == {i \in DOMAIN keys : sc \in DOMAIN mac_keys /\ keys[i].code = mac_keys[sc]}
  <2>1. IF same = {} THEN UNCHANGED <<keys, typed>>
        ELSE /\ keys' = RemoveAt(keys, Min(same))
             /\ typed' = [typed EXCEPT !.gone = @ \cup {keys[Min(same)].press}]
    BY <1>7, Zenon DEF Key, ReleaseKey
  <2>2. same \in SUBSET Nat /\ same \subseteq 1..Len(keys)
    BY <1>2
  <2> HIDE DEF same
  <2>3. CASE same = {}
    BY <1>3, <2>1, <2>3
  <2>4. CASE same # {}
    <3>1. Min(same) \in 1..Len(keys)
      BY <2>2, <2>4, LeastIn
    <3> QED
      BY <1>5, <2>1, <2>4, <3>1
  <2> QED
    BY <2>3, <2>4
<1> QED
  BY <1>6, <1>7

\* Init and every step (talk, keydown, keyup, adb_reset).
LEMMA KeysInductive == ASSUME KeysInv, [Next]_vars PROVE KeysInv'
<1>1. CASE Load
  <2>1. cpu' = [thread |-> "cpu", loaded |-> IF_, seen |-> keys]
    BY <1>1 DEF Load
  <2>2. cpu'.seen = keys
    BY <2>1
  <2> QED
    BY <1>1, <2>2 DEF Load, adbVars, KeysInv
<1>2. CASE AdbDriver
  <2>1. CASE SendState
    BY <2>1, StateKeys DEF SendState, PortState
  <2>2. CASE ReplyState
    BY <2>2, StateKeys DEF ReplyState, PortState
  <2>3. CASE SendByte \/ Wait \/ Direction \/ ReplyByte
    BY <2>3, ListAside DEF SendByte, Wait, Direction, ReplyByte, NoAdb, adbVars, Store, Plain
  <2> QED
    BY <1>2, <2>1, <2>2, <2>3 DEF AdbDriver
<1>3. CASE ClockDriver
  BY <1>3, ListAside DEF ClockDriver, ClockAccess, Store, Plain, adbVars
<1>4. ASSUME NEW t \in Transfers, Begin(t) PROVE KeysInv'
  BY <1>4, ListAside DEF Begin, adbVars
<1>5. ASSUME NEW t \in Timer, LoadTimer(t) \/ ReadTimer(t) \/ Expire(t) PROVE KeysInv'
  BY <1>5, ListAside DEF LoadTimer, ReadTimer, Expire, NoTimer, adbVars, Store
<1>6. ASSUME NEW r \in BOOLEAN, Repeat(r) PROVE KeysInv'
  BY <1>6, ListAside DEF Repeat, NoTimer, adbVars, Plain
<1>7. CASE Tick \/ Callback
  BY <1>7, ListAside DEF Tick, Callback, adbVars
<1>8. ASSUME NEW down \in BOOLEAN, NEW sc \in Typed, Key(down, sc) PROVE KeysInv'
  BY <1>8, KeyKeys
<1>9. CASE KeyIrq
  BY <1>9, ListAside DEF KeyIrq, adbVars
<1>10. CASE UNCHANGED vars
  BY <1>10, ListAside DEF vars, viaVars, adbVars
<1> QED
  BY <1>1, <1>2, <1>3, <1>4, <1>5, <1>6, <1>7, <1>8, <1>9, <1>10 DEF Next

\* The machine starts with no key typed.
LEMMA KeysStart == Init => KeysInv
<1> SUFFICES ASSUME Init PROVE KeysInv
  OBVIOUS
<1>1. /\ keys = <<>> /\ cpu = None /\ DOMAIN typed = {"presses", "gone"}
      /\ typed.presses = 0 /\ typed.gone = {} /\ log.taken = <<>>
  BY DEF Init, AdbInit
<1>2. /\ <<>> \in Seq(Item) /\ <<>> \in Seq(Nat) /\ Len(<<>>) = 0 /\ 1..0 = {}
  OBVIOUS
<1>3. Presses(<<>>) = {} /\ Items(<<>>) = {} /\ Rising(<<>>) /\ Climbs(<<>>)
  BY <1>2 DEF Presses, Items, Rising, Climbs
<1>4. Placed(<<>>, <<>>, {}, 0)
  BY <1>2, <1>3 DEF Placed
<1> QED
  BY <1>1, <1>2, <1>4 DEF KeysInv

\* Every press is in the list, or was taken by a Talk, or is gone, and in one of
\* them only; Talks take them in the order they were typed: for every mix of keys,
\* transfers, timers and clock commands (talk, keydown, keyup). The exception is
\* a list that changed during a Talk.
THEOREM KeysAlwaysKept == Spec => []KeysKept
<1>1. ASSUME KeysInv PROVE KeysKept
  <2> SUFFICES ASSUME ~log.overlap
               PROVE  /\ {keys[i].press : i \in DOMAIN keys}
                           \cup {log.taken[i] : i \in DOMAIN log.taken} \cup typed.gone
                         = 1..typed.presses
                      /\ Len(keys) + Len(log.taken) + Cardinality(typed.gone) = typed.presses
                      /\ \A i, j \in DOMAIN log.taken : i < j => log.taken[i] < log.taken[j]
    BY Zenon DEF KeysKept
  <2>1. Placed(keys, log.taken, typed.gone, typed.presses)
    BY <1>1 DEF KeysInv
  <2>2. /\ DOMAIN keys = 1..Len(keys) /\ DOMAIN log.taken = 1..Len(log.taken)
        /\ Presses(keys) \cup Items(log.taken) \cup typed.gone = 1..typed.presses
        /\ Climbs(log.taken)
    BY <2>1 DEF Placed
  <2>3. Len(keys) + Len(log.taken) + Cardinality(typed.gone) = typed.presses
    BY <2>1, Counted
  <2> QED
    BY <2>2, <2>3, Zenon DEF Presses, Items, Climbs
<1> QED
  BY <1>1, KeysStart, KeysInductive, PTL DEF Spec
=============================================================================
