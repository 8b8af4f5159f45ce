------------------------------- MODULE MCVia -------------------------------
(* TLC instance of Via.                                                      *)
EXTENDS Via

\* Writes and reads of two registers of the parameter RAM and of the clock: of
\* a command byte bit 7 says read and bits 2 to 6 are the register.
ClockCommands == {<<16 * 4, 90>>, <<16 * 4, 165>>, <<10 * 4, 1>>, <<128 + 16 * 4>>,
              <<128 + 10 * 4>>, <<128 + 4>>}

\* The boot code leaves the chip enabled, the clock line low or high, the data
\* line as it may be.
Enabled == {Lines(d, c, 0) : d \in Bit, c \in Bit}

\* Talk 0, 2 and 3 and Flush of the keyboard, Talk 0 of the mouse, SendReset, a
\* Listen that moves the keyboard to address 3 and one to 9, a write and a read
\* of the parameter RAM. A reply is read whole, in part, or beyond its end.
Exchanges ==
  {[cmd |-> <<44>>, bytes |-> 3], [cmd |-> <<44>>, bytes |-> 1], [cmd |-> <<46>>, bytes |-> 6],
   [cmd |-> <<47>>, bytes |-> 2], [cmd |-> <<33>>, bytes |-> 0], [cmd |-> <<60>>, bytes |-> 4],
   [cmd |-> <<32>>, bytes |-> 0], [cmd |-> <<43, 99, 254>>, bytes |-> 0],
   [cmd |-> <<43, 105, 254>>, bytes |-> 0],
   [cmd |-> <<7, 2, 48, 77>>, bytes |-> 0], [cmd |-> <<12, 2, 48>>, bytes |-> 5]}

Motions == {<<0, 0, {}>>, <<-3, 200, {"left"}>>}
HeldKeys == {{}, {"shift", "num"}}

Amount(commands, transfers, ks, loads, expiries) ==
  [commands |-> commands, transfers |-> transfers, keys |-> ks, loads |-> loads,
   reads |-> loads, modes |-> loads, expiries |-> expiries]

Mixes ==
  {Amount(3, 0, 0, 0, 0), Amount(1, 1, 0, 0, 0), Amount(0, 2, 1, 0, 0), Amount(0, 1, 3, 0, 0),
   Amount(0, 1, 1, 0, 1), Amount(0, 0, 0, 3, 3)}

\* This guest keeps to the conventions that the theorems about the clock assume.
ASSUME InstanceAssumption == Conventions
=============================================================================
