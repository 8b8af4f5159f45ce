------------------------------ MODULE MCMovem ------------------------------
(* TLC instances of Movem: D0, A0 and A1, three pages of four words.          *)
EXTENDS Movem

I(op, size, list) == [op |-> op, size |-> size, list |-> list, reg |-> 8]

\* The operand register is among those stored or loaded from (A0); a long that
\* starts at an odd word lies on two pages.
FourInstrs ==
  {I("store_decr", 4, {0, 8, 9}), I("store_base", 2, {0, 9}),
   I("load_incr", 4, {0, 9}), I("load_base", 4, {8, 9})}

EvenAddr == {2 * k : k \in 0..11}
Paged == [a \in EvenAddr |-> a \div 8]

\* A0 points to an odd word in the middle, so that longs lie on two pages.
Registers == [r \in {0, 8, 9} |-> IF r = 8 THEN <<0, 14>> ELSE <<100 + r, 200 + r>>]
Memory == [a \in EvenAddr |-> IF a = 14 THEN 0 ELSE IF a = 16 THEN 10 ELSE 40000 + a]
===============================================================================
