------------------------------- MODULE MCInstr -------------------------------
(* TLC instance of Instr: three pages of data, operands at every alignment    *)
(* near the boundary of the first two.                                        *)
EXTENDS Instr

\* Bytes that are also addresses an indirect operand may have.
Bytes12 == [a \in 0..11 |-> 3 + ((a * 7) % 9)]
Mix(a, b) == (3 * a + 5 * b + 1) % 251
=============================================================================
