---------------------------- MODULE MCExceptions ----------------------------
(* TLC instances of Exceptions.                                              *)
EXTENDS Exceptions

LowPcs == {<<0, 2>>, <<0, 4>>}
LowAndHighPcs == {<<0, 2>>, <<1, 2>>}
HandlerPc == <<0, 8>>

SrOf(S, M, T) == [S |-> S, M |-> M, T |-> T, I |-> 0]

\* The program starts as a user, on the master or on the interrupt stack.
AllModes == {SrOf(FALSE, FALSE, 0), SrOf(TRUE, TRUE, 0), SrOf(TRUE, FALSE, 0)}
Users == {SrOf(FALSE, FALSE, 0)}
AnyProgram == AllModes \cup {SrOf(FALSE, FALSE, 1), SrOf(FALSE, FALSE, 2)}

\* Unmasked and masked, untraced and traced both ways.
Loads == {<<0, 0>>, <<0, 5>>, <<1, 0>>, <<2, 0>>}
NoLoads == {}
===============================================================================
