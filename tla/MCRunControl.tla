------------------------------ MODULE MCRunControl ------------------------------
(* TLC instances of RunControl: the three interrupt sources of the Quadra.   *)
EXTENDS RunControl

\* VIA1::irqNum is 1, VIA2::irqNum is 2, SCC::doIrq passes 4.
QuadraLevel == [via1 |-> 1, via2 |-> 2, scc |-> 4]
QuadraDevices == DOMAIN QuadraLevel
=================================================================================
