------------------------------ MODULE IrqMailbox ------------------------------
(***************************************************************************)
(* What do_irq and op_prologue promise together: a mailbox for one request.*)
(* A new request replaces the pending one, whatever their levels; while    *)
(* the CPU is taking a request, a new one may be dropped; every request    *)
(* posted is accepted once, lost, or pending.                              *)
(***************************************************************************)
EXTENDS Integers

CONSTANT Levels     \* the levels the devices raise

VARIABLES pend,     \* the pending level, 0 when there is none
          mask,     \* the CPU's interrupt mask
          posted, accepted, lost

vars == <<pend, mask, posted, accepted, lost>>

Init ==
  /\ pend = 0
  /\ mask = 7
  /\ posted = 0 /\ accepted = 0 /\ lost = 0

Acceptable == pend > 0 /\ (pend = 7 \/ pend > mask)

\* The request becomes the pending one; a request it replaces is lost.
Post(l) ==
  /\ pend' = l
  /\ posted' = posted + 1
  /\ lost' = IF pend > 0 THEN lost + 1 ELSE lost
  /\ UNCHANGED <<mask, accepted>>

\* The request arrives while another is being taken: it is lost.
Drop ==
  /\ Acceptable
  /\ posted' = posted + 1
  /\ lost' = lost + 1
  /\ UNCHANGED <<pend, mask, accepted>>

Accept ==
  /\ Acceptable
  /\ mask' = pend
  /\ pend' = 0
  /\ accepted' = accepted + 1
  /\ UNCHANGED <<posted, lost>>

SetMask ==
  /\ mask' \in 0..7
  /\ UNCHANGED <<pend, posted, accepted, lost>>

Next == (\E l \in Levels : Post(l)) \/ Drop \/ Accept \/ SetMask

Spec == Init /\ [][Next]_vars
===============================================================================
