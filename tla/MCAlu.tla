------------------------------- MODULE MCAlu -------------------------------
(* Widths of 2, 4 and 8 bits, with every operand of the first two.         *)
EXTENDS AluRef

MCDecimalBytes == {0, 1, 9, 16, 73, 80, 89, 144, 145, 152, 153}
MCSample == {0, 1, 2, 5, 85, 127, 128, 129, 254, 255}
=============================================================================
