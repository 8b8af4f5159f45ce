------------------------------- MODULE MCFpu -------------------------------
(* Small instances of Fpu for TLC. *)
EXTENDS Fpu

\* One operation of each group and one opcode that has none.
OneOfEach == {0, 5, 30, 34, 49, 56, 58}
Quiet == {"b62"}
SomePayloads == {{"b63"}}
SomeFinite == {<<"zero", TRUE>>, <<"num", TRUE>>, <<"inf", TRUE>>}
SomeEnables == {Exceptions \ {"OVFL"}}
SomeStatus == {[cc |-> {"NAN"}, st |-> {}, acc |-> {}]}
Positive == {FALSE}
=============================================================================
