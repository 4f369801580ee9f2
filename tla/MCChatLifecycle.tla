-------------------------- MODULE MCChatLifecycle --------------------------
(* ChatLifecycle on a small instance: two programs on one machine.         *)
EXTENDS ChatLifecycle

CONSTANTS p1, p2

TwoPrograms == {p1, p2}
=============================================================================
