-------------------------- MODULE MCChatRefinement --------------------------
(* ChatRefinement on small instances.                                      *)
EXTENDS ChatRefinement

CONSTANTS c1, c2, t1, t2

TwoChannels == {c1, c2}
Threads == {t1, t2}
=============================================================================
