---------------------------- MODULE MCChatScreen ----------------------------
(* ChatScreen, with ChatHistory, for two message threads.                  *)
EXTENDS ChatScreen, TLC

CONSTANTS t1, t2

Threads == {t1, t2}
ResponseText == -1
Alike == Permutations(Threads)
=============================================================================
