--------------------------- MODULE MCChatSession ---------------------------
(***************************************************************************)
(* ChatSession on small instances.  The sizes of texts and of the response *)
(* buffer are chosen in each configuration, so that they fit or are cut.   *)
(***************************************************************************)
EXTENDS ChatSession

CONSTANTS c1, c2, t1, t2

OneChannel == {c1}
TwoChannels == {c1, c2}
Threads == {t1, t2}
OneThread == {t1}
=============================================================================
