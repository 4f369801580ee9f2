--------------------------- MODULE MCChatFraming ---------------------------
(* ChatFraming on small instances: no body, or "91" (57, 49), whose bytes  *)
(* have the type of a ping and of a create when taken for a header.        *)
EXTENDS ChatFraming

SomeTypes == {Type.CREATE, Type.PINGUSER}
OneObject == {Object.MESSAGE}
SomeBodies == {<<>>, <<57, 49>>}
=============================================================================
