--------------------------- MODULE MCChatCommands ---------------------------
(* ChatCommands on small instances: lines of up to three words, two channel *)
(* names a and b, and display names of no, one and two words.               *)
EXTENDS ChatCommands

Commands == {"/create", "/join", "/leave", "/logout", "/else"}
AllWords ==
  Commands \cup {"N/A", "a", "b", "u", "v", "Created", "Leaved", "Channel", "Fields", "are", "invalid"}
SlashedWords == Commands \cup {"N/A"}
First == Commands \cup {"a"}
SomeLines ==
  {<<>>} \cup {<<f>> : f \in First} \cup {<<f, x>> : f \in First, x \in {"a", "b"}}
    \cup {<<f, x, y>> : f \in First, x \in {"a", "b"}, y \in {"b", "/else"}}
AllUsers == {<<>>, <<"u">>, <<"u", "v">>}
=============================================================================
