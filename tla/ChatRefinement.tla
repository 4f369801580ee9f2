--------------------------- MODULE ChatRefinement ---------------------------
(***************************************************************************)
(* Orderly sessions of the program keep the promise of ChatPromise.        *)
(***************************************************************************)
EXTENDS ChatSession

OrderlyInit == Init /\ serial
OrderlyNext == Next /\ Orderly'
OrderlySpec == OrderlyInit /\ [][OrderlyNext]_vars

-----------------------------------------------------------------------------
(* The promise's variables, read off the state of the program.             *)

\* The answer of the server, at one of three places on the ring.
AnswerCode ==
  CASE toClient # <<>> -> toClient[1].code
    [] toClient = <<>> /\ pipe # <<>> -> pipe[1].frame.code
    [] OTHER -> sframe.code

\* A command is decided when the server has made an answer of it.
Phase ==
  CASE main # "await" -> "idle"
    [] main = "await" /\ (cmdPipe # <<>> \/ upc # "read" \/ toServer # <<>>) -> "asked"
    [] OTHER -> IF AnswerCode = "ok" THEN "accepted" ELSE "refused"

Verb ==
  CASE req.kind \in {"create", "join"} -> "enter"
    [] req.kind \in {"leave", "logout"} -> req.kind
    [] OTHER -> "stay"

Wish ==
  IF Phase = "idle" THEN [verb |-> "none", place |-> NoChannel]
  ELSE [verb |-> Verb, place |-> IF Verb \in {"enter", "leave"} THEN req.chan ELSE NoChannel]

\* A message is on its way, in the pipe, or in the hands of a message thread.
Due ==
  \/ \E n \in DOMAIN toClient : toClient[n].code = "msg"
  \/ spc = "parse" /\ sframe.code = "msg"
  \/ spc = "post"
  \/ sem > 0
  \/ \E t \in MsgThreads : mpc[t] \in {"read", "parse"}

Shown == [n \in DOMAIN history |-> history[n].id]

Promise == INSTANCE ChatPromise WITH
  Places <- Channels, Nowhere <- NoChannel,
  phase <- Phase, wish <- Wish, here <- cur, there <- members,
  news <- pushes, due <- Due, told <- acked, shown <- Shown

\* Orderly sessions keep the promise: the command's way round the ring is one
\* ask, one decision and one return, and the push's way is one show and one tell
\* (all of chat_ui.c's exchanges and handle_create_message_response).
KeepsPromise == Promise!Spec
=============================================================================
