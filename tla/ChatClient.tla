----------------------------- MODULE ChatClient -----------------------------
(***************************************************************************)
(* The client process (client/src, built as scalable_server): handle_ui,   *)
(* the thread that turns commands read from the UI into frames, and        *)
(* handle_server, the thread that turns frames of the server into texts    *)
(* for the UI and acknowledges pushed messages.                            *)
(*                                                                         *)
(* Both threads take texts apart with strtok; cliTok is its hidden         *)
(* position, as uiTok is in ChatUI.  They are the only writers of the      *)
(* connection, and handle_server is the only writer of the response pipe.  *)
(***************************************************************************)
EXTENDS ChatWire

VARIABLES
  upc,      \* where handle_ui is
  ureq,     \* the command it works on
  spc,      \* where handle_server is
  sframe,   \* the frame it works on
  cliTok    \* whose text strtok's position is in

clientVars == <<upc, ureq, spc, sframe, cliTok>>

\* "read": blocked in read.  "type": between the strtok calls of
\* get_type_and_object.  "fields": between those of handle_create and its like.
UiThreadStates == {"read", "type", "fields"}

\* "recv": blocked in dc_read_fully.  "parse": after the first strtok call.
\* "post", "ack": a message is written, its semaphore post, its answer are due.
ServerThreadStates == {"recv", "parse", "post", "ack"}

ClientTypeOK ==
  /\ upc \in UiThreadStates
  /\ ureq \in UpFrame
  /\ spc \in ServerThreadStates
  /\ sframe \in DownFrame
  /\ cliTok \in {"ui", "server", "spoilt"}

ClientInit ==
  /\ upc = "read"
  /\ ureq = Command(0, "signup", NoChannel)
  /\ spc = "recv"
  /\ sframe = [op |-> "CREATE USER", code |-> "ok", id |-> 0, size |-> 1, intact |-> TRUE]
  /\ cliTok = "spoilt"

-----------------------------------------------------------------------------
(* handle_ui                                                               *)

\* One read returns every command in the pipe, and commands have no
\* terminator: what follows the first is taken for its last field, except for
\* a message, whose text ends at its newline.  The rest is lost.
ReadCommand ==
  /\ upc = "read"
  /\ cmdPipe # <<>>
  /\ LET first == Head(cmdPipe)
         alone == Len(cmdPipe) = 1 \/ first.kind = "message"
     IN ureq' = IF alone THEN first ELSE [first EXCEPT !.chan = Garbled, !.intact = FALSE]
  /\ cmdPipe' = <<>>
  /\ cliTok' = "ui"
  /\ upc' = "type"
  /\ UNCHANGED <<toServer, clientUp>>

\* Mutant of ReadCommandEof: end of file is taken for an empty command.
ReadCommandEofIgnored ==
  /\ upc = "read"
  /\ cmdPipe = <<>>
  /\ ~uiUp
  /\ UNCHANGED <<clientUp, upc, ureq, cliTok, cmdPipe, toServer>>

\* At end of file the first token is NULL, and duplicating it ends the process.
ReadCommandEof ==
  /\ upc = "read"
  /\ cmdPipe = <<>>
  /\ ~uiUp
  /\ clientUp' = FALSE
  /\ UNCHANGED <<upc, ureq, cliTok, cmdPipe, toServer>>

\* Mutant of TakeType: the handler goes on in the copy that has been freed.
TakeTypeNoRestart ==
  /\ upc = "type"
  /\ upc' = "fields"
  /\ cliTok' = "spoilt"
  /\ UNCHANGED <<clientUp, ureq, cmdPipe, toServer>>

\* The second token selects the handler, which starts strtok again on its own
\* copy.  If it is another text's token no handler takes the command; if there
\* is none the process ends.
TakeType ==
  /\ upc = "type"
  /\ \/ /\ cliTok = "ui"
        /\ upc' = "fields"
        /\ UNCHANGED <<cliTok, clientUp>>
     \/ /\ cliTok # "ui"
        /\ upc' = "read"
        /\ cliTok' = "spoilt"
        /\ UNCHANGED clientUp
     \/ /\ cliTok # "ui"
        /\ clientUp' = FALSE
        /\ UNCHANGED <<upc, cliTok>>
  /\ UNCHANGED <<ureq, cmdPipe, toServer>>

\* The fields are copied into a body and the frame is sent.
TakeFields ==
  /\ upc = "fields"
  /\ \/ /\ cliTok = "ui"
        /\ toServer' = Append(toServer, ureq)
        /\ upc' = "read"
        /\ UNCHANGED <<cliTok, clientUp>>
     \/ /\ cliTok # "ui"
        /\ toServer' = Append(toServer, [ureq EXCEPT !.chan = Garbled, !.intact = FALSE])
        /\ upc' = "read"
        /\ cliTok' = "spoilt"
        /\ UNCHANGED clientUp
     \/ /\ cliTok # "ui"
        /\ clientUp' = FALSE
        /\ UNCHANGED <<upc, cliTok, toServer>>
  /\ UNCHANGED <<ureq, cmdPipe>>

HandleUi ==
  /\ clientUp
  /\ ReadCommand \/ ReadCommandEof \/ TakeType \/ TakeFields
  /\ UNCHANGED <<spc, sframe, pipe, sem, toClient, uiUp>>

-----------------------------------------------------------------------------
(* handle_server                                                           *)

ReceiveFrame ==
  /\ spc = "recv"
  /\ toClient # <<>>
  /\ sframe' = Head(toClient)
  /\ toClient' = Tail(toClient)
  /\ cliTok' = "server"
  /\ spc' = "parse"
  /\ UNCHANGED <<pipe, sem, toServer, clientUp>>

\* Writing to a UI that is gone kills the client (SIGPIPE).
WriteText(f, next) ==
  \/ /\ uiUp
     /\ pipe' = pipe \o Text(f)
     /\ spc' = next
     /\ UNCHANGED clientUp
  \/ /\ ~uiUp
     /\ clientUp' = FALSE
     /\ UNCHANGED <<pipe, spc>>

\* Mutant of RelayCode: a failure is logged, but nothing is written to the UI.
RelayCodeSilentError ==
  /\ spc = "parse"
  /\ \/ sframe.code = "err" /\ spc' = "recv" /\ UNCHANGED <<pipe, clientUp>>
     \/ sframe.code = "ok" /\ sframe.op # "CREATE AUTH" /\ WriteText(sframe, "recv")
  /\ UNCHANGED <<sframe, cliTok, toClient, sem, toServer>>

\* A response whose code is all the handler looks at.
RelayCode ==
  /\ spc = "parse"
  /\ sframe.code = "err" \/ (sframe.code = "ok" /\ sframe.op # "CREATE AUTH")
  /\ WriteText(sframe, "recv")
  /\ UNCHANGED <<sframe, cliTok, toClient, sem, toServer>>

\* Further strtok calls take the channel list, or the fields of a message,
\* from the frame, or from a command when strtok's position is lost.
RelayFields(code, next) ==
  /\ spc = "parse"
  /\ sframe.code = code
  /\ \/ /\ cliTok = "server"
        /\ WriteText(sframe, next)
        /\ UNCHANGED cliTok
     \/ /\ cliTok # "server"
        /\ WriteText([sframe EXCEPT !.intact = FALSE], next)
        /\ cliTok' = "spoilt"
     \/ /\ cliTok # "server"
        /\ clientUp' = FALSE
        /\ UNCHANGED <<pipe, spc, cliTok>>
  /\ UNCHANGED <<sframe, toClient, sem, toServer>>

RelayList    == sframe.op = "CREATE AUTH" /\ RelayFields("ok", "recv")
RelayMessage == RelayFields("msg", "post")

\* Mutant of PostMessage: the semaphore is posted twice for a message.
PostMessageTwice ==
  /\ spc = "post"
  /\ sem' = sem + 2
  /\ spc' = "ack"
  /\ UNCHANGED <<sframe, cliTok, toClient, pipe, toServer, clientUp>>

PostMessage ==
  /\ spc = "post"
  /\ sem' = sem + 1
  /\ spc' = "ack"
  /\ UNCHANGED <<sframe, cliTok, toClient, pipe, toServer, clientUp>>

\* Mutant of AckMessage: the message is not acknowledged.
AckMessageMissing ==
  /\ spc = "ack"
  /\ spc' = "recv"
  /\ UNCHANGED <<sframe, cliTok, toClient, pipe, sem, toServer, clientUp>>

AckMessage ==
  /\ spc = "ack"
  /\ toServer' = Append(toServer, Ack(sframe.id))
  /\ spc' = "recv"
  /\ UNCHANGED <<sframe, cliTok, toClient, pipe, sem, clientUp>>

HandleServer ==
  /\ clientUp
  /\ ReceiveFrame \/ RelayCode \/ RelayList \/ RelayMessage \/ PostMessage \/ AckMessage
  /\ UNCHANGED <<upc, ureq, cmdPipe, uiUp>>
=============================================================================
