---------------------------- MODULE ChatSession ----------------------------
(***************************************************************************)
(* A session: the two threads of the client, the main thread and the       *)
(* message threads of the UI, the user and the server, interleaved.        *)
(*                                                                         *)
(* The program has no means to tell a response from a pushed message on    *)
(* the response pipe: it works when one exchange ends before the next one  *)
(* begins and no text is longer than a read.  Two history variables record *)
(* whether a session has kept to that, so that the properties can say what *)
(* the program does then, and what it still does otherwise.                *)
(***************************************************************************)
EXTENDS ChatUI, ChatClient, ChatServer

CONSTANT Leftover   \* largest value an earlier session leaves in the semaphore

ASSUME SessionAssumption == Leftover \in Nat

VARIABLES
  serial,   \* the semaphore started at zero, and every command and push has
            \* begun with nothing else under way
  fits      \* every text for the UI has fitted in one read

vars == <<uiVars, clientVars, serverVars, wireVars, serial, fits>>

\* The main thread waits for the user and everything else is idle.
AtRest ==
  /\ main \in {"menu", "login", "chat"}
  /\ cmdPipe = <<>> /\ pipe = <<>> /\ toServer = <<>> /\ toClient = <<>>
  /\ upc = "read"
  /\ spc = "recv"
  /\ sem = 0
  /\ \A t \in MsgThreads : mpc[t] \in {"off", "wait"}

Orderly == serial /\ fits

Init ==
  /\ WireInit(Leftover) /\ UIInit /\ ClientInit /\ ServerInit
  /\ serial = (sem = 0)
  /\ fits = TRUE

-----------------------------------------------------------------------------
User ==
  /\ UserStep
  /\ serial' = (serial /\ AtRest)
  /\ UNCHANGED <<fits, clientVars, serverVars>>

UIMain ==
  /\ TakeArgumentsStep \/ Reply \/ StartChat \/ FinishLine \/ ReplyEof
  /\ UNCHANGED <<serial, fits, clientVars, serverVars>>

UIMessage(t) ==
  /\ MsgStep(t)
  /\ UNCHANGED <<serial, fits, clientVars, serverVars>>

ClientUI ==
  /\ HandleUi
  /\ UNCHANGED <<serial, fits, uiVars, serverVars>>

ClientServer ==
  /\ HandleServer
  /\ UNCHANGED <<serial, fits, uiVars, serverVars>>

ServerAnswer ==
  /\ \E ok \in BOOLEAN : \E size \in ListSizes \cup {1} :
       /\ Answer(ok, size)
       /\ fits' = (fits /\ size <= RESPONSE_BUFFER)
  /\ UNCHANGED <<serial, uiVars, clientVars>>

ServerTakeAck ==
  /\ TakeAck
  /\ UNCHANGED <<serial, fits, uiVars, clientVars>>

ServerPush ==
  /\ \E size \in TextSizes :
       /\ Push(size)
       /\ fits' = (fits /\ size + 2 <= RESPONSE_BUFFER)
  /\ serial' = (serial /\ AtRest)
  /\ UNCHANGED <<uiVars, clientVars>>

Next ==
  \/ User
  \/ UIMain
  \/ \E t \in MsgThreads : UIMessage(t)
  \/ ClientUI
  \/ ClientServer
  \/ ServerAnswer
  \/ ServerTakeAck
  \/ ServerPush

Spec == Init /\ [][Next]_vars

\* Every thread runs, and the server answers what reaches it; the user need
\* not type and the server need not push.
Fairness ==
  /\ WF_vars(UIMain)
  /\ \A t \in MsgThreads : WF_vars(UIMessage(t))
  /\ WF_vars(ClientUI)
  /\ WF_vars(ClientServer)
  /\ WF_vars(ServerAnswer \/ ServerTakeAck)

FairSpec == Spec /\ Fairness

-----------------------------------------------------------------------------
(* Type correctness.                                                       *)

\* Every variable has its type (all processes).
TypeOK ==
  /\ WireTypeOK
  /\ UITypeOK
  /\ ClientTypeOK
  /\ ServerTypeOK
  /\ serial \in BOOLEAN
  /\ fits \in BOOLEAN

-----------------------------------------------------------------------------
(* Safety.                                                                 *)

\* The response is the whole and the only text of the command that waits.
IsResponseTo(text, cmd) ==
  /\ \E f \in {text[n].frame : n \in DOMAIN text} :
       /\ text = Text(f)
       /\ f.id = cmd.id
       /\ f.op = Opcode[cmd.kind]
       /\ f.code # "msg"
       /\ f.intact

\* In an orderly session, what the main thread finds in the response pipe is
\* the response to its own command, whole and nothing else, in one read (the
\* reads after every write in chat_ui.c, which take it for that unchecked).
OwnResponse ==
  Orderly /\ main = "await" /\ pipe # <<>> => IsResponseTo(Chunk, req) /\ Unread = <<>>

\* In an orderly session the two threads of the client are never both between
\* two strtok calls, nor two threads of the UI: each finds strtok's position
\* where it left it (strtok in handle_ui.c, handle_server.c and chat_ui.c).
OneTokenizer ==
  Orderly =>
    /\ upc \in {"type", "fields"} => cliTok = "ui" /\ spc # "parse"
    /\ spc = "parse" => cliTok = "server"
    /\ main \in {"create", "leave", "list"} => uiTok = "main"
    /\ \A t \in MsgThreads :
         mpc[t] = "parse" => uiTok = t /\ main \notin {"create", "leave", "list", "finish"}

\* In an orderly session neither process dies, and nothing made of another
\* text's tokens reaches the server or the UI.
NoDamage ==
  Orderly =>
    /\ uiUp /\ clientUp
    /\ cur # Garbled
    /\ \A n \in DOMAIN toServer : toServer[n].intact
    /\ \A n \in DOMAIN pipe : pipe[n].frame.intact

\* A command the main thread waits for has not been lost, in an orderly
\* session: it, or the response to it, is in exactly one place on the ring
\* UI - client - server - client - UI.
Holders ==
  Len(cmdPipe) + Len(toServer) + Len(toClient)
    + (IF upc # "read" THEN 1 ELSE 0)
    + (IF spc = "parse" THEN 1 ELSE 0)
    + (IF pipe # <<>> THEN 1 ELSE 0)

NothingLost == Orderly /\ main = "await" => Holders = 1

\* A user who is shown in a channel is a member of it at the server, unless the
\* server forgot it at a logout, which current_channel outlives.  The converse is
\* not so: /leave of any channel shows none (strcpy at chat_ui.c:722), and a
\* member of two channels who leaves one is shown in no channel.
Agree(c) == forgot \/ c = NoChannel \/ c \in members

\* In an orderly session, whenever nothing is under way, current_channel is none
\* or a channel the server has the user in: it has followed every answer (the
\* replies in chat_ui.c).
SameChannel == Orderly /\ AtRest => Agree(cur)

\* Pushed messages, whole, each once and in the order of the server.
InOrder ==
  /\ \A n \in DOMAIN history : history[n].whole /\ history[n].id <= pushes
  /\ \A m, n \in DOMAIN history : m < n => history[m].id < history[n].id

\* In an orderly session that is what the history holds, and nothing else
\* (thread_message adds to it, chat_ui.c).
HistoryInOrder == Orderly => InOrder

\* Whatever the order of events, no pushed message is recorded whole twice:
\* what one thread of the UI has read from the pipe no other reads again.
RecordedOnce ==
  \A m, n \in DOMAIN history :
    history[m].whole /\ history[n].whole /\ history[m].id = history[n].id => m = n

\* The answers among the frames of the server, the commands among those of the
\* client.
Answers  == {n \in DOMAIN toClient : toClient[n].code # "msg"}
Requests == {n \in DOMAIN toServer : toServer[n].tag = "request"}

UnderWay ==
  (IF spc = "parse" /\ sframe.code # "msg" THEN 1 ELSE 0)
    + Cardinality(Answers) + Cardinality(Requests)
    + (IF upc # "read" THEN 1 ELSE 0) + Len(cmdPipe)

\* A push taken for a response lets the main thread run ahead by one command,
\* and nothing else does while each text fits in a read, even if a read takes
\* parts of several.  So the commands on their way are at most one more than
\* the pushes that are not in the history (the reads in chat_ui.c).
Recorded == {n \in DOMAIN history : history[n].whole}

AheadBounded == fits => UnderWay + Cardinality(Recorded) <= 1 + pushes

\* The main thread never has two commands under way, so as long as the server
\* pushes nothing, no text is cut and the semaphore started at zero, every
\* session is a serial one: one write, one read (chat_ui.c).
TakesTurns == pushes = 0 /\ fits /\ Leftover = 0 => serial

-----------------------------------------------------------------------------
(* What comments of the code say, and the program does not do.             *)

\* handle_server.c:244 "It's  a message to be displayed on the UI": no part of
\* one is taken for the response to a command.
MessageDisplayed == [][Reply => \A n \in DOMAIN Chunk : Chunk[n].word # "MSG"]_vars

\* handle_ui.c:86 "display-name ETX channel-name ETX message-content ETX
\* timestamp ETX", and 67 for a new channel: the fields of a command reach the
\* server.
FieldsSent == \A n \in DOMAIN toServer : toServer[n].intact

\* UI/README.txt:4 "The parent process then waits for the child process to
\* finish, closes all pipes, and exits."
UIFollows == ~clientUp ~> ~uiUp

\* chat_ui.c:456 "Hit ENTER key to restart", after a refused login: it is a
\* menu that comes next, not the chat.
RefusedLoginRestarts ==
  [][(main = "await" /\ req.kind = "login" /\ main' # "await") =>
       main' \in {"list", "menu", "login"}]_vars

-----------------------------------------------------------------------------
(* The inductive invariant: the three shapes of an orderly session.        *)

ThreadsAsleep == sem = 0 /\ \A t \in MsgThreads : mpc[t] \in {"off", "wait"}
ClientIdle    == upc = "read" /\ spc = "recv"
WiresEmpty    == cmdPipe = <<>> /\ pipe = <<>> /\ toServer = <<>> /\ toClient = <<>>

\* A text in the pipe, or in a thread's buffer, is one whole text.
IsText(s) == s # <<>> /\ s = Text(s[1].frame)

\* A command as the user meant it.
GoodCommand ==
  /\ req.tag = "request"
  /\ req.intact
  /\ req.chan # Garbled
  /\ req.kind \in {"create", "join", "leave"} => req.chan \in Channels

\* Only the main thread has something to do.
Between ==
  /\ main # "await"
  /\ WiresEmpty /\ ClientIdle /\ ThreadsAsleep
  /\ main \in {"create", "leave"} => GoodCommand
  /\ main \in {"create", "leave", "list"} => uiTok = "main"
  /\ Agree(cur)

\* What the reply to a command will make of current_channel.
Outcome(r, ok, c) ==
  CASE ok /\ r.kind \in {"create", "join"} -> r.chan
    [] ok /\ r.kind = "leave"              -> NoChannel
    [] OTHER                               -> c

\* The answer to the command, whose effect the UI has yet to take over.
Responds(f) ==
  /\ f.id = req.id
  /\ f.op = Opcode[req.kind]
  /\ f.code \in {"ok", "err"}
  /\ f.intact
  /\ f.size \in 1..RESPONSE_BUFFER
  /\ Agree(Outcome(req, f.code = "ok", cur))

\* The places of the command, or of the answer to it, on the ring.
Waiting == main = "await" /\ GoodCommand /\ ThreadsAsleep

Commanded ==
  /\ Waiting /\ ClientIdle
  /\ cmdPipe = <<req>> /\ pipe = <<>> /\ toServer = <<>> /\ toClient = <<>>
  /\ Agree(cur)

Forwarding ==
  /\ Waiting /\ WiresEmpty
  /\ upc \in {"type", "fields"} /\ ureq = req /\ cliTok = "ui"
  /\ spc = "recv"
  /\ Agree(cur)

Asked ==
  /\ Waiting /\ ClientIdle
  /\ cmdPipe = <<>> /\ pipe = <<>> /\ toServer = <<req>> /\ toClient = <<>>
  /\ Agree(cur)

Answered ==
  /\ Waiting /\ ClientIdle
  /\ cmdPipe = <<>> /\ pipe = <<>> /\ toServer = <<>>
  /\ Len(toClient) = 1 /\ Responds(toClient[1])

Relaying ==
  /\ Waiting /\ WiresEmpty
  /\ upc = "read" /\ spc = "parse" /\ cliTok = "server"
  /\ Responds(sframe)

Replied ==
  /\ Waiting /\ ClientIdle
  /\ cmdPipe = <<>> /\ toServer = <<>> /\ toClient = <<>>
  /\ IsText(pipe) /\ Responds(pipe[1].frame)

Exchange == Commanded \/ Forwarding \/ Asked \/ Answered \/ Relaying \/ Replied

\* A pushed message that is not in the history yet.
Delivers(f) ==
  /\ f.id = pushes
  /\ f.op = "CREATE MESSAGE"
  /\ f.code = "msg"
  /\ f.intact
  /\ f.size > 0
  /\ f.size + 2 <= RESPONSE_BUFFER
  /\ \A n \in DOMAIN history : history[n].id < pushes

\* The places of the message on its way to the history.
Listening ==
  /\ main \in {"menu", "login", "chat"}
  /\ pushes > 0
  /\ upc = "read"
  /\ cmdPipe = <<>>
  /\ Agree(cur)

Sent ==
  /\ Listening /\ ThreadsAsleep /\ spc = "recv"
  /\ pipe = <<>> /\ toServer = <<>>
  /\ Len(toClient) = 1 /\ Delivers(toClient[1])

Taken ==
  /\ Listening /\ ThreadsAsleep /\ WiresEmpty
  /\ spc = "parse" /\ cliTok = "server" /\ Delivers(sframe)

Written ==
  /\ Listening /\ ThreadsAsleep /\ toServer = <<>> /\ toClient = <<>>
  /\ spc = "post" /\ sframe.id = pushes
  /\ IsText(pipe) /\ Delivers(pipe[1].frame)

\* Posted, read by the thread that was woken, parsed, recorded.
Posted ==
  /\ sem = 1
  /\ \A t \in MsgThreads : mpc[t] \in {"off", "wait"}
  /\ IsText(pipe) /\ Delivers(pipe[1].frame)

Woken(t) ==
  /\ sem = 0
  /\ mpc[t] = "read" /\ IsText(pipe) /\ Delivers(pipe[1].frame)
  /\ \A u \in MsgThreads \ {t} : mpc[u] \in {"off", "wait"}

Parsing(t) ==
  /\ sem = 0 /\ pipe = <<>>
  /\ mpc[t] = "parse" /\ uiTok = t
  /\ IsText(mchunk[t]) /\ Delivers(mchunk[t][1].frame)
  /\ \A u \in MsgThreads \ {t} : mpc[u] \in {"off", "wait"}

\* The acknowledgement goes its way meanwhile.
Acknowledging ==
  /\ toClient = <<>>
  /\ \/ spc = "ack" /\ sframe.id = pushes /\ toServer = <<>>
     \/ spc = "recv" /\ toServer \in {<<>>, <<Ack(pushes)>>}

Settling ==
  /\ Listening /\ Acknowledging
  /\ \/ Posted
     \/ \E t \in MsgThreads : Woken(t) \/ Parsing(t)
     \/ ThreadsAsleep /\ pipe = <<>>

Delivery == Sent \/ Taken \/ Written \/ Settling

\* An orderly session is between two exchanges, in one exchange at one place
\* of the ring, or in the delivery of one message.  (This is the inductive
\* invariant behind the properties above; it covers the whole program.)
OrderlyShape ==
  Orderly =>
    /\ uiUp /\ clientUp
    /\ cur # Garbled
    /\ InOrder
    /\ Between \/ Exchange \/ Delivery

-----------------------------------------------------------------------------
(* Liveness.                                                               *)

\* A main thread that waits for a response gets it, in an orderly session.
ResponseComes == (main = "await" /\ Orderly) ~> (main # "await" \/ ~Orderly)

\* A push in an orderly session is acknowledged to the server, and the message
\* thread that was woken has gone back to sleep.
PushHandled ==
  \A n \in 1..MaxPushes :
    (pushes = n /\ Orderly)
      ~> ((acked >= n /\ \A t \in MsgThreads : mpc[t] \in {"off", "wait"}) \/ ~Orderly)

\* When the UI is gone, the client ends too: end of file on its standard
\* input, or a write nobody can read (main.c, handle_ui).
ClientFollows == ~uiUp ~> ~clientUp
=============================================================================
