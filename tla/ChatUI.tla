------------------------------- MODULE ChatUI -------------------------------
(***************************************************************************)
(* The UI process (UI/chat_ui.c): the main thread, which turns what the    *)
(* user types into commands and blocks for the response to each, and the   *)
(* message threads, one started by every successful login, which wait for  *)
(* the semaphore and then read the same response pipe.                     *)
(*                                                                         *)
(* Both kinds of thread call strtok, which keeps its position in a static  *)
(* variable of the process.  uiTok is that variable, reduced to whose text *)
(* it points into: a thread whose strtok(NULL) finds another's text gets   *)
(* tokens of that text or none, and moves the position for its owner too.  *)
(***************************************************************************)
EXTENDS ChatWire

CONSTANTS
  MsgThreads,   \* message threads; a login needs one that is off
  MaxRequests   \* bound: commands the user issues in a session

ASSUME UIAssumption == MaxRequests \in Nat /\ MsgThreads \cap {"main", "spoilt"} = {}

VARIABLES
  main,     \* where the main thread is
  req,      \* the command the main thread is in
  nreq,     \* commands issued so far
  cur,      \* current_channel
  mpc,      \* where each message thread is
  mchunk,   \* what each message thread has read
  uiTok,    \* whose text strtok's position is in
  history   \* messages[0..num_messages-1]

uiVars == <<main, req, nreq, cur, mpc, mchunk, uiTok, history>>

\* "menu" and "login": a menu waits for its fields to be typed.  "chat":
\* getch in get_user_input.  "create" and "leave": between two strtok calls on
\* the command line.  "await": blocked in read.  "list": between the strtok
\* calls on the channel list of a login response.  "finish": the handlers that
\* come after the one that sent the command are still given the same line.
MainStates == {"menu", "login", "chat", "create", "leave", "await", "list", "finish"}

\* "wait": sem_wait.  "read": blocked in read.  "parse": between strtok calls.
MsgStates == {"off", "wait", "read", "parse"}

UITypeOK ==
  /\ main \in MainStates
  /\ req \in UpFrame
  /\ nreq \in Nat
  /\ cur \in Names
  /\ mpc \in [MsgThreads -> MsgStates]
  /\ mchunk \in [MsgThreads -> Seq(Cell)]
  /\ uiTok \in MsgThreads \cup {"main", "spoilt"}
  /\ history \in Seq([id : Nat, whole : BOOLEAN])

UIInit ==
  /\ main = "menu"
  /\ req = Command(0, "signup", NoChannel)
  /\ nreq = 0
  /\ cur = NoChannel
  /\ mpc = [t \in MsgThreads |-> "off"]
  /\ mchunk = [t \in MsgThreads |-> <<>>]
  /\ uiTok = "spoilt"
  /\ history = <<>>

-----------------------------------------------------------------------------
(* The main thread: from the user's input to the command written.          *)

\* The command is written and the thread blocks for the response; writing to
\* a client that is gone kills the UI (SIGPIPE).
Write(cmd) ==
  \/ /\ clientUp
     /\ cmdPipe' = Append(cmdPipe, cmd)
     /\ req' = cmd
     /\ nreq' = nreq + 1
     /\ main' = "await"
     /\ UNCHANGED uiUp
  \/ /\ ~clientUp
     /\ uiUp' = FALSE
     /\ UNCHANGED <<cmdPipe, req, nreq, main>>

NextId == nreq + 1

SubmitSignup ==
  /\ main = "menu"
  /\ nreq < MaxRequests
  /\ Write(Command(NextId, "signup", NoChannel))
  /\ UNCHANGED uiTok

SubmitLogin ==
  /\ main \in {"menu", "login"}
  /\ nreq < MaxRequests
  /\ \E t \in MsgThreads : mpc[t] = "off"
  /\ Write(Command(NextId, "login", NoChannel))
  /\ UNCHANGED uiTok

\* Every line entered is first given to handle_logout, whose strtok(slash)
\* takes strtok's position away from whoever was using it.
Enter ==
  /\ main = "chat"
  /\ uiTok' = "main"

EnterLogout ==
  /\ Enter
  /\ nreq < MaxRequests
  /\ Write(Command(NextId, "logout", NoChannel))

EnterJoin(c) ==
  /\ Enter
  /\ nreq < MaxRequests
  /\ c # cur
  /\ Write(Command(NextId, "join", c))

EnterMessage ==
  /\ Enter
  /\ nreq < MaxRequests
  /\ cur # NoChannel
  /\ Write(Command(NextId, "message", cur))

\* An unknown command, a join of the current channel, a text without channel.
EnterIgnored ==
  /\ Enter
  /\ UNCHANGED <<cmdPipe, req, nreq, main, uiUp>>

\* /create and /leave take their arguments with further strtok(NULL) calls.
EnterCreate(c) ==
  /\ Enter
  /\ nreq < MaxRequests
  /\ main' = "create"
  /\ req' = Command(NextId, "create", c)
  /\ UNCHANGED <<cmdPipe, nreq, uiUp>>

EnterLeave(c) ==
  /\ Enter
  /\ nreq < MaxRequests
  /\ main' = "leave"
  /\ req' = Command(NextId, "leave", c)
  /\ UNCHANGED <<cmdPipe, nreq, uiUp>>

\* handle_leaving_channel and handle_send_messages are the last to be given a
\* line, and no strtok call comes after theirs.
AfterCommand(k) == IF k \in {"leave", "message"} THEN "chat" ELSE "finish"

\* With strtok's position lost the arguments come out NULL, and nothing is
\* sent, or as characters of another text.
TakeArguments ==
  /\ main \in {"create", "leave"}
  /\ \/ /\ uiTok = "main"
        /\ Write(req)
        /\ UNCHANGED uiTok
     \/ /\ uiTok # "main"
        /\ Write([req EXCEPT !.chan = Garbled, !.intact = FALSE])
        /\ uiTok' = "spoilt"
     \/ /\ uiTok # "main"
        /\ main' = AfterCommand(req.kind)
        /\ uiTok' = "spoilt"
        /\ UNCHANGED <<cmdPipe, req, nreq, uiUp>>

UserStep ==
  /\ uiUp
  /\ \/ SubmitSignup
     \/ SubmitLogin
     \/ EnterLogout
     \/ EnterIgnored
     \/ EnterMessage
     \/ \E c \in Channels : EnterJoin(c) \/ EnterCreate(c) \/ EnterLeave(c)
  /\ UNCHANGED <<cur, mpc, mchunk, history, pipe, sem, toServer, toClient, clientUp>>

TakeArgumentsStep ==
  /\ uiUp
  /\ TakeArguments
  /\ UNCHANGED <<cur, mpc, mchunk, history, pipe, sem, toServer, toClient, clientUp>>

-----------------------------------------------------------------------------
(* The main thread: from the response read to the next input.              *)

\* strtok(response, "\n") or, for a login, strtok(response, " ") gives "OK".
FirstToken(k) ==
  IF k = "login"
  THEN IF Head(Chunk).word = "LIST" /\ Head(Chunk).part = 1 THEN "OK" ELSE "other"
  ELSE IF Head(Chunk).word = "OK" THEN "OK" ELSE "other"

\* Whatever the pipe holds is taken for the response to the command.
ReadResponse(k) ==
  /\ main = "await"
  /\ req.kind = k
  /\ pipe # <<>>
  /\ pipe' = Unread
  /\ uiTok' = "main"

Accepted(k) == ReadResponse(k) /\ FirstToken(k) = "OK"
Refused(k)  == ReadResponse(k) /\ FirstToken(k) # "OK"

LoggedInBefore == \E t \in MsgThreads : mpc[t] # "off"

\* Mutant of SignupReply: the login menu is shown without reading a response.
SignupReplyNoWait ==
  /\ main = "await"
  /\ req.kind = "signup"
  /\ main' = "login"
  /\ UNCHANGED <<cur, pipe, uiTok>>

SignupReply ==
  /\ \/ Accepted("signup") /\ main' = "login"
     \/ Refused("signup") /\ main' = "menu"
  /\ UNCHANGED cur

\* A refused login returns to its caller: show_menu, or handle_logout in the
\* chat loop.
LoginReply ==
  /\ \/ Accepted("login") /\ main' = "list"
     \/ Refused("login") /\ main' = IF LoggedInBefore THEN "finish" ELSE "menu"
  /\ UNCHANGED cur

CreateReply ==
  /\ main' = AfterCommand(req.kind)
  /\ \/ Accepted("create") /\ cur' = req.chan
     \/ Refused("create") /\ UNCHANGED cur

\* Mutant of JoinReply: the channel is entered without reading a response.
JoinReplyNoWait ==
  /\ main = "await"
  /\ req.kind = "join"
  /\ main' = "finish"
  /\ cur' = req.chan
  /\ UNCHANGED <<pipe, uiTok>>

JoinReply ==
  /\ main' = AfterCommand(req.kind)
  /\ \/ Accepted("join") /\ cur' = req.chan
     \/ Refused("join") /\ UNCHANGED cur

\* Mutant of LeaveReply: the current channel is not reset.
LeaveReplyNoReset ==
  /\ main' = AfterCommand(req.kind)
  /\ Accepted("leave") \/ Refused("leave")
  /\ UNCHANGED cur

LeaveReply ==
  /\ main' = AfterCommand(req.kind)
  /\ \/ Accepted("leave") /\ cur' = NoChannel
     \/ Refused("leave") /\ UNCHANGED cur

LogoutReply ==
  /\ \/ Accepted("logout") /\ main' = "login"
     \/ Refused("logout") /\ main' = AfterCommand(req.kind)
  /\ UNCHANGED cur

\* Only the text kept for the screen depends on the response to a message.
MessageReply ==
  /\ ReadResponse("message")
  /\ main' = AfterCommand(req.kind)
  /\ UNCHANGED cur

Reply ==
  /\ uiUp
  /\ SignupReply \/ LoginReply \/ CreateReply \/ JoinReply \/ LeaveReply
     \/ LogoutReply \/ MessageReply
  /\ UNCHANGED <<req, nreq, mpc, mchunk, history, cmdPipe, sem, toServer,
                 toClient, uiUp, clientUp>>

\* The channel list is taken apart and run starts a message thread.
StartChat ==
  /\ uiUp
  /\ main = "list"
  /\ main' = "chat"
  /\ uiTok' = IF uiTok = "main" THEN "main" ELSE "spoilt"
  /\ \E t \in MsgThreads :
       /\ mpc[t] = "off"
       /\ mpc' = [mpc EXCEPT ![t] = "wait"]
  /\ UNCHANGED <<req, nreq, cur, mchunk, history, wireVars>>

\* The handlers left find no command of theirs, but take the line apart too.
FinishLine ==
  /\ uiUp
  /\ main = "finish"
  /\ main' = "chat"
  /\ uiTok' = "main"
  /\ UNCHANGED <<req, nreq, cur, mpc, mchunk, history, wireVars>>

\* End of file instead of a response: strcmp on a NULL token ends the process.
ReplyEof ==
  /\ uiUp
  /\ main = "await"
  /\ pipe = <<>>
  /\ ~clientUp
  /\ uiUp' = FALSE
  /\ UNCHANGED <<uiVars, cmdPipe, pipe, sem, toServer, toClient, clientUp>>

-----------------------------------------------------------------------------
(* A message thread.                                                       *)

\* Mutant of MsgWait: sem_trywait, with its result ignored.
MsgWaitNotBlocking(t) ==
  /\ uiUp
  /\ mpc[t] = "wait"
  /\ sem' = sem - 1
  /\ mpc' = [mpc EXCEPT ![t] = "read"]
  /\ UNCHANGED <<main, req, nreq, cur, mchunk, uiTok, history, cmdPipe, pipe,
                 toServer, toClient, uiUp, clientUp>>

MsgWait(t) ==
  /\ uiUp
  /\ mpc[t] = "wait"
  /\ sem > 0
  /\ sem' = sem - 1
  /\ mpc' = [mpc EXCEPT ![t] = "read"]
  /\ UNCHANGED <<main, req, nreq, cur, mchunk, uiTok, history, cmdPipe, pipe,
                 toServer, toClient, uiUp, clientUp>>

\* Whatever the pipe holds is taken for a message; at end of file, nothing.
MsgRead(t) ==
  /\ uiUp
  /\ mpc[t] = "read"
  /\ pipe # <<>> \/ ~clientUp
  /\ mchunk' = [mchunk EXCEPT ![t] = Chunk]
  /\ pipe' = Unread
  /\ uiTok' = t
  /\ mpc' = [mpc EXCEPT ![t] = "parse"]
  /\ UNCHANGED <<main, req, nreq, cur, history, cmdPipe, sem, toServer,
                 toClient, uiUp, clientUp>>

\* Mutant of TokenCount: the string that ends the buffer is not seen.
TokenCountShort(c) == Cardinality({n \in 1..(Len(c) - 1) : c[n].etx})

\* The number of strings strtok(_, "\3") finds in what was read.
TokenCount(c) ==
  Cardinality({n \in 1..Len(c) : c[n].etx})
    + (IF c # <<>> /\ ~c[Len(c)].etx THEN 1 ELSE 0)

\* What was read begins with a message, and has all of it.
IsWhole(c) ==
  /\ c # <<>>
  /\ c[1].word = "MSG"
  /\ c[1].part = 1
  /\ c[1].frame.intact
  /\ CellCount(c[1].frame) <= Len(c)

\* Nothing is done with what was read.
Drop == UNCHANGED <<history, uiUp>>

\* The missing time stamp of a cut message is passed to strtol.
Crash == cur # NoChannel /\ uiUp' = FALSE /\ UNCHANGED history

\* A name and a text are added to the history if a channel is joined.
Record(c, whole) ==
  /\ cur # NoChannel
  /\ history' = Append(history, [id |-> c[1].frame.id, whole |-> whole])
  /\ UNCHANGED uiUp

\* Mutant of MsgRecord: the newest message is put before the others.
MsgRecordNewestFirst(t) ==
  /\ uiUp
  /\ mpc[t] = "parse"
  /\ history' = IF cur = NoChannel \/ mchunk[t] = <<>> THEN history
                ELSE <<[id |-> mchunk[t][1].frame.id, whole |-> IsWhole(mchunk[t])]>> \o history
  /\ mpc' = [mpc EXCEPT ![t] = "wait"]
  /\ mchunk' = [mchunk EXCEPT ![t] = <<>>]
  /\ UNCHANGED <<main, req, nreq, cur, uiTok, wireVars>>

\* Mutant of MsgRecord: the thread does not go back to wait and keeps its text.
MsgRecordAgain(t) ==
  /\ uiUp
  /\ mpc[t] = "parse"
  /\ mchunk[t] # <<>>
  /\ cur # NoChannel
  /\ Len(history) < 2
  /\ history' = Append(history, [id |-> mchunk[t][1].frame.id, whole |-> IsWhole(mchunk[t])])
  /\ UNCHANGED <<main, req, nreq, cur, mpc, mchunk, uiTok, wireVars>>

\* What becomes of a text depends on the strings found in it.  With strtok's
\* position lost, the text and the time stamp are another's.
MsgRecord(t) ==
  LET c == mchunk[t]
  IN /\ uiUp
     /\ mpc[t] = "parse"
     /\ \/ /\ uiTok = t
           /\ \/ (TokenCount(c) < 2 \/ cur = NoChannel) /\ Drop
              \/ TokenCount(c) = 2 /\ Crash
              \/ TokenCount(c) > 2 /\ Record(c, IsWhole(c))
           /\ UNCHANGED uiTok
        \/ /\ uiTok # t
           /\ Drop \/ (c # <<>> /\ (Crash \/ Record(c, FALSE)))
           /\ uiTok' = "spoilt"
     /\ mpc' = [mpc EXCEPT ![t] = "wait"]
     /\ mchunk' = [mchunk EXCEPT ![t] = <<>>]
     /\ UNCHANGED <<main, req, nreq, cur, cmdPipe, pipe, sem, toServer, toClient, clientUp>>

MsgStep(t) == MsgWait(t) \/ MsgRead(t) \/ MsgRecord(t)
=============================================================================
