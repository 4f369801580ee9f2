------------------------------ MODULE ChatWire ------------------------------
(***************************************************************************)
(* What the two processes of the chat client and the server share: the    *)
(* command pipe (UI to client), the response pipe (client to UI), the     *)
(* named semaphore, the two directions of the TCP connection, and whether  *)
(* each process is still running.                                          *)
(*                                                                         *)
(* Texts are abstracted to what the code tells apart.  Every text carries  *)
(* the number of the request it answers, or of the message it delivers;    *)
(* the program has no such number, it is there to state properties.        *)
(***************************************************************************)
EXTENDS Naturals, Sequences, FiniteSets

CONSTANTS
  Channels,         \* names of chat channels
  RESPONSE_BUFFER,  \* cells one read of the response pipe can return
  ListSizes,        \* cells of the channel list that answers a login
  TextSizes         \* cells of the text of a pushed message

NoChannel == "N/A"      \* current_channel before a join
Garbled   == "garbled"  \* a name made of another buffer's characters

ASSUME WireAssumption ==
  /\ Channels \cap {NoChannel, Garbled} = {}
  /\ RESPONSE_BUFFER \in Nat \ {0}
  /\ ListSizes \subseteq Nat \ {0}
  /\ ListSizes # {}
  /\ TextSizes \subseteq Nat \ {0}

VARIABLES
  cmdPipe,   \* commands the UI has written and the client has not read
  pipe,      \* cells the client has written and the UI has not read
  sem,       \* value of the semaphore SEM_NAME
  toServer,  \* frames on their way to the server
  toClient,  \* frames on their way to the client
  uiUp,      \* the UI process is running
  clientUp   \* the client process is running

wireVars == <<cmdPipe, pipe, sem, toServer, toClient, uiUp, clientUp>>

-----------------------------------------------------------------------------
Names == Channels \cup {NoChannel, Garbled}

\* The commands the UI writes.
Kinds == {"signup", "login", "create", "join", "leave", "message", "logout"}

\* The header (type, object) of the frame that carries each command.
Opcode ==
  [signup  |-> "CREATE USER",    login |-> "CREATE AUTH",
   create  |-> "CREATE CHANNEL", message |-> "CREATE MESSAGE",
   join    |-> "UPDATE CHANNEL", leave |-> "UPDATE CHANNEL",
   logout  |-> "DESTROY AUTH"]

Ops == {Opcode[k] : k \in Kinds}

\* A command, and the frame made from it: chan is the channel it names.  A
\* command is intact as long as its fields are the ones the user asked for.
\* An "ack" is the CREATE MESSAGE frame whose body is "200".
UpFrame == [tag : {"request", "ack"}, id : Nat, kind : Kinds, chan : Names,
            intact : BOOLEAN]

Command(id, k, c) ==
  [tag |-> "request", id |-> id, kind |-> k, chan |-> c, intact |-> TRUE]

Ack(id) ==
  [tag |-> "ack", id |-> id, kind |-> "message", chan |-> NoChannel,
   intact |-> TRUE]

\* A frame of the server: code is what its first field is taken for, one of
\* the success codes, one of the failure codes, or neither (a pushed message).
\* size is the number of cells the client makes of it for the UI.
DownFrame == [op : Ops, code : {"ok", "err", "msg"}, id : Nat, size : Nat,
              intact : BOOLEAN]

-----------------------------------------------------------------------------
\* The texts the client writes for the UI, a frame each, cut in cells.
\* LIST is "OK " and the channel list, OK2 has no newline, MSG is
\* display name ETX text ETX time stamp ETX.
Wording(f) ==
  CASE f.code = "msg"                              -> "MSG"
    [] f.code = "err"                              -> "ERROR"
    [] f.code = "ok" /\ f.op = "CREATE AUTH"       -> "LIST"
    [] f.code = "ok" /\ f.op = "CREATE MESSAGE"    -> "OK2"
    [] OTHER                                       -> "OK"

Wordings == {"MSG", "ERROR", "LIST", "OK2", "OK"}

Cell == [frame : DownFrame, word : Wordings, part : Nat, etx : BOOLEAN]

\* A pushed message has a cell for its name and one for its time stamp.
CellCount(f) == IF f.code = "msg" THEN f.size + 2 ELSE f.size

\* In a pushed message an ETX closes the name, the text and the time stamp.
Text(f) ==
  [n \in 1..CellCount(f) |->
     [frame |-> f, word |-> Wording(f), part |-> n,
      etx |-> f.code = "msg" /\ (n = 1 \/ n > f.size)]]

\* Mutant of ReadSize: a full buffer keeps a place for the terminator.
ReadSizeOffByOne ==
  IF Len(pipe) < RESPONSE_BUFFER THEN Len(pipe) ELSE RESPONSE_BUFFER - 1

\* One read of the response pipe returns what is there, up to the size of
\* the reader's buffer, and leaves the rest to the next read.
ReadSize == IF Len(pipe) < RESPONSE_BUFFER THEN Len(pipe) ELSE RESPONSE_BUFFER

Chunk == SubSeq(pipe, 1, ReadSize)

Unread == SubSeq(pipe, ReadSize + 1, Len(pipe))

-----------------------------------------------------------------------------
WireTypeOK ==
  /\ cmdPipe \in Seq(UpFrame)
  /\ pipe \in Seq(Cell)
  /\ sem \in Nat
  /\ toServer \in Seq(UpFrame)
  /\ toClient \in Seq(DownFrame)
  /\ uiUp \in BOOLEAN
  /\ clientUp \in BOOLEAN

\* The UI creates both pipes empty.  The semaphore is created with value 0,
\* but sem_open takes an existing one as it is and nobody unlinks it, so it
\* starts with what earlier sessions left.
WireInit(leftover) ==
  /\ cmdPipe = <<>>
  /\ pipe = <<>>
  /\ sem \in 0..leftover
  /\ toServer = <<>>
  /\ toClient = <<>>
  /\ uiUp = TRUE
  /\ clientUp = TRUE
=============================================================================
