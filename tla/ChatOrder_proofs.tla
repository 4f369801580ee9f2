-------------------------- MODULE ChatOrder_proofs --------------------------
(***************************************************************************)
(* Proofs about orderly sessions: that OrderlyShape is inductive, and the  *)
(* safety properties that follow from it.                                  *)
(***************************************************************************)
EXTENDS ChatSession_proofs

-----------------------------------------------------------------------------
(* Texts and reads.                                                        *)

\* A text that fits in the buffer is read at once, and nothing is left.
LEMMA WholeRead ==
  ASSUME pipe \in Seq(Cell), Len(pipe) <= RESPONSE_BUFFER
  PROVE  Chunk = pipe /\ Unread = <<>>
<1>1. ReadSize = Len(pipe)
  BY WireAssumption DEF ReadSize
<1>2. Chunk = pipe
  BY <1>1 DEF Chunk
<1>3. Unread = <<>>
  BY <1>1 DEF Unread
<1> QED
  BY <1>2, <1>3

\* The first cell of a text.
LEMMA TextStart ==
  ASSUME NEW f \in DownFrame, f.size > 0
  PROVE  /\ Text(f) # <<>>
         /\ Text(f)[1].frame = f
         /\ Text(f)[1].word = Wording(f)
         /\ Text(f)[1].part = 1
         /\ Head(Text(f)) = Text(f)[1]
         /\ IsText(Text(f))
         /\ <<>> \o Text(f) = Text(f)
<1>1. CellCount(f) \in Nat /\ CellCount(f) >= 1
  BY DEF CellCount, DownFrame
<1>2. Text(f) \in Seq(Cell) /\ Len(Text(f)) = CellCount(f)
  BY TextType
<1>3. Text(f) # <<>>
  BY <1>1, <1>2
<1>4. Text(f)[1] = [frame |-> f, word |-> Wording(f), part |-> 1, etx |-> f.code = "msg"]
  BY <1>1 DEF Text
<1>5. <<>> \o Text(f) = Text(f)
  BY <1>2
<1>6. Text(f)[1].frame = f /\ Text(f)[1].word = Wording(f) /\ Text(f)[1].part = 1
  BY <1>4
<1>7. Head(Text(f)) = Text(f)[1]
  BY <1>2, <1>3
<1> QED
  BY <1>3, <1>5, <1>6, <1>7 DEF IsText

\* Three strings are found in the text of a message.
LEMMA MessageTokens ==
  ASSUME NEW f \in DownFrame, f.size > 0, f.code = "msg"
  PROVE  TokenCount(Text(f)) = 3
<1> DEFINE n == f.size
           S == {k \in 1..Len(Text(f)) : Text(f)[k].etx}
<1>1. n \in Nat /\ CellCount(f) = n + 2
  BY DEF CellCount, DownFrame
<1>2. Len(Text(f)) = n + 2
  BY <1>1, TextType
<1>3. \A k \in 1..(n + 2) : Text(f)[k].etx <=> (k = 1 \/ k > n)
  BY <1>1 DEF Text
<1>4. S = {1, n + 1, n + 2}
  <2>1. \A k \in 1..(n + 2) : (k = 1 \/ k > n) <=> k \in {1, n + 1, n + 2}
    BY <1>1
  <2>2. {1, n + 1, n + 2} \subseteq 1..(n + 2)
    BY <1>1
  <2> HIDE DEF n
  <2> QED
    BY <1>2, <1>3, <2>1, <2>2
<1>5. Cardinality({1, n + 1, n + 2}) = 3
  <2> HIDE DEF n
  <2>1. IsFiniteSet({n + 2}) /\ Cardinality({n + 2}) = 1
    BY FS_Singleton
  <2>2. n + 1 \notin {n + 2} /\ 1 \notin {n + 2} \cup {n + 1}
    BY <1>1 DEF n
  <2>3. IsFiniteSet({n + 2} \cup {n + 1}) /\ Cardinality({n + 2} \cup {n + 1}) = 2
    BY <2>1, <2>2, FS_AddElement
  <2>4. Cardinality(({n + 2} \cup {n + 1}) \cup {1}) = 3
    BY <2>2, <2>3, FS_AddElement
  <2>5. ({n + 2} \cup {n + 1}) \cup {1} = {1, n + 1, n + 2}
    OBVIOUS
  <2> QED
    BY <2>4, <2>5
<1>6. Text(f)[Len(Text(f))].etx
  <2>1. n + 2 \in 1..(n + 2) /\ n + 2 > n
    BY <1>1
  <2> HIDE DEF n
  <2> QED
    BY <1>2, <1>3, <2>1
<1>7. TokenCount(Text(f)) = Cardinality(S) + 0
  BY <1>6 DEF TokenCount
<1> HIDE DEF n, S
<1> QED
  BY <1>4, <1>5, <1>7

\* The text of a message that was not mixed up is whole.
LEMMA MessageWhole ==
  ASSUME NEW f \in DownFrame, f.size > 0, f.code = "msg", f.intact
  PROVE  IsWhole(Text(f))
<1>1. /\ Text(f) # <<>>
      /\ Text(f)[1].frame = f
      /\ Text(f)[1].word = Wording(f)
      /\ Text(f)[1].part = 1
  BY TextStart
<1>2. Wording(f) = "MSG"
  BY DEF Wording
<1>3. CellCount(f) <= Len(Text(f))
  BY TextType
<1> QED
  BY <1>1, <1>2, <1>3 DEF IsWhole

-----------------------------------------------------------------------------
(* OrderlyShape is inductive: one lemma per process.                       *)

LEMMA InitShape == Init => OrderlyShape
<1> SUFFICES ASSUME Init, Orderly
             PROVE  /\ uiUp /\ clientUp /\ cur # Garbled
                    /\ InOrder
                    /\ Between
  BY DEF OrderlyShape
<1>1. sem = 0
  BY DEF Init, Orderly
<1>2. uiUp /\ clientUp /\ cur # Garbled
  BY DEF Init, WireInit, UIInit, NoChannel, Garbled
<1>3. InOrder
  BY DEF Init, UIInit, InOrder
<1>4. Between
  BY <1>1 DEF Agree, Init, WireInit, UIInit, ClientInit, ServerInit, Between, WiresEmpty,
     ClientIdle, ThreadsAsleep
<1> QED
  BY <1>2, <1>3, <1>4

\* At rest, an orderly session is between two exchanges.
LEMMA RestShape ==
  ASSUME OrderlyShape, Orderly, AtRest
  PROVE  /\ uiUp /\ clientUp /\ cur # Garbled /\ InOrder
         /\ Between /\ main \in {"menu", "login", "chat"}
<1>1. ~Exchange
  BY DEF AtRest, Exchange, Commanded, Forwarding, Asked, Answered, Relaying, Replied, Waiting
<1>2. Delivery => Agree(cur)
  BY DEF Delivery, Sent, Taken, Written, Settling, Listening
<1>3. Between
  BY <1>1, <1>2 DEF OrderlyShape, AtRest, Between, WiresEmpty, ClientIdle, ThreadsAsleep
<1> QED
  BY <1>3 DEF OrderlyShape, AtRest

\* A command written between two exchanges begins an exchange.
LEMMA WriteShape ==
  ASSUME TypeOK, Between, clientUp, uiUp,
         NEW cmd \in UpFrame, cmd.tag = "request", cmd.intact, cmd.chan # Garbled,
         cmd.kind \in {"create", "join", "leave"} => cmd.chan \in Channels,
         Write(cmd),
         UNCHANGED <<cur, mpc, mchunk, history, pipe, sem, toServer, toClient, clientUp>>,
         UNCHANGED clientVars, UNCHANGED serverVars
  PROVE  Exchange' /\ uiUp' /\ clientUp'
<1>1. cmdPipe' = Append(<<>>, cmd) /\ req' = cmd /\ main' = "await" /\ uiUp'
  BY DEF Write, Between, WiresEmpty
<1>2. Append(<<>>, cmd) = <<cmd>>
  OBVIOUS
<1>3. Waiting'
  BY <1>1 DEF Waiting, GoodCommand, Between, ThreadsAsleep
<1>4. Commanded'
  BY <1>1, <1>2, <1>3 DEF Agree, Commanded, Between, ClientIdle, WiresEmpty, clientVars, serverVars
<1> QED
  BY <1>1, <1>4 DEF Exchange

\* What a step that leaves the history and the pushes alone keeps.
LEMMA SameHistory ==
  ASSUME UNCHANGED <<history, pushes>>, InOrder
  PROVE  InOrder'
BY DEF InOrder

LEMMA UserShape ==
  ASSUME TypeOK, OrderlyShape, User
  PROVE  OrderlyShape'
<1> SUFFICES ASSUME Orderly' PROVE OrderlyShape'
  BY DEF OrderlyShape
<1>1. Orderly /\ AtRest
  BY DEF User, Orderly
<1>2. /\ uiUp /\ clientUp /\ cur # Garbled /\ InOrder
      /\ Between /\ main \in {"menu", "login", "chat"}
  BY <1>1, RestShape
<1>3. UNCHANGED <<cur, mpc, mchunk, history, pipe, sem, toServer, toClient, clientUp>>
      /\ UNCHANGED clientVars /\ UNCHANGED serverVars
  BY DEF User, UserStep
<1>4. InOrder' /\ cur' # Garbled /\ clientUp'
  BY <1>2, <1>3, SameHistory DEF serverVars
<1>5. /\ \A k \in Kinds : Command(NextId, k, NoChannel) \in UpFrame
      /\ \A k \in Kinds, c \in Names : Command(NextId, k, c) \in UpFrame
  BY FrameTypes DEF TypeOK, UITypeOK, NextId, Names
<1>6. NoChannel # Garbled /\ \A c \in Channels : c \in Names /\ c # Garbled
  BY WireAssumption DEF NoChannel, Garbled, Names
<1>7. ASSUME NEW k \in Kinds, NEW c \in Names, c # Garbled,
             k \in {"create", "join", "leave"} => c \in Channels,
             Write(Command(NextId, k, c))
      PROVE  Exchange' /\ uiUp'
  <2> DEFINE cmd == Command(NextId, k, c)
  <2>1. cmd \in UpFrame /\ cmd.tag = "request" /\ cmd.intact /\ cmd.chan = c /\ cmd.kind = k
    BY <1>5 DEF Command
  <2> HIDE DEF cmd
  <2>2. Write(cmd)
    BY <1>7 DEF cmd
  <2> QED
    BY <1>2, <1>3, <1>7, <2>1, <2>2, WriteShape
<1>8. (Between \/ Exchange)' /\ uiUp'
  <2>1. CASE SubmitSignup
    BY <1>6, <1>7, <2>1 DEF SubmitSignup, Kinds, Names
  <2>2. CASE SubmitLogin
    BY <1>6, <1>7, <2>2 DEF SubmitLogin, Kinds, Names
  <2>3. CASE EnterLogout
    BY <1>6, <1>7, <2>3 DEF EnterLogout, Kinds, Names
  <2>4. CASE EnterMessage
    BY <1>2, <1>7, <2>4 DEF EnterMessage, Kinds, TypeOK, UITypeOK
  <2>5. CASE \E c \in Channels : EnterJoin(c)
    BY <1>6, <1>7, <2>5 DEF EnterJoin, Kinds
  <2>6. CASE EnterIgnored
    BY <1>2, <1>3, <2>6 DEF Agree, EnterIgnored, Enter, Between, WiresEmpty, ClientIdle,
       ThreadsAsleep, GoodCommand, clientVars, serverVars
  <2>7. CASE \E c \in Channels : EnterCreate(c)
    BY <1>2, <1>3, <1>6, <2>7 DEF Agree, EnterCreate, Enter, Command, Between, WiresEmpty,
       ClientIdle, ThreadsAsleep, GoodCommand, clientVars, serverVars
  <2>8. CASE \E c \in Channels : EnterLeave(c)
    BY <1>2, <1>3, <1>6, <2>8 DEF Agree, EnterLeave, Enter, Command, Between, WiresEmpty,
       ClientIdle, ThreadsAsleep, GoodCommand, clientVars, serverVars
  <2> QED
    BY <2>1, <2>2, <2>3, <2>4, <2>5, <2>6, <2>7, <2>8 DEF User, UserStep
<1> QED
  BY <1>4, <1>8 DEF OrderlyShape

\* The first cell of a sequence of cells is made from a frame.
LEMMA FirstFrame ==
  ASSUME NEW s \in Seq(Cell), s # <<>>
  PROVE  s[1].frame \in DownFrame
<1>1. s[1] \in Cell
  OBVIOUS
<1> QED
  BY <1>1 DEF Cell

\* The headers of the commands that are answered with more than a code.
LEMMA OpcodeValues ==
  ASSUME NEW k \in Kinds
  PROVE  /\ Opcode[k] = "CREATE AUTH" <=> k = "login"
         /\ Opcode[k] = "CREATE MESSAGE" <=> k = "message"
<1>1. /\ Opcode["signup"] = "CREATE USER"
      /\ Opcode["login"] = "CREATE AUTH"
      /\ Opcode["create"] = "CREATE CHANNEL"
      /\ Opcode["join"] = "UPDATE CHANNEL"
      /\ Opcode["leave"] = "UPDATE CHANNEL"
      /\ Opcode["message"] = "CREATE MESSAGE"
      /\ Opcode["logout"] = "DESTROY AUTH"
  BY DEF Opcode
<1> QED
  BY <1>1 DEF Kinds

\* In an orderly session a response is read whole, and its first string tells
\* whether the server accepted the command.
LEMMA ReplyToken ==
  ASSUME TypeOK, Replied
  PROVE  /\ Unread = <<>>
         /\ req.kind # "message" =>
              (FirstToken(req.kind) = "OK" <=> pipe[1].frame.code = "ok")
<1> DEFINE f == pipe[1].frame
<1>1. f \in DownFrame
  BY FirstFrame DEF TypeOK, WireTypeOK, Replied, IsText
<1>2. /\ pipe = Text(f) /\ f.size \in 1..RESPONSE_BUFFER
      /\ f.op = Opcode[req.kind] /\ f.code \in {"ok", "err"}
  BY DEF Replied, IsText, Responds
<1> HIDE DEF f
<1>3. f.size > 0 /\ f.size <= RESPONSE_BUFFER /\ CellCount(f) = f.size
  BY <1>2, WireAssumption DEF CellCount
<1>4. Len(pipe) <= RESPONSE_BUFFER /\ pipe \in Seq(Cell)
  BY <1>1, <1>2, <1>3, TextType
<1>5. Chunk = pipe /\ Unread = <<>>
  BY <1>4, WholeRead
<1>6. Head(Chunk).word = Wording(f) /\ Head(Chunk).part = 1
  BY <1>1, <1>2, <1>3, <1>5, TextStart
<1>7. req.kind \in Kinds
  BY DEF TypeOK, UITypeOK, UpFrame
<1>8. CASE f.code = "err"
  <2>1. Wording(f) = "ERROR"
    BY <1>8 DEF Wording
  <2> QED
    BY <1>5, <1>6, <1>8, <2>1 DEF FirstToken, f
<1>9. CASE f.code = "ok" /\ req.kind = "login"
  <2>1. f.op = "CREATE AUTH"
    BY <1>2, <1>7, <1>9, OpcodeValues
  <2>2. Wording(f) = "LIST"
    BY <1>9, <2>1 DEF Wording
  <2> QED
    BY <1>5, <1>6, <1>9, <2>2 DEF FirstToken, f
<1>10. CASE f.code = "ok" /\ req.kind \notin {"login", "message"}
  <2>1. f.op \notin {"CREATE AUTH", "CREATE MESSAGE"}
    BY <1>2, <1>7, <1>10, OpcodeValues
  <2>2. Wording(f) = "OK"
    BY <1>10, <2>1 DEF Wording
  <2> QED
    BY <1>5, <1>6, <1>10, <2>2 DEF FirstToken, f
<1> QED
  BY <1>2, <1>5, <1>8, <1>9, <1>10

\* An orderly session in which a response can be read is at that point.
LEMMA ReadsReply ==
  ASSUME OrderlyShape, Orderly, main = "await", pipe # <<>>
  PROVE  Replied
BY DEF OrderlyShape, Between, Exchange, Commanded, Forwarding, Asked, Answered, Relaying,
   WiresEmpty, Delivery, Sent, Taken, Written, Settling, Listening


\* The UI takes over what the server answered.
LEMMA ReplyOutcome ==
  ASSUME TypeOK, OrderlyShape, Orderly, Reply
  PROVE  /\ cur' = Outcome(req, pipe[1].frame.code = "ok", cur) /\ cur' # Garbled
         /\ main' \in {"login", "menu", "list", "finish", "chat"}
<1>1. main = "await" /\ pipe # <<>> /\ pipe' = Unread /\ uiTok' = "main"
  BY DEF Reply, SignupReply, LoginReply, CreateReply, JoinReply, LeaveReply, LogoutReply,
     MessageReply, Accepted, Refused, ReadResponse
<1>2. Replied
  BY <1>1, ReadsReply
<1> DEFINE ok == pipe[1].frame.code = "ok"
<1>3. /\ pipe' = <<>>
      /\ req.kind # "message" => (FirstToken(req.kind) = "OK" <=> ok)
  BY <1>1, <1>2, ReplyToken
<1>4. Agree(Outcome(req, ok, cur)) /\ req.chan # Garbled /\ cur # Garbled
  BY <1>2 DEF Replied, Responds, Waiting, GoodCommand, OrderlyShape
<1>5. NoChannel # Garbled
  BY DEF NoChannel, Garbled
<1> HIDE DEF ok
<1>6. cur' = Outcome(req, ok, cur) /\ cur' # Garbled /\ main' \in {"login", "menu", "list", "finish", "chat"}
  <2>1. CASE SignupReply
    BY <1>4, <2>1 DEF SignupReply, Accepted, Refused, ReadResponse, Outcome
  <2>2. CASE LoginReply
    BY <1>4, <2>2 DEF LoginReply, Accepted, Refused, ReadResponse, Outcome
  <2>3. CASE CreateReply
    BY <1>3, <1>4, <2>3 DEF CreateReply, Accepted, Refused, ReadResponse, Outcome, AfterCommand
  <2>4. CASE JoinReply
    BY <1>3, <1>4, <2>4 DEF JoinReply, Accepted, Refused, ReadResponse, Outcome, AfterCommand
  <2>5. CASE LeaveReply
    BY <1>3, <1>4, <1>5, <2>5 DEF LeaveReply, Accepted, Refused, ReadResponse, Outcome,
       AfterCommand
  <2>6. CASE LogoutReply
    BY <1>4, <2>6 DEF LogoutReply, Accepted, Refused, ReadResponse, Outcome, AfterCommand
  <2>7. CASE MessageReply
    BY <1>4, <2>7 DEF MessageReply, ReadResponse, Outcome, AfterCommand
  <2> QED
    BY <2>1, <2>2, <2>3, <2>4, <2>5, <2>6, <2>7 DEF Reply
<1> QED
  BY <1>6 DEF ok

\* A reply ends the exchange.
LEMMA ReplyShape ==
  ASSUME TypeOK, OrderlyShape, Orderly, Reply, UNCHANGED clientVars, UNCHANGED serverVars
  PROVE  Between' /\ cur' # Garbled
<1>1. main = "await" /\ pipe # <<>> /\ pipe' = Unread /\ uiTok' = "main"
  BY DEF Reply, SignupReply, LoginReply, CreateReply, JoinReply, LeaveReply, LogoutReply,
     MessageReply, Accepted, Refused, ReadResponse
<1>2. Replied
  BY <1>1, ReadsReply
<1> DEFINE ok == pipe[1].frame.code = "ok"
<1>3. pipe' = <<>>
  BY <1>1, <1>2, ReplyToken
<1>4. Agree(Outcome(req, ok, cur))
  BY <1>2 DEF Replied, Responds
<1>6. cur' = Outcome(req, ok, cur) /\ cur' # Garbled /\ main' \in {"login", "menu", "list", "finish", "chat"}
  BY ReplyOutcome
<1> HIDE DEF ok
<1>7. UNCHANGED <<members, forgot>> /\ Agree(cur)'
  BY <1>4, <1>6 DEF Agree, serverVars
<1> QED
  BY <1>1, <1>2, <1>3, <1>6, <1>7 DEF Reply, Replied, Waiting, Between, WiresEmpty, ClientIdle,
     ThreadsAsleep, clientVars, serverVars

LEMMA UIMainShape ==
  ASSUME TypeOK, OrderlyShape, UIMain
  PROVE  OrderlyShape'
<1> SUFFICES ASSUME Orderly' PROVE OrderlyShape'
  BY DEF OrderlyShape
<1>1. Orderly /\ uiUp /\ clientUp /\ cur # Garbled /\ InOrder
      /\ UNCHANGED clientVars /\ UNCHANGED serverVars
  BY DEF UIMain, Orderly, OrderlyShape
<1>2. ASSUME main \in {"create", "leave", "list", "finish"} PROVE Between
  BY <1>1, <1>2 DEF OrderlyShape, Exchange, Commanded, Forwarding, Asked, Answered,
     Relaying, Replied, Waiting, Delivery, Sent, Taken, Written, Settling, Listening
<1>3. CASE TakeArgumentsStep
  <2>1. Between /\ GoodCommand /\ uiTok = "main"
    BY <1>2, <1>3 DEF TakeArgumentsStep, TakeArguments, Between
  <2>2. /\ Write(req)
        /\ UNCHANGED <<cur, mpc, mchunk, history, pipe, sem, toServer, toClient, clientUp>>
    BY <1>3, <2>1 DEF TakeArgumentsStep, TakeArguments
  <2>3. /\ req \in UpFrame /\ req.tag = "request" /\ req.intact /\ req.chan # Garbled
        /\ req.kind \in {"create", "join", "leave"} => req.chan \in Channels
    BY <2>1 DEF TypeOK, UITypeOK, GoodCommand
  <2>4. Exchange' /\ uiUp' /\ clientUp'
    BY <1>1, <2>1, <2>2, <2>3, WriteShape
  <2> QED
    BY <1>1, <2>2, <2>4, SameHistory DEF OrderlyShape, serverVars
<1>4. CASE Reply
  <2>1. Between' /\ cur' # Garbled
    BY <1>1, <1>4, ReplyShape
  <2> QED
    BY <1>1, <1>4, <2>1, SameHistory DEF Reply, OrderlyShape, serverVars
<1>5. CASE StartChat
  <2>1. Between
    BY <1>2, <1>5 DEF StartChat
  <2>2. \A t \in MsgThreads : mpc'[t] \in {"off", "wait"}
    BY <1>5, <2>1 DEF StartChat, Between, ThreadsAsleep, TypeOK, UITypeOK
  <2>3. Between'
    BY <1>1, <1>5, <2>1, <2>2 DEF Agree, StartChat, Between, WiresEmpty, ClientIdle, ThreadsAsleep,
       clientVars, serverVars, wireVars
  <2> QED
    BY <1>1, <1>5, <2>3, SameHistory DEF StartChat, OrderlyShape, serverVars, wireVars
<1>6. CASE FinishLine
  <2>1. Between'
    BY <1>1, <1>2, <1>6 DEF Agree, FinishLine, Between, WiresEmpty, ClientIdle, ThreadsAsleep,
       clientVars, serverVars, wireVars
  <2> QED
    BY <1>1, <1>6, <2>1, SameHistory DEF FinishLine, OrderlyShape, serverVars, wireVars
<1>7. CASE ReplyEof
  BY <1>1, <1>7 DEF ReplyEof
<1> QED
  BY <1>3, <1>4, <1>5, <1>6, <1>7 DEF UIMain

\* A message thread that has been woken or is at work is delivering a message.
LEMMA ThreadAtWork ==
  ASSUME OrderlyShape, Orderly, NEW t \in MsgThreads,
         sem > 0 \/ mpc[t] \in {"read", "parse"}
  PROVE  /\ Listening /\ Acknowledging
         /\ sem > 0 => Posted
         /\ mpc[t] = "read" => Posted \/ Woken(t)
         /\ mpc[t] = "parse" => Posted \/ Parsing(t)
<1>1. ~ThreadsAsleep
  BY DEF ThreadsAsleep
<1>2. ~Between /\ ~Exchange /\ ~Sent /\ ~Taken /\ ~Written
  BY <1>1 DEF Between, Exchange, Commanded, Forwarding, Asked, Answered, Relaying, Replied,
     Waiting, Sent, Taken, Written
<1>3. Settling
  BY <1>2 DEF OrderlyShape, Delivery
<1>4. Posted \/ \E u \in MsgThreads : Woken(u) \/ Parsing(u)
  BY <1>1, <1>3 DEF Settling
<1>5. ASSUME NEW u \in MsgThreads, Woken(u)
      PROVE  sem = 0 /\ mpc[t] # "parse" /\ (mpc[t] = "read" => u = t)
  BY <1>5 DEF Woken
<1>6. ASSUME NEW u \in MsgThreads, Parsing(u)
      PROVE  sem = 0 /\ mpc[t] # "read" /\ (mpc[t] = "parse" => u = t)
  BY <1>6 DEF Parsing
<1> QED
  BY <1>3, <1>4, <1>5, <1>6 DEF Settling

\* A message is read whole by the thread that was woken.
LEMMA MessageRead ==
  ASSUME TypeOK, IsText(pipe), Delivers(pipe[1].frame)
  PROVE  Chunk = pipe /\ Unread = <<>>
<1> DEFINE f == pipe[1].frame
<1>1. f \in DownFrame
  BY FirstFrame DEF TypeOK, WireTypeOK, IsText
<1>2. pipe = Text(f) /\ f.code = "msg" /\ f.size + 2 <= RESPONSE_BUFFER
  BY DEF IsText, Delivers
<1> HIDE DEF f
<1>3. CellCount(f) = f.size + 2
  BY <1>2 DEF CellCount
<1>4. Len(pipe) <= RESPONSE_BUFFER /\ pipe \in Seq(Cell)
  BY <1>1, <1>2, <1>3, TextType
<1> QED
  BY <1>4, WholeRead

LEMMA UIMessageShape ==
  ASSUME TypeOK, OrderlyShape, NEW t \in MsgThreads, UIMessage(t)
  PROVE  OrderlyShape'
<1> SUFFICES ASSUME Orderly' PROVE OrderlyShape'
  BY DEF OrderlyShape
<1>1. Orderly /\ uiUp /\ clientUp /\ cur # Garbled /\ InOrder
      /\ UNCHANGED clientVars /\ UNCHANGED serverVars
  BY DEF UIMessage, Orderly, OrderlyShape
<1>2. mpc \in [MsgThreads -> MsgStates] /\ mchunk \in [MsgThreads -> Seq(Cell)]
  BY DEF TypeOK, UITypeOK
<1>3. CASE MsgWait(t)
  <2>1. Listening /\ Acknowledging /\ Posted
    BY <1>1, <1>3, ThreadAtWork DEF MsgWait
  <2>2. Woken(t)'
    <3>1. sem' = 0 /\ mpc'[t] = "read"
      BY <1>2, <1>3, <2>1 DEF MsgWait, Posted
    <3>2. \A u \in MsgThreads \ {t} : mpc'[u] \in {"off", "wait"}
      BY <1>2, <1>3, <2>1 DEF MsgWait, Posted
    <3>3. IsText(pipe') /\ Delivers(pipe[1].frame)' /\ pipe' = pipe
      BY <1>1, <1>3, <2>1 DEF MsgWait, Posted, Delivers, serverVars
    <3> QED
      BY <3>1, <3>2, <3>3 DEF Woken
  <2>3. Listening' /\ Acknowledging'
    BY <1>1, <1>3, <2>1 DEF Agree, MsgWait, Listening, Acknowledging, clientVars, serverVars
  <2> QED
    BY <1>1, <1>3, <2>2, <2>3, SameHistory
       DEF MsgWait, OrderlyShape, Delivery, Settling, serverVars
<1>4. CASE MsgRead(t)
  <2>1. Listening /\ Acknowledging /\ Woken(t)
    BY <1>1, <1>4, ThreadAtWork DEF MsgRead, Posted
  <2>2. Chunk = pipe /\ Unread = <<>>
    BY <2>1, MessageRead DEF Woken
  <2>3. mchunk'[t] = pipe /\ pipe' = <<>> /\ uiTok' = t
    BY <1>2, <1>4, <2>2 DEF MsgRead
  <2>4. Parsing(t)'
    BY <1>1, <1>2, <1>4, <2>1, <2>3 DEF MsgRead, Woken, Parsing, IsText, Delivers, serverVars
  <2>5. Listening' /\ Acknowledging'
    BY <1>1, <1>4, <2>1 DEF Agree, MsgRead, Listening, Acknowledging, clientVars, serverVars
  <2> QED
    BY <1>1, <1>4, <2>4, <2>5, SameHistory
       DEF MsgRead, OrderlyShape, Delivery, Settling, serverVars
<1>5. CASE MsgRecord(t)
  <2> DEFINE c == mchunk[t]
             f == c[1].frame
  <2>1. Listening /\ Acknowledging /\ Parsing(t)
    BY <1>1, <1>5, ThreadAtWork DEF MsgRecord, Posted
  <2>2. f \in DownFrame /\ c = Text(f) /\ Delivers(f)
    BY <1>2, <2>1, FirstFrame DEF Parsing, IsText
  <2>3. TokenCount(c) = 3 /\ IsWhole(c)
    BY <2>2, MessageTokens, MessageWhole DEF Delivers
  <2>4. Drop \/ Record(c, TRUE)
    <3>1. uiTok = t
      BY <2>1 DEF Parsing
    <3>2. ~(TokenCount(mchunk[t]) < 2) /\ TokenCount(mchunk[t]) # 2
      BY <2>3
    <3>3. Drop \/ Record(mchunk[t], IsWhole(mchunk[t]))
      BY <1>5, <3>1, <3>2, Zenon DEF MsgRecord
    <3>4. IsWhole(mchunk[t]) = TRUE
      BY <2>3 DEF IsWhole
    <3> QED
      BY <3>3, <3>4, Zenon
  <2>5. uiUp'
    BY <1>1, <2>4 DEF Drop, Record
  <2>6. InOrder'
    <3>1. CASE Drop
      BY <1>1, <3>1, SameHistory DEF Drop, serverVars
    <3>2. CASE Record(c, TRUE)
      <4>1. history' = Append(history, [id |-> f.id, whole |-> TRUE])
        BY <3>2 DEF Record
      <4>2. f.id = pushes /\ \A n \in DOMAIN history : history[n].id < pushes
        BY <2>2 DEF Delivers
      <4>3. history \in Seq([id : Nat, whole : BOOLEAN]) /\ pushes \in Nat /\ pushes' = pushes
        BY <1>1 DEF TypeOK, UITypeOK, ServerTypeOK, serverVars
      <4> HIDE DEF f, c
      <4> QED
        BY <1>1, <4>1, <4>2, <4>3 DEF InOrder
    <3> QED
      BY <2>4, <3>1, <3>2
  <2>7. ThreadsAsleep' /\ pipe' = <<>>
    BY <1>2, <1>5, <2>1 DEF MsgRecord, Parsing, ThreadsAsleep
  <2>8. Listening' /\ Acknowledging'
    BY <1>1, <1>5, <2>1 DEF Agree, MsgRecord, Listening, Acknowledging, clientVars, serverVars
  <2> QED
    BY <1>1, <1>5, <2>5, <2>6, <2>7, <2>8
       DEF MsgRecord, OrderlyShape, Delivery, Settling, serverVars
<1> QED
  BY <1>3, <1>4, <1>5 DEF UIMessage, MsgStep

LEMMA ClientUIShape ==
  ASSUME TypeOK, OrderlyShape, ClientUI
  PROVE  OrderlyShape'
<1> SUFFICES ASSUME Orderly' PROVE OrderlyShape'
  BY DEF OrderlyShape
<1>1. /\ Orderly /\ uiUp /\ clientUp /\ cur # Garbled /\ InOrder
      /\ UNCHANGED uiVars /\ UNCHANGED serverVars
      /\ UNCHANGED <<spc, sframe, pipe, sem, toClient, uiUp>>
  BY DEF ClientUI, HandleUi, Orderly, OrderlyShape
<1>2. uiUp' /\ cur' # Garbled /\ InOrder'
  BY <1>1, SameHistory DEF uiVars, serverVars
<1>3. CASE ReadCommand
  <2>1. Commanded
    BY <1>1, <1>3 DEF ReadCommand, OrderlyShape, Between, WiresEmpty, Exchange, Forwarding,
       Asked, Answered, Relaying, Replied, Delivery, Sent, Taken, Written, Settling, Listening
  <2>2. Head(cmdPipe) = req /\ Len(cmdPipe) = 1
    BY <2>1 DEF Commanded
  <2>3. ureq' = req /\ cmdPipe' = <<>> /\ cliTok' = "ui" /\ upc' = "type"
    BY <1>3, <2>2 DEF ReadCommand
  <2>4. Forwarding'
    BY <1>1, <1>3, <2>1, <2>3 DEF Agree, ReadCommand, Commanded, Forwarding, Waiting, GoodCommand,
       ThreadsAsleep, ClientIdle, WiresEmpty, uiVars, serverVars
  <2> QED
    BY <1>1, <1>2, <1>3, <2>4 DEF ReadCommand, OrderlyShape, Exchange
<1>4. CASE ReadCommandEof
  BY <1>1, <1>4 DEF ReadCommandEof
<1>5. ASSUME upc \in {"type", "fields"}
      PROVE  Forwarding
  BY <1>1, <1>5 DEF OrderlyShape, Between, ClientIdle, Exchange, Commanded, Asked, Answered,
     Relaying, Replied, Delivery, Sent, Taken, Written, Settling, Listening
<1>6. CASE TakeType
  <2>1. Forwarding
    BY <1>5, <1>6 DEF TakeType
  <2>2. upc' = "fields" /\ UNCHANGED <<cliTok, clientUp, ureq, cmdPipe, toServer>>
    BY <1>6, <2>1 DEF TakeType, Forwarding
  <2>3. Forwarding'
    BY <1>1, <2>1, <2>2 DEF Agree, Forwarding, Waiting, GoodCommand, ThreadsAsleep, WiresEmpty,
       uiVars, serverVars
  <2> QED
    BY <1>1, <1>2, <2>2, <2>3 DEF OrderlyShape, Exchange
<1>7. CASE TakeFields
  <2>1. Forwarding
    BY <1>5, <1>7 DEF TakeFields
  <2>2. /\ upc' = "read"
        /\ toServer' = Append(<<>>, req)
        /\ UNCHANGED <<clientUp, cmdPipe>>
    BY <1>7, <2>1 DEF TakeFields, Forwarding, WiresEmpty
  <2>3. toServer' = <<req>>
    BY <2>2
  <2>4. Asked'
    BY <1>1, <2>1, <2>2, <2>3 DEF Agree, Forwarding, Asked, Waiting, GoodCommand, ThreadsAsleep,
       WiresEmpty, ClientIdle, uiVars, serverVars
  <2> QED
    BY <1>1, <1>2, <2>2, <2>4 DEF OrderlyShape, Exchange
<1> QED
  BY <1>3, <1>4, <1>6, <1>7 DEF ClientUI, HandleUi

\* Writing a whole text to an empty pipe fills it with that text.
LEMMA WriteTextShape ==
  ASSUME TypeOK, uiUp, pipe = <<>>, sframe.size > 0, NEW next, WriteText(sframe, next)
  PROVE  /\ IsText(pipe') /\ pipe'[1].frame = sframe
         /\ spc' = next /\ UNCHANGED clientUp
<1>1. sframe \in DownFrame
  BY DEF TypeOK, ClientTypeOK
<1>2. pipe' = <<>> \o Text(sframe) /\ spc' = next /\ UNCHANGED clientUp
  BY DEF WriteText
<1>3. pipe' = Text(sframe)
  BY <1>1, <1>2, TextStart
<1> QED
  BY <1>1, <1>2, <1>3, TextStart

LEMMA ClientServerShape ==
  ASSUME TypeOK, OrderlyShape, ClientServer
  PROVE  OrderlyShape'
<1> SUFFICES ASSUME Orderly' PROVE OrderlyShape'
  BY DEF OrderlyShape
<1>1. /\ Orderly /\ uiUp /\ clientUp /\ cur # Garbled /\ InOrder
      /\ UNCHANGED uiVars /\ UNCHANGED serverVars
      /\ UNCHANGED <<upc, ureq, cmdPipe, uiUp>>
  BY DEF ClientServer, HandleServer, Orderly, OrderlyShape
<1>2. uiUp' /\ cur' # Garbled /\ InOrder'
  BY <1>1, SameHistory DEF uiVars, serverVars
<1>3. CASE ReceiveFrame
  <2>1. Answered \/ Sent
    BY <1>1, <1>3 DEF ReceiveFrame, OrderlyShape, Between, WiresEmpty, Exchange, Commanded,
       Forwarding, Asked, Relaying, Replied, Delivery, Taken, Written, Settling, Acknowledging
  <2>2. Len(toClient) = 1
    BY <2>1 DEF Answered, Sent
  <2>3. /\ sframe' = toClient[1] /\ toClient' = <<>>
        /\ cliTok' = "server" /\ spc' = "parse"
    BY <1>3, <2>2 DEF ReceiveFrame, TypeOK, WireTypeOK
  <2>4. CASE Answered
    <3>1. Relaying'
      BY <1>1, <1>3, <2>3, <2>4 DEF Agree, ReceiveFrame, Answered, Relaying, Waiting, GoodCommand,
         ThreadsAsleep, WiresEmpty, ClientIdle, Responds, uiVars, serverVars
    <3> QED
      BY <1>1, <1>2, <1>3, <3>1 DEF ReceiveFrame, OrderlyShape, Exchange
  <2>5. CASE Sent
    <3>1. Taken'
      BY <1>1, <1>3, <2>3, <2>5 DEF Agree, ReceiveFrame, Sent, Taken, Listening, ThreadsAsleep,
         WiresEmpty, Delivers, uiVars, serverVars
    <3> QED
      BY <1>1, <1>2, <1>3, <3>1 DEF ReceiveFrame, OrderlyShape, Delivery
  <2> QED
    BY <2>1, <2>4, <2>5
<1>4. ASSUME spc = "parse"
      PROVE  Relaying \/ Taken
  BY <1>1, <1>4 DEF OrderlyShape, Between, ClientIdle, Exchange, Commanded, Forwarding, Asked,
     Answered, Replied, Delivery, Sent, Written, Settling, Acknowledging
<1>5. ASSUME Relaying, WriteText(sframe, "recv"), UNCHANGED <<sframe, toClient, sem, toServer>>
      PROVE  OrderlyShape'
  <2>1. sframe.size > 0 /\ pipe = <<>>
    BY <1>5 DEF Relaying, Responds, WiresEmpty
  <2>2. IsText(pipe') /\ pipe'[1].frame = sframe /\ spc' = "recv" /\ UNCHANGED clientUp
    BY <1>1, <1>5, <2>1, WriteTextShape
  <2>3. Responds(sframe)'
    BY <1>1, <1>5 DEF Agree, Relaying, Responds, uiVars, serverVars
  <2>4. Replied'
    BY <1>1, <1>5, <2>2, <2>3 DEF Relaying, Replied, Waiting, GoodCommand, ThreadsAsleep,
       WiresEmpty, ClientIdle, Responds, uiVars, serverVars
  <2> QED
    BY <1>1, <1>2, <2>2, <2>4 DEF OrderlyShape, Exchange
<1>6. CASE RelayCode
  <2>1. Relaying
    BY <1>4, <1>6 DEF RelayCode, Taken, Delivers
  <2> QED
    BY <1>5, <1>6, <2>1 DEF RelayCode
<1>7. CASE RelayList
  <2>1. Relaying
    BY <1>4, <1>7 DEF RelayList, RelayFields, Taken, Delivers
  <2> QED
    BY <1>5, <1>7, <2>1 DEF RelayList, RelayFields, Relaying
<1>8. CASE RelayMessage
  <2>1. Taken
    BY <1>4, <1>8 DEF RelayMessage, RelayFields, Relaying, Responds
  <2>2. /\ WriteText(sframe, "post")
        /\ UNCHANGED <<sframe, toClient, sem, toServer>>
    BY <1>8, <2>1 DEF RelayMessage, RelayFields, Taken
  <2>3. sframe.size > 0 /\ pipe = <<>>
    BY <2>1 DEF Taken, Delivers, WiresEmpty
  <2>4. IsText(pipe') /\ pipe'[1].frame = sframe /\ spc' = "post" /\ UNCHANGED clientUp
    BY <1>1, <2>2, <2>3, WriteTextShape
  <2>5. Delivers(sframe)' /\ sframe'.id = pushes'
    BY <1>1, <2>1, <2>2 DEF Taken, Delivers, uiVars, serverVars
  <2>6. Written'
    BY <1>1, <2>1, <2>2, <2>4, <2>5 DEF Agree, Taken, Written, Listening, ThreadsAsleep, WiresEmpty,
       Delivers, uiVars, serverVars
  <2> QED
    BY <1>1, <1>2, <2>4, <2>6 DEF OrderlyShape, Delivery
<1>9. CASE PostMessage
  <2>1. Written
    BY <1>1, <1>9 DEF PostMessage, OrderlyShape, Between, ClientIdle, Exchange, Commanded,
       Forwarding, Asked, Answered, Relaying, Replied, Delivery, Sent, Taken, Settling,
       Acknowledging
  <2>2. Posted'
    <3>1. sem' = 1 /\ pipe' = pipe
      BY <1>9, <2>1 DEF PostMessage, Written, ThreadsAsleep
    <3>2. \A t \in MsgThreads : mpc'[t] \in {"off", "wait"}
      BY <1>1, <2>1 DEF Written, ThreadsAsleep, uiVars
    <3>3. IsText(pipe') /\ Delivers(pipe[1].frame)'
      BY <1>1, <2>1, <3>1 DEF Written, Delivers, uiVars, serverVars
    <3> QED
      BY <3>1, <3>2, <3>3 DEF Posted
  <2>3. Listening' /\ Acknowledging'
    BY <1>1, <1>9, <2>1 DEF Agree, PostMessage, Written, Listening, Acknowledging, uiVars, serverVars
  <2> QED
    BY <1>1, <1>2, <1>9, <2>2, <2>3 DEF PostMessage, OrderlyShape, Delivery, Settling
<1>10. CASE AckMessage
  <2>1. Settling /\ sframe.id = pushes /\ toServer = <<>>
    BY <1>1, <1>10 DEF AckMessage, OrderlyShape, Between, ClientIdle, Exchange, Commanded,
       Forwarding, Asked, Answered, Relaying, Replied, Delivery, Sent, Taken, Written,
       Settling, Acknowledging
  <2>2. toServer' = <<Ack(pushes)>>
    BY <1>10, <2>1 DEF AckMessage
  <2>3. Listening' /\ Acknowledging'
    BY <1>1, <1>10, <2>1, <2>2 DEF Agree, AckMessage, Settling, Listening, Acknowledging, uiVars,
       serverVars
  <2>4. Settling'
    BY <1>1, <1>10, <2>1, <2>3 DEF AckMessage, Settling, Posted, Woken, Parsing,
       ThreadsAsleep, Delivers, uiVars, serverVars
  <2> QED
    BY <1>1, <1>2, <1>10, <2>4 DEF AckMessage, OrderlyShape, Delivery
<1> QED
  BY <1>3, <1>6, <1>7, <1>8, <1>9, <1>10 DEF ClientServer, HandleServer

\* The elements of a sequence are of its type.
LEMMA ElementsOf ==
  ASSUME NEW S, NEW s \in Seq(S)
  PROVE  \A n \in DOMAIN s : s[n] \in S
OBVIOUS

LEMMA ServerShape ==
  ASSUME TypeOK, OrderlyShape, ServerAnswer \/ ServerTakeAck \/ ServerPush
  PROVE  OrderlyShape'
<1> SUFFICES ASSUME Orderly' PROVE OrderlyShape'
  BY DEF OrderlyShape
<1>1. Orderly
  BY DEF ServerAnswer, ServerTakeAck, ServerPush, Orderly
<1>2. /\ uiUp /\ clientUp /\ cur # Garbled /\ InOrder
      /\ UNCHANGED uiVars /\ UNCHANGED clientVars
      /\ UNCHANGED <<cmdPipe, pipe, sem, uiUp, clientUp>>
  BY <1>1 DEF ServerAnswer, Answer, ServerTakeAck, TakeAck, ServerPush, Push, OrderlyShape
<1>3. ASSUME toServer # <<>>
      PROVE  Asked \/ (Settling /\ toServer = <<Ack(pushes)>>)
  BY <1>1, <1>3 DEF OrderlyShape, Between, WiresEmpty, Exchange, Commanded, Forwarding,
     Answered, Relaying, Replied, Delivery, Sent, Taken, Written, Settling, Acknowledging
<1>4. CASE ServerAnswer
  <2>1. PICK ok \in BOOLEAN, size \in ListSizes \cup {1} :
          Answer(ok, size) /\ fits' = (fits /\ size <= RESPONSE_BUFFER)
    BY <1>4 DEF ServerAnswer
  <2>2. Asked
    BY <1>3, <2>1 DEF Answer, Ack
  <2>3. Head(toServer) = req /\ Tail(toServer) = <<>> /\ toClient = <<>>
    BY <2>2 DEF Asked
  <2>4. toServer' = <<>> /\ toClient' = <<Response(req, ok, size)>>
    BY <2>1, <2>3 DEF Answer
  <2>5. size \in 1..RESPONSE_BUFFER
    <3>1. size \in Nat \ {0} /\ RESPONSE_BUFFER \in Nat \ {0}
      BY <2>1, WireAssumption
    <3>2. fits'
      BY DEF Orderly
    <3>3. size <= RESPONSE_BUFFER
      BY <2>1, <3>2
    <3> QED
      BY <3>1, <3>3
  <2>6. UNCHANGED <<history, pushes>>
    BY <1>2, <2>1 DEF Answer, uiVars
  <2>11. /\ Agree(cur) /\ members' \in Granted(req, ok, members)
         /\ forgot' = (forgot \/ (ok /\ req.kind = "logout" /\ members' # members))
    BY <2>1, <2>2, <2>3 DEF Answer, Asked
  <2>12. Agree(Outcome(req, ok, cur))'
    <3>1. UNCHANGED <<req, cur>>
      BY <1>2 DEF uiVars
    <3>2. CASE ok /\ req.kind \in {"create", "join"}
      BY <2>11, <3>1, <3>2 DEF Granted, Outcome, Agree
    <3>3. CASE ok /\ req.kind = "leave"
      BY <3>1, <3>3 DEF Outcome, Agree
    <3>4. CASE ok /\ req.kind = "logout"
      BY <2>11, <3>1, <3>4 DEF Granted, Outcome, Agree
    <3>5. CASE ~ok \/ req.kind \notin {"create", "join", "leave", "logout"}
      BY <2>11, <3>1, <3>5 DEF Granted, Outcome, Agree
    <3> QED
      BY <3>2, <3>3, <3>4, <3>5
  <2>7. Len(toClient') = 1 /\ toClient'[1] = Response(req, ok, size)
    BY <2>4
  <2>8. Responds(toClient[1])'
    <3>1. (Response(req, ok, size).code = "ok") = ok
      BY DEF Response
    <3>2. UNCHANGED <<req, cur>>
      BY <1>2 DEF uiVars
    <3> QED
      BY <2>5, <2>12, <2>7, <3>1, <3>2 DEF Responds, Response, Outcome, Agree
  <2>9. Answered'
    BY <1>2, <2>2, <2>4, <2>7, <2>8 DEF Asked, Answered, Waiting, GoodCommand, ThreadsAsleep,
       ClientIdle, uiVars, clientVars
  <2> QED
    BY <1>2, <2>6, <2>9, SameHistory DEF OrderlyShape, Exchange, uiVars
<1>5. CASE ServerTakeAck
  <2>1. Settling /\ toServer = <<Ack(pushes)>>
    BY <1>3, <1>5 DEF ServerTakeAck, TakeAck, Asked, Waiting, GoodCommand
  <2>2. toServer' = <<>> /\ UNCHANGED <<online, members, forgot, pushes, toClient>>
    BY <1>5, <2>1 DEF ServerTakeAck, TakeAck
  <2>3. Listening' /\ Acknowledging'
    BY <1>2, <2>1, <2>2 DEF Agree, Settling, Listening, Acknowledging, Ack, uiVars, clientVars
  <2>4. Settling'
    BY <1>2, <2>1, <2>2, <2>3 DEF Settling, Posted, Woken, Parsing, ThreadsAsleep, Delivers,
       uiVars
  <2> QED
    BY <1>2, <2>2, <2>4, SameHistory DEF OrderlyShape, Delivery, uiVars
<1>6. CASE ServerPush
  <2>1. PICK size \in TextSizes :
          Push(size) /\ fits' = (fits /\ size + 2 <= RESPONSE_BUFFER)
    BY <1>6 DEF ServerPush
  <2>2. AtRest
    BY <1>6 DEF ServerPush, Orderly
  <2>3. Between /\ main \in {"menu", "login", "chat"} /\ InOrder
    BY <1>1, <2>2, RestShape
  <2>4. /\ toClient' = <<Pushed(pushes + 1, size)>>
        /\ pushes' = pushes + 1 /\ UNCHANGED <<members, forgot, toServer>>
    BY <2>1, <2>2 DEF Push, AtRest
  <2>5. Len(toClient') = 1 /\ toClient'[1] = Pushed(pushes + 1, size)
    BY <2>4
  <2>6. size > 0 /\ size + 2 <= RESPONSE_BUFFER
    <3>1. size \in Nat \ {0}
      BY <2>1, WireAssumption
    <3>2. fits'
      BY DEF Orderly
    <3>3. size + 2 <= RESPONSE_BUFFER
      BY <2>1, <3>2
    <3> QED
      BY <3>1, <3>3
  <2>7. pushes \in Nat /\ history \in Seq([id : Nat, whole : BOOLEAN]) /\ history' = history
    BY <1>2 DEF TypeOK, UITypeOK, ServerTypeOK, uiVars
  <2>8. InOrder' /\ \A n \in DOMAIN history' : history'[n].id < pushes'
    <3>1. \A n \in DOMAIN history : history[n] \in [id : Nat, whole : BOOLEAN]
      BY <2>7, ElementsOf
    <3>2. \A n \in DOMAIN history : history[n].id \in Nat
      BY <3>1
    <3> QED
      BY <2>3, <2>4, <2>7, <3>2 DEF InOrder
  <2>9. Delivers(toClient[1])'
    BY <2>4, <2>5, <2>6, <2>8 DEF Delivers, Pushed
  <2>10. Sent'
    BY <1>2, <2>3, <2>4, <2>5, <2>7, <2>9 DEF Agree, Between, Sent, Listening, ThreadsAsleep,
       WiresEmpty, ClientIdle, uiVars, clientVars
  <2> QED
    BY <1>2, <2>8, <2>10 DEF OrderlyShape, Delivery, uiVars
<1> QED
  BY <1>4, <1>5, <1>6

-----------------------------------------------------------------------------
(* The theorems.                                                           *)

\* A step that changes nothing leaves the shape as it is.
LEMMA StutterShape ==
  ASSUME OrderlyShape, UNCHANGED vars
  PROVE  OrderlyShape'
<1> SUFFICES ASSUME Orderly' PROVE OrderlyShape'
  BY DEF OrderlyShape
<1>1. UNCHANGED uiVars /\ UNCHANGED clientVars /\ UNCHANGED serverVars
      /\ UNCHANGED <<cmdPipe, pipe, sem, toServer, toClient, uiUp, clientUp, serial, fits>>
  BY DEF vars, wireVars
<1>2. Orderly /\ uiUp' /\ clientUp' /\ cur' # Garbled /\ InOrder'
  BY <1>1, SameHistory DEF Orderly, OrderlyShape, uiVars, serverVars
<1>3. CASE Between
  <2>1. Between'
    BY <1>1, <1>3 DEF Agree, Between, GoodCommand, ThreadsAsleep, ClientIdle, WiresEmpty, uiVars,
       clientVars, serverVars
  <2> QED
    BY <1>2, <2>1 DEF OrderlyShape
<1>4. CASE Exchange
  <2>1. Waiting => Waiting'
    BY <1>1 DEF Waiting, GoodCommand, ThreadsAsleep, uiVars
  <2>2. UNCHANGED <<req, members, forgot, cur, upc, spc, cliTok, ureq, sframe>>
    BY <1>1 DEF uiVars, clientVars, serverVars
  <2>3. Exchange'
    BY <1>1, <1>4, <2>1, <2>2 DEF Agree, Exchange, Commanded, Forwarding, Asked, Answered,
       Relaying, Replied, Responds, ClientIdle, WiresEmpty
  <2> QED
    BY <1>2, <2>3 DEF OrderlyShape
<1>5. CASE Delivery
  <2>1. /\ Listening => Listening'
        /\ ThreadsAsleep => ThreadsAsleep'
        /\ Acknowledging => Acknowledging'
    BY <1>1 DEF Agree, Listening, ThreadsAsleep, Acknowledging, uiVars, clientVars, serverVars
  <2>2. UNCHANGED <<history, pushes, spc, cliTok, sframe, mpc, mchunk, uiTok>>
    BY <1>1 DEF uiVars, clientVars, serverVars
  <2>3. CASE Sent \/ Taken \/ Written
    <3>1. (Sent \/ Taken \/ Written)'
      BY <1>1, <2>1, <2>2, <2>3 DEF Sent, Taken, Written, Delivers, WiresEmpty
    <3> QED
      BY <1>2, <3>1 DEF OrderlyShape, Delivery
  <2>4. CASE Settling
    <3>1. Settling'
      BY <1>1, <2>1, <2>2, <2>4 DEF Settling, Posted, Woken, Parsing, Delivers
    <3> QED
      BY <1>2, <3>1 DEF OrderlyShape, Delivery
  <2> QED
    BY <1>5, <2>3, <2>4 DEF Delivery
<1> QED
  BY <1>2, <1>3, <1>4, <1>5 DEF OrderlyShape

\* In every session, as long as it is orderly, it has one of the shapes.
THEOREM OrderlyInvariant == Spec => []OrderlyShape
<1>1. ASSUME TypeOK, OrderlyShape, [Next]_vars
      PROVE  OrderlyShape'
  BY <1>1, StutterShape, UserShape, UIMainShape, UIMessageShape, ClientUIShape,
     ClientServerShape, ServerShape DEF Next
<1> QED
  BY <1>1, InitShape, TypeCorrect, PTL DEF Spec

\* In an orderly session, what the main thread finds in the response pipe is
\* the whole response to its command and nothing else (reads in chat_ui.c).
THEOREM OwnResponseAlways == Spec => []OwnResponse
<1>1. ASSUME TypeOK, OrderlyShape
      PROVE  OwnResponse
  <2> SUFFICES ASSUME Orderly, main = "await", pipe # <<>>
               PROVE  IsResponseTo(Chunk, req) /\ Unread = <<>>
    BY DEF OwnResponse
  <2>1. Replied
    BY <1>1 DEF OrderlyShape, Between, Exchange, Commanded, Forwarding, Asked, Answered,
       Relaying, WiresEmpty, Delivery, Sent, Taken, Written, Settling, Listening
  <2> DEFINE f == pipe[1].frame
  <2>2. pipe = Text(f) /\ Responds(f) /\ pipe \in Seq(Cell)
    BY <1>1, <2>1 DEF Replied, IsText, TypeOK, WireTypeOK
  <2>3. f \in DownFrame
    <3>1. 1 \in DOMAIN pipe
      BY <2>2
    <3>2. pipe[1] \in Cell
      BY <2>2, <3>1, ElementsOf
    <3> QED
      BY <3>2 DEF Cell
  <2>4. Len(pipe) <= RESPONSE_BUFFER
    <3>1. CellCount(f) = f.size /\ f.size \in 1..RESPONSE_BUFFER
      BY <2>2 DEF Responds, CellCount
    <3>2. Len(Text(f)) = CellCount(f)
      BY <2>3, TextType
    <3> QED
      BY <2>2, <3>1, <3>2, WireAssumption
  <2>5. Chunk = pipe /\ Unread = <<>>
    BY <2>2, <2>4, WholeRead
  <2>6. f \in {pipe[n].frame : n \in DOMAIN pipe}
    BY <2>2
  <2>7. f.id = req.id /\ f.op = Opcode[req.kind] /\ f.code # "msg" /\ f.intact
    BY <2>2 DEF Responds
  <2> HIDE DEF f
  <2>8. IsResponseTo(pipe, req)
    BY <2>2, <2>6, <2>7 DEF IsResponseTo
  <2> QED
    BY <2>5, <2>8
<1> QED
  BY <1>1, TypeCorrect, OrderlyInvariant, PTL

\* In an orderly session each thread finds strtok's position where it left it:
\* the position the two threads of a process share is never moved in between.
THEOREM OneTokenizerAlways == Spec => []OneTokenizer
<1>1. ASSUME TypeOK, OrderlyShape
      PROVE  OneTokenizer
  <2> SUFFICES ASSUME Orderly PROVE OneTokenizer
    BY DEF OneTokenizer
  <2>1. Between \/ Exchange \/ Delivery
    BY <1>1 DEF OrderlyShape
  <2>2. upc \in {"type", "fields"} => cliTok = "ui" /\ spc # "parse"
    BY <2>1 DEF Between, ClientIdle, Exchange, Commanded, Forwarding, Asked, Answered,
       Relaying, Replied, Delivery, Sent, Taken, Written, Settling, Listening
  <2>3. spc = "parse" => cliTok = "server"
    BY <2>1 DEF Between, ClientIdle, Exchange, Commanded, Forwarding, Asked, Answered,
       Relaying, Replied, Delivery, Sent, Taken, Written, Settling, Acknowledging
  <2>4. main \in {"create", "leave", "list"} => uiTok = "main"
    BY <2>1 DEF Between, Exchange, Commanded, Forwarding, Asked, Answered, Relaying,
       Replied, Waiting, Delivery, Sent, Taken, Written, Settling, Listening
  <2>5. ASSUME NEW t \in MsgThreads, mpc[t] = "parse"
        PROVE  uiTok = t /\ main \notin {"create", "leave", "list", "finish"}
    <3>1. Settling
      BY <2>1, <2>5 DEF Between, Exchange, Commanded, Forwarding, Asked, Answered, Relaying,
         Replied, Waiting, ThreadsAsleep, Delivery, Sent, Taken, Written
    <3>2. main \in {"menu", "login", "chat"}
      BY <3>1 DEF Settling, Listening
    <3>3. uiTok = t
      BY <2>5, <3>1 DEF Settling, Posted, Woken, Parsing, ThreadsAsleep
    <3> QED
      BY <3>2, <3>3
  <2> QED
    BY <2>2, <2>3, <2>4, <2>5 DEF OneTokenizer
<1> QED
  BY <1>1, TypeCorrect, OrderlyInvariant, PTL

\* In an orderly session a command the main thread waits for is in exactly one
\* place on the ring: it is neither lost nor sent twice.
THEOREM NothingLostAlways == Spec => []NothingLost
<1>1. ASSUME TypeOK, OrderlyShape
      PROVE  NothingLost
  <2> SUFFICES ASSUME Orderly, main = "await" PROVE Holders = 1
    BY DEF NothingLost
  <2>1. Exchange
    BY <1>1 DEF OrderlyShape, Between, Delivery, Sent, Taken, Written, Settling, Listening
  <2>2. /\ Len(<<>>) = 0 /\ Len(<<req>>) = 1
    OBVIOUS
  <2>3. CASE Commanded
    BY <2>2, <2>3 DEF Commanded, ClientIdle, Holders
  <2>4. CASE Forwarding
    BY <2>2, <2>4 DEF Forwarding, WiresEmpty, Holders
  <2>5. CASE Asked
    BY <2>2, <2>5 DEF Asked, ClientIdle, Holders
  <2>6. CASE Answered
    BY <2>2, <2>6 DEF Answered, ClientIdle, Holders
  <2>7. CASE Relaying
    BY <2>2, <2>7 DEF Relaying, WiresEmpty, Holders
  <2>8. CASE Replied
    BY <2>2, <2>8 DEF Replied, IsText, ClientIdle, Holders
  <2> QED
    BY <2>1, <2>3, <2>4, <2>5, <2>6, <2>7, <2>8 DEF Exchange
<1> QED
  BY <1>1, TypeCorrect, OrderlyInvariant, PTL

\* In an orderly session current_channel and the server agree whenever nothing
\* is under way: every answer to a join, a leave and a create has been applied.
THEOREM SameChannelAlways == Spec => []SameChannel
<1>1. ASSUME OrderlyShape
      PROVE  SameChannel
  BY <1>1, RestShape DEF SameChannel, Between
<1> QED
  BY <1>1, OrderlyInvariant, PTL

\* In an orderly session the history holds pushed messages, whole, each once
\* and in the order of the server.
THEOREM HistoryInOrderAlways == Spec => []HistoryInOrder
<1>1. OrderlyShape => HistoryInOrder
  BY DEF OrderlyShape, HistoryInOrder
<1> QED
  BY <1>1, OrderlyInvariant, PTL

\* In an orderly session neither process dies, and every frame and every text
\* on its way is made of the tokens of one text only.
THEOREM NoDamageAlways == Spec => []NoDamage
<1>1. ASSUME TypeOK, OrderlyShape
      PROVE  NoDamage
  <2> SUFFICES ASSUME Orderly PROVE NoDamage
    BY DEF NoDamage
  <2>1. uiUp /\ clientUp /\ cur # Garbled /\ (Between \/ Exchange \/ Delivery)
    BY <1>1 DEF OrderlyShape
  <2>2. toServer = <<>> \/ (toServer = <<req>> /\ req.intact) \/ toServer = <<Ack(pushes)>>
    <3>1. Between => toServer = <<>>
      BY DEF Between, WiresEmpty
    <3>2. Exchange => toServer = <<>> \/ (toServer = <<req>> /\ req.intact)
      BY DEF Exchange, Commanded, Forwarding, Asked, Answered, Relaying, Replied, WiresEmpty,
         Waiting, GoodCommand
    <3>3. Delivery => toServer = <<>> \/ toServer = <<Ack(pushes)>>
      <4>1. Sent \/ Taken \/ Written => toServer = <<>>
        BY DEF Sent, Taken, Written, WiresEmpty
      <4>2. Settling => toServer = <<>> \/ toServer = <<Ack(pushes)>>
        BY DEF Settling, Acknowledging
      <4> QED
        BY <4>1, <4>2 DEF Delivery
    <3> QED
      BY <2>1, <3>1, <3>2, <3>3
  <2>3. \A n \in DOMAIN toServer : toServer[n].intact
    BY <2>2 DEF Ack
  <2>4. \/ pipe = <<>>
        \/ IsText(pipe) /\ pipe[1].frame.intact
    BY <2>1 DEF Between, WiresEmpty, Exchange, Commanded, Forwarding, Asked, Answered,
       Relaying, Replied, Responds, Delivery, Sent, Taken, Written, Settling, Posted,
       Woken, Parsing, Delivers
  <2>5. \A n \in DOMAIN pipe : pipe[n].frame.intact
    <3>1. CASE pipe = <<>>
      BY <3>1
    <3>2. CASE IsText(pipe) /\ pipe[1].frame.intact
      <4> DEFINE f == pipe[1].frame
      <4>1. pipe = Text(f) /\ f.intact
        BY <3>2 DEF IsText
      <4> HIDE DEF f
      <4>2. \A n \in DOMAIN Text(f) : Text(f)[n].frame = f
        BY DEF Text
      <4> QED
        BY <4>1, <4>2
    <3> QED
      BY <2>4, <3>1, <3>2
  <2> QED
    BY <2>1, <2>3, <2>5 DEF NoDamage
<1> QED
  BY <1>1, TypeCorrect, OrderlyInvariant, PTL

\* A command of the user's begins a session's next exchange at rest.
LEMMA TurnOfUser ==
  ASSUME OrderlyShape, Orderly, pushes = 0, User
  PROVE  AtRest
<1>1. main \in {"menu", "login", "chat"}
  BY DEF User, UserStep, SubmitSignup, SubmitLogin, EnterLogout, EnterIgnored, EnterMessage,
     EnterJoin, EnterCreate, EnterLeave, Enter
<1>2. ~Exchange
  BY <1>1 DEF Exchange, Commanded, Forwarding, Asked, Answered, Relaying, Replied, Waiting
<1>3. ~Delivery
  <2>1. ~Listening
    BY DEF Listening
  <2> QED
    BY <2>1 DEF Delivery, Sent, Taken, Written, Settling
<1>4. Between
  BY <1>2, <1>3 DEF OrderlyShape
<1> QED
  BY <1>1, <1>4 DEF Between, WiresEmpty, ClientIdle, ThreadsAsleep, AtRest

\* With an unused semaphore, and as long as the server pushes nothing and no
\* text is cut, every session is a serial one: one write, one read.
THEOREM TakesTurnsAlways == Spec => []TakesTurns
<1>1. Init => TakesTurns
  <2> SUFFICES ASSUME Init, Leftover = 0 PROVE serial
    BY DEF TakesTurns
  <2>1. sem = 0
    BY DEF Init, WireInit
  <2> QED
    BY <2>1 DEF Init
<1>2. ASSUME TypeOK, OrderlyShape, TakesTurns, [Next]_vars
      PROVE  TakesTurns'
  <2> SUFFICES ASSUME pushes' = 0, fits', Leftover = 0
               PROVE  serial'
    BY DEF TakesTurns
  <2>1. pushes \in Nat
    BY <1>2 DEF TypeOK, ServerTypeOK
  <2>2. CASE User
    <3>1. serial /\ fits /\ pushes = 0
      BY <1>2, <2>2 DEF User, serverVars, TakesTurns
    <3>2. AtRest
      BY <1>2, <2>2, <3>1, TurnOfUser DEF Orderly
    <3> QED
      BY <2>2, <3>1, <3>2 DEF User
  <2>3. CASE ServerPush
    BY <2>1, <2>3 DEF ServerPush, Push
  <2>4. CASE ServerAnswer
    BY <1>2, <2>4 DEF ServerAnswer, Answer, TakesTurns
  <2>5. CASE ServerTakeAck
    BY <1>2, <2>5 DEF ServerTakeAck, TakeAck, TakesTurns
  <2>6. ASSUME UIMain \/ (\E t \in MsgThreads : UIMessage(t)) \/ ClientUI \/ ClientServer
        PROVE  serial'
    <3>1. UNCHANGED <<serial, fits, pushes>>
      BY <2>6 DEF UIMain, UIMessage, ClientUI, ClientServer, serverVars
    <3> QED
      BY <1>2, <3>1 DEF TakesTurns
  <2>7. CASE UNCHANGED vars
    BY <1>2, <2>7 DEF vars, serverVars, TakesTurns
  <2> QED
    BY <1>2, <2>2, <2>3, <2>4, <2>5, <2>6, <2>7 DEF Next
<1> QED
  BY <1>1, <1>2, TypeCorrect, OrderlyInvariant, PTL DEF Spec
=============================================================================
