----------------------- MODULE ChatRefinement_proofs -----------------------
(***************************************************************************)
(* Orderly sessions implement ChatPromise: every step of the program is a  *)
(* step of the promise or leaves its variables as they are.  OrderlyShape  *)
(* says where the command and the message are before each step.            *)
(***************************************************************************)
EXTENDS ChatRefinement, ChatOrder_proofs

-----------------------------------------------------------------------------
(* The acknowledgement.                                                    *)

\* An acknowledgement is under way, or its message is still before it.
Owed ==
  \/ \E n \in DOMAIN toClient : toClient[n].code = "msg"
  \/ spc = "parse" /\ sframe.code = "msg"
  \/ spc \in {"post", "ack"}
  \/ \E n \in DOMAIN toServer : toServer[n].tag = "ack"

\* The server knows the last message to have arrived unless it is owed to it.
AckInv == acked = pushes <=> ~Owed

Inv == TypeOK /\ OrderlyShape /\ Orderly /\ AckInv

-----------------------------------------------------------------------------
(* What the promise sees of each shape.                                    *)

LEMMA DueBoolean == Due \in BOOLEAN /\ Due' \in BOOLEAN
BY DEF Due

\* Between two exchanges the promise is quiet.
LEMMA BetweenView ==
  ASSUME Inv, Between
  PROVE  /\ main # "await" /\ Phase = "idle" /\ ~Due /\ ~Owed /\ acked = pushes
         /\ uiUp /\ clientUp /\ Agree(cur)
         /\ toClient = <<>> /\ toServer = <<>> /\ cmdPipe = <<>> /\ pipe = <<>>
         /\ upc = "read" /\ spc = "recv" /\ ThreadsAsleep
<1>1. /\ main # "await" /\ ThreadsAsleep /\ upc = "read" /\ spc = "recv"
      /\ toClient = <<>> /\ toServer = <<>> /\ cmdPipe = <<>> /\ pipe = <<>>
      /\ Agree(cur)
  BY DEF Between, WiresEmpty, ClientIdle
<1>2. Phase = "idle"
  BY <1>1 DEF Phase
<1>3. ~Due
  BY <1>1 DEF Due, ThreadsAsleep
<1>4. ~Owed
  BY <1>1 DEF Owed
<1> QED
  BY <1>1, <1>2, <1>3, <1>4 DEF Inv, AckInv, OrderlyShape

\* A command that the server has not decided.
LEMMA AskedView ==
  ASSUME Inv, Commanded \/ Forwarding \/ Asked
  PROVE  /\ main = "await" /\ Phase = "asked" /\ ~Due /\ ~Owed
         /\ toClient = <<>> /\ pipe = <<>> /\ spc = "recv"
         /\ ThreadsAsleep /\ Agree(cur) /\ GoodCommand
<1>1. /\ main = "await" /\ spc = "recv" /\ toClient = <<>> /\ pipe = <<>>
      /\ ThreadsAsleep /\ Agree(cur) /\ GoodCommand
  BY DEF Commanded, Forwarding, Asked, Waiting, WiresEmpty, ClientIdle
<1>2. cmdPipe # <<>> \/ upc # "read" \/ toServer # <<>>
  BY DEF Commanded, Forwarding, Asked
<1>3. Phase = "asked"
  BY <1>1, <1>2 DEF Phase
<1>4. ~Due
  BY <1>1 DEF Due, ThreadsAsleep
<1>5. toServer = <<>> \/ (toServer = <<req>> /\ req.tag = "request")
  BY DEF Commanded, Forwarding, Asked, WiresEmpty, Waiting, GoodCommand
<1>6. ~Owed
  BY <1>1, <1>5 DEF Owed
<1> QED
  BY <1>1, <1>3, <1>4, <1>6

Decision(code) == IF code = "ok" THEN "accepted" ELSE "refused"

\* A command that it has.
LEMMA DecidedView ==
  ASSUME Inv, Answered \/ Relaying \/ Replied
  PROVE  /\ main = "await" /\ Phase = Decision(AnswerCode) /\ ~Due /\ ~Owed
         /\ cmdPipe = <<>> /\ toServer = <<>> /\ upc = "read" /\ ThreadsAsleep
<1>1. /\ main = "await" /\ cmdPipe = <<>> /\ toServer = <<>> /\ upc = "read" /\ ThreadsAsleep
  BY DEF Answered, Relaying, Replied, Waiting, WiresEmpty, ClientIdle
<1>2. Phase = Decision(AnswerCode)
  BY <1>1 DEF Phase, Decision
<1>3. /\ ~(\E n \in DOMAIN toClient : toClient[n].code = "msg")
      /\ ~(spc = "parse" /\ sframe.code = "msg")
      /\ spc \notin {"post", "ack"}
  <2>1. CASE Answered
    <3>1. toClient[1].code # "msg" /\ spc = "recv"
      BY <2>1 DEF Answered, Responds, ClientIdle
    <3>2. DOMAIN toClient = {1}
      BY <2>1 DEF Answered, Inv, TypeOK, WireTypeOK
    <3> QED
      BY <3>1, <3>2
  <2>2. CASE Relaying
    BY <2>2 DEF Relaying, Responds, WiresEmpty
  <2>3. CASE Replied
    BY <2>3 DEF Replied, ClientIdle
  <2> QED
    BY <2>1, <2>2, <2>3
<1>4. ~Due
  BY <1>1, <1>3 DEF Due, ThreadsAsleep
<1>5. ~Owed
  BY <1>1, <1>3 DEF Owed
<1> QED
  BY <1>1, <1>2, <1>4, <1>5

\* A message on its way.
LEMMA DeliveryView ==
  ASSUME Inv, Delivery
  PROVE  main # "await" /\ Phase = "idle"
<1>1. main # "await"
  BY DEF Delivery, Sent, Taken, Written, Settling, Listening
<1> QED
  BY <1>1 DEF Phase

-----------------------------------------------------------------------------
(* Steps of the promise.                                                   *)

\* A step the promise does not see.
LEMMA NotSeen ==
  ASSUME Phase' = Phase, Phase = "idle" \/ UNCHANGED req, Due' <=> Due,
         UNCHANGED <<cur, members, pushes, acked, history>>
  PROVE  UNCHANGED Promise!promiseVars
<1>1. Due' = Due
  BY DueBoolean
<1>2. Wish' = Wish
  BY DEF Wish, Verb
<1>3. Shown' = Shown
  BY DEF Shown
<1> QED
  BY <1>1, <1>2, <1>3 DEF Promise!promiseVars

\* The write of a command.
LEMMA WriteAsks ==
  ASSUME Inv, Between, NEW cmd \in UpFrame, cmd.kind \in {"create", "join", "leave"} => cmd.chan \in Channels,
         Write(cmd),
         UNCHANGED <<cur, mpc, history, pipe, sem, toServer, toClient>>,
         UNCHANGED clientVars, UNCHANGED serverVars
  PROVE  Promise!Next /\ AckInv'
<1>1. /\ main # "await" /\ Phase = "idle" /\ ~Due /\ ~Owed /\ acked = pushes
      /\ clientUp /\ toClient = <<>> /\ toServer = <<>>
      /\ spc = "recv" /\ ThreadsAsleep
  BY BetweenView
<1>2. cmdPipe' # <<>> /\ req' = cmd /\ main' = "await"
  BY <1>1 DEF Write, Inv, TypeOK, WireTypeOK
<1>3. Phase' = "asked"
  BY <1>2 DEF Phase
<1>4. Due' = Due
  <2>1. UNCHANGED <<toClient, spc, sframe, sem, mpc>>
    BY DEF clientVars
  <2> QED
    BY <2>1 DEF Due
<1>5. Wish' \in Promise!Wishes
  <2>1. CASE cmd.kind \in {"create", "join"}
    BY <1>2, <1>3, <2>1 DEF Wish, Verb, Promise!Wishes
  <2>2. CASE cmd.kind = "leave"
    BY <1>2, <1>3, <2>2 DEF Wish, Verb, Promise!Wishes
  <2>3. CASE cmd.kind \notin {"create", "join", "leave"}
    BY <1>2, <1>3, <2>3 DEF Wish, Verb, Promise!Wishes
  <2> QED
    BY <2>1, <2>2, <2>3
<1>6. Promise!Ask(Wish')
  <2>1. Promise!Quiet
    BY <1>1 DEF Promise!Quiet
  <2>2. Shown' = Shown /\ UNCHANGED <<members, pushes, acked>>
    BY DEF Shown, serverVars
  <2> QED
    BY <1>3, <1>4, <2>1, <2>2 DEF Promise!Ask
<1>7. AckInv'
  BY <1>1 DEF AckInv, Owed, clientVars, serverVars
<1> QED
  BY <1>5, <1>6, <1>7 DEF Promise!Next
-----------------------------------------------------------------------------
(* One lemma per process: its steps keep the promise.                      *)

Kept == (Promise!Next \/ UNCHANGED Promise!promiseVars) /\ AckInv'

LEMMA KeptUnseen ==
  ASSUME Inv, Phase' = Phase, Phase = "idle" \/ UNCHANGED req, Due' <=> Due, Owed' <=> Owed,
         UNCHANGED <<cur, members, pushes, acked, history>>
  PROVE  Kept
<1>1. AckInv'
  BY DEF AckInv, Inv
<1> QED
  BY <1>1, NotSeen DEF Kept

\* The wires and the threads a message passes.
LEMMA SameWay ==
  ASSUME UNCHANGED <<toClient, spc, sframe>>
  PROVE  /\ UNCHANGED <<sem, mpc>> => (Due' <=> Due)
         /\ UNCHANGED toServer => (Owed' <=> Owed)
BY DEF Due, Owed

LEMMA UserKept ==
  ASSUME Inv, Orderly', User
  PROVE  Kept
<1>1. AtRest /\ TypeOK /\ OrderlyShape /\ Orderly
  BY DEF User, Orderly, Inv
<1>2. Between /\ main \in {"menu", "login", "chat"} /\ cur # Garbled /\ Phase = "idle"
  BY <1>1, RestShape, BetweenView
<1>3. UNCHANGED <<cur, mpc, mchunk, history, pipe, sem, toServer, toClient, clientUp>>
      /\ UNCHANGED clientVars /\ UNCHANGED serverVars
  BY DEF User, UserStep
<1>4. /\ \A k \in Kinds : Command(NextId, k, NoChannel) \in UpFrame
      /\ \A k \in Kinds, c \in Names : Command(NextId, k, c) \in UpFrame
  BY <1>1, FrameTypes DEF TypeOK, UITypeOK, NextId, Names
<1>5. NoChannel # Garbled /\ \A c \in Channels : c \in Names /\ c # Garbled
  BY WireAssumption DEF NoChannel, Garbled, Names
<1>6. ASSUME NEW k \in Kinds, NEW c \in Names, k \in {"create", "join", "leave"} => c \in Channels,
             Write(Command(NextId, k, c))
      PROVE  Kept
  <2> DEFINE cmd == Command(NextId, k, c)
  <2>1. cmd \in UpFrame /\ cmd.chan = c /\ cmd.kind = k
    BY <1>4 DEF Command
  <2> HIDE DEF cmd
  <2>2. Write(cmd)
    BY <1>6 DEF cmd
  <2> QED
    BY <1>2, <1>3, <1>6, <2>1, <2>2, WriteAsks DEF Kept
<1>7. ASSUME main' # "await"
      PROVE  Kept
  <2>1. Phase' = "idle"
    BY <1>7 DEF Phase
  <2>2. UNCHANGED <<toClient, spc, sframe, sem, mpc, toServer, cur, members, pushes, acked, history>>
    BY <1>3 DEF clientVars, serverVars
  <2> QED
    BY <1>2, <2>1, <2>2, SameWay, KeptUnseen
<1>8. CASE SubmitSignup
  BY <1>5, <1>6, <1>8 DEF SubmitSignup, Kinds, Names
<1>9. CASE SubmitLogin
  BY <1>5, <1>6, <1>9 DEF SubmitLogin, Kinds, Names
<1>10. CASE EnterLogout
  BY <1>5, <1>6, <1>10 DEF EnterLogout, Kinds, Names
<1>11. CASE EnterMessage
  BY <1>1, <1>2, <1>6, <1>11 DEF EnterMessage, Kinds, TypeOK, UITypeOK
<1>12. CASE \E c \in Channels : EnterJoin(c)
  BY <1>5, <1>6, <1>12 DEF EnterJoin, Kinds
<1>13. CASE EnterIgnored \/ (\E c \in Channels : EnterCreate(c) \/ EnterLeave(c))
  BY <1>7, <1>13 DEF EnterIgnored, EnterCreate, EnterLeave, Enter
<1> QED
  BY <1>8, <1>9, <1>10, <1>11, <1>12, <1>13 DEF User, UserStep

\* A response is the return of a command that was decided.
LEMMA ReplyKept ==
  ASSUME Inv, Reply, UNCHANGED clientVars, UNCHANGED serverVars
  PROVE  Kept
<1>1. TypeOK /\ OrderlyShape /\ Orderly
  BY DEF Inv
<1>2. main = "await" /\ pipe # <<>>
  BY DEF Reply, SignupReply, LoginReply, CreateReply, JoinReply, LeaveReply, LogoutReply,
     MessageReply, Accepted, Refused, ReadResponse
<1>3. Replied /\ Phase = Decision(AnswerCode)
  BY <1>1, <1>2, ReadsReply, DecidedView
<1>12. Phase = Decision(pipe[1].frame.code)
  BY <1>2, <1>3 DEF AnswerCode, Replied
<1>13. cur' = Outcome(req, pipe[1].frame.code = "ok", cur)
  BY <1>1, ReplyOutcome
<1>4. main' # "await"
  BY <1>1, ReplyShape DEF Between
<1>5. Phase' = "idle"
  BY <1>4 DEF Phase
<1>6. Wish' = Promise!Nothing
  BY <1>5 DEF Wish, Promise!Nothing
<1>14. Phase \in {"accepted", "refused"} /\ (Phase = "accepted" <=> pipe[1].frame.code = "ok")
  BY <1>12 DEF Decision
<1>15. cur' = IF Phase = "accepted" THEN Promise!Outlook ELSE cur
  <2>1. Phase # "idle"
    BY <1>14
  <2>2. CASE Phase = "accepted" /\ req.kind \in {"create", "join"}
    BY <1>13, <1>14, <2>1, <2>2 DEF Outcome, Promise!Outlook, Wish, Verb
  <2>3. CASE Phase = "accepted" /\ req.kind = "leave"
    BY <1>13, <1>14, <2>1, <2>3 DEF Outcome, Promise!Outlook, Wish, Verb
  <2>4. CASE Phase = "accepted" /\ req.kind \notin {"create", "join", "leave"}
    BY <1>13, <1>14, <2>1, <2>4 DEF Outcome, Promise!Outlook, Wish, Verb
  <2>5. CASE Phase = "refused"
    BY <1>13, <1>14, <2>5 DEF Outcome
  <2> QED
    BY <1>14, <2>2, <2>3, <2>4, <2>5
<1>7. UNCHANGED <<toClient, spc, sframe, sem, mpc, toServer, members, pushes, acked, history>>
  BY DEF Reply, clientVars, serverVars
<1>8. Due' = Due /\ (Owed' <=> Owed)
  BY <1>7, SameWay, DueBoolean
<1>9. Shown' = Shown
  BY <1>7 DEF Shown
<1>10. Promise!Return
  BY <1>14, <1>15, <1>5, <1>6, <1>7, <1>8, <1>9 DEF Promise!Return
<1>11. AckInv'
  BY <1>7, <1>8 DEF Inv, AckInv
<1> QED
  BY <1>10, <1>11 DEF Kept, Promise!Next

LEMMA UIMainKept ==
  ASSUME Inv, UIMain
  PROVE  Kept
<1>1. /\ TypeOK /\ OrderlyShape /\ Orderly /\ clientUp
      /\ UNCHANGED clientVars /\ UNCHANGED serverVars
  BY DEF UIMain, Inv, OrderlyShape
<1>2. ASSUME main \in {"create", "leave", "list", "finish"} PROVE Between
  BY <1>1, <1>2 DEF OrderlyShape, Exchange, Commanded, Forwarding, Asked, Answered,
     Relaying, Replied, Waiting, Delivery, Sent, Taken, Written, Settling, Listening
<1>3. CASE TakeArgumentsStep
  <2>1. Between /\ GoodCommand /\ uiTok = "main"
    BY <1>2, <1>3 DEF TakeArgumentsStep, TakeArguments, Between
  <2>2. /\ Write(req)
        /\ UNCHANGED <<cur, mpc, mchunk, history, pipe, sem, toServer, toClient, clientUp>>
    BY <1>3, <2>1 DEF TakeArgumentsStep, TakeArguments
  <2>3. req \in UpFrame /\ (req.kind \in {"create", "join", "leave"} => req.chan \in Channels)
    BY <1>1, <2>1 DEF TypeOK, UITypeOK, GoodCommand
  <2> QED
    BY <1>1, <2>1, <2>2, <2>3, WriteAsks DEF Kept
<1>4. CASE Reply
  BY <1>1, <1>4, ReplyKept
<1>5. CASE StartChat \/ FinishLine
  <2>1. main \in {"list", "finish"} /\ main' = "chat"
    BY <1>5 DEF StartChat, FinishLine
  <2>2. Phase = "idle" /\ Phase' = "idle"
    BY <2>1 DEF Phase
  <2>3. UNCHANGED <<toClient, spc, sframe, sem, toServer, cur, members, pushes, acked, history>>
    BY <1>1, <1>5 DEF StartChat, FinishLine, wireVars, clientVars, serverVars
  <2>4. ~Due
    BY <1>2, <2>1, BetweenView
  <2>5. \A t \in MsgThreads : mpc'[t] \notin {"read", "parse"}
    <3>1. \A t \in MsgThreads : mpc[t] \notin {"read", "parse"}
      BY <2>4 DEF Due
    <3>2. mpc \in [MsgThreads -> MsgStates]
      BY <1>1 DEF TypeOK, UITypeOK
    <3> QED
      BY <1>5, <3>1, <3>2 DEF StartChat, FinishLine
  <2>6. ~Due'
    BY <2>3, <2>4, <2>5 DEF Due
  <2> QED
    BY <2>2, <2>3, <2>4, <2>6, SameWay, KeptUnseen
<1>6. CASE ReplyEof
  BY <1>1, <1>6 DEF ReplyEof
<1> QED
  BY <1>3, <1>4, <1>5, <1>6 DEF UIMain
\* A message recorded is a message shown.
LEMMA RecordShows ==
  ASSUME TypeOK, NEW r, history' = Append(history, r)
  PROVE  Shown' = Append(Shown, r.id)
<1> DEFINE h == Append(history, r)
<1>1. history \in Seq([id : Nat, whole : BOOLEAN])
  BY DEF TypeOK, UITypeOK
<1>2. /\ DOMAIN history = 1..Len(history) /\ Len(history) \in Nat
      /\ DOMAIN h = 1..(Len(history) + 1)
      /\ h[Len(history) + 1] = r
      /\ \A n \in 1..Len(history) : h[n] = history[n]
  BY <1>1
<1>3. Shown = [n \in 1..Len(history) |-> history[n].id]
  BY <1>2 DEF Shown
<1>4. Shown \in Seq({history[n].id : n \in 1..Len(history)}) /\ Len(Shown) = Len(history)
  BY <1>2, <1>3
<1>5. Append(Shown, r.id) =
        [n \in 1..(Len(history) + 1) |-> IF n <= Len(history) THEN history[n].id ELSE r.id]
  BY <1>2, <1>3, <1>4
<1>6. Shown' = [n \in 1..(Len(history) + 1) |-> h[n].id]
  BY <1>2 DEF Shown
<1> HIDE DEF h
<1>7. \A n \in 1..(Len(history) + 1) :
        h[n].id = IF n <= Len(history) THEN history[n].id ELSE r.id
  BY <1>2
<1> QED
  BY <1>5, <1>6, <1>7

LEMMA UIMessageKept ==
  ASSUME Inv, NEW t \in MsgThreads, UIMessage(t)
  PROVE  Kept
<1>1. /\ TypeOK /\ OrderlyShape /\ Orderly /\ clientUp
      /\ UNCHANGED clientVars /\ UNCHANGED serverVars
  BY DEF UIMessage, Inv, OrderlyShape
<1>2. mpc \in [MsgThreads -> MsgStates] /\ mchunk \in [MsgThreads -> Seq(Cell)]
  BY <1>1 DEF TypeOK, UITypeOK
<1>3. Listening /\ Acknowledging
  BY <1>1, ThreadAtWork DEF UIMessage, MsgStep, MsgWait, MsgRead, MsgRecord
<1>4. main # "await" /\ main' = main /\ UNCHANGED <<cur, toClient, toServer>>
  BY <1>3 DEF Listening, UIMessage, MsgStep, MsgWait, MsgRead, MsgRecord
<1>5. Phase = "idle" /\ Phase' = "idle"
  BY <1>4 DEF Phase
<1>6. UNCHANGED <<toClient, toServer, spc, sframe, members, pushes, acked>>
  BY <1>1, <1>4 DEF clientVars, serverVars
<1>7. Owed' <=> Owed
  BY <1>6, SameWay
<1>8. ASSUME MsgWait(t) \/ MsgRead(t)
      PROVE  Kept
  <2>1. Due
    BY <1>8 DEF MsgWait, MsgRead, Due
  <2>2. mpc'[t] \in {"read", "parse"}
    BY <1>2, <1>8 DEF MsgWait, MsgRead
  <2>3. Due'
    BY <2>2 DEF Due
  <2>4. history' = history
    BY <1>8 DEF MsgWait, MsgRead
  <2> QED
    BY <1>4, <1>5, <1>6, <1>7, <2>1, <2>3, <2>4, KeptUnseen
<1>9. CASE MsgRecord(t)
  <2> DEFINE c == mchunk[t]
             f == c[1].frame
  <2>1. Parsing(t)
    BY <1>1, <1>9, ThreadAtWork DEF MsgRecord, Posted
  <2>2. f \in DownFrame /\ c = Text(f) /\ Delivers(f)
    BY <1>2, <2>1, FirstFrame DEF Parsing, IsText
  <2>3. TokenCount(c) = 3 /\ f.id = pushes
    BY <2>2, MessageTokens DEF Delivers
  <2>4. \/ cur = NoChannel /\ Drop
        \/ cur # NoChannel /\ Record(c, IsWhole(c))
    <3>1. uiTok = t
      BY <2>1 DEF Parsing
    <3>2. ~(TokenCount(mchunk[t]) < 2) /\ TokenCount(mchunk[t]) # 2
      BY <2>3
    <3> QED
      BY <1>9, <3>1, <3>2, Zenon DEF MsgRecord, Record
  <2>5. Shown' = IF cur = NoChannel THEN Shown ELSE Append(Shown, pushes)
    <3>1. CASE cur = NoChannel
      BY <2>4, <3>1 DEF Drop, Shown
    <3>2. CASE cur # NoChannel
      <4> DEFINE r == [id |-> f.id, whole |-> IsWhole(c)]
      <4>1. history' = Append(history, r)
        BY <2>4, <3>2 DEF Record
      <4>2. r.id = pushes
        BY <2>3
      <4> HIDE DEF r
      <4> QED
        BY <1>1, <3>2, <4>1, <4>2, RecordShows
    <3> QED
      BY <3>1, <3>2
  <2>6. Due
    BY <1>9 DEF MsgRecord, Due
  <2>7. ~Due'
    <3>1. \A u \in MsgThreads : mpc'[u] \in {"off", "wait"}
      BY <1>2, <1>9, <2>1 DEF MsgRecord, Parsing
    <3>2. sem' = 0
      BY <1>9, <2>1 DEF MsgRecord, Parsing
    <3> QED
      BY <1>3, <1>6, <3>1, <3>2 DEF Due, Acknowledging
  <2>8. Wish' = Wish
    BY <1>5 DEF Wish, Verb
  <2>9. Promise!Show
    BY <1>4, <1>5, <1>6, <2>5, <2>6, <2>7, <2>8, DueBoolean DEF Promise!Show
  <2>10. AckInv'
    BY <1>6, <1>7 DEF Inv, AckInv
  <2> QED
    BY <2>9, <2>10 DEF Kept, Promise!Next
<1> QED
  BY <1>8, <1>9 DEF UIMessage, MsgStep

LEMMA ClientUIKept ==
  ASSUME Inv, ClientUI
  PROVE  Kept
<1>1. /\ OrderlyShape /\ Orderly /\ uiUp
      /\ UNCHANGED <<uiVars, serverVars>>
      /\ UNCHANGED <<spc, sframe, sem, toClient>>
  BY DEF ClientUI, HandleUi, Inv, OrderlyShape
<1>2. UNCHANGED <<main, req, mpc, cur, history, members, pushes, acked>>
  BY <1>1 DEF uiVars, serverVars
<1>3. Commanded \/ Forwarding
  BY <1>1 DEF ClientUI, HandleUi, ReadCommand, ReadCommandEof, TakeType, TakeFields,
     OrderlyShape, Between, WiresEmpty, ClientIdle, Exchange, Asked, Answered, Relaying, Replied,
     Delivery, Sent, Taken, Written, Settling, Listening
<1>4. /\ main = "await" /\ Phase = "asked" /\ ~Due /\ ~Owed
      /\ toClient = <<>> /\ spc = "recv" /\ GoodCommand
  BY <1>3, AskedView
<1>5. \/ upc' # "read" /\ toServer' = toServer
      \/ toServer' = <<req>>
  <2>1. CASE ReadCommand \/ ReadCommandEof \/ TakeType
    BY <1>1, <1>3, <2>1
       DEF ReadCommand, ReadCommandEof, TakeType, Commanded, Forwarding, ClientIdle
  <2>2. CASE TakeFields
    <3>1. toServer' = Append(<<>>, req)
      BY <1>3, <2>2 DEF TakeFields, Commanded, Forwarding, ClientIdle, WiresEmpty
    <3> QED
      BY <3>1
  <2> QED
    BY <2>1, <2>2 DEF ClientUI, HandleUi
<1>6. Phase' = "asked"
  BY <1>2, <1>4, <1>5 DEF Phase
<1>7. ~Owed'
  <2>1. toServer = <<>>
    BY <1>3 DEF Commanded, Forwarding, WiresEmpty
  <2> QED
    BY <1>1, <1>4, <1>5, <2>1 DEF Owed, GoodCommand
<1> QED
  BY <1>1, <1>2, <1>4, <1>6, <1>7, SameWay, KeptUnseen
LEMMA ClientServerKept ==
  ASSUME Inv, ClientServer
  PROVE  Kept
<1>1. /\ TypeOK /\ OrderlyShape /\ Orderly /\ uiUp
      /\ UNCHANGED <<main, req, mpc, cur, history, members, pushes, acked>>
      /\ UNCHANGED <<upc, cmdPipe>>
  BY DEF ClientServer, HandleServer, Inv, OrderlyShape, uiVars, serverVars
<1>2. ASSUME main # "await"
      PROVE  Phase' = Phase /\ Phase = "idle"
  BY <1>1, <1>2 DEF Phase
<1>3. ASSUME Phase' = Phase, Due' <=> Due, Owed' <=> Owed
      PROVE  Kept
  BY <1>1, <1>3, KeptUnseen
<1>4. ASSUME Answered \/ Relaying, toServer' = toServer, AnswerCode' = AnswerCode
      PROVE  Phase' = Phase /\ ~Due /\ ~Owed /\ toServer = <<>>
  <2>1. /\ main = "await" /\ Phase = Decision(AnswerCode) /\ ~Due /\ ~Owed
        /\ cmdPipe = <<>> /\ toServer = <<>> /\ upc = "read"
    BY <1>4, DecidedView
  <2> QED
    BY <1>1, <1>4, <2>1 DEF Phase, Decision
<1>5. CASE ReceiveFrame
  <2>1. Answered \/ Sent
    BY <1>1, <1>5 DEF ReceiveFrame, OrderlyShape, Between, WiresEmpty, Exchange, Commanded,
       Forwarding, Asked, Relaying, Replied, Delivery, Taken, Written, Settling, Acknowledging
  <2>2. /\ sframe' = toClient[1] /\ toClient' = <<>> /\ spc' = "parse"
        /\ UNCHANGED <<sem, toServer>> /\ 1 \in DOMAIN toClient
    <3>1. Len(toClient) = 1 /\ toClient \in Seq(DownFrame)
      BY <1>1, <2>1 DEF Answered, Sent, TypeOK, WireTypeOK
    <3> QED
      BY <1>5, <3>1 DEF ReceiveFrame
  <2>3. CASE Answered
    <3>1. sframe'.code # "msg"
      BY <2>2, <2>3 DEF Answered, Responds
    <3>4. toClient # <<>> /\ pipe' = <<>>
      BY <1>5, <2>3 DEF ReceiveFrame, Answered
    <3>5. AnswerCode' = AnswerCode
      BY <2>2, <3>4 DEF AnswerCode
    <3>2. Phase' = Phase /\ ~Due /\ ~Owed /\ toServer = <<>>
      BY <1>4, <2>2, <2>3, <3>5
    <3>3. ~Due' /\ ~Owed'
      BY <1>1, <2>2, <3>1, <3>2 DEF Due, Owed
    <3> QED
      BY <1>3, <3>2, <3>3
  <2>4. CASE Sent
    <3>1. toClient[1].code = "msg" /\ main # "await"
      BY <2>4 DEF Sent, Delivers, Listening
    <3>2. Due /\ Owed
      BY <2>2, <3>1 DEF Due, Owed
    <3>3. Due' /\ Owed'
      BY <2>2, <3>1 DEF Due, Owed
    <3> QED
      BY <1>2, <1>3, <3>1, <3>2, <3>3
  <2> QED
    BY <2>1, <2>3, <2>4
<1>6. ASSUME spc = "parse"
      PROVE  Relaying \/ Taken
  BY <1>1, <1>6 DEF OrderlyShape, Between, ClientIdle, Exchange, Commanded, Forwarding, Asked,
     Answered, Replied, Delivery, Sent, Written, Settling, Acknowledging
<1>7. CASE RelayCode \/ RelayList
  <2>1. Relaying
    BY <1>6, <1>7 DEF RelayCode, RelayList, RelayFields, Taken, Delivers
  <2>2. spc' = "recv" /\ UNCHANGED <<sframe, toClient, sem, toServer>>
    BY <1>1, <1>7, <2>1 DEF RelayCode, RelayList, RelayFields, WriteText, Relaying
  <2>5. toClient = <<>> /\ pipe = <<>> /\ sframe \in DownFrame
    BY <1>1, <2>1 DEF Relaying, WiresEmpty, TypeOK, ClientTypeOK
  <2>6. pipe' = Text(sframe)
    <3>1. WriteText(sframe, "recv") /\ pipe = <<>>
      BY <1>7, <2>1, <2>5 DEF RelayCode, RelayList, RelayFields, Relaying
    <3>2. pipe' = <<>> \o Text(sframe)
      BY <1>1, <3>1 DEF WriteText
    <3>3. Text(sframe) \in Seq(Cell)
      BY <2>5, TextType
    <3> QED
      BY <3>2, <3>3
  <2>7. pipe' # <<>> /\ pipe'[1].frame = sframe
    BY <2>1, <2>5, <2>6, WireAssumption, TextStart DEF Relaying, Responds
  <2>8. AnswerCode' = AnswerCode
    BY <2>2, <2>5, <2>7 DEF AnswerCode
  <2>3. Phase' = Phase /\ ~Due /\ ~Owed
    BY <1>4, <2>1, <2>2, <2>8
  <2>4. ~Due' /\ ~Owed'
    BY <1>1, <2>2, <2>3 DEF Due, Owed
  <2> QED
    BY <1>3, <2>3, <2>4
<1>8. CASE RelayMessage
  <2>1. Taken
    BY <1>6, <1>8 DEF RelayMessage, RelayFields, Relaying, Responds
  <2>2. spc' = "post" /\ spc = "parse" /\ sframe.code = "msg" /\ main # "await"
    BY <1>1, <1>8, <2>1
       DEF RelayMessage, RelayFields, WriteText, Taken, Delivers, Listening
  <2> QED
    BY <1>2, <1>3, <2>2 DEF Due, Owed
<1>9. CASE PostMessage
  <2>1. Written
    BY <1>1, <1>9 DEF PostMessage, OrderlyShape, Between, ClientIdle, Exchange, Commanded,
       Forwarding, Asked, Answered, Relaying, Replied, Delivery, Sent, Taken, Settling,
       Acknowledging
  <2>2. sem' > 0 /\ spc = "post" /\ spc' = "ack" /\ main # "await"
    BY <1>9, <2>1 DEF PostMessage, Written, ThreadsAsleep, Listening
  <2> QED
    BY <1>2, <1>3, <2>2 DEF Due, Owed
<1>10. CASE AckMessage
  <2>1. Settling /\ toServer = <<>> /\ main # "await"
    BY <1>1, <1>10 DEF AckMessage, OrderlyShape, Between, ClientIdle, Exchange, Commanded,
       Forwarding, Asked, Answered, Relaying, Replied, Delivery, Sent, Taken, Written,
       Settling, Acknowledging, Listening
  <2>2. /\ spc = "ack" /\ spc' = "recv" /\ UNCHANGED <<sframe, toClient, sem>>
        /\ toServer' = Append(<<>>, Ack(sframe.id))
    BY <1>10, <2>1 DEF AckMessage
  <2>3. Due' <=> Due
    BY <1>1, <2>2 DEF Due
  <2>4. 1 \in DOMAIN toServer' /\ toServer'[1].tag = "ack"
    BY <2>2 DEF Ack
  <2>5. Owed /\ Owed'
    BY <2>2, <2>4 DEF Owed
  <2> QED
    BY <1>2, <1>3, <2>1, <2>3, <2>5
<1> QED
  BY <1>5, <1>7, <1>8, <1>9, <1>10 DEF ClientServer, HandleServer

\* The server decides a command.
LEMMA AnswerKept ==
  ASSUME Inv, ServerAnswer
  PROVE  Kept
<1>1. /\ TypeOK /\ OrderlyShape /\ Orderly
      /\ UNCHANGED <<main, req, mpc, cur, history, upc, spc, sframe>>
  BY DEF ServerAnswer, Inv, uiVars, clientVars
<1>2. PICK ok \in BOOLEAN, size \in ListSizes \cup {1} : Answer(ok, size)
  BY DEF ServerAnswer
<1>3. UNCHANGED <<cmdPipe, sem, pushes, acked>>
  BY <1>2 DEF Answer
<1>4. Asked
  BY <1>1, <1>2 DEF Answer, Ack, OrderlyShape, Between, WiresEmpty, Exchange, Commanded,
     Forwarding, Answered, Relaying, Replied, Delivery, Sent, Taken, Written, Settling,
     Acknowledging
<1>5. /\ main = "await" /\ Phase = "asked" /\ ~Due /\ ~Owed /\ spc = "recv"
      /\ toClient = <<>> /\ cmdPipe = <<>> /\ upc = "read" /\ req.chan # Garbled
  BY <1>4, AskedView DEF Asked, ClientIdle, GoodCommand
<1>6. Head(toServer) = req /\ Tail(toServer) = <<>>
  BY <1>4 DEF Asked
<1>7. /\ toServer' = <<>> /\ members' \in Granted(req, ok, members)
      /\ toClient' = Append(<<>>, Response(req, ok, size))
  BY <1>2, <1>5, <1>6 DEF Answer
<1>8. Phase' = IF ok THEN "accepted" ELSE "refused"
  <2>1. toClient' # <<>> /\ toClient'[1] = Response(req, ok, size)
    BY <1>7
  <2>2. AnswerCode' = (IF ok THEN "ok" ELSE "err")
    BY <2>1 DEF AnswerCode, Response
  <2> QED
    BY <1>1, <1>3, <1>5, <1>7, <2>2 DEF Phase
<1>9. Wish' = Wish
  BY <1>1, <1>5, <1>8 DEF Wish, Verb
<1>10. members' \in (IF ok THEN Promise!Fulfilled ELSE {members})
  <2>1. Wish.verb = Verb /\ (Verb \in {"enter", "leave"} => Wish.place = req.chan)
    BY <1>5 DEF Wish, Verb
  <2>2. CASE ok /\ req.kind \in {"create", "join"}
    BY <1>7, <2>1, <2>2 DEF Granted, Verb, Promise!Fulfilled
  <2>3. CASE ok /\ req.kind = "leave"
    BY <1>7, <2>1, <2>3 DEF Granted, Verb, Promise!Fulfilled
  <2>4. CASE ok /\ req.kind = "logout"
    BY <1>7, <2>1, <2>4 DEF Granted, Verb, Promise!Fulfilled
  <2>5. CASE ok /\ req.kind \notin {"create", "join", "leave", "logout"}
    BY <1>7, <2>1, <2>5 DEF Granted, Verb, Promise!Fulfilled
  <2>6. CASE ~ok
    BY <1>7, <2>6 DEF Granted
  <2> QED
    BY <2>2, <2>3, <2>4, <2>5, <2>6
<1>11. ~Due' /\ ~Owed'
  <2>1. \A n \in DOMAIN toClient' : toClient'[n].code # "msg"
    BY <1>7 DEF Response
  <2>2. UNCHANGED <<sem, mpc, spc>>
    BY <1>1, <1>3
  <2> QED
    BY <1>5, <1>7, <2>1, <2>2 DEF Due, Owed
<1>12. Shown' = Shown
  BY <1>1 DEF Shown
<1>13. Promise!Accept \/ Promise!Refuse
  <2>1. CASE ok
    BY <1>1, <1>3, <1>5, <1>8, <1>9, <1>10, <1>11, <1>12, <2>1, DueBoolean DEF Promise!Accept
  <2>2. CASE ~ok
    BY <1>1, <1>3, <1>5, <1>8, <1>9, <1>10, <1>11, <1>12, <2>2, DueBoolean DEF Promise!Refuse
  <2> QED
    BY <2>1, <2>2
<1>14. AckInv'
  BY <1>3, <1>5, <1>11 DEF Inv, AckInv
<1> QED
  BY <1>13, <1>14 DEF Kept, Promise!Next

\* The server learns that its message has arrived.
LEMMA TakeAckKept ==
  ASSUME Inv, ServerTakeAck
  PROVE  Kept
<1>1. /\ OrderlyShape /\ Orderly
      /\ UNCHANGED <<main, req, mpc, cur, history, upc, spc, sframe>>
      /\ UNCHANGED <<cmdPipe, sem, pushes, members, toClient>>
  BY DEF ServerTakeAck, TakeAck, Inv, uiVars, clientVars
<1>2. Settling /\ toServer = <<Ack(pushes)>>
  BY <1>1 DEF ServerTakeAck, TakeAck, Asked, Waiting, GoodCommand, OrderlyShape, Between,
     WiresEmpty, Exchange, Commanded, Forwarding, Answered, Relaying, Replied, Delivery, Sent,
     Taken, Written, Settling, Acknowledging
<1>3. toServer' = <<>> /\ acked' = pushes
  BY <1>2 DEF ServerTakeAck, TakeAck, Ack
<1>4. spc = "recv" /\ toClient = <<>> /\ main # "await"
  BY <1>2 DEF Settling, Acknowledging, Listening
<1>5. Owed
  <2>1. 1 \in DOMAIN toServer /\ toServer[1].tag = "ack"
    BY <1>2 DEF Ack
  <2> QED
    BY <2>1 DEF Owed
<1>6. ~Owed'
  BY <1>1, <1>3, <1>4 DEF Owed
<1>7. Phase = "idle" /\ Phase' = "idle"
  BY <1>1, <1>4 DEF Phase
<1>8. Wish' = Wish /\ Shown' = Shown
  BY <1>1, <1>7 DEF Wish, Verb, Shown
<1>9. Due' = Due
  BY <1>1, SameWay, DueBoolean
<1>10. acked # pushes
  BY <1>5 DEF Inv, AckInv
<1>11. Promise!Tell
  BY <1>1, <1>3, <1>7, <1>8, <1>9, <1>10 DEF Promise!Tell
<1>12. AckInv'
  BY <1>1, <1>3, <1>6 DEF AckInv
<1> QED
  BY <1>11, <1>12 DEF Kept, Promise!Next

\* The server sends a message.
LEMMA PushKept ==
  ASSUME Inv, Orderly', ServerPush
  PROVE  Kept
<1>1. /\ TypeOK /\ OrderlyShape /\ Orderly
      /\ UNCHANGED <<main, req, mpc, cur, history, upc, spc, sframe>>
  BY DEF ServerPush, Inv, uiVars, clientVars
<1>2. PICK size \in TextSizes : Push(size)
  BY DEF ServerPush
<1>3. AtRest
  BY DEF ServerPush, Orderly
<1>4. /\ main # "await" /\ Phase = "idle" /\ ~Due /\ ~Owed /\ acked = pushes
      /\ toClient = <<>>
  BY <1>1, <1>3, RestShape, BetweenView
<1>5. /\ toClient' = Append(<<>>, Pushed(pushes + 1, size))
      /\ pushes' = pushes + 1 /\ UNCHANGED <<members, acked>>
  BY <1>2, <1>4 DEF Push
<1>6. 1 \in DOMAIN toClient' /\ toClient'[1].code = "msg"
  <2> DEFINE f == Pushed(pushes + 1, size)
  <2>1. f.code = "msg"
    BY DEF Pushed
  <2> HIDE DEF f
  <2>2. toClient' = <<f>>
    BY <1>5 DEF f
  <2> QED
    BY <2>1, <2>2
<1>7. Due' /\ Owed'
  BY <1>6 DEF Due, Owed
<1>8. Phase' = "idle"
  BY <1>1, <1>4 DEF Phase
<1>9. Wish' = Wish /\ Shown' = Shown
  BY <1>1, <1>4, <1>8 DEF Wish, Verb, Shown
<1>10. Promise!Send
  BY <1>1, <1>4, <1>5, <1>7, <1>8, <1>9, DueBoolean DEF Promise!Send, Promise!Quiet
<1>11. AckInv'
  <2>1. pushes \in Nat
    BY <1>1 DEF TypeOK, ServerTypeOK
  <2>2. acked' # pushes'
    BY <1>4, <1>5, <2>1
  <2> QED
    BY <1>7, <2>2 DEF AckInv
<1> QED
  BY <1>10, <1>11 DEF Kept, Promise!Next

LEMMA StutterKept ==
  ASSUME Inv, UNCHANGED vars
  PROVE  Kept
<1>1. UNCHANGED <<main, req, mpc, cur, history, upc, spc, sframe, cmdPipe, sem, pushes, acked,
                  members, toClient, toServer, pipe>>
  BY DEF vars, uiVars, clientVars, serverVars, wireVars
<1>2. Phase' = Phase
  BY <1>1 DEF Phase, AnswerCode
<1> QED
  BY <1>1, <1>2, SameWay, KeptUnseen

-----------------------------------------------------------------------------
(* The theorem.                                                            *)

LEMMA InitKept ==
  ASSUME OrderlyInit
  PROVE  Promise!Init /\ AckInv /\ Orderly
<1>1. /\ main = "menu" /\ toClient = <<>> /\ toServer = <<>> /\ spc = "recv"
      /\ cur = NoChannel /\ members = {} /\ pushes = 0 /\ acked = 0 /\ history = <<>>
      /\ mpc = [t \in MsgThreads |-> "off"] /\ Orderly /\ sem = 0
  BY DEF OrderlyInit, Init, WireInit, UIInit, ClientInit, ServerInit, Orderly
<1>2. Phase = "idle"
  BY <1>1 DEF Phase
<1>3. Wish = Promise!Nothing
  BY <1>2 DEF Wish, Promise!Nothing
<1>4. ~Due /\ ~Owed
  BY <1>1 DEF Due, Owed
<1>5. Shown = <<>>
  BY <1>1 DEF Shown
<1>6. Promise!Init
  BY <1>1, <1>2, <1>3, <1>4, <1>5 DEF Promise!Init
<1>7. AckInv
  BY <1>1, <1>4 DEF AckInv
<1> QED
  BY <1>1, <1>6, <1>7

\* Orderly sessions keep the promise, for any channels, any number of message
\* threads, commands and messages: one command at a time is decided and taken
\* over, and a message is shown once and acknowledged before the next.
THEOREM PromiseKept == OrderlySpec => KeepsPromise
<1>1. ASSUME Inv, [OrderlyNext]_vars
      PROVE  Kept /\ Orderly'
  <2>1. CASE OrderlyNext
    BY <1>1, <2>1, UserKept, UIMainKept, UIMessageKept, ClientUIKept, ClientServerKept,
       AnswerKept, TakeAckKept, PushKept DEF OrderlyNext, Next
  <2>2. CASE UNCHANGED vars
    BY <1>1, <2>2, StutterKept DEF Inv, Orderly, vars
  <2> QED
    BY <1>1, <2>1, <2>2
<1>2. Inv /\ [OrderlyNext]_vars => AckInv' /\ Orderly' /\ [Promise!Next]_Promise!promiseVars
  BY <1>1 DEF Kept
<1>3. OrderlyInit => Init
  BY DEF OrderlyInit
<1>4. [OrderlyNext]_vars => [Next]_vars
  BY DEF OrderlyNext
<1>5. OrderlySpec => []TypeOK /\ []OrderlyShape
  BY <1>3, <1>4, TypeCorrect, OrderlyInvariant, PTL DEF OrderlySpec, Spec
<1>6. TypeOK /\ OrderlyShape /\ Orderly /\ AckInv => Inv
  BY DEF Inv
<1>7. OrderlyInit => Promise!Init /\ AckInv /\ Orderly
  BY InitKept
<1> QED
  BY <1>2, <1>5, <1>6, <1>7, PTL DEF OrderlySpec, KeepsPromise, Promise!Spec
=============================================================================
