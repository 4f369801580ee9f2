------------------------- MODULE ChatSession_proofs -------------------------
(***************************************************************************)
(* Proofs about ChatSession, for every set of channels and threads, every  *)
(* size of buffer and text, and every bound on commands and pushes.        *)
(***************************************************************************)
EXTENDS ChatSession, FiniteSetTheorems, TLAPS

-----------------------------------------------------------------------------
(* Type correctness.                                                       *)

\* A command is an UpFrame, and so is an acknowledgement.
LEMMA FrameTypes ==
  ASSUME NEW id \in Nat, NEW k \in Kinds, NEW c \in Names
  PROVE  Command(id, k, c) \in UpFrame /\ Ack(id) \in UpFrame
BY DEF Command, Ack, UpFrame, Names, Kinds

\* What handle_server writes for a frame is a sequence of cells.
LEMMA TextType ==
  ASSUME NEW f \in DownFrame
  PROVE  /\ CellCount(f) \in Nat
         /\ Text(f) \in Seq(Cell)
         /\ Len(Text(f)) = CellCount(f)
<1>1. CellCount(f) \in Nat
  BY DEF CellCount, DownFrame
<1>2. Wording(f) \in Wordings
  BY DEF Wording, Wordings
<1>3. Text(f) \in [1..CellCount(f) -> Cell]
  BY <1>1, <1>2 DEF Text, Cell
<1> QED
  BY <1>1, <1>3

\* A read takes a sequence of cells, and leaves one.
LEMMA ReadType ==
  ASSUME TypeOK
  PROVE  Chunk \in Seq(Cell) /\ Unread \in Seq(Cell)
<1>1. pipe \in Seq(Cell) /\ ReadSize \in Nat /\ ReadSize <= Len(pipe)
  BY WireAssumption DEF TypeOK, WireTypeOK, ReadSize
<1> QED
  BY <1>1 DEF Chunk, Unread

LEMMA InitType == Init => TypeOK
<1> SUFFICES ASSUME Init PROVE TypeOK
  OBVIOUS
<1>1. Command(0, "signup", NoChannel) \in UpFrame
  BY FrameTypes DEF Kinds, Names
<1>2. WireTypeOK
  BY SessionAssumption DEF Init, WireInit, WireTypeOK
<1>3. UITypeOK
  BY <1>1 DEF Init, UIInit, UITypeOK, MainStates, MsgStates, Names
<1>4. ClientTypeOK
  BY <1>1 DEF Init, ClientInit, ClientTypeOK, UiThreadStates, ServerThreadStates,
              DownFrame, Ops, Opcode, Kinds
<1>5. ServerTypeOK
  BY DEF Init, ServerInit, ServerTypeOK, Names
<1> QED
  BY <1>2, <1>3, <1>4, <1>5 DEF Init, TypeOK

\* Writing a command keeps the types of what it changes.
LEMMA WriteType ==
  ASSUME TypeOK, NEW cmd \in UpFrame, Write(cmd)
  PROVE  /\ cmdPipe' \in Seq(UpFrame)
         /\ req' \in UpFrame
         /\ nreq' \in Nat
         /\ main' \in MainStates
         /\ uiUp' \in BOOLEAN
<1> USE DEF TypeOK, WireTypeOK, UITypeOK, MainStates
<1>1. CASE clientUp
  <2>1. /\ cmdPipe' = Append(cmdPipe, cmd)
        /\ req' = cmd
        /\ nreq' = nreq + 1
        /\ main' = "await"
        /\ uiUp' = uiUp
    BY <1>1 DEF Write
  <2>2. cmdPipe' \in Seq(UpFrame)
    BY <2>1
  <2> QED
    BY <2>1, <2>2
<1>2. CASE ~clientUp
  BY <1>2 DEF Write
<1> QED
  BY <1>1, <1>2

LEMMA UserType ==
  ASSUME TypeOK, User
  PROVE  TypeOK'
<1> USE DEF TypeOK, WireTypeOK, UITypeOK, ClientTypeOK, ServerTypeOK
<1>1. /\ cmdPipe' \in Seq(UpFrame)
      /\ req' \in UpFrame
      /\ nreq' \in Nat
      /\ main' \in MainStates
      /\ uiUp' \in BOOLEAN
      /\ uiTok' \in MsgThreads \cup {"main", "spoilt"}
  <2>1. \A k \in Kinds, c \in Names : Command(NextId, k, c) \in UpFrame
    BY FrameTypes DEF NextId
  <2>2. NoChannel \in Names /\ Channels \subseteq Names
    BY DEF Names
  <2>3. CASE SubmitSignup
    BY <2>1, <2>2, <2>3, WriteType DEF SubmitSignup, Kinds
  <2>4. CASE SubmitLogin
    BY <2>1, <2>2, <2>4, WriteType DEF SubmitLogin, Kinds
  <2>5. CASE EnterLogout
    BY <2>1, <2>2, <2>5, WriteType DEF EnterLogout, Enter, Kinds
  <2>6. CASE EnterIgnored
    BY <2>6 DEF EnterIgnored, Enter
  <2>7. CASE EnterMessage
    BY <2>1, <2>2, <2>7, WriteType DEF EnterMessage, Enter, Kinds
  <2>8. CASE \E c \in Channels : EnterJoin(c)
    BY <2>1, <2>2, <2>8, WriteType DEF EnterJoin, Enter, Kinds
  <2>9. CASE \E c \in Channels : EnterCreate(c)
    BY <2>1, <2>2, <2>9 DEF EnterCreate, Enter, Kinds, MainStates
  <2>10. CASE \E c \in Channels : EnterLeave(c)
    BY <2>1, <2>2, <2>10 DEF EnterLeave, Enter, Kinds, MainStates
  <2> QED
    BY <2>3, <2>4, <2>5, <2>6, <2>7, <2>8, <2>9, <2>10 DEF User, UserStep
<1>2. serial' \in BOOLEAN
  BY DEF User
<1> QED
  BY <1>1, <1>2 DEF User, UserStep, clientVars, serverVars

LEMMA UIMainType ==
  ASSUME TypeOK, UIMain
  PROVE  TypeOK'
<1> USE DEF TypeOK, WireTypeOK, UITypeOK, ClientTypeOK, ServerTypeOK
<1>1. CASE TakeArgumentsStep
  <2>1. [req EXCEPT !.chan = Garbled, !.intact = FALSE] \in UpFrame
    BY DEF UpFrame, Names
  <2>2. /\ cmdPipe' \in Seq(UpFrame)
        /\ req' \in UpFrame
        /\ nreq' \in Nat
        /\ main' \in MainStates
        /\ uiUp' \in BOOLEAN
        /\ uiTok' \in MsgThreads \cup {"main", "spoilt"}
    <3>1. CASE uiTok = "main" /\ Write(req) /\ UNCHANGED uiTok
      BY <3>1, WriteType
    <3>2. CASE uiTok' = "spoilt" /\ Write([req EXCEPT !.chan = Garbled, !.intact = FALSE])
      BY <2>1, <3>2, WriteType
    <3>3. CASE /\ main' = AfterCommand(req.kind)
               /\ uiTok' = "spoilt"
               /\ UNCHANGED <<cmdPipe, req, nreq, uiUp>>
      BY <3>3 DEF AfterCommand, MainStates
    <3> QED
      BY <1>1, <3>1, <3>2, <3>3 DEF TakeArgumentsStep, TakeArguments
  <2> QED
    BY <1>1, <2>2 DEF UIMain, TakeArgumentsStep, clientVars, serverVars
<1>2. CASE Reply
  <2>1. pipe' \in Seq(Cell) /\ uiTok' = "main"
    BY <1>2, ReadType DEF Reply, SignupReply, LoginReply, CreateReply, JoinReply,
       LeaveReply, LogoutReply, MessageReply, Accepted, Refused, ReadResponse
  <2>2. main' \in MainStates
    BY <1>2 DEF Reply, SignupReply, LoginReply, CreateReply, JoinReply, LeaveReply,
       LogoutReply, MessageReply, AfterCommand, MainStates
  <2>3. cur' \in Names
    BY <1>2 DEF Reply, SignupReply, LoginReply, CreateReply, JoinReply, LeaveReply,
       LogoutReply, MessageReply, Names, UpFrame
  <2> QED
    BY <1>2, <2>1, <2>2, <2>3 DEF UIMain, Reply, clientVars, serverVars
<1>3. CASE StartChat
  <2>1. mpc' \in [MsgThreads -> MsgStates]
    BY <1>3 DEF StartChat, MsgStates
  <2> QED
    BY <1>3, <2>1 DEF UIMain, StartChat, MainStates, wireVars, clientVars, serverVars
<1>4. CASE FinishLine
  BY <1>4 DEF UIMain, FinishLine, MainStates, wireVars, clientVars, serverVars
<1>5. CASE ReplyEof
  BY <1>5 DEF UIMain, ReplyEof, uiVars, clientVars, serverVars
<1> QED
  BY <1>1, <1>2, <1>3, <1>4, <1>5 DEF UIMain

\* A text in which a string is found is not empty.
LEMMA NoTokens == TokenCount(<<>>) = 0
<1>1. {n \in 1..0 : <<>>[n].etx} = {}
  OBVIOUS
<1> QED
  BY <1>1, FS_EmptySet DEF TokenCount

\* What a message thread does with the text it has read.
LEMMA RecordCases ==
  ASSUME NEW t \in MsgThreads, MsgRecord(t)
  PROVE  \/ Drop
         \/ Crash
         \/ \E w \in BOOLEAN : mchunk[t] # <<>> /\ Record(mchunk[t], w)
<1>1. IsWhole(mchunk[t]) \in BOOLEAN
  BY DEF IsWhole
<1>2. TokenCount(mchunk[t]) > 2 => mchunk[t] # <<>>
  BY NoTokens
<1> QED
  BY <1>1, <1>2 DEF MsgRecord

LEMMA UIMessageType ==
  ASSUME TypeOK, NEW t \in MsgThreads, UIMessage(t)
  PROVE  TypeOK'
<1> USE DEF TypeOK, WireTypeOK, UITypeOK, ClientTypeOK, ServerTypeOK
<1>1. \A v \in MsgStates : [mpc EXCEPT ![t] = v] \in [MsgThreads -> MsgStates]
  OBVIOUS
<1>2. CASE MsgWait(t)
  <2>1. sem' \in Nat
    BY <1>2 DEF MsgWait
  <2>2. mpc' \in [MsgThreads -> MsgStates]
    BY <1>1, <1>2 DEF MsgWait, MsgStates
  <2> QED
    BY <1>2, <2>1, <2>2 DEF UIMessage, MsgWait, clientVars, serverVars
<1>3. CASE MsgRead(t)
  <2>1. pipe' \in Seq(Cell) /\ mchunk' \in [MsgThreads -> Seq(Cell)]
    BY <1>3, ReadType DEF MsgRead
  <2>2. mpc' \in [MsgThreads -> MsgStates]
    BY <1>1, <1>3 DEF MsgRead, MsgStates
  <2> QED
    BY <1>3, <2>1, <2>2 DEF UIMessage, MsgRead, clientVars, serverVars
<1>4. CASE MsgRecord(t)
  <2>1. mpc' \in [MsgThreads -> MsgStates] /\ mchunk' \in [MsgThreads -> Seq(Cell)]
    BY <1>1, <1>4 DEF MsgRecord, MsgStates
  <2>2. uiUp' \in BOOLEAN /\ uiTok' \in MsgThreads \cup {"main", "spoilt"}
    BY <1>4 DEF MsgRecord, Drop, Crash, Record
  <2>3. history' \in Seq([id : Nat, whole : BOOLEAN])
    <3>1. ASSUME NEW w \in BOOLEAN, mchunk[t] # <<>>
          PROVE  [id |-> mchunk[t][1].frame.id, whole |-> w] \in [id : Nat, whole : BOOLEAN]
      <4>1. mchunk[t][1] \in Cell
        BY <3>1
      <4> QED
        BY <4>1 DEF Cell, DownFrame
    <3>2. CASE history' = history
      BY <3>2
    <3>3. CASE \E w \in BOOLEAN : mchunk[t] # <<>> /\ Record(mchunk[t], w)
      <4>1. PICK w \in BOOLEAN : mchunk[t] # <<>> /\ Record(mchunk[t], w)
        BY <3>3
      <4>2. history' = Append(history, [id |-> mchunk[t][1].frame.id, whole |-> w])
        BY <4>1 DEF Record
      <4> QED
        BY <3>1, <4>1, <4>2
    <3> QED
      BY <1>4, <3>2, <3>3, RecordCases DEF Drop, Crash
  <2> QED
    BY <1>4, <2>1, <2>2, <2>3 DEF UIMessage, MsgRecord, clientVars, serverVars
<1> QED
  BY <1>2, <1>3, <1>4 DEF UIMessage, MsgStep

LEMMA ClientUIType ==
  ASSUME TypeOK, ClientUI
  PROVE  TypeOK'
<1> USE DEF TypeOK, WireTypeOK, UITypeOK, ClientTypeOK, ServerTypeOK
<1>1. \A r \in UpFrame : [r EXCEPT !.chan = Garbled, !.intact = FALSE] \in UpFrame
  BY DEF UpFrame, Names
<1>2. CASE ReadCommand
  <2>1. Head(cmdPipe) \in UpFrame
    BY <1>2 DEF ReadCommand
  <2>2. ureq' \in UpFrame
    BY <1>1, <1>2, <2>1 DEF ReadCommand
  <2> QED
    BY <1>2, <2>2 DEF ClientUI, HandleUi, ReadCommand, uiVars, serverVars, UiThreadStates
<1>3. CASE ReadCommandEof
  BY <1>3 DEF ClientUI, HandleUi, ReadCommandEof, uiVars, serverVars
<1>4. CASE TakeType
  BY <1>4 DEF ClientUI, HandleUi, TakeType, uiVars, serverVars, UiThreadStates
<1>5. CASE TakeFields
  <2>1. toServer' = toServer \/ \E r \in UpFrame : toServer' = Append(toServer, r)
    BY <1>1, <1>5 DEF TakeFields
  <2>2. toServer' \in Seq(UpFrame)
    <3>1. toServer \in Seq(UpFrame)
      OBVIOUS
    <3>2. ASSUME NEW r \in UpFrame PROVE Append(toServer, r) \in Seq(UpFrame)
      BY <3>1
    <3> HIDE DEF TypeOK, WireTypeOK, UITypeOK, ClientTypeOK, ServerTypeOK
    <3> QED
      BY <2>1, <3>1, <3>2
  <2> QED
    BY <1>5, <2>2 DEF ClientUI, HandleUi, TakeFields, uiVars, serverVars, UiThreadStates
<1> QED
  BY <1>2, <1>3, <1>4, <1>5 DEF ClientUI, HandleUi

\* Writing a text keeps the types of what it changes.
LEMMA WriteTextType ==
  ASSUME TypeOK, NEW f \in DownFrame, NEW next \in ServerThreadStates, WriteText(f, next)
  PROVE  pipe' \in Seq(Cell) /\ spc' \in ServerThreadStates /\ clientUp' \in BOOLEAN
<1> USE DEF TypeOK, WireTypeOK, ClientTypeOK
<1>1. pipe \o Text(f) \in Seq(Cell)
  BY TextType
<1> QED
  BY <1>1 DEF WriteText

LEMMA ClientServerType ==
  ASSUME TypeOK, ClientServer
  PROVE  TypeOK'
<1> USE DEF TypeOK, WireTypeOK, UITypeOK, ClientTypeOK, ServerTypeOK
<1>1. CASE ReceiveFrame
  BY <1>1 DEF ClientServer, HandleServer, ReceiveFrame, uiVars, serverVars, ServerThreadStates
<1>2. CASE RelayCode
  <2>1. pipe' \in Seq(Cell) /\ spc' \in ServerThreadStates /\ clientUp' \in BOOLEAN
    BY <1>2, WriteTextType DEF RelayCode, ServerThreadStates
  <2> QED
    BY <1>2, <2>1 DEF ClientServer, HandleServer, RelayCode, uiVars, serverVars
<1>3. ASSUME NEW code, NEW next \in ServerThreadStates, RelayFields(code, next)
      PROVE  TypeOK'
  <2>1. [sframe EXCEPT !.intact = FALSE] \in DownFrame
    BY DEF DownFrame
  <2>2. /\ pipe' \in Seq(Cell)
        /\ spc' \in ServerThreadStates
        /\ clientUp' \in BOOLEAN
        /\ cliTok' \in {"ui", "server", "spoilt"}
    <3>1. CASE WriteText(sframe, next) /\ UNCHANGED cliTok
      BY <3>1, WriteTextType
    <3>2. CASE WriteText([sframe EXCEPT !.intact = FALSE], next) /\ cliTok' = "spoilt"
      BY <2>1, <3>2, WriteTextType
    <3>3. CASE clientUp' = FALSE /\ UNCHANGED <<pipe, spc, cliTok>>
      BY <3>3
    <3> QED
      BY <1>3, <3>1, <3>2, <3>3 DEF RelayFields
  <2> QED
    BY <1>3, <2>2 DEF ClientServer, HandleServer, RelayFields, uiVars, serverVars
<1>4. CASE RelayList
  BY <1>3, <1>4 DEF RelayList, ServerThreadStates
<1>5. CASE RelayMessage
  BY <1>3, <1>5 DEF RelayMessage, ServerThreadStates
<1>6. CASE PostMessage
  BY <1>6 DEF ClientServer, HandleServer, PostMessage, uiVars, serverVars, ServerThreadStates
<1>7. CASE AckMessage
  <2>1. Ack(sframe.id) \in UpFrame
    BY DEF Ack, UpFrame, DownFrame, Kinds, Names
  <2> QED
    BY <1>7, <2>1 DEF ClientServer, HandleServer, AckMessage, uiVars, serverVars,
                      ServerThreadStates
<1> QED
  BY <1>1, <1>2, <1>4, <1>5, <1>6, <1>7 DEF ClientServer, HandleServer

\* What the server sends is a frame.
LEMMA ResponseType ==
  ASSUME NEW r \in UpFrame, NEW ok \in BOOLEAN, NEW size \in Nat
  PROVE  Response(r, ok, size) \in DownFrame
BY DEF Response, UpFrame, DownFrame, Ops

LEMMA PushedType ==
  ASSUME NEW n \in Nat, NEW size \in Nat
  PROVE  Pushed(n, size) \in DownFrame
BY DEF Pushed, DownFrame, Ops, Opcode, Kinds

LEMMA ServerType ==
  ASSUME TypeOK, ServerAnswer \/ ServerTakeAck \/ ServerPush
  PROVE  TypeOK'
<1> USE DEF TypeOK, WireTypeOK, UITypeOK, ClientTypeOK, ServerTypeOK
<1>1. CASE ServerAnswer
  <2>1. PICK ok \in BOOLEAN, size \in ListSizes \cup {1} :
          Answer(ok, size) /\ fits' = (fits /\ size <= RESPONSE_BUFFER)
    BY <1>1 DEF ServerAnswer
  <2>2. Head(toServer) \in UpFrame /\ size \in Nat
    BY <2>1, WireAssumption DEF Answer
  <2>3. toClient' \in Seq(DownFrame) /\ toServer' \in Seq(UpFrame)
    BY <2>1, <2>2, ResponseType DEF Answer
  <2>4. members' \subseteq Names
    <3>1. Head(toServer).chan \in Names
      BY <2>2 DEF UpFrame
    <3> QED
      BY <2>1, <3>1 DEF Answer, Granted
  <2>5. online' \in BOOLEAN /\ fits' \in BOOLEAN /\ forgot' \in BOOLEAN
    BY <2>1 DEF Answer
  <2> QED
    BY <1>1, <2>1, <2>3, <2>4, <2>5 DEF ServerAnswer, Answer, uiVars, clientVars
<1>2. CASE ServerTakeAck
  <2>1. Head(toServer) \in UpFrame
    BY <1>2 DEF ServerTakeAck, TakeAck
  <2> QED
    BY <1>2, <2>1 DEF ServerTakeAck, TakeAck, uiVars, clientVars, UpFrame
<1>3. CASE ServerPush
  <2>1. PICK size \in TextSizes :
          Push(size) /\ fits' = (fits /\ size + 2 <= RESPONSE_BUFFER)
    BY <1>3 DEF ServerPush
  <2>2. pushes' \in Nat /\ toClient' \in Seq(DownFrame)
    BY <2>1, WireAssumption, PushedType DEF Push
  <2> QED
    BY <1>3, <2>1, <2>2 DEF ServerPush, Push, uiVars, clientVars
<1> QED
  BY <1>1, <1>2, <1>3

\* Every variable keeps its type in every session.
THEOREM TypeCorrect == Spec => []TypeOK
<1>1. ASSUME TypeOK, [Next]_vars
      PROVE  TypeOK'
  <2>1. CASE UNCHANGED vars
    BY <1>1, <2>1 DEF vars, uiVars, clientVars, serverVars, wireVars,
       TypeOK, WireTypeOK, UITypeOK, ClientTypeOK, ServerTypeOK
  <2> QED
    BY <1>1, <2>1, UserType, UIMainType, UIMessageType, ClientUIType,
       ClientServerType, ServerType DEF Next
<1> QED
  BY <1>1, InitType, PTL DEF Spec

-----------------------------------------------------------------------------
(* Frames and their numbers.                                               *)

LEMMA FlightTypes ==
  ASSUME TypeOK
  PROVE  /\ nreq \in Nat /\ cmdPipe \in Seq(UpFrame) /\ toServer \in Seq(UpFrame)
         /\ toClient \in Seq(DownFrame) /\ sframe \in DownFrame /\ ureq \in UpFrame
         /\ Answers \in SUBSET DOMAIN toClient /\ Requests \in SUBSET DOMAIN toServer
         /\ \A r \in UpFrame : r.id \in Nat
         /\ \A r \in DownFrame : r.id \in Nat
BY DEF TypeOK, WireTypeOK, UITypeOK, ClientTypeOK, Answers, Requests, UpFrame, DownFrame

\* The numbers at the positions S of a sequence grow, within bounds.
Ascends(s, S, lo, hi) ==
  /\ \A n \in S : lo < s[n].id /\ s[n].id <= hi
  /\ \A m, n \in S : m < n => s[m].id < s[n].id

\* A higher number at the end, or a frame that is not counted.
LEMMA AscendsAppend ==
  ASSUME NEW R, NEW s \in Seq(R), NEW x \in R, \A r \in R : r.id \in Nat,
         NEW S \in SUBSET DOMAIN s, NEW T \in SUBSET (S \cup {Len(s) + 1}),
         NEW lo \in Nat, NEW hi \in Nat, NEW top \in Nat,
         Ascends(s, S, lo, hi), lo <= hi, hi <= top,
         Len(s) + 1 \in T => hi < x.id /\ x.id <= top,
         NEW u, u = Append(s, x)
  PROVE  Ascends(u, T, lo, top)
<1>1. /\ \A n \in S : n \in 1..Len(s) /\ u[n] = s[n] /\ s[n].id \in Nat
      /\ u[Len(s) + 1] = x /\ x.id \in Nat /\ Len(s) \in Nat
  OBVIOUS
<1>2. ASSUME NEW n \in T
      PROVE  lo < u[n].id /\ u[n].id <= top
  BY <1>1, <1>2 DEF Ascends
<1>3. ASSUME NEW m \in T, NEW n \in T, m < n
      PROVE  u[m].id < u[n].id
  <2>1. CASE n \in S
    <3>1. m \in S
      BY <1>1, <1>3, <2>1
    <3> QED
      BY <1>1, <1>3, <2>1, <3>1 DEF Ascends
  <2>2. CASE n = Len(s) + 1
    <3>1. m \in S
      BY <1>1, <1>3, <2>2
    <3>2. s[m].id <= hi /\ hi < x.id
      BY <1>3, <2>2, <3>1 DEF Ascends
    <3> QED
      BY <1>1, <2>2, <3>1, <3>2
  <2> QED
    BY <1>3, <2>1, <2>2
<1> QED
  BY <1>2, <1>3 DEF Ascends

LEMMA AppendDown ==
  ASSUME NEW s \in Seq(DownFrame), NEW x \in DownFrame,
         NEW S \in SUBSET DOMAIN s, NEW T \in SUBSET (S \cup {Len(s) + 1}),
         NEW lo \in Nat, NEW hi \in Nat, NEW top \in Nat,
         Ascends(s, S, lo, hi), lo <= hi, hi <= top,
         Len(s) + 1 \in T => hi < x.id /\ x.id <= top,
         NEW u, u = Append(s, x)
  PROVE  Ascends(u, T, lo, top)
<1>1. \A r \in DownFrame : r.id \in Nat
  BY DEF DownFrame
<1> QED
  BY <1>1, AscendsAppend

\* Without its first frame.
LEMMA AscendsTail ==
  ASSUME NEW R, NEW s \in Seq(R), s # <<>>, \A r \in R : r.id \in Nat,
         NEW S \in SUBSET DOMAIN s, NEW lo \in Nat, NEW hi \in Nat,
         Ascends(s, S, lo, hi),
         NEW u, u = Tail(s), NEW T \in SUBSET DOMAIN u, \A n \in T : n + 1 \in S
  PROVE  /\ Ascends(u, T, lo, hi)
         /\ 1 \in S => /\ lo < s[1].id /\ s[1].id <= hi /\ s[1].id \in Nat
                       /\ Ascends(u, T, s[1].id, hi)
<1>1. /\ Len(s) \in Nat /\ Len(s) >= 1 /\ Len(u) = Len(s) - 1
      /\ \A n \in 1..Len(u) : u[n] = s[n + 1]
  OBVIOUS
<1>2. \A n \in T : n \in Nat /\ n >= 1 /\ u[n] = s[n + 1] /\ n + 1 \in S
  BY <1>1
<1>3. \A n \in S : s[n].id \in Nat
  OBVIOUS
<1>4. Ascends(u, T, lo, hi)
  BY <1>2, <1>3 DEF Ascends
<1>5. ASSUME 1 \in S
      PROVE  Ascends(u, T, s[1].id, hi)
  BY <1>2, <1>3, <1>5 DEF Ascends
<1> QED
  BY <1>3, <1>4, <1>5 DEF Ascends

-----------------------------------------------------------------------------
(* A message is recorded once, whatever the order of events: the first cell *)
(* of its text is at one place only, and the numbers of messages grow from   *)
(* the pipe back to the server.                                              *)

Starts(s) == {n \in DOMAIN s : s[n].word = "MSG" /\ s[n].part = 1}

\* Messages whose text begins in the pipe.
Started(a, b) ==
  /\ \A n \in Starts(pipe) : a < pipe[n].frame.id /\ pipe[n].frame.id <= b
  /\ \A m, n \in Starts(pipe) : m < n => pipe[m].frame.id < pipe[n].frame.id

\* Those that threads have read, and those in the history.
Fronts == {t \in MsgThreads : 1 \in Starts(mchunk[t])}
FrontId(t) == mchunk[t][1].frame.id

Out(a) ==
  /\ \A t \in Fronts : FrontId(t) <= a
  /\ \A n \in Recorded : history[n].id <= a
  /\ \A t, u \in Fronts : FrontId(t) = FrontId(u) => t = u
  /\ \A t \in Fronts, n \in Recorded : FrontId(t) # history[n].id
  /\ RecordedOnce

Messages == {n \in DOMAIN toClient : toClient[n].code = "msg"}

\* Those that handle_server has in hand, and those on their way to it.
Behind(b, c) ==
  /\ b <= c /\ c <= pushes
  /\ spc = "parse" /\ sframe.code = "msg" => b < sframe.id /\ sframe.id <= c
  /\ Ascends(toClient, Messages, c, pushes)

Told(a, b, c) == a <= b /\ Out(a) /\ Started(a, b) /\ Behind(b, c)

Once == \E a, b, c \in Nat : Told(a, b, c)

LEMMA MessageTypes ==
  ASSUME TypeOK
  PROVE  /\ pushes \in Nat /\ pipe \in Seq(Cell) /\ toClient \in Seq(DownFrame)
         /\ sframe \in DownFrame /\ Messages \in SUBSET DOMAIN toClient
         /\ \A n \in DOMAIN pipe : pipe[n].frame \in DownFrame /\ pipe[n].frame.id \in Nat
         /\ \A r \in DownFrame : r.id \in Nat
<1>1. \A n \in DOMAIN pipe : pipe[n] \in Cell
  BY DEF TypeOK, WireTypeOK
<1> QED
  BY <1>1 DEF TypeOK, WireTypeOK, ClientTypeOK, ServerTypeOK, Cell, DownFrame, Messages

LEMMA Element ==
  ASSUME NEW S, NEW s \in Seq(S), NEW n \in DOMAIN s
  PROVE  s[n] \in S
OBVIOUS

\* What is left after a read, and what it begins with.
LEMMA UnreadCells ==
  ASSUME TypeOK, pipe # <<>>
  PROVE  /\ ReadSize \in Nat /\ 1 <= ReadSize /\ ReadSize <= Len(pipe)
         /\ Len(Unread) = Len(pipe) - ReadSize
         /\ \A n \in 1..Len(Unread) : n + ReadSize \in 1..Len(pipe) /\ Unread[n] = pipe[n + ReadSize]
         /\ Chunk # <<>> /\ Chunk[1] = pipe[1]
         /\ Len(Chunk) = ReadSize /\ \A n \in 1..ReadSize : Chunk[n] = pipe[n]
<1>1. pipe \in Seq(Cell) /\ Len(pipe) \in Nat /\ Len(pipe) >= 1
  BY DEF TypeOK, WireTypeOK
<1>2. ReadSize \in Nat /\ 1 <= ReadSize /\ ReadSize <= Len(pipe)
  BY <1>1, WireAssumption DEF ReadSize
<1>3. PICK r \in Nat : r = ReadSize
  BY <1>2
<1>4. PICK l \in Nat : l = Len(pipe)
  BY <1>1
<1>5. /\ Len(SubSeq(pipe, r + 1, l)) = l - r
      /\ \A n \in 1..(l - r) : SubSeq(pipe, r + 1, l)[n] = pipe[n + r]
  BY <1>1, <1>2, <1>3, <1>4
<1>6. /\ Len(SubSeq(pipe, 1, r)) = r
      /\ \A n \in 1..r : SubSeq(pipe, 1, r)[n] = pipe[n]
  BY <1>1, <1>2, <1>3, <1>4
<1>7. Unread = SubSeq(pipe, r + 1, l) /\ Chunk = SubSeq(pipe, 1, r)
  BY <1>3, <1>4 DEF Unread, Chunk
<1>8. \A n \in 1..(l - r) : n + r \in 1..l
  BY <1>2, <1>3, <1>4
<1>9. Chunk # <<>> /\ Chunk[1] = pipe[1]
  BY <1>2, <1>3, <1>6, <1>7
<1> QED
  BY <1>2, <1>3, <1>4, <1>5, <1>6, <1>7, <1>8, <1>9

LEMMA ReadStarted ==
  ASSUME TypeOK, pipe # <<>>, pipe' = Unread, NEW a \in Nat, NEW b \in Nat, Started(a, b)
  PROVE  /\ Started(a, b)'
         /\ 1 \in Starts(pipe) =>
              \E i \in Nat : i = pipe[1].frame.id /\ a < i /\ i <= b /\ Started(i, b)'
<1>1. PICK r \in Nat : r = ReadSize /\ 1 <= r
  BY UnreadCells
<1>2. \A n \in Starts(pipe)' : n + r \in Starts(pipe) /\ pipe'[n] = pipe[n + r] /\ n \in Nat /\ n >= 1
  <2>1. \A n \in DOMAIN pipe' : n \in 1..Len(pipe')
    BY ReadType
  <2>2. \A n \in 1..Len(pipe') : n + r \in 1..Len(pipe) /\ pipe'[n] = pipe[n + r]
    BY <1>1, UnreadCells
  <2>3. DOMAIN pipe = 1..Len(pipe)
    BY MessageTypes
  <2> QED
    BY <2>1, <2>2, <2>3 DEF Starts
<1>3. \A n \in Starts(pipe) : n \in Nat /\ pipe[n].frame.id \in Nat
  BY MessageTypes DEF Starts
<1>4. Started(a, b)'
  <2>1. ASSUME NEW n \in Starts(pipe)'
        PROVE  a < pipe'[n].frame.id /\ pipe'[n].frame.id <= b
    BY <1>2, <2>1 DEF Started
  <2>2. ASSUME NEW m \in Starts(pipe)', NEW n \in Starts(pipe)', m < n
        PROVE  pipe'[m].frame.id < pipe'[n].frame.id
    <3>1. m + r \in Starts(pipe) /\ n + r \in Starts(pipe) /\ m + r < n + r
      BY <1>1, <1>2, <2>2
    <3>2. pipe[m + r].frame.id < pipe[n + r].frame.id
      BY <3>1 DEF Started
    <3> QED
      BY <1>2, <2>2, <3>2
  <2> QED
    BY <2>1, <2>2 DEF Started
<1>5. ASSUME 1 \in Starts(pipe)
      PROVE  \E i \in Nat : i = pipe[1].frame.id /\ a < i /\ i <= b /\ Started(i, b)'
  <2>1. PICK i \in Nat : i = pipe[1].frame.id
    BY <1>3, <1>5
  <2>2. \A n \in Starts(pipe)' : 1 < n + r
    BY <1>1, <1>2
  <2>3. ASSUME NEW n \in Starts(pipe)'
        PROVE  i < pipe'[n].frame.id /\ pipe'[n].frame.id <= b
    <3>1. n + r \in Starts(pipe) /\ pipe'[n] = pipe[n + r] /\ 1 < n + r
      BY <1>2, <2>2, <2>3
    <3>2. pipe[1].frame.id < pipe[n + r].frame.id /\ pipe[n + r].frame.id <= b
      BY <1>5, <3>1 DEF Started
    <3> QED
      BY <2>1, <3>1, <3>2
  <2>4. \A m, n \in Starts(pipe)' : m < n => pipe'[m].frame.id < pipe'[n].frame.id
    BY <1>4 DEF Started
  <2>5. Started(i, b)'
    BY <2>3, <2>4 DEF Started
  <2> QED
    BY <1>5, <2>1, <2>5 DEF Started
<1> QED
  BY <1>4, <1>5

LEMMA WriteStarted ==
  ASSUME TypeOK, NEW f \in DownFrame, pipe' = pipe \o Text(f),
         NEW a \in Nat, NEW b \in Nat, NEW top \in Nat, Started(a, b), a <= b, b <= top,
         f.code = "msg" => b < f.id /\ f.id <= top
  PROVE  Started(a, top)'
<1>0. pipe \in Seq(Cell) /\ Len(pipe) \in Nat /\ DOMAIN pipe = 1..Len(pipe)
  BY MessageTypes
<1>1. PICK x : x = Text(f)
  OBVIOUS
<1>2. /\ x \in Seq(Cell) /\ Len(x) \in Nat
      /\ \A n \in 1..Len(x) : /\ x[n].frame = f /\ x[n].part = n
                              /\ x[n].word = "MSG" => f.code = "msg"
  <2>1. x \in Seq(Cell) /\ Len(x) = CellCount(f) /\ CellCount(f) \in Nat
    BY <1>1, TextType
  <2>2. Wording(f) = "MSG" => f.code = "msg"
    BY DEF Wording
  <2>3. \A n \in 1..CellCount(f) : x[n].frame = f /\ x[n].part = n /\ x[n].word = Wording(f)
    BY <1>1 DEF Text
  <2> QED
    BY <2>1, <2>2, <2>3
<1>3. /\ Len(pipe') = Len(pipe) + Len(x)
      /\ DOMAIN pipe' = 1..(Len(pipe) + Len(x))
      /\ \A n \in 1..(Len(pipe) + Len(x)) :
           pipe'[n] = IF n <= Len(pipe) THEN pipe[n] ELSE x[n - Len(pipe)]
  <2>1. pipe' = pipe \o x /\ pipe \o x \in Seq(Cell)
    BY <1>0, <1>1, <1>2
  <2> QED
    BY <1>0, <1>2, <2>1
<1>4. PICK l \in Nat : l = Len(pipe)
  BY <1>0
<1>5. ASSUME NEW n \in Starts(pipe)'
      PROVE  \/ n \in Starts(pipe) /\ pipe'[n] = pipe[n] /\ n <= l
             \/ n = l + 1 /\ pipe'[n].frame = f /\ f.code = "msg"
  <2>1. n \in 1..(Len(pipe) + Len(x)) /\ pipe'[n].word = "MSG" /\ pipe'[n].part = 1
    BY <1>3, <1>5 DEF Starts
  <2>2. CASE n <= l
    <3>1. n \in 1..l /\ pipe'[n] = pipe[n]
      BY <1>2, <1>3, <1>4, <2>1, <2>2
    <3>2. n \in DOMAIN pipe
      BY <1>0, <1>4, <3>1
    <3> QED
      BY <2>1, <2>2, <3>1, <3>2 DEF Starts
  <2>3. CASE ~(n <= l)
    <3>1. PICK k \in 1..Len(x) : k = n - l
      BY <1>2, <1>4, <2>1, <2>3
    <3>2. pipe'[n] = x[k]
      BY <1>3, <1>4, <2>1, <2>3, <3>1
    <3>3. k = 1
      BY <1>2, <2>1, <3>1, <3>2
    <3> QED
      BY <1>2, <1>4, <2>1, <3>1, <3>2, <3>3
  <2> QED
    BY <2>2, <2>3
<1>6. \A n \in Starts(pipe) : n \in Nat /\ n <= l /\ pipe[n].frame.id \in Nat
  BY <1>0, <1>4, MessageTypes DEF Starts
<1>7. f.id \in Nat
  BY MessageTypes
<1>8. ASSUME NEW n \in Starts(pipe)'
      PROVE  a < pipe'[n].frame.id /\ pipe'[n].frame.id <= top
  <2>1. CASE n \in Starts(pipe) /\ pipe'[n] = pipe[n]
    <3>1. a < pipe[n].frame.id /\ pipe[n].frame.id <= b /\ pipe[n].frame.id \in Nat
      BY <1>6, <2>1 DEF Started
    <3> QED
      BY <2>1, <3>1
  <2>2. CASE pipe'[n].frame = f /\ f.code = "msg"
    BY <1>7, <2>2
  <2> QED
    BY <1>5, <1>8, <2>1, <2>2
<1>9. ASSUME NEW m \in Starts(pipe)', NEW n \in Starts(pipe)', m < n
      PROVE  pipe'[m].frame.id < pipe'[n].frame.id
  <2>1. m \in Starts(pipe) /\ pipe'[m] = pipe[m]
    <3>1. n <= l + 1 /\ n \in Nat
      BY <1>5, <1>6, <1>9
    <3>2. m # l + 1
      BY <1>9, <3>1
    <3> QED
      BY <1>5, <1>9, <3>2
  <2>2. CASE n \in Starts(pipe) /\ pipe'[n] = pipe[n]
    BY <1>9, <2>1, <2>2 DEF Started
  <2>3. CASE pipe'[n].frame = f /\ f.code = "msg"
    <3>1. pipe[m].frame.id <= b
      BY <2>1 DEF Started
    <3> QED
      BY <1>6, <1>7, <2>1, <2>3, <3>1
  <2> QED
    BY <1>5, <2>2, <2>3
<1> QED
  BY <1>8, <1>9 DEF Started

\* What does not change.
LEMMA StillOut ==
  ASSUME NEW a, Out(a), UNCHANGED <<mchunk, history>>
  PROVE  Out(a)'
BY DEF Out, Fronts, FrontId, Recorded, RecordedOnce, Starts

LEMMA StillStarted ==
  ASSUME NEW a, NEW b, Started(a, b), UNCHANGED pipe
  PROVE  Started(a, b)'
BY DEF Started, Starts

LEMMA StillBehind ==
  ASSUME NEW b, NEW c, Behind(b, c), UNCHANGED <<toClient, spc, sframe, pushes>>
  PROVE  Behind(b, c)'
BY DEF Behind, Messages, Ascends

LEMMA StillOnce ==
  ASSUME Once, UNCHANGED <<mchunk, history, pipe, toClient, spc, sframe, pushes>>
  PROVE  Once'
<1>1. PICK a \in Nat, b \in Nat, c \in Nat : Told(a, b, c)
  BY DEF Once
<1>2. Out(a)' /\ Started(a, b)' /\ Behind(b, c)'
  BY <1>1, StillOut, StillStarted, StillBehind DEF Told
<1> QED
  BY <1>1, <1>2 DEF Once, Told

\* The main thread takes what the pipe holds for a response.
LEMMA ReplyOnce ==
  ASSUME TypeOK, Once, Reply, UNCHANGED <<spc, sframe, pushes>>
  PROVE  Once'
<1>1. PICK a \in Nat, b \in Nat, c \in Nat : Told(a, b, c)
  BY DEF Once
<1>2. pipe # <<>> /\ pipe' = Unread
  BY DEF Reply, SignupReply, LoginReply, CreateReply, JoinReply, LeaveReply,
     LogoutReply, MessageReply, Accepted, Refused, ReadResponse
<1>3. Started(a, b)'
  BY <1>1, <1>2, ReadStarted DEF Told
<1>4. UNCHANGED <<toClient, mchunk, history>>
  BY DEF Reply
<1>5. Out(a)' /\ Behind(b, c)'
  BY <1>1, <1>4, StillOut, StillBehind DEF Told
<1> QED
  BY <1>1, <1>3, <1>5 DEF Once, Told

\* A thread takes over what the pipe begins with.
LEMMA MsgReadOnce ==
  ASSUME TypeOK, Once, NEW t \in MsgThreads, MsgRead(t), UNCHANGED <<spc, sframe, pushes>>
  PROVE  Once'
<1>1. PICK a \in Nat, b \in Nat, c \in Nat : Told(a, b, c)
  BY DEF Once
<1>2. /\ pipe' = Unread /\ mchunk' = [mchunk EXCEPT ![t] = Chunk]
      /\ UNCHANGED <<history, toClient>>
  BY DEF MsgRead
<1>3. \A u \in MsgThreads : mchunk'[u] = IF u = t THEN Chunk ELSE mchunk[u]
  BY <1>2 DEF TypeOK, UITypeOK
<1>4. Behind(b, c)'
  BY <1>1, <1>2, StillBehind DEF Told
<1>5. Recorded' = Recorded /\ RecordedOnce' = RecordedOnce
  BY <1>2 DEF Recorded, RecordedOnce
<1>6. \A u \in MsgThreads \ {t} : /\ u \in Fronts' <=> u \in Fronts
                                  /\ FrontId(u)' = FrontId(u)
  BY <1>3 DEF Fronts, FrontId
<1>7. /\ \A u \in Fronts : u \in MsgThreads /\ FrontId(u) \in Nat
      /\ \A n \in Recorded : history[n].id \in Nat
  <2>1. ASSUME NEW u \in Fronts PROVE u \in MsgThreads /\ FrontId(u) \in Nat
    <3>1. u \in MsgThreads /\ 1 \in DOMAIN mchunk[u] /\ mchunk[u] \in Seq(Cell)
      BY <2>1 DEF Fronts, Starts, TypeOK, UITypeOK
    <3>2. mchunk[u][1] \in Cell
      BY <3>1
    <3> QED
      BY <3>1, <3>2 DEF FrontId, Cell, DownFrame
  <2>2. ASSUME NEW n \in Recorded PROVE history[n].id \in Nat
    <3>1. history[n] \in [id : Nat, whole : BOOLEAN]
      <4>1. history \in Seq([id : Nat, whole : BOOLEAN])
        BY DEF TypeOK, UITypeOK
      <4>2. n \in DOMAIN history
        BY <2>2 DEF Recorded
      <4> QED
        BY <4>1, <4>2, Element
    <3> QED
      BY <3>1
  <2> QED
    BY <2>1, <2>2
<1>8. CASE 1 \in Starts(Chunk)
  <2>1. pipe # <<>>
    <3>1. CASE pipe = <<>>
      <4>1. Chunk = <<>>
        BY <3>1, WireAssumption DEF Chunk, ReadSize
      <4> QED
        BY <1>8, <4>1 DEF Starts
    <3> QED
      BY <3>1
  <2>2. Chunk[1] = pipe[1] /\ 1 \in Starts(pipe)
    BY <1>8, <2>1, UnreadCells, MessageTypes DEF Starts
  <2>3. PICK i \in Nat : i = pipe[1].frame.id /\ a < i /\ i <= b /\ Started(i, b)'
    BY <1>1, <1>2, <2>1, <2>2, ReadStarted DEF Told
  <2>4. t \in Fronts' /\ FrontId(t)' = i
    BY <1>3, <1>8, <2>2, <2>3 DEF Fronts, FrontId
  <2>5. \A u \in Fronts' : u # t => u \in Fronts /\ FrontId(u)' = FrontId(u) /\ FrontId(u)' <= a
    BY <1>1, <1>6 DEF Told, Out, Fronts
  <2>6. Out(i)'
    <3>1. \A u \in Fronts' : FrontId(u)' <= i
      BY <1>7, <2>3, <2>4, <2>5
    <3>2. \A n \in Recorded' : history'[n].id <= i /\ history'[n].id < i
      BY <1>1, <1>2, <1>5, <1>7, <2>3 DEF Told, Out
    <3>3. \A u \in Fronts' : u # t => FrontId(u)' # i
      BY <1>7, <2>3, <2>5
    <3>4. \A u, v \in Fronts' : FrontId(u)' = FrontId(v)' => u = v
      BY <1>1, <2>4, <2>5, <3>3 DEF Told, Out
    <3>5. \A u \in Fronts', n \in Recorded' : FrontId(u)' # history'[n].id
      BY <1>1, <1>2, <1>5, <2>4, <2>5, <3>2 DEF Told, Out
    <3> QED
      BY <1>1, <1>5, <3>1, <3>2, <3>4, <3>5 DEF Told, Out
  <2> QED
    BY <1>4, <2>3, <2>6 DEF Once, Told
<1>9. CASE 1 \notin Starts(Chunk)
  <2>1. t \notin Fronts'
    BY <1>3, <1>9 DEF Fronts
  <2>2. \A u \in Fronts' : u \in Fronts /\ FrontId(u)' = FrontId(u)
    BY <1>6, <2>1 DEF Fronts
  <2>3. Out(a)'
    BY <1>1, <1>2, <1>5, <2>2 DEF Told, Out
  <2>4. Started(a, b)'
    <3>1. CASE pipe = <<>>
      <4>1. Unread = <<>>
        BY <3>1, WireAssumption DEF Unread, ReadSize
      <4> QED
        BY <1>2, <4>1 DEF Started, Starts
    <3>2. CASE pipe # <<>>
      BY <1>1, <1>2, <3>2, ReadStarted DEF Told
    <3> QED
      BY <3>1, <3>2
  <2> QED
    BY <1>1, <1>4, <2>3, <2>4 DEF Once, Told
<1> QED
  BY <1>8, <1>9

\* A thread records what it has read, once, and forgets it.
LEMMA MsgRecordOnce ==
  ASSUME TypeOK, Once, NEW t \in MsgThreads, MsgRecord(t), UNCHANGED <<spc, sframe, pushes>>
  PROVE  Once'
<1>1. PICK a \in Nat, b \in Nat, c \in Nat : Told(a, b, c)
  BY DEF Once
<1>2. mchunk' = [mchunk EXCEPT ![t] = <<>>] /\ UNCHANGED <<pipe, toClient>>
  BY DEF MsgRecord
<1>3. Started(a, b)' /\ Behind(b, c)'
  BY <1>1, <1>2, StillStarted, StillBehind DEF Told
<1>4. \A u \in Fronts' : u \in Fronts /\ u # t /\ FrontId(u)' = FrontId(u)
  <2>1. \A u \in MsgThreads : mchunk'[u] = IF u = t THEN <<>> ELSE mchunk[u]
    BY <1>2 DEF TypeOK, UITypeOK
  <2>2. 1 \notin Starts(<<>>)
    BY DEF Starts
  <2> QED
    BY <2>1, <2>2 DEF Fronts, FrontId
<1>5. PICK h \in Nat : h = Len(history) /\ DOMAIN history = 1..h
  BY DEF TypeOK, UITypeOK
<1>6. CASE history' = history
  <2>1. Recorded' = Recorded /\ RecordedOnce' = RecordedOnce
    BY <1>6 DEF Recorded, RecordedOnce
  <2>2. Out(a)'
    BY <1>1, <1>4, <1>6, <2>1 DEF Told, Out
  <2> QED
    BY <1>1, <1>3, <2>2 DEF Once, Told
<1>7. CASE \E w \in BOOLEAN : /\ history' = Append(history, [id |-> FrontId(t), whole |-> w])
                              /\ w => t \in Fronts
  <2>1. PICK w \in BOOLEAN : /\ history' = Append(history, [id |-> FrontId(t), whole |-> w])
                             /\ w => t \in Fronts
    BY <1>7
  <2>2. /\ DOMAIN history' = 1..(h + 1)
        /\ \A n \in 1..h : history'[n] = history[n]
        /\ history'[h + 1] = [id |-> FrontId(t), whole |-> w]
    BY <1>5, <2>1 DEF TypeOK, UITypeOK
  <2>3. \A n \in Recorded' : \/ n \in Recorded /\ history'[n].id = history[n].id
                             \/ n = h + 1 /\ t \in Fronts /\ history'[n].id = FrontId(t)
    BY <1>5, <2>1, <2>2 DEF Recorded
  <2>4. \A m, n \in Recorded : history[m].id = history[n].id => m = n
    BY <1>1 DEF Told, Out, RecordedOnce, Recorded
  <2>5. \A m, n \in Recorded' : history'[m].id = history'[n].id => m = n
    BY <1>1, <2>3, <2>4 DEF Told, Out
  <2>6. RecordedOnce'
    BY <2>5 DEF RecordedOnce, Recorded
  <2>7. Out(a)'
    <3>1. \A n \in Recorded' : history'[n].id <= a
      BY <1>1, <2>3 DEF Told, Out
    <3>2. \A u \in Fronts', n \in Recorded' : FrontId(u)' # history'[n].id
      BY <1>1, <1>4, <2>3 DEF Told, Out
    <3> QED
      BY <1>1, <1>4, <2>6, <3>1, <3>2 DEF Told, Out
  <2> QED
    BY <1>1, <1>3, <2>7 DEF Once, Told
<1>8. ASSUME NEW w \in BOOLEAN, mchunk[t] # <<>>, Record(mchunk[t], w), w => IsWhole(mchunk[t])
      PROVE  /\ history' = Append(history, [id |-> FrontId(t), whole |-> w])
             /\ w => t \in Fronts
  <2>1. 1 \in DOMAIN mchunk[t]
    BY <1>8 DEF TypeOK, UITypeOK
  <2>2. IsWhole(mchunk[t]) => t \in Fronts
    BY <2>1 DEF IsWhole, Fronts, Starts
  <2> QED
    BY <1>8, <2>2 DEF Record, FrontId
<1>9. \/ history' = history
      \/ \E w \in BOOLEAN : mchunk[t] # <<>> /\ Record(mchunk[t], w) /\ (w => IsWhole(mchunk[t]))
  <2>1. TokenCount(mchunk[t]) > 2 => mchunk[t] # <<>>
    BY NoTokens
  <2>2. IsWhole(mchunk[t]) \in BOOLEAN
    BY DEF IsWhole
  <2> QED
    BY <2>1, <2>2 DEF MsgRecord, Drop, Crash
<1> QED
  BY <1>6, <1>7, <1>8, <1>9

\* handle_server writes the text of the frame it has in hand.
LEMMA WriteTextOnce ==
  ASSUME TypeOK, Once, NEW f \in DownFrame, NEW next, WriteText(f, next),
         spc = "parse", f.id = sframe.id, f.code = sframe.code, next # "parse",
         UNCHANGED <<mchunk, history, toClient, sframe, pushes>>
  PROVE  Once'
<1>1. PICK a \in Nat, b \in Nat, c \in Nat : Told(a, b, c)
  BY DEF Once
<1>2. CASE uiUp
  <2>1. pipe' = pipe \o Text(f) /\ spc' = next
    BY <1>2 DEF WriteText
  <2>2. b <= c /\ a <= b /\ (f.code = "msg" => b < f.id /\ f.id <= c)
    BY <1>1 DEF Told, Behind
  <2>3. Started(a, c)'
    BY <1>1, <2>1, <2>2, WriteStarted DEF Told
  <2>4. Out(a)'
    BY <1>1, StillOut DEF Told
  <2>5. Behind(c, c)'
    <3>1. Ascends(toClient, Messages, c, pushes)' /\ c <= pushes'
      BY <1>1 DEF Told, Behind, Messages, Ascends
    <3>2. spc' # "parse" /\ c <= c
      BY <2>1
    <3> QED
      BY <3>1, <3>2 DEF Behind
  <2>6. a <= c
    BY <2>2
  <2> QED
    BY <2>3, <2>4, <2>5, <2>6 DEF Once, Told
<1>3. CASE ~uiUp
  BY <1>3, StillOnce DEF WriteText
<1> QED
  BY <1>2, <1>3

LEMMA ReceiveFrameOnce ==
  ASSUME TypeOK, Once, ReceiveFrame, UNCHANGED <<mchunk, history, pushes>>
  PROVE  Once'
<1>1. PICK a \in Nat, b \in Nat, c \in Nat : Told(a, b, c)
  BY DEF Once
<1>2. /\ toClient # <<>> /\ sframe' = toClient[1] /\ toClient' = Tail(toClient)
      /\ toClient \in Seq(DownFrame) /\ pipe' = pipe
      /\ \A r \in DownFrame : r.id \in Nat
  BY MessageTypes DEF ReceiveFrame
<1>3. PICK u : u = Tail(toClient)
  OBVIOUS
<1>4. PICK T : T = Messages'
  OBVIOUS
<1>5. T \in SUBSET DOMAIN u /\ (\A n \in T : n + 1 \in Messages) /\ Messages \in SUBSET DOMAIN toClient
  BY <1>2, <1>3, <1>4 DEF Messages
<1>6. Out(a)' /\ Started(a, b)'
  BY <1>1, <1>2, StillOut, StillStarted DEF Told
<1>7. PICK p \in Nat : p = pushes
  BY MessageTypes
<1>8. Ascends(toClient, Messages, c, p) /\ b <= c /\ c <= p /\ a <= b
  BY <1>1, <1>7 DEF Told, Behind
<1>9. /\ Ascends(u, T, c, p)
      /\ 1 \in Messages => /\ c < toClient[1].id /\ toClient[1].id <= p
                           /\ toClient[1].id \in Nat
                           /\ Ascends(u, T, toClient[1].id, p)
  BY <1>2, <1>3, <1>5, <1>8, AscendsTail
<1>10. CASE 1 \in Messages
  <2>1. PICK i \in Nat : i = toClient[1].id
    BY <1>9, <1>10
  <2>2. Ascends(toClient, Messages, i, pushes)'
    BY <1>2, <1>3, <1>4, <1>7, <1>9, <1>10, <2>1 DEF Ascends
  <2>3. b <= i /\ i <= pushes' /\ b < sframe'.id /\ sframe'.id <= i
    BY <1>2, <1>7, <1>8, <1>9, <1>10, <2>1
  <2>4. Behind(b, i)'
    BY <2>2, <2>3 DEF Behind
  <2> QED
    BY <1>6, <1>8, <2>4 DEF Once, Told
<1>11. CASE 1 \notin Messages
  <2>1. sframe'.code # "msg"
    BY <1>2, <1>11 DEF Messages
  <2>2. Ascends(toClient, Messages, c, pushes)'
    BY <1>2, <1>3, <1>4, <1>7, <1>9 DEF Ascends
  <2>3. Behind(b, c)'
    BY <1>7, <1>8, <2>1, <2>2 DEF Behind
  <2> QED
    BY <1>6, <1>8, <2>3 DEF Once, Told
<1> QED
  BY <1>10, <1>11

LEMMA ClientServerOnce ==
  ASSUME TypeOK, Once, ClientServer
  PROVE  Once'
<1>1. UNCHANGED <<mchunk, history, pushes>>
  BY DEF ClientServer, uiVars, serverVars
<1>2. CASE ReceiveFrame
  BY <1>1, <1>2, ReceiveFrameOnce
<1>3. sframe \in DownFrame
  BY MessageTypes
<1>4. CASE RelayCode
  <2>1. WriteText(sframe, "recv") /\ spc = "parse" /\ UNCHANGED <<toClient, sframe>>
    BY <1>4 DEF RelayCode
  <2> QED
    BY <1>1, <1>3, <2>1, WriteTextOnce
<1>5. ASSUME NEW code, NEW next, RelayFields(code, next), next # "parse"
      PROVE  Once'
  <2>1. spc = "parse" /\ UNCHANGED <<toClient, sframe>>
    BY <1>5 DEF RelayFields
  <2>2. CASE WriteText(sframe, next)
    BY <1>1, <1>3, <1>5, <2>1, <2>2, WriteTextOnce
  <2>3. CASE WriteText([sframe EXCEPT !.intact = FALSE], next)
    <3>1. PICK f \in DownFrame : f = [sframe EXCEPT !.intact = FALSE]
      BY <1>3 DEF DownFrame
    <3>2. f.id = sframe.id /\ f.code = sframe.code
      BY <1>3, <3>1 DEF DownFrame
    <3>3. WriteText(f, next)
      BY <2>3, <3>1
    <3> QED
      BY <1>1, <1>5, <2>1, <3>2, <3>3, WriteTextOnce
  <2>4. CASE UNCHANGED <<pipe, spc>>
    BY <1>1, <2>1, <2>4, StillOnce
  <2> QED
    BY <1>5, <2>2, <2>3, <2>4 DEF RelayFields
<1>6. CASE RelayList
  <2>1. RelayFields("ok", "recv")
    BY <1>6 DEF RelayList
  <2> QED
    BY <1>5, <2>1
<1>7. CASE RelayMessage
  <2>1. RelayFields("msg", "post")
    BY <1>7 DEF RelayMessage
  <2> QED
    BY <1>5, <2>1
<1>8. CASE PostMessage \/ AckMessage
  <2>1. PICK a \in Nat, b \in Nat, c \in Nat : Told(a, b, c)
    BY DEF Once
  <2>2. UNCHANGED <<pipe, toClient, sframe>> /\ spc' # "parse"
    BY <1>8 DEF PostMessage, AckMessage
  <2>3. Out(a)' /\ Started(a, b)'
    BY <1>1, <2>1, <2>2, StillOut, StillStarted DEF Told
  <2>4. Behind(b, c)'
    BY <1>1, <2>1, <2>2 DEF Told, Behind, Messages, Ascends
  <2> QED
    BY <2>1, <2>3, <2>4 DEF Once, Told
<1> QED
  BY <1>2, <1>4, <1>6, <1>7, <1>8 DEF ClientServer, HandleServer

\* A frame of the server comes last; a message has the next number.
LEMMA ServerOnce ==
  ASSUME TypeOK, Once, ServerAnswer \/ ServerTakeAck \/ ServerPush
  PROVE  Once'
<1>1. PICK a \in Nat, b \in Nat, c \in Nat : Told(a, b, c)
  BY DEF Once
<1>2. UNCHANGED <<mchunk, history, pipe, spc, sframe>>
  BY DEF ServerAnswer, Answer, ServerTakeAck, TakeAck, ServerPush, Push, uiVars, clientVars
<1>3. Out(a)' /\ Started(a, b)'
  BY <1>1, <1>2, StillOut, StillStarted DEF Told
<1>4. toClient \in Seq(DownFrame) /\ Messages \in SUBSET DOMAIN toClient
  BY MessageTypes
<1>5. PICK p \in Nat : p = pushes
  BY MessageTypes
<1>6. Ascends(toClient, Messages, c, p) /\ b <= c /\ c <= p /\ a <= b
      /\ (spc = "parse" /\ sframe.code = "msg" => b < sframe.id /\ sframe.id <= c)
  BY <1>1, <1>5 DEF Told, Behind
<1>7. ASSUME NEW x \in DownFrame, toClient' = Append(toClient, x), NEW q \in Nat,
             pushes' = q, p <= q, x.code = "msg" => p < x.id /\ x.id <= q
      PROVE  Once'
  <2>1. PICK u : u = Append(toClient, x)
    OBVIOUS
  <2>2. PICK T : T = Messages'
    OBVIOUS
  <2>3. T \in SUBSET (Messages \cup {Len(toClient) + 1})
        /\ (Len(toClient) + 1 \in T => x.code = "msg")
    BY <1>4, <1>7, <2>2 DEF Messages
  <2>4. Ascends(u, T, c, q)
    <3>1. Len(toClient) + 1 \in T => p < x.id /\ x.id <= q
      BY <1>7, <2>3
    <3> QED
      BY <1>4, <1>6, <1>7, <2>1, <2>3, <3>1, AppendDown
  <2>5. Ascends(toClient, Messages, c, pushes)'
    BY <1>7, <2>1, <2>2, <2>4 DEF Ascends
  <2>6. c <= q
    BY <1>6, <1>7
  <2>7. Behind(b, c)'
    BY <1>2, <1>6, <1>7, <2>5, <2>6 DEF Behind
  <2> QED
    BY <1>3, <1>6, <2>7 DEF Once, Told
<1>8. CASE ServerAnswer
  <2>1. PICK ok \in BOOLEAN, size \in ListSizes \cup {1} : Answer(ok, size)
    BY <1>8 DEF ServerAnswer
  <2>2. size \in Nat /\ Head(toServer) \in UpFrame
    BY <2>1, WireAssumption, FlightTypes DEF Answer
  <2>3. PICK x \in DownFrame : x = Response(Head(toServer), ok, size)
    BY <2>2, ResponseType
  <2>4. x.code # "msg" /\ toClient' = Append(toClient, x) /\ pushes' = p /\ p <= p
    BY <1>5, <2>1, <2>3 DEF Answer, Response
  <2> QED
    BY <1>7, <2>4
<1>9. CASE ServerTakeAck
  BY <1>2, <1>9, StillOnce DEF ServerTakeAck, TakeAck
<1>10. CASE ServerPush
  <2>1. PICK size \in TextSizes : Push(size)
    BY <1>10 DEF ServerPush
  <2>2. PICK q \in Nat : q = p + 1
    OBVIOUS
  <2>3. PICK x \in DownFrame : x = Pushed(q, size)
    BY WireAssumption, PushedType
  <2>4. toClient' = Append(toClient, x) /\ pushes' = q
    BY <1>5, <2>1, <2>2, <2>3 DEF Push
  <2>6. x.id = q
    BY <2>3 DEF Pushed
  <2>5. p <= q /\ p < x.id /\ x.id <= q
    BY <2>2, <2>6
  <2> QED
    BY <1>7, <2>4, <2>5
<1> QED
  BY <1>8, <1>9, <1>10

LEMMA InitOnce == Init => Once
<1> SUFFICES ASSUME Init PROVE Once
  OBVIOUS
<1>1. /\ toClient = <<>> /\ pipe = <<>> /\ history = <<>> /\ spc = "recv" /\ pushes = 0
      /\ mchunk = [t \in MsgThreads |-> <<>>]
  BY DEF Init, WireInit, UIInit, ClientInit, ServerInit
<1>2. Out(0)
  <2>1. Fronts = {}
    BY <1>1 DEF Fronts, Starts
  <2>2. Recorded = {}
    BY <1>1 DEF Recorded
  <2>3. RecordedOnce
    BY <1>1 DEF RecordedOnce
  <2> QED
    BY <2>1, <2>2, <2>3 DEF Out
<1>3. Started(0, 0)
  BY <1>1 DEF Started, Starts
<1>4. Behind(0, 0)
  BY <1>1 DEF Behind, Messages, Ascends
<1> QED
  BY <1>2, <1>3, <1>4 DEF Once, Told

LEMMA StepOnce ==
  ASSUME TypeOK, Once, [Next]_vars
  PROVE  Once'
<1>1. CASE UNCHANGED vars
  BY <1>1, StillOnce DEF vars, uiVars, clientVars, serverVars, wireVars
<1>2. CASE User \/ ClientUI
  BY <1>2, StillOnce DEF User, UserStep, ClientUI, HandleUi, uiVars, clientVars, serverVars
<1>3. CASE UIMain
  <2>1. UNCHANGED <<spc, sframe, pushes>>
    BY <1>3 DEF UIMain, clientVars, serverVars
  <2>2. CASE Reply
    BY <2>1, <2>2, ReplyOnce
  <2>3. CASE TakeArgumentsStep \/ StartChat \/ FinishLine \/ ReplyEof
    BY <2>1, <2>3, StillOnce DEF TakeArgumentsStep, StartChat, FinishLine, ReplyEof,
       uiVars, wireVars
  <2> QED
    BY <1>3, <2>2, <2>3 DEF UIMain
<1>4. ASSUME NEW t \in MsgThreads, UIMessage(t) PROVE Once'
  <2>1. UNCHANGED <<spc, sframe, pushes>>
    BY <1>4 DEF UIMessage, clientVars, serverVars
  <2>2. CASE MsgWait(t)
    BY <2>1, <2>2, StillOnce DEF MsgWait
  <2> QED
    BY <1>4, <2>1, <2>2, MsgReadOnce, MsgRecordOnce DEF UIMessage, MsgStep
<1> QED
  BY <1>1, <1>2, <1>3, <1>4, ClientServerOnce, ServerOnce DEF Next

LEMMA OnceAlways == Spec => [](TypeOK /\ Once)
BY TypeCorrect, InitOnce, StepOnce, PTL DEF Spec

\* No pushed message is in the history twice, in any session: what one thread of
\* the UI has read of the pipe no other reads again (thread_message, chat_ui.c).
THEOREM RecordedOnceAlways == Spec => []RecordedOnce
<1>1. Once => RecordedOnce
  BY DEF Once, Told, Out
<1> QED
  BY <1>1, OnceAlways, PTL

-----------------------------------------------------------------------------
(* How far the main thread runs ahead.  Every command and every message is  *)
(* weighed, as long as it is under way: one for each place it can be at, and *)
(* in the response pipe one for each last cell of a text, because a text can *)
(* be read in parts and together with others.  No step adds weight but a     *)
(* write of the main thread, which waits then, and a push.                   *)

LEMMA CountMore ==
  ASSUME NEW S, IsFiniteSet(S), NEW x, NEW T \in SUBSET (S \cup {x})
  PROVE  /\ IsFiniteSet(T) /\ Cardinality(T) \in Nat /\ Cardinality(S) \in Nat
         /\ Cardinality(T) <= Cardinality(S) + 1
<1>1. /\ IsFiniteSet(S \cup {x})
      /\ Cardinality(S \cup {x}) = IF x \in S THEN Cardinality(S) ELSE Cardinality(S) + 1
  BY FS_AddElement
<1>2. IsFiniteSet(T) /\ Cardinality(T) <= Cardinality(S \cup {x})
  BY <1>1, FS_Subset
<1>3. /\ Cardinality(S) \in Nat /\ Cardinality(T) \in Nat
      /\ Cardinality(S \cup {x}) \in Nat
  BY <1>1, <1>2, FS_CardinalityType
<1> QED
  BY <1>1, <1>2, <1>3

\* A part of a finite set, or one that lacks an element of it.
LEMMA CountPart ==
  ASSUME NEW S, IsFiniteSet(S), NEW T \in SUBSET S
  PROVE  /\ IsFiniteSet(T) /\ Cardinality(T) \in Nat /\ Cardinality(S) \in Nat
         /\ Cardinality(T) <= Cardinality(S)
         /\ \A x \in S : x \notin T => Cardinality(T) + 1 <= Cardinality(S)
<1>1. IsFiniteSet(T) /\ Cardinality(T) <= Cardinality(S)
  BY FS_Subset
<1>2. Cardinality(S) \in Nat /\ Cardinality(T) \in Nat
  BY <1>1, FS_CardinalityType
<1>3. ASSUME NEW x \in S, x \notin T
      PROVE  Cardinality(T) + 1 <= Cardinality(S)
  <2>1. IsFiniteSet(S \ {x}) /\ Cardinality(S \ {x}) = Cardinality(S) - 1
    BY FS_RemoveElement
  <2>2. T \in SUBSET (S \ {x})
    BY <1>3
  <2>3. Cardinality(T) <= Cardinality(S \ {x})
    BY <2>1, <2>2, FS_Subset
  <2> QED
    BY <1>2, <2>1, <2>3
<1> QED
  BY <1>1, <1>2, <1>3

\* Positions moved down, with one of the old ones passed or not.
LEMMA CountDown ==
  ASSUME NEW S \in SUBSET Nat, IsFiniteSet(S), NEW r \in Nat,
         NEW T \in SUBSET Nat, \A n \in T : n + r \in S
  PROVE  /\ IsFiniteSet(T) /\ Cardinality(T) \in Nat /\ Cardinality(S) \in Nat
         /\ Cardinality(T) <= Cardinality(S)
         /\ \A x \in S : (\A n \in T : n + r # x) => Cardinality(T) + 1 <= Cardinality(S)
<1> DEFINE f == [n \in T |-> n + r]
           U == {n \in S : \E m \in T : m + r = n}
<1>1. U \in SUBSET S
  OBVIOUS
<1>2. /\ IsFiniteSet(U) /\ Cardinality(U) \in Nat /\ Cardinality(S) \in Nat
      /\ Cardinality(U) <= Cardinality(S)
      /\ \A x \in S : x \notin U => Cardinality(U) + 1 <= Cardinality(S)
  <2> HIDE DEF U
  <2> QED
    BY <1>1, CountPart
<1>3. f \in Injection(T, U)
  BY DEF Injection, IsInjective
<1>4. IsFiniteSet(T) /\ Cardinality(T) <= Cardinality(U)
  <2> HIDE DEF f, U
  <2> QED
    BY <1>2, <1>3, FS_Injection
<1>5. Cardinality(T) \in Nat
  BY <1>4, FS_CardinalityType
<1>6. \A x \in S : (\A n \in T : n + r # x) => x \notin U
  OBVIOUS
<1> HIDE DEF f, U
<1> QED
  BY <1>2, <1>4, <1>5, <1>6

\* The last cells of texts.
Lasts(s) == {n \in DOMAIN s : s[n].part = CellCount(s[n].frame)}

\* Threads that hold a text.
Busy == {t \in MsgThreads : mchunk[t] # <<>>}

Turn == IF main = "await" THEN 1 ELSE 0

Coming == (IF spc = "parse" THEN 1 ELSE 0) + Len(toClient)

Going == Cardinality(Requests) + (IF upc # "read" THEN 1 ELSE 0) + Len(cmdPipe)

Come == Cardinality(Lasts(pipe)) + Cardinality(Busy) + Cardinality(Recorded)

\* Wherever a read begins, the text it begins in ends within the read.
Ending == \A n \in DOMAIN pipe : \E m \in Lasts(pipe) : n <= m /\ m < n + RESPONSE_BUFFER

Short ==
  /\ \A n \in DOMAIN toClient : CellCount(toClient[n]) <= RESPONSE_BUFFER
  /\ CellCount(sframe) <= RESPONSE_BUFFER

Weighed ==
  /\ IsFiniteSet(Busy)
  /\ fits => /\ Coming + Going + Come <= pushes + Turn
             /\ Ending
             /\ Short

LEMMA WeightTypes ==
  ASSUME TypeOK, IsFiniteSet(Busy)
  PROVE  /\ Coming \in Nat /\ Going \in Nat /\ Come \in Nat /\ pushes \in Nat /\ Turn \in 0..1
         /\ IsFiniteSet(Requests) /\ Cardinality(Requests) \in Nat
         /\ IsFiniteSet(Answers) /\ Cardinality(Answers) \in Nat
         /\ Cardinality(Answers) <= Len(toClient)
         /\ IsFiniteSet(Lasts(pipe)) /\ Cardinality(Lasts(pipe)) \in Nat
         /\ Cardinality(Busy) \in Nat
         /\ IsFiniteSet(Recorded) /\ Cardinality(Recorded) \in Nat
         /\ Len(toClient) \in Nat /\ Len(cmdPipe) \in Nat
<1>1. /\ Len(toClient) \in Nat /\ Len(cmdPipe) \in Nat /\ Len(toServer) \in Nat
      /\ Len(pipe) \in Nat /\ Len(history) \in Nat /\ pushes \in Nat
      /\ DOMAIN toClient = 1..Len(toClient) /\ DOMAIN toServer = 1..Len(toServer)
      /\ DOMAIN pipe = 1..Len(pipe) /\ DOMAIN history = 1..Len(history)
  BY DEF TypeOK, WireTypeOK, UITypeOK, ServerTypeOK
<1>2. \A n \in Nat : IsFiniteSet(1..n) /\ Cardinality(1..n) = n
  BY FS_Interval
<1>3. Requests \in SUBSET (1..Len(toServer)) /\ Answers \in SUBSET (1..Len(toClient))
      /\ Lasts(pipe) \in SUBSET (1..Len(pipe)) /\ Recorded \in SUBSET (1..Len(history))
  BY <1>1 DEF Requests, Answers, Lasts, Recorded
<1>4. IsFiniteSet(Requests) /\ Cardinality(Requests) \in Nat
  BY <1>1, <1>2, <1>3, CountPart
<1>5. IsFiniteSet(Answers) /\ Cardinality(Answers) \in Nat /\ Cardinality(Answers) <= Len(toClient)
  <2>1. IsFiniteSet(1..Len(toClient)) /\ Cardinality(1..Len(toClient)) = Len(toClient)
    BY <1>1, <1>2
  <2>2. /\ IsFiniteSet(Answers) /\ Cardinality(Answers) \in Nat
        /\ Cardinality(Answers) <= Cardinality(1..Len(toClient))
    BY <1>3, <2>1, CountPart
  <2> QED
    BY <2>1, <2>2
<1>6. IsFiniteSet(Lasts(pipe)) /\ Cardinality(Lasts(pipe)) \in Nat
  BY <1>1, <1>2, <1>3, CountPart
<1>7. IsFiniteSet(Recorded) /\ Cardinality(Recorded) \in Nat
  BY <1>1, <1>2, <1>3, CountPart
<1>8. Cardinality(Busy) \in Nat
  BY FS_CardinalityType
<1> QED
  BY <1>1, <1>4, <1>5, <1>6, <1>7, <1>8 DEF Coming, Going, Come, Turn

LEMMA Carried ==
  ASSUME NEW x \in Nat, NEW y \in Nat, NEW z \in Nat, NEW p \in Nat, NEW u \in 0..1,
         NEW x1 \in Nat, NEW y1 \in Nat, NEW z1 \in Nat, NEW p1 \in Nat, NEW u1 \in 0..1,
         x + y + z <= p + u, x1 + y1 + z1 + p + u <= x + y + z + p1 + u1
  PROVE  x1 + y1 + z1 <= p1 + u1
OBVIOUS

\* A step that keeps the balance.
LEMMA Balance ==
  ASSUME TypeOK, TypeOK', Weighed, IsFiniteSet(Busy)', fits' => fits,
         fits => /\ Coming' + Going' + Come' + pushes + Turn
                      <= Coming + Going + Come + pushes' + Turn'
                 /\ Ending',
         fits' => Short'
  PROVE  Weighed'
<1>1. /\ Coming \in Nat /\ Going \in Nat /\ Come \in Nat /\ pushes \in Nat /\ Turn \in 0..1
  BY WeightTypes DEF Weighed
<1>2. /\ Coming' \in Nat /\ Going' \in Nat /\ Come' \in Nat /\ pushes' \in Nat /\ Turn' \in 0..1
  <2>1. (Coming \in Nat /\ Going \in Nat /\ Come \in Nat /\ pushes \in Nat /\ Turn \in 0..1)'
    BY WeightTypes, PTL
  <2> QED
    BY <2>1
<1>3. fits => Coming + Going + Come <= pushes + Turn
  BY DEF Weighed
<1>4. ASSUME fits
      PROVE  Coming' + Going' + Come' <= pushes' + Turn'
  <2>1. /\ Coming + Going + Come <= pushes + Turn
        /\ Coming' + Going' + Come' + pushes + Turn <= Coming + Going + Come + pushes' + Turn'
    BY <1>3, <1>4
  <2>2. PICK x \in Nat, y \in Nat, z \in Nat, p \in Nat, u \in 0..1 :
          x = Coming /\ y = Going /\ z = Come /\ p = pushes /\ u = Turn
    BY <1>1
  <2>3. PICK x1 \in Nat, y1 \in Nat, z1 \in Nat, p1 \in Nat, u1 \in 0..1 :
          x1 = Coming' /\ y1 = Going' /\ z1 = Come' /\ p1 = pushes' /\ u1 = Turn'
    BY <1>2
  <2>4. x + y + z <= p + u /\ x1 + y1 + z1 + p + u <= x + y + z + p1 + u1
    BY <2>1, <2>2, <2>3
  <2>5. x1 + y1 + z1 <= p1 + u1
    BY <2>4, Carried
  <2> QED
    BY <2>2, <2>3, <2>5
<1> QED
  BY <1>4 DEF Weighed

\* A read passes the last cell of a text.
LEMMA ReadEnding ==
  ASSUME TypeOK, Ending, pipe # <<>>, pipe' = Unread
  PROVE  Ending' /\ Cardinality(Lasts(pipe))' + 1 <= Cardinality(Lasts(pipe))
<1>1. PICK r \in Nat : r = ReadSize
  BY UnreadCells
<1>2. PICK l \in Nat : l = Len(pipe) /\ DOMAIN pipe = 1..l /\ 1 <= l
  BY MessageTypes
<1>3. PICK k \in Nat : k = Len(pipe') /\ DOMAIN pipe' = 1..k /\ k = l - r
  BY <1>1, <1>2, UnreadCells, ReadType
<1>4. \A n \in 1..k : pipe'[n] = pipe[n + r]
  BY <1>1, <1>3, UnreadCells
<1>5. PICK B \in Nat : B = RESPONSE_BUFFER
  BY WireAssumption
<1>6. r = IF l < B THEN l ELSE B
  BY <1>1, <1>2, <1>5 DEF ReadSize
<1>7. PICK S : S = Lasts(pipe)
  OBVIOUS
<1>8. PICK T : T = Lasts(pipe)'
  OBVIOUS
<1>9. \A n : n \in S <=> n \in 1..l /\ pipe[n].part = CellCount(pipe[n].frame)
  BY <1>2, <1>7 DEF Lasts
<1>10. \A n : n \in T <=> n \in 1..k /\ pipe'[n].part = CellCount(pipe'[n].frame)
  BY <1>3, <1>8 DEF Lasts
<1>11. \A n \in T : n \in 1..k /\ n + r \in S
  <2>1. \A n \in 1..k : n + r \in 1..l
    BY <1>3
  <2> QED
    BY <1>4, <1>9, <1>10, <2>1
<1>12. \A n \in 1..l : \E m \in S : n <= m /\ m < n + B
  BY <1>2, <1>5, <1>7 DEF Ending
<1>13. Ending'
  <2>1. ASSUME NEW n \in 1..k
        PROVE  \E m \in T : n <= m /\ m < n + B
    <3>1. n + r \in 1..l
      BY <1>3, <2>1
    <3>2. PICK m \in S : n + r <= m /\ m < n + r + B
      BY <1>12, <3>1
    <3>3. m \in 1..l
      BY <1>9, <3>2
    <3>4. m - r \in 1..k /\ m - r + r = m /\ n <= m - r /\ m - r < n + B
      BY <1>3, <2>1, <3>2, <3>3
    <3>5. m - r \in T
      BY <1>4, <1>9, <1>10, <3>2, <3>4
    <3> QED
      BY <3>4, <3>5
  <2> QED
    BY <1>3, <1>5, <1>8, <2>1 DEF Ending
<1>14. PICK x \in S : x <= r
  <2>1. PICK m \in S : 1 <= m /\ m < 1 + B
    BY <1>2, <1>12
  <2>2. m \in 1..l
    BY <1>9, <2>1
  <2> QED
    BY <1>6, <2>1, <2>2
<1>15. IsFiniteSet(S)
  <2>1. IsFiniteSet(1..l) /\ S \in SUBSET (1..l)
    BY <1>2, <1>9, FS_Interval
  <2> QED
    BY <2>1, CountPart
<1>16. Cardinality(T) + 1 <= Cardinality(S)
  <2>1. S \in SUBSET Nat /\ T \in SUBSET Nat
    BY <1>9, <1>10
  <2>2. \A n \in T : n + r # x
    <3>1. x \in 1..l
      BY <1>9, <1>14
    <3> QED
      BY <1>11, <1>14, <3>1
  <2> QED
    BY <1>11, <1>14, <1>15, <2>1, <2>2, CountDown
<1> QED
  BY <1>7, <1>8, <1>13, <1>16

\* A text adds one last cell.
LEMMA WriteEnding ==
  ASSUME TypeOK, Ending, NEW f \in DownFrame, CellCount(f) <= RESPONSE_BUFFER,
         pipe' = pipe \o Text(f)
  PROVE  Ending' /\ Cardinality(Lasts(pipe))' <= Cardinality(Lasts(pipe)) + 1
<1>1. PICK l \in Nat : l = Len(pipe) /\ DOMAIN pipe = 1..l
  BY MessageTypes
<1>2. PICK d \in Nat : d = CellCount(f)
  BY TextType
<1>3. PICK x \in Seq(Cell) : x = Text(f) /\ Len(x) = d
  BY <1>2, TextType
<1>4. \A n \in 1..d : x[n].frame = f /\ x[n].part = n
  BY <1>2, <1>3 DEF Text
<1>5. PICK B \in Nat : B = RESPONSE_BUFFER /\ d <= B
  BY <1>2, WireAssumption
<1>6. pipe' = pipe \o x
  BY <1>3
<1>7. DOMAIN pipe' = 1..(l + d)
  <2>1. pipe \in Seq(Cell)
    BY MessageTypes
  <2>2. pipe \o x \in Seq(Cell)
    BY <1>3, <2>1
  <2>3. Len(pipe \o x) = Len(pipe) + Len(x)
    BY <1>3, <2>1
  <2>4. DOMAIN (pipe \o x) = 1..Len(pipe \o x)
    BY <2>2
  <2>5. Len(pipe \o x) = l + d
    BY <1>1, <1>3, <2>3
  <2> QED
    BY <1>6, <2>4, <2>5
<1>8. /\ \A n \in 1..l : pipe'[n] = pipe[n]
      /\ \A n \in 1..d : pipe'[l + n] = x[n]
  <2>1. \A n \in 1..(l + d) : (pipe \o x)[n] = IF n <= l THEN pipe[n] ELSE x[n - l]
    BY <1>1, <1>3, MessageTypes
  <2>2. \A n \in 1..l : n \in 1..(l + d) /\ n <= l
    OBVIOUS
  <2>3. \A n \in 1..d : l + n \in 1..(l + d) /\ ~(l + n <= l) /\ (l + n) - l = n
    OBVIOUS
  <2> QED
    BY <1>6, <2>1, <2>2, <2>3
<1>9. PICK S : S = Lasts(pipe)
  OBVIOUS
<1>10. PICK T : T = Lasts(pipe)'
  OBVIOUS
<1>11. \A n : n \in S <=> n \in 1..l /\ pipe[n].part = CellCount(pipe[n].frame)
  BY <1>1, <1>9 DEF Lasts
<1>12. \A n : n \in T <=> n \in 1..(l + d) /\ pipe'[n].part = CellCount(pipe'[n].frame)
  BY <1>7, <1>10 DEF Lasts
<1>13. \A n \in 1..(l + d) : n \in 1..l \/ \E k \in 1..d : n = l + k
  <2>1. ASSUME NEW n \in 1..(l + d), n \notin 1..l
        PROVE  n - l \in 1..d /\ n = l + (n - l)
    BY <2>1
  <2> QED
    BY <2>1
<1>14. T \in SUBSET (S \cup {l + d})
  <2>1. ASSUME NEW n \in T
        PROVE  n \in S \/ n = l + d
    <3>1. n \in 1..(l + d) /\ pipe'[n].part = CellCount(pipe'[n].frame)
      BY <1>12, <2>1
    <3>2. CASE n \in 1..l
      BY <1>8, <1>11, <3>1, <3>2
    <3>3. CASE \E k \in 1..d : n = l + k
      <4>1. PICK k \in 1..d : n = l + k
        BY <3>3
      <4>2. k = d
        BY <1>2, <1>4, <1>8, <3>1, <4>1
      <4> QED
        BY <4>1, <4>2
    <3> QED
      BY <1>13, <3>1, <3>2, <3>3
  <2> QED
    BY <2>1
<1>15. S \in SUBSET T /\ (d > 0 => l + d \in T)
  <2>1. \A n \in S : n \in T
    <3>1. \A n \in 1..l : n \in 1..(l + d)
      OBVIOUS
    <3> QED
      BY <1>8, <1>11, <1>12, <3>1
  <2>2. ASSUME d > 0 PROVE l + d \in T
    <3>1. d \in 1..d /\ l + d \in 1..(l + d)
      BY <2>2
    <3>2. pipe'[l + d].frame = f /\ pipe'[l + d].part = d
      BY <1>4, <1>8, <3>1
    <3> QED
      BY <1>2, <1>12, <3>1, <3>2
  <2> QED
    BY <2>1, <2>2
<1>16. \A n \in 1..l : \E m \in S : n <= m /\ m < n + B
  BY <1>1, <1>5, <1>9 DEF Ending
<1>17. Ending'
  <2>1. ASSUME NEW n \in 1..(l + d)
        PROVE  \E m \in T : n <= m /\ m < n + B
    <3>1. CASE n \in 1..l
      BY <1>15, <1>16, <3>1
    <3>2. CASE n \notin 1..l
      <4>1. d > 0 /\ n <= l + d /\ l + d < n + B
        BY <1>5, <2>1, <3>2
      <4> QED
        BY <1>15, <4>1
    <3> QED
      BY <3>1, <3>2
  <2> QED
    BY <1>5, <1>7, <1>10, <2>1 DEF Ending
<1>18. IsFiniteSet(S)
  <2>1. IsFiniteSet(1..l) /\ S \in SUBSET (1..l)
    BY <1>11, FS_Interval
  <2> QED
    BY <2>1, CountPart
<1>19. Cardinality(T) <= Cardinality(S) + 1
  BY <1>14, <1>18, CountMore
<1> QED
  BY <1>9, <1>10, <1>17, <1>19

LEMMA StillShort ==
  ASSUME Short, UNCHANGED <<toClient, sframe>>
  PROVE  Short'
BY DEF Short

\* The parts that a step leaves alone.
LEMMA StillComing ==
  ASSUME UNCHANGED <<toClient, spc>>
  PROVE  Coming' = Coming
BY DEF Coming

LEMMA StillGoing ==
  ASSUME UNCHANGED <<toServer, upc, cmdPipe>>
  PROVE  Going' = Going
BY DEF Going, Requests

\* Where commands and answers are between the two pipes.
BehindPipe == <<toClient, toServer, spc, sframe, upc, ureq>>

LEMMA StillCome ==
  ASSUME UNCHANGED <<pipe, mchunk, history>>
  PROVE  Come' = Come /\ Busy' = Busy /\ Ending' = Ending
BY DEF Come, Lasts, Busy, Recorded, Ending

LEMMA StillWeighed ==
  ASSUME TypeOK, TypeOK', Weighed,
         UNCHANGED <<BehindPipe, cmdPipe, pipe, mchunk, history, pushes, fits, Turn>>
  PROVE  Weighed'
<1>1. UNCHANGED <<toClient, toServer, spc, sframe, upc>>
  BY DEF BehindPipe
<1> QED
  BY <1>1, StillShort, StillComing, StillGoing, StillCome DEF Weighed

LEMMA WriteWeighed ==
  ASSUME TypeOK, TypeOK', Weighed, NEW cmd \in UpFrame, Write(cmd), main # "await",
         UNCHANGED <<BehindPipe, pipe, mchunk, history, pushes, fits>>
  PROVE  Weighed'
<1>1. CASE clientUp
  <2>1. cmdPipe' = Append(cmdPipe, cmd) /\ main' = "await"
    BY <1>1 DEF Write
  <2>2. UNCHANGED <<toClient, toServer, spc, sframe, upc>>
    BY DEF BehindPipe
  <2>3. Coming' = Coming /\ Come' = Come /\ Busy' = Busy /\ Ending' = Ending
    BY <2>2, StillComing, StillCome
  <2>4. /\ Coming \in Nat /\ Going \in Nat /\ Come \in Nat /\ pushes \in Nat
        /\ Cardinality(Requests) \in Nat /\ Len(cmdPipe) \in Nat
    BY WeightTypes DEF Weighed
  <2>5. Going' = Going + 1
    <3>1. Len(cmdPipe') = Len(cmdPipe) + 1
      BY <2>1, FlightTypes
    <3>2. Requests' = Requests
      BY <2>2 DEF Requests
    <3> QED
      BY <2>2, <2>4, <3>1, <3>2 DEF Going
  <2>6. Turn = 0 /\ Turn' = 1
    BY <2>1 DEF Turn
  <2>7. Coming' + Going' + Come' + pushes + Turn <= Coming + Going + Come + pushes' + Turn'
    BY <2>3, <2>4, <2>5, <2>6
  <2> QED
    BY <2>2, <2>3, <2>7, StillShort, Balance DEF Weighed
<1>2. CASE ~clientUp
  BY <1>2, StillWeighed DEF Write, Turn
<1> QED
  BY <1>1, <1>2

LEMMA UserWeighed ==
  ASSUME TypeOK, TypeOK', Weighed, User
  PROVE  Weighed'
<1>1. UNCHANGED <<BehindPipe, pipe, mchunk, history, pushes, fits>>
  BY DEF User, UserStep, BehindPipe, clientVars, serverVars
<1>2. \A k \in Kinds, c \in Names : Command(NextId, k, c) \in UpFrame
  BY FlightTypes, FrameTypes DEF NextId
<1>3. NoChannel \in Names /\ Channels \subseteq Names /\ cur \in Names
  BY DEF Names, TypeOK, UITypeOK
<1>4. ASSUME NEW k \in Kinds, NEW c \in Names, main # "await", Write(Command(NextId, k, c))
      PROVE  Weighed'
  BY <1>1, <1>2, <1>4, WriteWeighed
<1>5. CASE SubmitSignup
  BY <1>3, <1>4, <1>5 DEF SubmitSignup, Kinds
<1>6. CASE SubmitLogin
  BY <1>3, <1>4, <1>6 DEF SubmitLogin, Kinds
<1>7. CASE EnterLogout
  BY <1>3, <1>4, <1>7 DEF EnterLogout, Enter, Kinds
<1>8. CASE EnterMessage
  BY <1>3, <1>4, <1>8 DEF EnterMessage, Enter, Kinds
<1>9. CASE \E c \in Channels : EnterJoin(c)
  BY <1>3, <1>4, <1>9 DEF EnterJoin, Enter, Kinds
<1>10. CASE EnterIgnored \/ \E c \in Channels : EnterCreate(c) \/ EnterLeave(c)
  <2>1. UNCHANGED cmdPipe /\ UNCHANGED Turn
    BY <1>10 DEF EnterIgnored, EnterCreate, EnterLeave, Enter, Turn
  <2> QED
    BY <1>1, <2>1, StillWeighed
<1> QED
  BY <1>5, <1>6, <1>7, <1>8, <1>9, <1>10 DEF User, UserStep

\* The main thread takes what the pipe holds for a response.
LEMMA ReplyWeighed ==
  ASSUME TypeOK, TypeOK', Weighed, Reply, UNCHANGED <<upc, spc, sframe, pushes, fits>>
  PROVE  Weighed'
<1>1. main = "await" /\ pipe # <<>> /\ pipe' = Unread
  BY DEF Reply, SignupReply, LoginReply, CreateReply, JoinReply, LeaveReply,
     LogoutReply, MessageReply, Accepted, Refused, ReadResponse
<1>2. main' # "await"
  BY DEF Reply, SignupReply, LoginReply, CreateReply, JoinReply, LeaveReply,
     LogoutReply, MessageReply, AfterCommand
<1>3. UNCHANGED <<toClient, toServer, cmdPipe, mchunk, history>>
  BY DEF Reply
<1>4. Coming' = Coming /\ Going' = Going /\ Busy' = Busy /\ Recorded' = Recorded
  BY <1>3, StillComing, StillGoing DEF Busy, Recorded
<1>5. /\ Coming \in Nat /\ Going \in Nat /\ Come \in Nat /\ pushes \in Nat /\ Turn \in 0..1
      /\ Cardinality(Lasts(pipe)) \in Nat /\ Cardinality(Lasts(pipe))' \in Nat
      /\ Cardinality(Busy) \in Nat /\ Cardinality(Recorded) \in Nat
  <2>1. (Cardinality(Lasts(pipe)) \in Nat)'
    <3>1. IsFiniteSet(Busy)'
      BY <1>4 DEF Weighed
    <3> QED
      BY <3>1, WeightTypes, PTL
  <2> QED
    BY <2>1, WeightTypes DEF Weighed
<1>6. Turn = 1 /\ Turn' = 0
  BY <1>1, <1>2 DEF Turn
<1>7. ASSUME fits
      PROVE  /\ Coming' + Going' + Come' + pushes + Turn <= Coming + Going + Come + pushes' + Turn'
             /\ Ending'
  <2>1. Ending' /\ Cardinality(Lasts(pipe))' + 1 <= Cardinality(Lasts(pipe))
    BY <1>1, <1>7, ReadEnding DEF Weighed
  <2>2. PICK j \in Nat, k \in Nat, m \in Nat :
          j = Cardinality(Lasts(pipe)) /\ k = Cardinality(Lasts(pipe))'
          /\ m = Cardinality(Busy) + Cardinality(Recorded)
    BY <1>5
  <2>3. Come = j + m /\ Come' = k + m
    BY <1>4, <1>5, <2>2 DEF Come
  <2>4. PICK x \in Nat, y \in Nat : x = Coming /\ y = Going
    BY <1>5
  <2>5. PICK p \in Nat : p = pushes /\ p = pushes'
    BY <1>5
  <2>6. x + y + k + m + p + 1 <= x + y + j + m + p + 0
    BY <2>1, <2>2
  <2> QED
    BY <1>4, <1>6, <2>1, <2>3, <2>4, <2>5, <2>6
<1> QED
  BY <1>3, <1>4, <1>7, StillShort, Balance DEF Weighed

LEMMA UIMainWeighed ==
  ASSUME TypeOK, TypeOK', Weighed, UIMain
  PROVE  Weighed'
<1>1. UNCHANGED <<upc, ureq, spc, sframe, pushes, fits>>
  BY DEF UIMain, clientVars, serverVars
<1>2. CASE TakeArgumentsStep
  <2>1. UNCHANGED <<BehindPipe, pipe, mchunk, history, pushes, fits>>
    BY <1>1, <1>2 DEF TakeArgumentsStep, BehindPipe
  <2>2. main # "await" /\ req \in UpFrame
    BY <1>2 DEF TakeArgumentsStep, TakeArguments, TypeOK, UITypeOK
  <2>3. [req EXCEPT !.chan = Garbled, !.intact = FALSE] \in UpFrame
    BY <2>2 DEF UpFrame, Names
  <2>4. CASE Write(req) \/ Write([req EXCEPT !.chan = Garbled, !.intact = FALSE])
    BY <2>1, <2>2, <2>3, <2>4, WriteWeighed
  <2>5. CASE main' = AfterCommand(req.kind) /\ UNCHANGED <<cmdPipe, req, nreq, uiUp>>
    <3>1. UNCHANGED Turn
      BY <2>2, <2>5 DEF Turn, AfterCommand
    <3> QED
      BY <2>1, <2>5, <3>1, StillWeighed
  <2> QED
    BY <1>2, <2>4, <2>5 DEF TakeArgumentsStep, TakeArguments
<1>3. CASE Reply
  BY <1>1, <1>3, ReplyWeighed
<1>4. CASE StartChat \/ FinishLine \/ ReplyEof
  <2>1. UNCHANGED <<cmdPipe, toClient, toServer, pipe, mchunk, history, Turn>>
    BY <1>4 DEF StartChat, FinishLine, ReplyEof, wireVars, uiVars, Turn
  <2> QED
    BY <1>1, <2>1, StillWeighed DEF BehindPipe
<1> QED
  BY <1>2, <1>3, <1>4 DEF UIMain

\* A step that is neither a write of the main thread nor a push.
LEMMA NoHeavier ==
  ASSUME TypeOK, TypeOK', Weighed, IsFiniteSet(Busy)', fits' => fits,
         UNCHANGED <<pushes, Turn>>,
         fits => Coming' + Going' + Come' <= Coming + Going + Come /\ Ending',
         fits' => Short'
  PROVE  Weighed'
<1>1. /\ Coming \in Nat /\ Going \in Nat /\ Come \in Nat /\ pushes \in Nat /\ Turn \in 0..1
  BY WeightTypes DEF Weighed
<1>2. Coming' \in Nat /\ Going' \in Nat /\ Come' \in Nat
  <2>1. (Coming \in Nat /\ Going \in Nat /\ Come \in Nat)'
    BY WeightTypes, PTL
  <2> QED
    BY <2>1
<1>3. ASSUME fits
      PROVE  Coming' + Going' + Come' + pushes + Turn <= Coming + Going + Come + pushes' + Turn'
  <2>1. PICK w \in Nat, w1 \in Nat : w = Coming + Going + Come /\ w1 = Coming' + Going' + Come'
    <3>1. \A x, y, z \in Nat : x + y + z \in Nat
      OBVIOUS
    <3> QED
      BY <1>1, <1>2, <3>1
  <2>2. PICK p \in Nat, u \in 0..1 : p = pushes /\ u = Turn
    BY <1>1
  <2>3. w1 <= w
    BY <1>3, <2>1
  <2>4. w1 + p + u <= w + p + u
    BY <2>3
  <2> QED
    BY <2>1, <2>2, <2>4
<1> QED
  BY <1>3, Balance

LEMMA MsgReadWeighed ==
  ASSUME TypeOK, TypeOK', Weighed, NEW t \in MsgThreads, MsgRead(t),
         UNCHANGED <<upc, spc, sframe, pushes, fits>>
  PROVE  Weighed'
<1>1. /\ pipe' = Unread /\ mchunk' = [mchunk EXCEPT ![t] = Chunk]
      /\ UNCHANGED <<toClient, toServer, cmdPipe, history, main>>
  BY DEF MsgRead
<1>2. Coming' = Coming /\ Going' = Going /\ Turn' = Turn /\ Recorded' = Recorded
  BY <1>1, StillComing, StillGoing DEF Turn, Recorded
<1>3. \A u \in MsgThreads : mchunk'[u] = IF u = t THEN Chunk ELSE mchunk[u]
  BY <1>1 DEF TypeOK, UITypeOK
<1>4. PICK T : T = Busy'
  OBVIOUS
<1>5. T \in SUBSET (Busy \cup {t}) /\ (Chunk = <<>> => T \in SUBSET Busy)
  BY <1>3, <1>4 DEF Busy
<1>6. /\ IsFiniteSet(T) /\ Cardinality(T) \in Nat /\ Cardinality(Busy) \in Nat
      /\ Cardinality(T) <= Cardinality(Busy) + 1
      /\ Chunk = <<>> => Cardinality(T) <= Cardinality(Busy)
  <2>1. IsFiniteSet(Busy)
    BY DEF Weighed
  <2> QED
    BY <1>5, <2>1, CountMore, CountPart
<1>7. PICK h \in Nat, j \in Nat : h = Cardinality(Recorded) /\ j = Cardinality(Lasts(pipe))
  BY WeightTypes DEF Weighed
<1>8. PICK k \in Nat : k = Cardinality(Lasts(pipe))'
  <2>1. (Cardinality(Lasts(pipe)) \in Nat)'
    <3>1. IsFiniteSet(Busy)'
      BY <1>4, <1>6
    <3> QED
      BY <3>1, WeightTypes, PTL
  <2> QED
    BY <2>1
<1>9. PICK b \in Nat, b1 \in Nat : b = Cardinality(Busy) /\ b1 = Cardinality(T)
  BY <1>6
<1>10. Come = j + b + h /\ Come' = k + b1 + h
  BY <1>2, <1>4, <1>7, <1>8, <1>9 DEF Come
<1>11. ASSUME fits PROVE k + b1 <= j + b /\ Ending'
  <2>1. CASE pipe = <<>>
    <3>1. Chunk = <<>> /\ Unread = <<>>
      BY <2>1, WireAssumption DEF Chunk, Unread, ReadSize
    <3>2. pipe' = pipe
      BY <1>1, <2>1, <3>1
    <3>3. k = j /\ Ending'
      BY <1>7, <1>8, <1>11, <3>2 DEF Weighed, Ending, Lasts
    <3> QED
      BY <1>6, <1>9, <3>1, <3>3
  <2>2. CASE pipe # <<>>
    <3>1. Ending' /\ k + 1 <= j
      BY <1>1, <1>7, <1>8, <1>11, <2>2, ReadEnding DEF Weighed
    <3> QED
      BY <1>6, <1>9, <3>1
  <2> QED
    BY <2>1, <2>2
<1>12. ASSUME fits PROVE Coming' + Going' + Come' <= Coming + Going + Come /\ Ending'
  <2>1. PICK x \in Nat, y \in Nat : x = Coming /\ y = Going
    BY WeightTypes DEF Weighed
  <2>2. x + y + (k + b1 + h) <= x + y + (j + b + h)
    BY <1>11, <1>12
  <2> QED
    BY <1>2, <1>10, <1>11, <1>12, <2>1, <2>2
<1> QED
  BY <1>1, <1>2, <1>4, <1>6, <1>12, StillShort, NoHeavier DEF Weighed

LEMMA MsgRecordWeighed ==
  ASSUME TypeOK, TypeOK', Weighed, NEW t \in MsgThreads, MsgRecord(t),
         UNCHANGED <<upc, spc, sframe, pushes, fits>>
  PROVE  Weighed'
<1>1. /\ mchunk' = [mchunk EXCEPT ![t] = <<>>]
      /\ UNCHANGED <<pipe, toClient, toServer, cmdPipe, main>>
  BY DEF MsgRecord
<1>2. /\ Coming' = Coming /\ Going' = Going /\ Turn' = Turn /\ Lasts(pipe)' = Lasts(pipe)
      /\ Ending' = Ending
  BY <1>1, StillComing, StillGoing DEF Turn, Lasts, Ending
<1>3. \A u \in MsgThreads : mchunk'[u] = IF u = t THEN <<>> ELSE mchunk[u]
  BY <1>1 DEF TypeOK, UITypeOK
<1>4. PICK T : T = Busy'
  OBVIOUS
<1>5. T \in SUBSET Busy /\ t \notin T /\ (mchunk[t] # <<>> => t \in Busy)
  BY <1>3, <1>4 DEF Busy
<1>6. /\ IsFiniteSet(T) /\ Cardinality(T) \in Nat /\ Cardinality(Busy) \in Nat
      /\ Cardinality(T) <= Cardinality(Busy)
      /\ mchunk[t] # <<>> => Cardinality(T) + 1 <= Cardinality(Busy)
  <2>1. IsFiniteSet(Busy)
    BY DEF Weighed
  <2> QED
    BY <1>5, <2>1, CountPart
<1>7. PICK h \in Nat, j \in Nat : h = Cardinality(Recorded) /\ j = Cardinality(Lasts(pipe))
  BY WeightTypes DEF Weighed
<1>8. PICK b \in Nat, b1 \in Nat : b = Cardinality(Busy) /\ b1 = Cardinality(T)
  BY <1>6
<1>9. \E h1 \in Nat : h1 = Cardinality(Recorded') /\ b1 + h1 <= b + h
  <2>1. CASE history' = history
    <3>1. Recorded' = Recorded
      BY <2>1 DEF Recorded
    <3>2. b1 <= b
      BY <1>6, <1>8
    <3>3. b1 + h <= b + h
      BY <3>2
    <3> QED
      BY <1>7, <3>1, <3>3
  <2>2. CASE mchunk[t] # <<>> /\ \E e : history' = Append(history, e)
    <3>1. Recorded' \in SUBSET (Recorded \cup {Len(history) + 1})
      BY <2>2 DEF Recorded, TypeOK, UITypeOK
    <3>2. PICK R : R = Recorded'
      OBVIOUS
    <3>3. IsFiniteSet(Recorded) /\ R \in SUBSET (Recorded \cup {Len(history) + 1})
      BY <3>1, <3>2, WeightTypes DEF Weighed
    <3>4. Cardinality(R) \in Nat /\ Cardinality(R) <= Cardinality(Recorded) + 1
      BY <3>3, CountMore
    <3>5. PICK h1 \in Nat : h1 = Cardinality(R) /\ h1 <= h + 1
      BY <1>7, <3>4
    <3>6. b1 + 1 <= b
      BY <1>6, <1>8, <2>2
    <3>7. b1 + h1 <= b + h
      BY <3>5, <3>6
    <3> QED
      BY <3>2, <3>5, <3>7
  <2> QED
    BY <2>1, <2>2, RecordCases DEF Drop, Crash, Record
<1>10. PICK h1 \in Nat : h1 = Cardinality(Recorded') /\ b1 + h1 <= b + h
  BY <1>9
<1>11. Come = j + b + h /\ Come' = j + b1 + h1
  BY <1>2, <1>4, <1>7, <1>8, <1>10 DEF Come
<1>12. Coming' + Going' + Come' <= Coming + Going + Come
  <2>1. PICK x \in Nat, y \in Nat : x = Coming /\ y = Going
    BY WeightTypes DEF Weighed
  <2>2. x + y + (j + b1 + h1) <= x + y + (j + b + h)
    BY <1>10
  <2> QED
    BY <1>2, <1>11, <2>1, <2>2
<1> QED
  BY <1>1, <1>2, <1>4, <1>6, <1>12, StillShort, NoHeavier DEF Weighed

LEMMA UIMessageWeighed ==
  ASSUME TypeOK, TypeOK', Weighed, NEW t \in MsgThreads, UIMessage(t)
  PROVE  Weighed'
<1>1. UNCHANGED <<upc, ureq, spc, sframe, pushes, fits>>
  BY DEF UIMessage, clientVars, serverVars
<1>2. CASE MsgWait(t)
  BY <1>1, <1>2, StillWeighed DEF MsgWait, BehindPipe, Turn
<1> QED
  BY <1>1, <1>2, MsgReadWeighed, MsgRecordWeighed DEF UIMessage, MsgStep

\* A step that touches neither the UI nor its pipe of responses.
LEMMA FewerUnderWay ==
  ASSUME TypeOK, TypeOK', Weighed, fits' => fits,
         UNCHANGED <<pipe, mchunk, history, pushes, main>>,
         Coming' + Going' <= Coming + Going, fits' => Short'
  PROVE  Weighed'
<1>1. Come' = Come /\ Busy' = Busy /\ Ending' = Ending /\ Turn' = Turn
  BY StillCome DEF Turn
<1>2. Coming \in Nat /\ Going \in Nat /\ Come \in Nat
  BY WeightTypes DEF Weighed
<1>3. IsFiniteSet(Busy)'
  BY <1>1 DEF Weighed
<1>4. Coming' \in Nat /\ Going' \in Nat
  <2>1. (Coming \in Nat /\ Going \in Nat)'
    BY <1>3, WeightTypes, PTL
  <2> QED
    BY <2>1
<1>5. Coming' + Going' + Come' <= Coming + Going + Come
  <2>1. PICK x \in Nat, y \in Nat, z \in Nat : x = Coming /\ y = Going /\ z = Come
    BY <1>2
  <2>2. PICK x1 \in Nat, y1 \in Nat : x1 = Coming' /\ y1 = Going'
    BY <1>4
  <2>3. x1 + y1 <= x + y
    BY <2>1, <2>2
  <2>4. x1 + y1 + z <= x + y + z
    BY <2>3
  <2> QED
    BY <1>1, <2>1, <2>2, <2>4
<1> QED
  BY <1>1, <1>3, <1>5, NoHeavier DEF Weighed

LEMMA ClientUIWeighed ==
  ASSUME TypeOK, TypeOK', Weighed, ClientUI
  PROVE  Weighed'
<1>1. UNCHANGED <<toClient, spc, sframe, pipe, mchunk, history, pushes, main, fits>>
  BY DEF ClientUI, HandleUi, uiVars, serverVars
<1>2. PICK x \in Nat, r \in Nat, l \in Nat :
        x = Coming /\ r = Cardinality(Requests) /\ l = Len(cmdPipe)
  BY WeightTypes DEF Weighed
<1>3. Coming' = x
  BY <1>1, <1>2, StillComing
<1>4. Going \in Nat
  BY WeightTypes DEF Weighed
<1>5. Coming' + Going' <= Coming + Going
  <2>1. CASE ReadCommand
    <3>1. /\ upc = "read" /\ upc' = "type" /\ cmdPipe' = <<>> /\ cmdPipe # <<>>
          /\ toServer' = toServer
      BY <2>1 DEF ReadCommand
    <3>2. l >= 1 /\ Len(cmdPipe') = 0
      BY <1>2, <3>1, FlightTypes
    <3>3. Going = r + 0 + l /\ Going' = r + 1 + 0
      BY <1>2, <3>1, <3>2 DEF Going, Requests
    <3> QED
      BY <1>2, <1>3, <3>2, <3>3
  <2>2. CASE ReadCommandEof
    <3>1. Going' = Going
      BY <2>2, StillGoing DEF ReadCommandEof
    <3> QED
      BY <1>2, <1>3, <1>4, <3>1
  <2>3. CASE TakeType
    <3>1. upc # "read" /\ UNCHANGED <<toServer, cmdPipe>>
      BY <2>3 DEF TakeType
    <3>2. Going = r + 1 + l /\ (Going' = r + 1 + l \/ Going' = r + 0 + l)
      BY <1>2, <3>1 DEF Going, Requests
    <3> QED
      BY <1>2, <1>3, <3>2
  <2>4. CASE TakeFields
    <3>1. upc # "read" /\ cmdPipe' = cmdPipe
      BY <2>4 DEF TakeFields
    <3>2. Going = r + 1 + l
      BY <1>2, <3>1 DEF Going
    <3>3. CASE upc' = "read" /\ \E y : toServer' = Append(toServer, y)
      <4>1. PICK R : R = Requests'
        OBVIOUS
      <4>2. R \in SUBSET (Requests \cup {Len(toServer) + 1})
        BY <3>3, <4>1, FlightTypes DEF Requests
      <4>3. IsFiniteSet(Requests)
        BY WeightTypes DEF Weighed
      <4>4. Cardinality(R) \in Nat /\ Cardinality(R) <= r + 1
        BY <1>2, <4>2, <4>3, CountMore
      <4>5. PICK r1 \in Nat : r1 = Cardinality(R) /\ r1 <= r + 1
        BY <4>4
      <4>6. Going' = r1 + 0 + l
        BY <1>2, <3>1, <3>3, <4>1, <4>5 DEF Going
      <4> QED
        BY <1>2, <1>3, <3>2, <4>5, <4>6
    <3>4. CASE UNCHANGED <<upc, toServer>>
      <4>1. Going' = Going
        BY <3>1, <3>4, StillGoing
      <4> QED
        BY <1>2, <1>3, <1>4, <4>1
    <3> QED
      BY <2>4, <3>3, <3>4 DEF TakeFields
  <2> QED
    BY <2>1, <2>2, <2>3, <2>4 DEF ClientUI, HandleUi
<1> QED
  BY <1>1, <1>5, StillShort, FewerUnderWay DEF Weighed

\* handle_server writes the text of the frame it has in hand.
LEMMA WriteTextWeighed ==
  ASSUME TypeOK, TypeOK', Weighed, spc = "parse", NEW next, next # "parse",
         NEW f \in DownFrame, CellCount(f) = CellCount(sframe), WriteText(f, next),
         UNCHANGED <<toClient, toServer, sframe, upc, cmdPipe, mchunk, history, pushes, main, fits>>
  PROVE  Weighed'
<1>1. CASE uiUp /\ pipe' = pipe \o Text(f) /\ spc' = next
  <2>1. Going' = Going /\ Turn' = Turn /\ Busy' = Busy /\ Recorded' = Recorded
    BY StillGoing DEF Turn, Busy, Recorded
  <2>2. PICK y \in Nat, l \in Nat, j \in Nat, b \in Nat, h \in Nat :
          /\ y = Going /\ l = Len(toClient) /\ j = Cardinality(Lasts(pipe))
          /\ b = Cardinality(Busy) /\ h = Cardinality(Recorded)
    BY WeightTypes DEF Weighed
  <2>3. PICK k \in Nat : k = Cardinality(Lasts(pipe))'
    <3>1. (Cardinality(Lasts(pipe)) \in Nat)'
      <4>1. IsFiniteSet(Busy)'
        BY <2>1 DEF Weighed
      <4> QED
        BY <4>1, WeightTypes, PTL
    <3> QED
      BY <3>1
  <2>4. Coming = 1 + l /\ Coming' = 0 + l
    BY <1>1, <2>2 DEF Coming
  <2>5. Come = j + b + h /\ Come' = k + b + h
    BY <2>1, <2>2, <2>3 DEF Come
  <2>6. ASSUME fits PROVE Coming' + Going' + Come' <= Coming + Going + Come /\ Ending'
    <3>1. Ending' /\ k <= j + 1
      BY <1>1, <2>2, <2>3, <2>6, WriteEnding DEF Weighed, Short
    <3>2. (0 + l) + y + (k + b + h) <= (1 + l) + y + (j + b + h)
      BY <3>1
    <3> QED
      BY <2>1, <2>2, <2>4, <2>5, <3>1, <3>2
  <2> QED
    BY <2>1, <2>6, StillShort, NoHeavier DEF Weighed
<1>2. CASE UNCHANGED <<pipe, spc>>
  <2>1. Coming' = Coming /\ Going' = Going
    BY <1>2, StillComing, StillGoing
  <2>2. Coming \in Nat /\ Going \in Nat
    BY WeightTypes DEF Weighed
  <2>3. Coming' + Going' <= Coming + Going
    BY <2>1, <2>2
  <2> QED
    BY <1>2, <2>3, StillShort, FewerUnderWay DEF Weighed
<1> QED
  BY <1>1, <1>2 DEF WriteText

LEMMA ReceiveWeighed ==
  ASSUME TypeOK, TypeOK', Weighed, ReceiveFrame,
         UNCHANGED <<upc, cmdPipe, pipe, mchunk, history, pushes, main, fits>>
  PROVE  Weighed'
<1>1. /\ toClient # <<>> /\ sframe' = toClient[1] /\ toClient' = Tail(toClient)
      /\ spc = "recv" /\ spc' = "parse" /\ toServer' = toServer
  BY FlightTypes DEF ReceiveFrame
<1>2. PICK l \in Nat : l = Len(toClient)
  BY FlightTypes
<1>3. /\ l >= 1 /\ Len(toClient') = l - 1 /\ DOMAIN toClient = 1..l /\ DOMAIN toClient' = 1..(l - 1)
      /\ \A n \in 1..(l - 1) : toClient'[n] = toClient[n + 1]
  BY <1>1, <1>2, FlightTypes
<1>4. Coming = 0 + l /\ Coming' = 1 + (l - 1) /\ Going' = Going
  BY <1>1, <1>2, <1>3, StillGoing DEF Coming
<1>5. Going \in Nat
  BY WeightTypes DEF Weighed
<1>6. Coming' + Going' <= Coming + Going
  BY <1>3, <1>4, <1>5
<1>7. ASSUME Short PROVE Short'
  <2>1. \A n \in 1..(l - 1) : n + 1 \in 1..l
    OBVIOUS
  <2>2. 1 \in 1..l
    BY <1>3
  <2> QED
    BY <1>1, <1>3, <1>7, <2>1, <2>2 DEF Short
<1> QED
  BY <1>6, <1>7, FewerUnderWay DEF Weighed

LEMMA ClientServerWeighed ==
  ASSUME TypeOK, TypeOK', Weighed, ClientServer
  PROVE  Weighed'
<1>1. UNCHANGED <<upc, ureq, cmdPipe, mchunk, history, pushes, main, fits>>
  BY DEF ClientServer, HandleServer, uiVars, serverVars
<1>2. sframe \in DownFrame
  BY FlightTypes
<1>3. CASE ReceiveFrame
  <2>1. pipe' = pipe
    BY <1>3 DEF ReceiveFrame
  <2> QED
    BY <1>1, <1>3, <2>1, ReceiveWeighed
<1>4. CASE RelayCode
  <2>1. /\ spc = "parse" /\ WriteText(sframe, "recv")
        /\ UNCHANGED <<toClient, toServer, sframe>>
    BY <1>4 DEF RelayCode
  <2> QED
    BY <1>1, <1>2, <2>1, WriteTextWeighed
<1>5. ASSUME NEW code, NEW next, next # "parse", RelayFields(code, next)
      PROVE  Weighed'
  <2>1. spc = "parse" /\ UNCHANGED <<toClient, toServer, sframe>>
    BY <1>5 DEF RelayFields
  <2>2. CASE WriteText(sframe, next)
    BY <1>1, <1>2, <1>5, <2>1, <2>2, WriteTextWeighed
  <2>3. CASE WriteText([sframe EXCEPT !.intact = FALSE], next)
    <3>1. PICK f \in DownFrame : f = [sframe EXCEPT !.intact = FALSE]
      BY <1>2 DEF DownFrame
    <3>2. CellCount(f) = CellCount(sframe)
      BY <1>2, <3>1 DEF CellCount, DownFrame
    <3>3. WriteText(f, next)
      BY <2>3, <3>1
    <3> QED
      BY <1>1, <1>5, <2>1, <3>2, <3>3, WriteTextWeighed
  <2>4. CASE UNCHANGED <<pipe, spc>>
    BY <1>1, <2>1, <2>4, StillWeighed DEF BehindPipe, Turn
  <2> QED
    BY <1>5, <2>2, <2>3, <2>4 DEF RelayFields
<1>6. CASE RelayList
  BY <1>5, <1>6 DEF RelayList
<1>7. CASE RelayMessage
  BY <1>5, <1>7 DEF RelayMessage
<1>8. CASE PostMessage \/ AckMessage
  <2>1. /\ UNCHANGED <<toClient, sframe, pipe>> /\ spc # "parse" /\ spc' # "parse"
        /\ toServer' = toServer \/ toServer' = Append(toServer, Ack(sframe.id))
    BY <1>8 DEF PostMessage, AckMessage
  <2>2. Requests' = Requests
    <3>1. CASE toServer' = toServer
      BY <3>1 DEF Requests
    <3>2. CASE toServer' = Append(toServer, Ack(sframe.id))
      <4>1. Ack(sframe.id).tag = "ack"
        BY DEF Ack
      <4> QED
        BY <3>2, <4>1, FlightTypes DEF Requests
    <3> QED
      BY <2>1, <3>1, <3>2
  <2>3. Coming' = Coming /\ Going' = Going
    BY <1>1, <2>1, <2>2 DEF Coming, Going
  <2>4. Coming \in Nat /\ Going \in Nat
    BY WeightTypes DEF Weighed
  <2>5. Coming' + Going' <= Coming + Going
    BY <2>3, <2>4
  <2> QED
    BY <1>1, <2>1, <2>5, StillShort, FewerUnderWay DEF Weighed
<1> QED
  BY <1>3, <1>4, <1>6, <1>7, <1>8 DEF ClientServer, HandleServer

\* The server takes the first frame that has reached it.
LEMMA TakenWeight ==
  ASSUME TypeOK, toServer # <<>>, toServer' = Tail(toServer)
  PROVE  /\ Cardinality(Requests') \in Nat /\ Cardinality(Requests) \in Nat
         /\ Cardinality(Requests') <= Cardinality(Requests)
         /\ Head(toServer).tag = "request" =>
              Cardinality(Requests') + 1 <= Cardinality(Requests)
<1>1. PICK l \in Nat : l = Len(toServer)
  BY FlightTypes
<1>2. /\ l >= 1 /\ DOMAIN toServer = 1..l /\ DOMAIN toServer' = 1..(l - 1)
      /\ \A n \in 1..(l - 1) : toServer'[n] = toServer[n + 1]
      /\ Head(toServer) = toServer[1]
  BY <1>1, FlightTypes
<1>3. PICK R : R = Requests'
  OBVIOUS
<1>4. \A n \in R : n \in 1..(l - 1) /\ toServer'[n].tag = "request"
  BY <1>2, <1>3 DEF Requests
<1>5. \A n : n \in Requests <=> n \in 1..l /\ toServer[n].tag = "request"
  BY <1>2 DEF Requests
<1>6. \A n \in R : n + 1 \in Requests /\ n + 1 # 1
  <2>1. \A n \in 1..(l - 1) : n + 1 \in 1..l /\ n + 1 # 1
    OBVIOUS
  <2> QED
    BY <1>2, <1>4, <1>5, <2>1
<1>7. R \in SUBSET Nat /\ Requests \in SUBSET Nat
  BY <1>4, <1>5
<1>8. IsFiniteSet(Requests)
  <2>1. IsFiniteSet(1..l) /\ Requests \in SUBSET (1..l)
    BY <1>5, FS_Interval
  <2> QED
    BY <2>1, CountPart
<1>9. /\ Cardinality(R) \in Nat /\ Cardinality(Requests) \in Nat
      /\ Cardinality(R) <= Cardinality(Requests)
      /\ 1 \in Requests => Cardinality(R) + 1 <= Cardinality(Requests)
  BY <1>6, <1>7, <1>8, CountDown
<1>10. Head(toServer).tag = "request" => 1 \in Requests
  BY <1>2, <1>5
<1> QED
  BY <1>3, <1>9, <1>10

\* The server sends a frame whose text fits, if all texts have fitted.
LEMMA SentShort ==
  ASSUME TypeOK, Weighed, NEW f \in DownFrame, toClient' = Append(toClient, f),
         sframe' = sframe, fits' => fits /\ CellCount(f) <= RESPONSE_BUFFER
  PROVE  /\ Coming \in Nat
         /\ spc' = spc => Coming' = Coming + 1
         /\ fits' => Short'
<1>1. PICK l \in Nat : l = Len(toClient)
  BY FlightTypes
<1>2. /\ Len(toClient') = l + 1 /\ DOMAIN toClient = 1..l /\ DOMAIN toClient' = 1..(l + 1)
      /\ \A n \in 1..(l + 1) : toClient'[n] = IF n \in 1..l THEN toClient[n] ELSE f
  BY <1>1, FlightTypes
<1>3. spc' = spc => Coming' = Coming + 1
  BY <1>1, <1>2 DEF Coming
<1>4. ASSUME fits' PROVE Short'
  BY <1>2, <1>4 DEF Weighed, Short
<1>5. Coming \in Nat
  BY WeightTypes DEF Weighed
<1> QED
  BY <1>3, <1>4, <1>5

LEMMA AnswerWeighed ==
  ASSUME TypeOK, TypeOK', Weighed, ServerAnswer
  PROVE  Weighed'
<1>1. PICK ok \in BOOLEAN, size \in ListSizes \cup {1} :
        Answer(ok, size) /\ fits' = (fits /\ size <= RESPONSE_BUFFER)
  BY DEF ServerAnswer
<1>2. UNCHANGED <<upc, spc, sframe, cmdPipe, pipe, mchunk, history, pushes, main>>
  BY <1>1 DEF ServerAnswer, Answer, uiVars, clientVars
<1>3. /\ toServer # <<>> /\ Head(toServer).tag = "request" /\ toServer' = Tail(toServer)
      /\ toClient' = Append(toClient, Response(Head(toServer), ok, size))
  BY <1>1 DEF Answer
<1>4. size \in Nat /\ Head(toServer) \in UpFrame
  BY <1>3, FlightTypes, WireAssumption
<1>5. PICK f \in DownFrame : f = Response(Head(toServer), ok, size)
  BY <1>4, ResponseType
<1>6. CellCount(f) = size
  BY <1>5 DEF Response, CellCount
<1>7. fits' => fits /\ CellCount(f) <= RESPONSE_BUFFER
  BY <1>1, <1>6
<1>8. Coming \in Nat /\ Coming' = Coming + 1 /\ (fits' => Short')
  BY <1>2, <1>3, <1>5, <1>7, SentShort
<1>9. PICK r \in Nat, r1 \in Nat :
        r = Cardinality(Requests) /\ r1 = Cardinality(Requests') /\ r1 + 1 <= r
  BY <1>3, TakenWeight
<1>10. PICK l \in Nat, x \in Nat : l = Len(cmdPipe) /\ x = Coming
  BY WeightTypes DEF Weighed
<1>11. Coming' + Going' <= Coming + Going
  <2>1. CASE upc = "read"
    <3>1. Going = r + 0 + l /\ Going' = r1 + 0 + l
      BY <1>2, <1>9, <1>10, <2>1 DEF Going
    <3> QED
      BY <1>8, <1>9, <1>10, <3>1
  <2>2. CASE upc # "read"
    <3>1. Going = r + 1 + l /\ Going' = r1 + 1 + l
      BY <1>2, <1>9, <1>10, <2>2 DEF Going
    <3> QED
      BY <1>8, <1>9, <1>10, <3>1
  <2> QED
    BY <2>1, <2>2
<1> QED
  BY <1>2, <1>7, <1>8, <1>11, FewerUnderWay

LEMMA TakeAckWeighed ==
  ASSUME TypeOK, TypeOK', Weighed, ServerTakeAck
  PROVE  Weighed'
<1>1. UNCHANGED <<toClient, upc, spc, sframe, cmdPipe, pipe, mchunk, history, pushes, main, fits>>
  BY DEF ServerTakeAck, TakeAck, uiVars, clientVars
<1>2. toServer # <<>> /\ toServer' = Tail(toServer)
  BY DEF ServerTakeAck, TakeAck
<1>3. PICK r \in Nat, r1 \in Nat :
        r = Cardinality(Requests) /\ r1 = Cardinality(Requests') /\ r1 <= r
  BY <1>2, TakenWeight
<1>4. PICK x \in Nat, l \in Nat : x = Coming /\ l = Len(cmdPipe)
  BY WeightTypes DEF Weighed
<1>5. Coming' = x
  BY <1>1, <1>4, StillComing
<1>6. Coming' + Going' <= Coming + Going
  <2>1. CASE upc = "read"
    <3>1. Going = r + 0 + l /\ Going' = r1 + 0 + l
      BY <1>1, <1>3, <1>4, <2>1 DEF Going
    <3> QED
      BY <1>3, <1>4, <1>5, <3>1
  <2>2. CASE upc # "read"
    <3>1. Going = r + 1 + l /\ Going' = r1 + 1 + l
      BY <1>1, <1>3, <1>4, <2>2 DEF Going
    <3> QED
      BY <1>3, <1>4, <1>5, <3>1
  <2> QED
    BY <2>1, <2>2
<1> QED
  BY <1>1, <1>6, StillShort, FewerUnderWay DEF Weighed

LEMMA PushWeighed ==
  ASSUME TypeOK, TypeOK', Weighed, ServerPush
  PROVE  Weighed'
<1>1. PICK size \in TextSizes :
        Push(size) /\ fits' = (fits /\ size + 2 <= RESPONSE_BUFFER)
  BY DEF ServerPush
<1>2. UNCHANGED <<toServer, upc, spc, sframe, cmdPipe, pipe, mchunk, history, main>>
  BY <1>1 DEF ServerPush, Push, uiVars, clientVars
<1>3. toClient' = Append(toClient, Pushed(pushes + 1, size)) /\ pushes' = pushes + 1
  BY <1>1 DEF Push
<1>4. PICK f \in DownFrame : f = Pushed(pushes + 1, size)
  BY WireAssumption, PushedType DEF TypeOK, ServerTypeOK
<1>5. CellCount(f) = size + 2
  BY <1>4 DEF Pushed, CellCount
<1>6. fits' => fits /\ CellCount(f) <= RESPONSE_BUFFER
  BY <1>1, <1>5
<1>7. Coming' = Coming + 1 /\ (fits' => Short')
  BY <1>2, <1>3, <1>4, <1>6, SentShort
<1>8. Going' = Going /\ Come' = Come /\ Busy' = Busy /\ Ending' = Ending /\ Turn' = Turn
  BY <1>2, StillGoing, StillCome DEF Turn
<1>9. PICK x \in Nat, y \in Nat, z \in Nat, p \in Nat, u \in 0..1 :
        x = Coming /\ y = Going /\ z = Come /\ p = pushes /\ u = Turn
  BY WeightTypes DEF Weighed
<1>10. (x + 1) + y + z + p + u <= x + y + z + (p + 1) + u
  OBVIOUS
<1>11. Coming' + Going' + Come' + pushes + Turn <= Coming + Going + Come + pushes' + Turn'
  BY <1>3, <1>7, <1>8, <1>9, <1>10
<1> QED
  BY <1>6, <1>7, <1>8, <1>11, Balance DEF Weighed

LEMMA InitWeighed == Init => Weighed
<1> SUFFICES ASSUME Init PROVE Weighed
  OBVIOUS
<1>1. /\ toClient = <<>> /\ toServer = <<>> /\ cmdPipe = <<>> /\ pipe = <<>>
      /\ spc = "recv" /\ upc = "read" /\ main = "menu" /\ pushes = 0 /\ history = <<>>
      /\ mchunk = [t \in MsgThreads |-> <<>>]
      /\ sframe.code = "ok" /\ sframe.size = 1
  BY DEF Init, WireInit, UIInit, ClientInit, ServerInit
<1>2. Requests = {} /\ Lasts(pipe) = {} /\ Busy = {} /\ Recorded = {}
  BY <1>1 DEF Requests, Lasts, Busy, Recorded
<1>3. IsFiniteSet({}) /\ Cardinality({}) = 0
  BY FS_EmptySet
<1>4. Coming = 0 /\ Going = 0 /\ Come = 0 /\ Turn = 0
  <2>1. Len(toClient) = 0 /\ Len(cmdPipe) = 0
    BY <1>1
  <2>2. Coming = 0 /\ Turn = 0
    BY <1>1, <2>1 DEF Coming, Turn
  <2>3. Going = 0
    BY <1>1, <1>2, <1>3, <2>1 DEF Going
  <2>4. Come = 0
    BY <1>2, <1>3 DEF Come
  <2> QED
    BY <2>2, <2>3, <2>4
<1>5. Ending
  BY <1>1 DEF Ending
<1>6. Short
  BY <1>1, WireAssumption DEF Short, CellCount
<1> QED
  BY <1>1, <1>2, <1>3, <1>4, <1>5, <1>6 DEF Weighed

LEMMA StepWeighed ==
  ASSUME TypeOK, TypeOK', Weighed, [Next]_vars
  PROVE  Weighed'
<1>1. CASE UNCHANGED vars
  <2>1. UNCHANGED <<BehindPipe, cmdPipe, pipe, mchunk, history, pushes, fits, Turn>>
    BY <1>1 DEF vars, uiVars, clientVars, serverVars, wireVars, BehindPipe, Turn
  <2> QED
    BY <2>1, StillWeighed
<1> QED
  BY <1>1, UserWeighed, UIMainWeighed, UIMessageWeighed, ClientUIWeighed,
     ClientServerWeighed, AnswerWeighed, TakeAckWeighed, PushWeighed DEF Next

\* What is under way is part of what is weighed.
LEMMA WeightBounds == TypeOK /\ Weighed => AheadBounded
<1> SUFFICES ASSUME TypeOK, Weighed, fits
             PROVE  UnderWay + Cardinality(Recorded) <= 1 + pushes
  BY DEF AheadBounded
<1>1. PICK a \in Nat, l \in Nat : a = Cardinality(Answers) /\ l = Len(toClient) /\ a <= l
  BY WeightTypes DEF Weighed
<1>2. PICK y \in Nat, h \in Nat, z \in Nat, p \in Nat, u \in 0..1 :
        y = Going /\ h = Cardinality(Recorded) /\ z = Cardinality(Lasts(pipe)) + Cardinality(Busy)
        /\ p = pushes /\ u = Turn
  BY WeightTypes DEF Weighed
<1>3. PICK i \in 0..1, j \in 0..1 : /\ i = IF spc = "parse" /\ sframe.code # "msg" THEN 1 ELSE 0
                                    /\ j = IF spc = "parse" THEN 1 ELSE 0
                                    /\ i <= j
  OBVIOUS
<1>4. Coming = j + l /\ Come = z + h
  BY <1>1, <1>2, <1>3 DEF Coming, Come
<1>5. UnderWay = i + a + y
  <2>1. PICK r \in Nat, e \in 0..1, c \in Nat :
          /\ r = Cardinality(Requests) /\ c = Len(cmdPipe)
          /\ e = IF upc # "read" THEN 1 ELSE 0
    BY WeightTypes DEF Weighed
  <2>2. y = r + e + c
    BY <1>2, <2>1 DEF Going
  <2>3. UnderWay = i + a + r + e + c
    BY <1>1, <1>3, <2>1 DEF UnderWay
  <2>4. i + a + r + e + c = i + a + (r + e + c)
    BY <1>1, <1>3, <2>1
  <2> QED
    BY <2>2, <2>3, <2>4
<1>6. Coming + Going + Come <= pushes + Turn
  BY DEF Weighed
<1>7. (j + l) + y + (z + h) <= p + u
  BY <1>2, <1>4, <1>6
<1>8. (i + a + y) + h <= 1 + p
  <2>1. i <= j /\ a <= l /\ z \in Nat /\ u <= 1
    BY <1>1, <1>2, <1>3
  <2> QED
    BY <1>7, <2>1
<1> QED
  BY <1>2, <1>5, <1>8

\* As long as every text fits in a read, the commands on their way are at most
\* one more than the pushes that are not in the history, in any session with any
\* number of threads and any size of texts (the reads in chat_ui.c).
THEOREM AheadBoundedAlways == Spec => []AheadBounded
<1>1. Spec => []Weighed
  <2>1. ASSUME TypeOK, TypeOK', Weighed, [Next]_vars
        PROVE  Weighed'
    BY <2>1, StepWeighed
  <2> QED
    BY <2>1, InitWeighed, TypeCorrect, PTL DEF Spec
<1> QED
  BY <1>1, TypeCorrect, WeightBounds, PTL
=============================================================================
