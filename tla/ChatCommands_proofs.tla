------------------------ MODULE ChatCommands_proofs ------------------------
(***************************************************************************)
(* Proofs about ChatCommands, for any lines and any display names.         *)
(***************************************************************************)
EXTENDS ChatCommands, TLAPS

-----------------------------------------------------------------------------
(* Words and fields.                                                       *)

Ops == {"logout", "create", "join", "leave", "message"}

LEMMA HandlerNames ==
  /\ {Handlers[n] : n \in DOMAIN Handlers} = Ops
  /\ \A n \in DOMAIN Handlers : Handlers[n] \in Ops
  /\ \A h \in Ops : After(h) \in {"key"} \cup Ops
BY DEF Handlers, Ops, After

\* The types of the parts of the program's state that strings are made of.
Typed ==
  /\ user \in Seq(Words) /\ current_channel \in Seq(Words) /\ line \in Seq(Words)
  /\ at \in {"key"} \cup Ops

LEMMA TypedState == TypeOK => Typed /\ user \in Users
<1> SUFFICES ASSUME TypeOK PROVE Typed /\ user \in Users
  OBVIOUS
<1>1. user \in Users /\ user \in Seq(Words)
  BY CommandAssumption DEF TypeOK
<1>2. at \in {"key"} \cup Ops
  BY HandlerNames, Zenon DEF TypeOK
<1> QED
  BY <1>1, <1>2 DEF TypeOK, Typed

LEMMA OneType ==
  ASSUME NEW S, NEW w \in S
  PROVE  <<w>> \in Seq(S)
OBVIOUS

LEMMA Positions == 2 \in Nat \ {0} /\ 3 \in Nat \ {0}
OBVIOUS

LEMMA WordType ==
  ASSUME NEW S, NEW s \in Seq(S), NEW n \in Nat \ {0}
  PROVE  /\ Word(s, n) \in Seq(S)
         /\ Len(Word(s, n)) = IF n <= Len(s) THEN 1 ELSE 0
BY DEF Word

LEMMA FromType ==
  ASSUME NEW S, NEW s \in Seq(S), NEW n \in Nat \ {0}, n <= Len(s) + 1
  PROVE  /\ From(s, n) \in Seq(S)
         /\ Len(From(s, n)) = Len(s) + 1 - n
         /\ \A m \in 1..Len(From(s, n)) : From(s, n)[m] = s[m + n - 1]
BY DEF From

LEMMA JoinedType ==
  ASSUME NEW S, NEW s \in Seq(S), NEW t \in Seq(S)
  PROVE  s \o t \in Seq(S) /\ Len(s \o t) = Len(s) + Len(t)
OBVIOUS

LEMMA NoElement ==
  ASSUME NEW S, NEW s \in Seq(S), Len(s) = 0
  PROVE  s = <<>>
OBVIOUS

LEMMA ArgumentsType ==
  ASSUME Typed, NEW h \in Ops, line # <<>> \/ h = "message"
  PROVE  /\ Arguments(h) \in Seq(Words)
         /\ Len(Arguments(h)) =
              CASE h = "logout"  -> Len(user)
                [] h = "create"  -> Len(user) + Len(Word(line, 2)) + Len(Word(line, 3))
                [] h = "join"    -> Len(user) + Len(line) - 1
                [] h = "leave"   -> Len(user) + Len(Word(line, 2))
                [] h = "message" -> Len(user) + Len(current_channel) + Len(line)
<1>1. /\ user \in Seq(Words) /\ current_channel \in Seq(Words) /\ line \in Seq(Words)
      /\ Word(line, 2) \in Seq(Words) /\ Word(line, 3) \in Seq(Words)
  <2>1. user \in Seq(Words) /\ current_channel \in Seq(Words) /\ line \in Seq(Words)
    BY DEF Typed
  <2> QED
    BY <2>1, WordType, Positions
<1>2. line # <<>> => From(line, 2) \in Seq(Words) /\ Len(From(line, 2)) = Len(line) - 1
  BY <1>1, FromType
<1>3. CASE h = "logout"
  BY <1>1, <1>3 DEF Arguments
<1>4. CASE h = "create"
  BY <1>1, <1>4, JoinedType DEF Arguments
<1>5. CASE h = "join"
  <2>1. line # <<>> /\ Arguments(h) = user \o From(line, 2)
    BY <1>5 DEF Arguments
  <2> QED
    BY <1>1, <1>2, <1>5, <2>1, JoinedType
<1>6. CASE h = "leave"
  BY <1>1, <1>6, JoinedType DEF Arguments
<1>7. CASE h = "message"
  BY <1>1, <1>7, JoinedType DEF Arguments
<1> QED
  BY <1>3, <1>4, <1>5, <1>6, <1>7 DEF Ops

\* A frame is made of enough fields.
LEMMA FrameType ==
  ASSUME NEW args \in Seq(Words), NEW h \in Ops, Enough(h, args)
  PROVE  FrameOf(h, args) \in Frames /\ FrameOf(h, args).op = h /\ FrameOf(h, args) # NoFrame
<1>1. ASSUME NEW n \in 1..Len(args) PROVE <<args[n]>> \in Seq(Words)
  <2>1. args[n] \in Words
    OBVIOUS
  <2> QED
    BY <2>1, OneType
<1>2. <<>> \in Seq(Words)
  OBVIOUS
<1>3. ASSUME NEW n \in Nat \ {0}, n <= Len(args) + 1 PROVE From(args, n) \in Seq(Words)
  BY <1>3, FromType
<1>4. Len(args) >= 1 /\ (h \in {"join", "leave"} => Len(args) >= 2)
      /\ (h \in {"create", "message"} => Len(args) >= 3) /\ Len(args) \in Nat
  BY DEF Enough, Ops
<1>5. CASE h = "logout"
  BY <1>1, <1>2, <1>4, <1>5 DEF FrameOf, Frames, NoFrame
<1>6. CASE h = "create"
  <2>1. <<args[1]>> \in Seq(Words) /\ <<args[2]>> \in Seq(Words) /\ <<args[3]>> \in Seq(Words)
    BY <1>1, <1>4, <1>6
  <2> QED
    BY <1>6, <2>1 DEF FrameOf, Frames, NoFrame
<1>7. CASE h \in {"join", "leave"}
  <2>1. <<args[1]>> \in Seq(Words) /\ From(args, 2) \in Seq(Words)
    BY <1>1, <1>3, <1>4
  <2> QED
    BY <1>2, <1>7, <2>1 DEF FrameOf, Frames, NoFrame
<1>8. CASE h = "message"
  <2>1. <<args[1]>> \in Seq(Words) /\ <<args[2]>> \in Seq(Words) /\ From(args, 3) \in Seq(Words)
    BY <1>1, <1>3, <1>4, <1>8
  <2> QED
    BY <1>8, <2>1 DEF FrameOf, Frames, NoFrame
<1> QED
  BY <1>5, <1>6, <1>7, <1>8 DEF Ops

-----------------------------------------------------------------------------
(* What is so while a handler waits for the response: the line, the user   *)
(* and the channel are those the frame was made of.                        *)

Asked ==
  Waiting =>
    /\ at \in Ops
    /\ line # <<>> \/ at = "message"
    /\ Finds(at)
    /\ Enough(at, Arguments(at))
    /\ frame = FrameOf(at, Arguments(at))

\* How many of the five have had the line.
Order(h) ==
  CASE h = "logout" -> 0 [] h = "create" -> 1 [] h = "join" -> 2 [] h = "leave" -> 3
    [] h = "message" -> 4 [] OTHER -> 5

\* Each sends at most once.
Counted == count \in Nat /\ count <= Order(at) + (IF Waiting THEN 1 ELSE 0)

LEMMA OrderSteps ==
  /\ \A h \in Ops : Order(After(h)) = Order(h) + 1 /\ Order(h) \in 0..4
  /\ Order("key") = 5
BY DEF Order, After, Ops

Sound == TypeOK /\ Asked /\ Counted

LEMMA SoundInit == Init => Sound
<1> SUFFICES ASSUME Init PROVE Sound
  OBVIOUS
<1>1. /\ line \in Seq(Words) /\ entered \in Seq(Words)
      /\ current_channel \in Seq(Words) /\ frame \in Frames \cup {NoFrame}
  <2>1. "N/A" \in Words
    BY CommandAssumption
  <2> QED
    BY <2>1, OneType DEF Init, NoChannel
<1>2. count \in 0..Len(Handlers)
  BY DEF Init, Handlers
<1>3. TypeOK
  BY <1>1, <1>2 DEF Init, TypeOK
<1>4. Asked /\ Counted
  BY OrderSteps DEF Init, Asked, Counted, Waiting
<1> QED
  BY <1>3, <1>4 DEF Sound

\* A channel the UI takes for the current one has its name in the line.
LEMMA ChannelType ==
  ASSUME Sound, Waiting, at # "logout"
  PROVE  ChannelAfter(at) \in Seq(Words)
<1>1. Typed /\ at \in Ops /\ Finds(at) /\ (line # <<>> \/ at = "message")
  BY TypedState DEF Sound, Asked
<1>2. CASE at = "create"
  <2>1. Len(line) >= 3 /\ line \in Seq(Words)
    BY <1>1, <1>2 DEF Finds, Typed
  <2>2. line[2] \in Words
    BY <2>1
  <2> QED
    BY <1>2, <2>2, OneType DEF ChannelAfter
<1>3. CASE at = "join"
  BY <1>1, <1>3, FromType DEF ChannelAfter, Typed
<1>5. CASE at \in {"leave", "message"}
  <2>1. "N/A" \in Words
    BY CommandAssumption
  <2> QED
    BY <1>1, <1>5, <2>1, OneType DEF ChannelAfter, NoChannel, Typed
<1> QED
  BY <1>1, <1>2, <1>3, <1>5 DEF Ops

-----------------------------------------------------------------------------
(* Every step keeps Sound.                                                 *)

LEMMA CopyType ==
  ASSUME Sound, NEW h \in Ops, NEW ok \in BOOLEAN, CopyText(h, ok)
  PROVE  line' \in Seq(Words)
<1>1. line \in Seq(Words)
  BY DEF Sound, TypeOK
<1>2. /\ "Created" \in Words /\ "Leaved" \in Words /\ "Channel" \in Words
      /\ "Fields" \in Words /\ "are" \in Words /\ "invalid" \in Words
  BY CommandAssumption
<1>3. /\ <<"Created", "Channel">> \in Seq(Words) /\ <<"Leaved", "Channel">> \in Seq(Words)
      /\ <<>> \in Seq(Words) /\ <<"Fields", "are", "invalid">> \in Seq(Words)
  BY <1>2
<1>4. Copied(h, ok) \in Seq(Words)
  BY <1>3 DEF Copied, Refusal, Ops
<1> QED
  BY <1>1, <1>4 DEF CopyText

\* The parts of Sound' that the steps have in common.
LEMMA SoundParts ==
  ASSUME user' \in Users, current_channel' \in Seq(Words),
         entered' \in Seq(Words), line' \in Seq(Words),
         at' \in {"key"} \cup Ops, frame' \in Frames \cup {NoFrame},
         \A c \in joined' : c \in Seq(Words),
         again' \in BOOLEAN, full' \in BOOLEAN, up' \in BOOLEAN,
         Asked', Counted'
  PROVE  Sound'
<1>1. count' \in 0..Len(Handlers)
  <2>1. Len(Handlers) = 5
    BY DEF Handlers
  <2>2. (frame' # NoFrame) => at' \in Ops
    BY DEF Asked, Waiting
  <2>3. count' \in Nat /\ count' <= 5
    BY <2>2, OrderSteps DEF Counted, Waiting
  <2> QED
    BY <2>1, <2>3
<1>2. at' \in {"key"} \cup {Handlers[n] : n \in DOMAIN Handlers}
  BY HandlerNames
<1> QED
  BY <1>1, <1>2 DEF Sound, TypeOK

LEMMA RepliedStep ==
  ASSUME Sound, NEW h \in Ops, Replied(h), count' = count
  PROVE  /\ Waiting /\ at = h /\ frame' = NoFrame
         /\ at' = After(h) /\ at' \in {"key"} \cup Ops
         /\ Asked' /\ Counted'
<1>1. Waiting /\ at = h /\ frame' = NoFrame /\ at' = After(h)
  BY DEF Replied
<1>2. at' \in {"key"} \cup Ops
  BY <1>1, HandlerNames
<1>3. Asked'
  BY <1>1 DEF Asked, Waiting
<1>4. Counted'
  <2>1. Order(at') = Order(at) + 1 /\ Order(at) \in 0..4
    BY <1>1, OrderSteps
  <2>2. count \in Nat /\ count <= Order(at) + 1
    BY <1>1, <2>1 DEF Sound, Counted
  <2> QED
    BY <1>1, <2>1, <2>2 DEF Counted, Waiting
<1> QED
  BY <1>1, <1>2, <1>3, <1>4

LEMMA AcceptStep ==
  ASSUME Sound, NEW h \in Ops, Accept(h)
  PROVE  Sound'
<1>1. Waiting /\ at = h /\ frame' = NoFrame /\ at' \in {"key"} \cup Ops /\ Asked' /\ Counted'
  BY RepliedStep DEF Accept
<1>2. current_channel' \in Seq(Words)
  BY <1>1, ChannelType DEF Accept
<1>3. line' \in Seq(Words)
  BY CopyType DEF Accept
<1>4. \A c \in joined' : c \in Seq(Words)
  <2>1. frame.channel \in Seq(Words)
    BY <1>1 DEF Sound, TypeOK, Waiting, Frames
  <2>2. \A c \in joined : c \in Seq(Words)
    BY DEF Sound, TypeOK
  <2>3. h \in {"create", "join", "leave", "message"}
    BY DEF Accept, Ops
  <2> QED
    BY <2>1, <2>2, <2>3 DEF Accept
<1> QED
  BY <1>1, <1>2, <1>3, <1>4, SoundParts DEF Accept, Sound, TypeOK

LEMMA RefuseStep ==
  ASSUME Sound, NEW h \in Ops, Refuse(h)
  PROVE  Sound'
<1>1. frame' = NoFrame /\ at' \in {"key"} \cup Ops /\ Asked' /\ Counted'
  BY RepliedStep DEF Refuse
<1>2. line' \in Seq(Words)
  BY CopyType DEF Refuse
<1> QED
  BY <1>1, <1>2, SoundParts DEF Refuse, Sound, TypeOK

LEMMA SendStep ==
  ASSUME Sound, Send
  PROVE  Sound'
<1>0. Typed /\ at \in Ops
  BY TypedState DEF Sound, Send, Typed
<1>1. /\ frame' = FrameOf(at, Arguments(at)) /\ frame' \in Frames /\ frame' # NoFrame
  BY <1>0, ArgumentsType, FrameType DEF Send
<1>2. Asked'
  BY <1>0, <1>1 DEF Send, Asked, Waiting, Finds, Enough, Arguments, FrameOf
<1>3. Counted'
  <2>1. count \in Nat /\ count <= Order(at) /\ Order(at) \in 0..4
    BY <1>0, OrderSteps DEF Sound, Counted, Send
  <2> QED
    BY <1>1, <2>1 DEF Counted, Waiting, Send
<1> QED
  BY <1>0, <1>1, <1>2, <1>3, SoundParts DEF Send, Sound, TypeOK

LEMMA SkipStep ==
  ASSUME Sound, Skip
  PROVE  Sound'
<1>0. at \in Ops /\ ~Waiting
  BY TypedState DEF Sound, Skip, Typed
<1>1. at' \in {"key"} \cup Ops
  BY <1>0, HandlerNames DEF Skip
<1>2. Asked'
  BY <1>0 DEF Asked, Waiting, Skip
<1>3. Counted'
  <2>1. count \in Nat /\ count <= Order(at) /\ Order(at) \in 0..4 /\ Order(at') = Order(at) + 1
    BY <1>0, OrderSteps DEF Sound, Counted, Skip
  <2> QED
    BY <1>0, <2>1 DEF Counted, Waiting, Skip
<1> QED
  BY <1>1, <1>2, <1>3, SoundParts DEF Skip, Sound, TypeOK

LEMMA OtherSteps ==
  ASSUME Sound, (\E l \in Lines : Enter(l)) \/ End \/ Relogin \/ Fill \/ UNCHANGED vars
  PROVE  Sound'
<1>1. CASE \E l \in Lines : Enter(l)
  <2>1. ~Waiting /\ UNCHANGED frame /\ at' = "logout" /\ count' = 0 /\ at = "key"
    BY <1>1 DEF Enter, Sound, Asked, Ops
  <2>2. Asked' /\ Counted'
    BY <2>1, OrderSteps DEF Asked, Counted, Waiting, Ops
  <2>3. line' \in Seq(Words) /\ entered' \in Seq(Words)
    BY <1>1, CommandAssumption DEF Enter
  <2> QED
    BY <1>1, <2>1, <2>2, <2>3, SoundParts DEF Enter, Sound, TypeOK, Ops
<1>2. CASE Relogin
  <2>1. Waiting /\ at = "logout" /\ frame' = NoFrame /\ at' \in {"key", "create"}
    BY <1>2 DEF Relogin, After
  <2>2. count \in Nat /\ count <= 1
    BY <2>1 DEF Sound, Counted, Order
  <2>3. Asked' /\ Counted'
    BY <1>2, <2>1, <2>2 DEF Relogin, Asked, Counted, Waiting, Order
  <2>4. \A c \in joined' : c \in Seq(Words)
    BY <1>2 DEF Relogin, Sound, TypeOK
  <2>5. user' \in Users
    BY <1>2 DEF Relogin, Sound, TypeOK
  <2> QED
    BY <1>2, <2>1, <2>3, <2>4, <2>5, SoundParts DEF Relogin, Sound, TypeOK, Ops
<1>3. CASE End \/ Fill \/ UNCHANGED vars
  <2>1. /\ UNCHANGED <<user, current_channel, entered, line, at, frame, count, joined, again>>
        /\ full' \in BOOLEAN /\ up' \in BOOLEAN
    BY <1>3 DEF End, Fill, vars, Sound, TypeOK
  <2>2. Asked'
    BY <2>1 DEF Sound, Asked, Waiting, Finds, Enough, Arguments, FrameOf
  <2>3. Counted'
    BY <2>1 DEF Sound, Counted, Waiting
  <2>4. at' \in {"key"} \cup Ops
    BY <2>1, TypedState DEF Sound, Typed
  <2> QED
    BY <2>1, <2>2, <2>3, <2>4, SoundParts DEF Sound, TypeOK
<1> QED
  BY <1>1, <1>2, <1>3

\* Next with the handlers by their names.
LEMMA NextSteps ==
  ASSUME [Next]_vars
  PROVE  \/ (\E l \in Lines : Enter(l)) \/ End \/ Relogin \/ Fill \/ UNCHANGED vars
         \/ Skip \/ Send
         \/ \E h \in Ops : Accept(h) \/ Refuse(h)
BY HandlerNames DEF Next

LEMMA SoundStep == Sound /\ [Next]_vars => Sound'
BY NextSteps, OtherSteps, SkipStep, SendStep, AcceptStep, RefuseStep

LEMMA SoundAlways == Spec => []Sound
BY SoundInit, SoundStep, PTL DEF Spec

\* Every variable keeps its type; a line is at most one command of each of the
\* five handlers.
THEOREM CommandsTypeCorrect == Spec => []TypeOK
<1>1. Sound => TypeOK
  BY DEF Sound
<1> QED
  BY <1>1, SoundAlways, PTL

-----------------------------------------------------------------------------
(* One command for a line.                                                 *)

\* The command words of the handlers that come before.
Heads(h) ==
  CASE h = "logout"  -> {}
    [] h = "create"  -> {"/logout"}
    [] h = "join"    -> {"/logout", "/create"}
    [] h = "leave"   -> {"/logout", "/create", "/join"}
    [] OTHER         -> {"/logout", "/create", "/join", "/leave"}

\* What was sent for a line is what its first word says, which no later handler
\* finds.
Spent ==
  ~full =>
    /\ count <= 1
    /\ Waiting => count = 1
    /\ ~Waiting /\ at # "key" /\ count = 1 => line # <<>> /\ line[1] \in Heads(at)

\* A handler does not find what an earlier one found.
LEMMA NotTwice ==
  ASSUME Typed, at \in Ops, line # <<>>, line[1] \in Heads(at)
  PROVE  ~Finds(at)
<1>1. Heads(at) \subseteq Slashed /\ 1 \in DOMAIN line
  BY CommandAssumption DEF Heads, Ops, Typed
<1> QED
  BY <1>1 DEF Finds, Heads, Ops

\* What a handler found is the word of one that comes before the next.
LEMMA ThenSpent ==
  ASSUME at \in Ops, at # "message"
  PROVE  /\ Finds(at) => line[1] \in Heads(After(at))
         /\ Heads(at) \subseteq Heads(After(at))
BY DEF Finds, Heads, After, Ops

LEMMA SpentStep ==
  ASSUME Sound, Spent, [Next]_vars
  PROVE  Spent'
<1>0. Typed /\ count \in Nat
  BY TypedState DEF Sound, Counted
<1>1. CASE Skip
  <2>1. at \in Ops /\ ~Waiting /\ ~Waiting' /\ UNCHANGED <<line, count, full>> /\ at' = After(at)
    BY <1>0, <1>1 DEF Skip, Typed, Waiting
  <2>2. CASE at = "message"
    BY <2>1, <2>2 DEF Spent, After
  <2>3. CASE at # "message"
    BY <2>1, <2>3, ThenSpent DEF Spent, Ops
  <2> QED
    BY <2>2, <2>3
<1>2. CASE Send
  <2>1. at \in Ops /\ ~Waiting /\ UNCHANGED <<line, at, full>> /\ Finds(at) /\ count' = count + 1
    BY <1>0, <1>2 DEF Send, Typed
  <2>2. ~full => count = 0
    BY <1>0, <2>1, NotTwice DEF Spent, Ops
  <2>3. Waiting'
    BY <1>0, <1>2, <2>1, ArgumentsType, FrameType DEF Send, Waiting
  <2> QED
    BY <2>1, <2>2, <2>3 DEF Spent
<1>3. ASSUME NEW h \in Ops, Accept(h) \/ Refuse(h) PROVE Spent'
  <2>1. /\ Waiting /\ ~Waiting' /\ at = h /\ at' = After(at) /\ UNCHANGED <<count, full>>
        /\ ~full => UNCHANGED line
    BY <1>3 DEF Accept, Refuse, Replied, CopyText, Waiting
  <2>2. at \in Ops /\ Finds(at) /\ (line # <<>> \/ at = "message")
    BY <2>1 DEF Sound, Asked
  <2>3. CASE at = "message"
    BY <2>1, <2>3 DEF Spent, After
  <2>4. CASE at # "message"
    BY <2>1, <2>2, <2>4, ThenSpent DEF Spent
  <2> QED
    BY <2>3, <2>4
<1>4. CASE Relogin
  <2>1. /\ Waiting /\ ~Waiting' /\ at = "logout" /\ UNCHANGED <<line, count, full>>
        /\ at' \in {"key", "create"}
    BY <1>4 DEF Relogin, Waiting, After
  <2>2. line # <<>> /\ line[1] = "/logout"
    BY <2>1 DEF Sound, Asked, Finds
  <2> QED
    BY <2>1, <2>2 DEF Spent, Heads
<1>5. CASE \E l \in Lines : Enter(l)
  <2>1. count' = 0 /\ ~Waiting /\ ~Waiting'
    BY <1>5 DEF Enter, Sound, Asked, Ops, Waiting
  <2> QED
    BY <2>1 DEF Spent
<1>6. CASE End \/ UNCHANGED vars
  BY <1>6 DEF End, vars, Spent, Waiting
<1>7. CASE Fill
  BY <1>7 DEF Fill, Spent
<1> QED
  BY <1>1, <1>2, <1>3, <1>4, <1>5, <1>6, <1>7, NextSteps

\* Until the array of messages is full, a line is at most one command of the
\* five handlers that look at it (chat_ui.c 552-558, 613-687).
THEOREM OneCommandPerLine == Spec => []OnePerLine
<1>1. Init => Spent
  BY DEF Init, Spent, Waiting
<1>2. Sound /\ Spent /\ [Next]_vars => Spent'
  BY SpentStep
<1>3. Spent => OnePerLine
  BY DEF Spent, OnePerLine
<1> QED
  BY <1>1, <1>2, <1>3, SoundAlways, PTL DEF Spec

-----------------------------------------------------------------------------
(* The line that the handlers look at and the line that the user entered.  *)

\* What a handler copies behind the last message and the next ones look at.
Texts == {<<"Created", "Channel">>, <<"Leaved", "Channel">>, Refusal}

\* The space of an accepted join, which the next handler does not survive.
Blank ==
  /\ line = <<>> /\ at = "leave" /\ full
  /\ entered[1] = "/join" /\ current_channel = From(entered, 2)

\* The line is the user's until the answer to its first command.
OfUser ==
  /\ Waiting => count >= 1
  /\ count = 0 \/ (count = 1 /\ Waiting) => line = entered
  /\ at # "key" => line = entered \/ line \in Texts \/ Blank

\* A handler waits for an answer only with a line that has words, or is the last.
LEMMA NotBlank == Asked /\ Waiting => ~Blank
BY DEF Asked, Blank

\* A handler that has had its answer leaves a line that is the user's, a text
\* that was copied, or the space.
LEMMA RepliedOfUser ==
  ASSUME Sound, OfUser, NEW h \in Ops, Accept(h) \/ Refuse(h)
  PROVE  OfUser'
<1>1. /\ Waiting /\ ~Waiting' /\ at = h /\ at' = After(at)
      /\ UNCHANGED <<entered, count, full>> /\ count \in Nat
  BY DEF Accept, Refuse, Replied, Waiting, Sound, Counted
<1>2. at # "key" /\ (line = entered \/ line \in Texts)
  BY <1>1, NotBlank DEF OfUser, Sound, Ops
<1>3. PICK ok \in BOOLEAN : /\ CopyText(h, ok)
                            /\ ok => Accept(h)
                            /\ h = "logout" => ~ok
  BY DEF Accept, Refuse
<1>4. CASE line' = line
  BY <1>1, <1>2, <1>4 DEF OfUser
<1>5. CASE full /\ line' = Copied(h, ok) /\ ok /\ h = "join"
  <2>1. line' = <<>> /\ at' = "leave" /\ current_channel' = From(line, 2)
    BY <1>1, <1>3, <1>5 DEF Copied, Accept, ChannelAfter, After
  <2>2. line[1] = "/join"
    BY <1>1, <1>5 DEF Sound, Asked, Finds
  <2>3. \A t \in Texts : t[1] # "/join"
    BY DEF Texts, Refusal
  <2>4. line = entered
    BY <1>2, <2>2, <2>3
  <2>5. Blank'
    BY <1>1, <1>5, <2>1, <2>2, <2>4 DEF Blank, From
  <2> QED
    BY <1>1, <2>5 DEF OfUser
<1>6. CASE full /\ line' = Copied(h, ok) /\ ~(ok /\ h = "join")
  <2>1. line' \in Texts
    BY <1>6 DEF Copied, Texts
  <2> QED
    BY <1>1, <2>1 DEF OfUser, Texts
<1> QED
  BY <1>3, <1>4, <1>5, <1>6 DEF CopyText

LEMMA OfUserStep ==
  ASSUME Sound, OfUser, [Next]_vars
  PROVE  OfUser'
<1>0. Typed /\ count \in Nat
  BY TypedState DEF Sound, Counted
<1>1. CASE \E l \in Lines : Enter(l)
  <2>1. line' = entered' /\ ~Waiting'
    BY <1>1 DEF Enter, Sound, Asked, Ops, Waiting
  <2> QED
    BY <2>1 DEF OfUser
<1>2. CASE Skip
  <2>1. /\ ~Waiting /\ ~Waiting' /\ UNCHANGED <<entered, line, count>>
        /\ ~Blank /\ at # "key"
    BY <1>2 DEF Skip, Waiting, Blank
  <2> QED
    BY <2>1 DEF OfUser, Texts
<1>3. CASE Send
  <2>1. /\ ~Waiting /\ UNCHANGED <<entered, line, at>> /\ count' = count + 1
        /\ ~Blank /\ at # "key"
    BY <1>3 DEF Send, Blank
  <2>2. count' >= 1 /\ count' # 0 /\ (count' = 1 => count = 0)
    BY <1>0, <2>1
  <2> QED
    BY <2>1, <2>2 DEF OfUser, Texts
<1>4. ASSUME NEW h \in Ops, Accept(h) \/ Refuse(h) PROVE OfUser'
  BY <1>4, RepliedOfUser
<1>5. CASE Relogin
  <2>1. /\ Waiting /\ ~Waiting' /\ at = "logout" /\ ~Blank
        /\ UNCHANGED <<entered, line, count>>
    BY <1>5 DEF Relogin, Waiting, Blank
  <2> QED
    BY <1>0, <2>1 DEF OfUser, Texts
<1>6. CASE End \/ UNCHANGED vars
  <2>1. UNCHANGED <<current_channel, entered, line, at, frame, count, full>>
    BY <1>6 DEF End, vars
  <2> QED
    BY <2>1 DEF OfUser, Waiting, Texts, Blank, From
<1>7. CASE Fill
  BY <1>7 DEF Fill, OfUser, Waiting
<1> QED
  BY <1>1, <1>2, <1>3, <1>4, <1>5, <1>6, <1>7, NextSteps

LEMMA OfUserAlways == Spec => []OfUser
<1>1. Init => OfUser
  BY DEF Init, OfUser, Waiting
<1>2. Sound /\ OfUser /\ [Next]_vars => OfUser'
  BY OfUserStep
<1> QED
  BY <1>1, <1>2, SoundAlways, PTL DEF Spec

-----------------------------------------------------------------------------
(* How the program ends.                                                   *)

LEMMA EndStep ==
  ASSUME Sound, End
  PROVE  line = <<>> \/ line = <<"/join">> \/ user = <<>> \/ current_channel = <<>>
<1>0. Typed /\ at \in Ops
  BY TypedState DEF Sound, End, Typed
<1>1. CASE line # <<>> /\ Finds(at) /\ ~Enough(at, Arguments(at))
  <2>1. /\ user \in Seq(Words) /\ current_channel \in Seq(Words) /\ line \in Seq(Words)
        /\ Len(line) \in Nat /\ Len(line) >= 1
        /\ Len(user) \in Nat /\ Len(current_channel) \in Nat
    BY <1>0, <1>1 DEF Typed
  <2>2. /\ Len(Word(line, 2)) = IF 2 <= Len(line) THEN 1 ELSE 0
        /\ Len(Word(line, 3)) = IF 3 <= Len(line) THEN 1 ELSE 0
    BY <2>1, WordType, Positions
  <2> DEFINE u == Len(user)
             w == Len(Word(line, 2))
             x == Len(Word(line, 3))
             a == Len(Arguments(at))
  <2>0. u \in Nat /\ w \in Nat /\ x \in Nat /\ Len(line) \in Nat
    BY <2>1, <2>2
  <2>3. CASE at = "logout"
    <3>1. Len(Arguments(at)) = Len(user) /\ ~(Len(Arguments(at)) >= 1)
      BY <1>0, <1>1, <2>3, ArgumentsType DEF Enough
    <3>2. Len(user) = 0
      BY <2>1, <3>1
    <3> QED
      BY <2>1, <3>2, NoElement
  <2>4. CASE at = "create"
    <3>1. /\ Len(Arguments(at)) = Len(user) + Len(Word(line, 2)) + Len(Word(line, 3))
          /\ ~(Len(Arguments(at)) >= 3) /\ Len(line) >= 3
      BY <1>0, <1>1, <2>4, ArgumentsType DEF Enough, Finds
    <3>2. w = 1 /\ x = 1 /\ a = u + w + x /\ ~(a >= 3)
      BY <2>1, <2>2, <3>1
    <3>3. u = 0
      <4> HIDE DEF u, w, x, a
      <4> QED
        BY <2>0, <3>2
    <3> QED
      BY <2>1, <3>3, NoElement
  <2>5. CASE at = "join"
    <3>1. /\ Len(Arguments(at)) = Len(user) + Len(line) - 1
          /\ ~(Len(Arguments(at)) >= 2) /\ line[1] = "/join"
      BY <1>0, <1>1, <2>5, ArgumentsType DEF Enough, Finds
    <3>2. CASE Len(user) = 0
      BY <2>1, <3>2, NoElement
    <3>3. CASE Len(user) # 0
      <4> DEFINE k == Len(line)
      <4>1. a = u + k - 1 /\ ~(a >= 2) /\ u # 0 /\ k \in Nat /\ k >= 1
        BY <2>1, <3>1, <3>3
      <4>2. k = 1
        <5> HIDE DEF a, u, k
        <5> QED
          BY <2>0, <4>1
      <4>3. line = <<line[1]>>
        BY <2>1, <4>2
      <4> QED
        BY <3>1, <4>3
    <3> QED
      BY <3>2, <3>3
  <2>6. CASE at = "leave"
    <3>1. /\ Len(Arguments(at)) = Len(user) + Len(Word(line, 2))
          /\ ~(Len(Arguments(at)) >= 2) /\ Len(line) >= 2
      BY <1>0, <1>1, <2>6, ArgumentsType DEF Enough, Finds
    <3>2. w = 1 /\ a = u + w /\ ~(a >= 2)
      BY <2>1, <2>2, <3>1
    <3>3. u = 0
      <4> HIDE DEF u, w, a
      <4> QED
        BY <2>0, <3>2
    <3> QED
      BY <2>1, <3>3, NoElement
  <2>7. CASE at = "message"
    <3>1. /\ Len(Arguments(at)) = Len(user) + Len(current_channel) + Len(line)
          /\ ~(Len(Arguments(at)) >= 3)
      BY <1>0, <1>1, <2>7, ArgumentsType DEF Enough
    <3>2. Len(user) = 0 \/ Len(current_channel) = 0
      BY <1>1, <2>1, <3>1
    <3> QED
      BY <2>1, <3>2, NoElement
  <2> QED
    BY <1>0, <2>3, <2>4, <2>5, <2>6, <2>7 DEF Ops
<1> QED
  BY <1>1 DEF End

\* What ends the program, by the line that the user entered: one of spaces only, a
\* join without a name, an empty name, and, with a full array of messages, a join
\* that the server accepts (handle_ui.c 43-235, chat_ui.c 591-745).
THEOREM EndsOnlyByAlways == Spec => []EndsOnlyBy
<1>1. Init => EndsOnlyBy
  BY DEF Init, EndsOnlyBy
<1>2. ASSUME Sound, OfUser, EndsOnlyBy, [Next]_vars PROVE EndsOnlyBy'
  <2>1. CASE End
    <3>1. at # "key" /\ UNCHANGED <<user, current_channel, entered, full>>
      BY <2>1 DEF End
    <3>2. CASE line = entered
      BY <1>2, <2>1, <3>1, <3>2, EndStep DEF EndsOnlyBy
    <3>3. CASE line \in Texts
      <4>1. line # <<>> /\ line # <<"/join">>
        BY <3>3 DEF Texts, Refusal
      <4> QED
        BY <1>2, <2>1, <3>1, <4>1, EndStep DEF EndsOnlyBy
    <3>4. CASE Blank
      BY <3>1, <3>4 DEF Blank, EndsOnlyBy, From
    <3> QED
      BY <1>2, <3>1, <3>2, <3>3, <3>4 DEF OfUser
  <2>2. CASE up'
    BY <2>2 DEF EndsOnlyBy
  <2>3. CASE ~End /\ ~up'
    <3>1. ASSUME NEW h \in Ops, Accept(h) \/ Refuse(h) PROVE FALSE
      <4>1. up' = up /\ up
        BY <3>1 DEF Accept, Refuse, Replied
      <4> QED
        BY <2>3, <4>1
    <3>2. ~Skip /\ ~Send /\ ~Relogin /\ ~Fill /\ \A l \in Lines : ~Enter(l)
      BY <2>3 DEF Skip, Send, Relogin, Fill, Enter
    <3>3. UNCHANGED vars
      BY <1>2, <2>3, <3>1, <3>2, NextSteps
    <3> QED
      BY <1>2, <3>3 DEF vars, EndsOnlyBy, From
  <2> QED
    BY <2>1, <2>2, <2>3
<1> QED
  BY <1>1, <1>2, SoundAlways, OfUserAlways, PTL DEF Spec

-----------------------------------------------------------------------------
(* The frame says what the line says.                                      *)

LEMMA DropPrefix ==
  ASSUME NEW S, NEW s \in Seq(S), NEW t \in Seq(S), NEW n \in Nat \ {0}, n = Len(s) + 1
  PROVE  /\ From(s \o t, n) = t
         /\ Len(t) >= 1 => (s \o t)[n] = t[1]
BY DEF From

\* The words of a string that is put together of others.
LEMMA FirstKept ==
  ASSUME NEW S, NEW s \in Seq(S), NEW t \in Seq(S), Len(s) >= 1
  PROVE  (s \o t)[1] = s[1]
OBVIOUS

LEMMA AfterOne ==
  ASSUME NEW S, NEW s \in Seq(S), NEW t \in Seq(S), Len(s) = 1
  PROVE  /\ (s \o t)[1] = s[1]
         /\ Len(t) >= 1 => (s \o t)[2] = t[1]
         /\ From(s \o t, 2) = t
<1> DEFINE n == 2
<1>1. n \in Nat \ {0} /\ n = Len(s) + 1
  OBVIOUS
<1> HIDE DEF n
<1>2. From(s \o t, n) = t /\ (Len(t) >= 1 => (s \o t)[n] = t[1])
  BY <1>1, DropPrefix
<1>3. (s \o t)[1] = s[1]
  <2>1. Len(s) >= 1
    OBVIOUS
  <2> QED
    BY <2>1, FirstKept
<1> QED
  BY <1>2, <1>3 DEF n

LEMMA AfterTwo ==
  ASSUME NEW S, NEW s \in Seq(S), NEW t \in Seq(S), Len(s) = 2
  PROVE  (s \o t)[1] = s[1] /\ (s \o t)[2] = s[2] /\ From(s \o t, 3) = t
<1> DEFINE n == 3
<1>1. n \in Nat \ {0} /\ n = Len(s) + 1
  OBVIOUS
<1> HIDE DEF n
<1>2. From(s \o t, n) = t
  BY <1>1, DropPrefix
<1>3. (s \o t)[1] = s[1] /\ (s \o t)[2] = s[2]
  OBVIOUS
<1> QED
  BY <1>2, <1>3 DEF n

\* The fields of a frame while its response is waited for.
LEMMA FrameFields ==
  ASSUME Sound, Waiting, OneWord(user)
  PROVE  /\ frame.op = at
         /\ frame.display = user
         /\ at \in {"create", "leave"} => frame.channel = <<line[2]>>
         /\ at = "join" => frame.channel = From(line, 2)
         /\ at = "message" /\ OneWord(current_channel) =>
              frame.channel = current_channel /\ frame.rest = line
<1>1. /\ at \in Ops /\ Finds(at) /\ frame = FrameOf(at, Arguments(at))
      /\ line # <<>> \/ at = "message"
  BY DEF Sound, Asked
<1>2. /\ user \in Seq(Words) /\ current_channel \in Seq(Words) /\ line \in Seq(Words)
      /\ Len(user) = 1 /\ user = <<user[1]>>
  BY TypedState DEF Sound, Typed, OneWord
<1>3. CASE at = "logout"
  BY <1>1, <1>2, <1>3 DEF FrameOf, Arguments
<1>4. CASE at = "create"
  <2>1. Word(line, 2) = <<line[2]>> /\ Word(line, 3) = <<line[3]>>
    BY <1>1, <1>2, <1>4 DEF Finds, Word
  <2>2. /\ Word(line, 2) \in Seq(Words) /\ Len(Word(line, 2)) = 1 /\ Word(line, 2)[1] = line[2]
        /\ Word(line, 3) \in Seq(Words)
    <3>1. Word(line, 2) \in Seq(Words) /\ Word(line, 3) \in Seq(Words)
      BY <1>2, WordType, Positions
    <3> QED
      BY <2>1, <3>1
  <2> DEFINE p == Word(line, 2) \o user
  <2>3. p \in Seq(Words) /\ Len(p) = 2 /\ p[1] = line[2] /\ p[2] = user[1]
    BY <1>2, <2>2, JoinedType, AfterOne
  <2>4. Arguments(at) = p \o Word(line, 3)
    BY <1>4 DEF Arguments
  <2> HIDE DEF p
  <2>5. Arguments(at)[1] = line[2] /\ Arguments(at)[2] = user[1]
    BY <2>2, <2>3, <2>4, AfterTwo
  <2> QED
    BY <1>1, <1>2, <1>4, <2>5 DEF FrameOf
<1>5. CASE at = "join"
  <2>1. Len(line) >= 1
    BY <1>1, <1>2, <1>5
  <2>2. From(line, 2) \in Seq(Words)
    BY <1>2, <2>1, FromType, Positions
  <2> DEFINE t == From(line, 2)
  <2> HIDE DEF t
  <2>3. t \in Seq(Words) /\ Arguments(at) = user \o t
    BY <1>5, <2>2 DEF Arguments, t
  <2>4. Arguments(at)[1] = user[1] /\ From(Arguments(at), 2) = t
    BY <1>2, <2>3, AfterOne
  <2> QED
    BY <1>1, <1>2, <1>5, <2>4 DEF FrameOf, t
<1>6. CASE at = "leave"
  <2>1. Word(line, 2) = <<line[2]>> /\ Word(line, 2) \in Seq(Words)
    BY <1>1, <1>2, <1>6, WordType, Positions DEF Finds, Word
  <2> DEFINE t == Word(line, 2)
  <2> HIDE DEF t
  <2>2. t \in Seq(Words) /\ Arguments(at) = user \o t
    BY <1>6, <2>1 DEF Arguments, t
  <2>3. Arguments(at)[1] = user[1] /\ From(Arguments(at), 2) = t
    BY <1>2, <2>2, AfterOne
  <2> QED
    BY <1>1, <1>2, <1>6, <2>1, <2>3 DEF FrameOf, t
<1>7. CASE at = "message"
  <2> DEFINE p == user \o current_channel
  <2>1. Arguments(at) = p \o line
    BY <1>7 DEF Arguments
  <2>2. p \in Seq(Words) /\ Len(p) = Len(user) + Len(current_channel) /\ p[1] = user[1]
    BY <1>2, JoinedType, AfterOne
  <2>3. OneWord(current_channel) => Len(p) = 2 /\ p[2] = current_channel[1]
    BY <1>2, <2>2, AfterOne DEF OneWord
  <2> HIDE DEF p
  <2>4. Arguments(at)[1] = user[1]
    <3>1. Len(p) >= 1
      BY <1>2, <2>2
    <3> QED
      BY <1>2, <2>1, <2>2, <3>1, FirstKept
  <2>5. OneWord(current_channel) =>
          Arguments(at)[2] = current_channel[1] /\ From(Arguments(at), 3) = line
    BY <1>2, <2>1, <2>2, <2>3, AfterTwo DEF OneWord
  <2>6. OneWord(current_channel) => current_channel = <<current_channel[1]>>
    BY <1>2 DEF OneWord
  <2> QED
    BY <1>1, <1>2, <1>7, <2>4, <2>5, <2>6 DEF FrameOf
<1> QED
  BY <1>1, <1>3, <1>4, <1>5, <1>6, <1>7 DEF Ops

\* The fields of the frame of a line's first command are what the user entered,
\* for a display name of one word (chat_ui.c 591-745, handle_ui.c 43-235).
THEOREM AsAskedAlways == Spec => []AsAsked
<1>1. ASSUME Sound, OfUser, Waiting, count = 1, OneWord(user)
      PROVE  /\ frame.display = user
             /\ frame.op = "message" /\ OneWord(current_channel) =>
                  frame.channel = current_channel /\ frame.rest = entered
             /\ frame.op \in {"create", "leave"} => frame.channel = <<entered[2]>>
             /\ frame.op = "join" => frame.channel = From(entered, 2)
  <2>1. line = entered
    BY <1>1 DEF OfUser
  <2> QED
    BY <1>1, <2>1, FrameFields
<1>2. Sound /\ OfUser => AsAsked
  BY <1>1 DEF AsAsked
<1> QED
  BY <1>2, SoundAlways, OfUserAlways, PTL

-----------------------------------------------------------------------------
(* The current channel.                                                    *)

LEMMA InChannelStep ==
  ASSUME Sound, InChannel, [Next]_vars
  PROVE  InChannel'
<1>1. CASE \E h \in Ops : Accept(h)
  <2>1. PICK h \in Ops : Accept(h)
    BY <1>1
  <2>2. Waiting /\ at = h /\ UNCHANGED <<user, again>> /\ current_channel' = ChannelAfter(h)
        /\ h # "logout"
    BY <2>1 DEF Accept, Replied
  <2>3. CASE h \in {"create", "join"}
    <3>1. joined' = joined \cup {frame.channel}
      BY <2>1, <2>3 DEF Accept
    <3>2. OneWord(user) => frame.channel = ChannelAfter(h)
      BY <2>2, <2>3, FrameFields DEF ChannelAfter
    <3> QED
      BY <2>2, <3>1, <3>2 DEF InChannel
  <2>4. CASE h = "leave"
    BY <2>2, <2>4 DEF InChannel, ChannelAfter
  <2>5. CASE h = "message"
    BY <2>1, <2>2, <2>5 DEF Accept, InChannel, ChannelAfter
  <2> QED
    BY <2>2, <2>3, <2>4, <2>5 DEF Ops
<1>2. CASE Relogin
  BY <1>2 DEF Relogin, InChannel
<1>3. CASE ~(\E h \in Ops : Accept(h)) /\ ~Relogin
  <2>1. UNCHANGED <<user, again, current_channel, joined>>
    BY <1>3, NextSteps DEF Enter, End, Fill, vars, Skip, Send, Refuse
  <2> QED
    BY <2>1 DEF InChannel
<1> QED
  BY <1>1, <1>2, <1>3

\* The current channel is one the server has the user in, until the user logs
\* out (chat_ui.c 618-620, 677-680, 719-722).
THEOREM InChannelAlways == Spec => []InChannel
<1>1. Init => InChannel
  BY DEF Init, InChannel
<1>2. Sound /\ InChannel /\ [Next]_vars => InChannel'
  BY InChannelStep
<1> QED
  BY <1>1, <1>2, SoundAlways, PTL DEF Spec
=============================================================================
