---------------------------- MODULE ChatCommands ----------------------------
(***************************************************************************)
(* The words of a line and what becomes of them: the five handlers that    *)
(* get_user_input gives the line to one after the other (UI/chat_ui.c),    *)
(* the command a handler writes, and the fields the client takes from it   *)
(* with strtok (client/src/handle_ui.c).                                   *)
(*                                                                         *)
(* A string is the sequence of its words, with one space between two; a    *)
(* line of spaces is <<>>.  strtok has NULL for a word that is missing,    *)
(* and NULL given to strcmp or strcpy ends a process and then, by an end   *)
(* of file, the other one.                                                 *)
(***************************************************************************)
EXTENDS Naturals, Sequences, FiniteSets

CONSTANTS
  Words,    \* words of strings
  Lines,    \* lines the user may enter
  Users,    \* display names the user may log in with
  Slashed,  \* words with a slash in them
  MaxJoined \* bound: channels the user is in at once

NoChannel == <<"N/A">>

ASSUME CommandAssumption ==
  /\ Lines \subseteq Seq(Words)
  /\ Users \subseteq Seq(Words) /\ Users # {}
  /\ MaxJoined \in Nat
  /\ Slashed \subseteq Words
  /\ {"/create", "/join", "/leave", "/logout", "N/A"} \subseteq Slashed
  /\ {"Created", "Leaved", "Channel", "Fields", "are", "invalid"} \subseteq Words

VARIABLES
  user,             \* user->username
  current_channel,
  entered,          \* the line as the user entered it
  line,             \* input_buffer
  at,               \* the handler the line is given to, or "key"
  frame,            \* the frame whose response it waits for, or NoFrame
  count,            \* commands sent for this line
  joined,           \* the channels the server has the user in
  again,            \* the user has logged out
  full,             \* num_messages = MAX_MESSAGES
  up                \* both processes are running

vars == <<user, current_channel, entered, line, at, frame, count, joined, again, full, up>>

-----------------------------------------------------------------------------
Handlers == <<"logout", "create", "join", "leave", "message">>

After(h) ==
  CASE h = "logout" -> "create" [] h = "create" -> "join" [] h = "join" -> "leave"
    [] h = "leave" -> "message" [] h = "message" -> "key"

Frames == [op : {"logout", "create", "join", "leave", "message"},
           display : Seq(Words), channel : Seq(Words), rest : Seq(Words)]

NoFrame == [op |-> "none"]

TypeOK ==
  /\ user \in Users
  /\ current_channel \in Seq(Words)
  /\ entered \in Seq(Words)
  /\ line \in Seq(Words)
  /\ at \in {"key"} \cup {Handlers[n] : n \in DOMAIN Handlers}
  /\ frame \in Frames \cup {NoFrame}
  /\ count \in 0..Len(Handlers)
  /\ \A c \in joined : c \in Seq(Words)
  /\ again \in BOOLEAN /\ full \in BOOLEAN /\ up \in BOOLEAN

Init ==
  /\ user \in Users
  /\ current_channel = NoChannel
  /\ entered = <<>>
  /\ line = <<>>
  /\ at = "key"
  /\ frame = NoFrame
  /\ count = 0
  /\ joined = {}
  /\ again = FALSE
  /\ full = FALSE
  /\ up = TRUE

-----------------------------------------------------------------------------
From(s, n) == SubSeq(s, n, Len(s))
Word(s, n) == IF n <= Len(s) THEN <<s[n]>> ELSE <<>>

\* Mutant of Finds: the publicity of a channel is not looked for.
FindsUnchecked(h) ==
  CASE h = "logout"  -> line[1] = "/logout"
    [] h = "create"  -> line[1] = "/create" /\ Len(line) >= 2
    [] OTHER         -> FALSE

\* Whether a handler finds a command of its own in the line, with arguments.
Finds(h) ==
  CASE h = "logout"  -> line[1] = "/logout"
    [] h = "create"  -> line[1] = "/create" /\ Len(line) >= 3
    [] h = "join"    -> line[1] = "/join" /\ From(line, 2) # current_channel
    [] h = "leave"   -> line[1] = "/leave" /\ Len(line) >= 2
    [] h = "message" -> current_channel # NoChannel /\ \A n \in DOMAIN line : line[n] \notin Slashed

\* What it writes after the words that say which command it is.
Arguments(h) ==
  CASE h = "logout"  -> user
    [] h = "create"  -> Word(line, 2) \o user \o Word(line, 3)
    [] h = "join"    -> user \o From(line, 2)
    [] h = "leave"   -> user \o Word(line, 2)
    [] h = "message" -> user \o current_channel \o line

\* The strings handle_ui's strtok calls look for, and whether all are there.
Enough(h, args) ==
  Len(args) >= CASE h = "logout" -> 1 [] h = "create" -> 3 [] h = "join" -> 2
                 [] h = "leave" -> 2 [] h = "message" -> 3

\* Mutant of FrameOf: the fields of every command are words in one order.
FrameOfOneOrder(h, args) ==
  [op |-> h, display |-> <<args[1]>>, channel |-> Word(args, 2), rest |-> From(args, 3)]

\* The fields of the frame: the last of a join or leave goes to the end of the
\* command, that of a message to the end of the line, all others are words.
FrameOf(h, args) ==
  CASE h = "logout"  -> [op |-> h, display |-> <<args[1]>>, channel |-> <<>>, rest |-> <<>>]
    [] h = "create"  -> [op |-> h, display |-> <<args[2]>>, channel |-> <<args[1]>>, rest |-> <<args[3]>>]
    [] h \in {"join", "leave"} ->
         [op |-> h, display |-> <<args[1]>>, channel |-> From(args, 2), rest |-> <<>>]
    [] h = "message" -> [op |-> h, display |-> <<args[1]>>, channel |-> <<args[2]>>, rest |-> From(args, 3)]

-----------------------------------------------------------------------------
Waiting == frame # NoFrame

Enter(l) ==
  /\ up /\ at = "key"
  /\ entered' = l
  /\ line' = l
  /\ at' = "logout"
  /\ count' = 0
  /\ UNCHANGED <<user, current_channel, frame, joined, again, full, up>>

\* A handler leaves the line to the next one.
Skip ==
  /\ up /\ at # "key" /\ ~Waiting
  /\ line # <<>> \/ at = "message"
  /\ ~Finds(at)
  /\ at' = After(at)
  /\ UNCHANGED <<user, current_channel, entered, line, frame, count, joined, again, full, up>>

\* A command is written and the client makes a frame of it.
Send ==
  /\ up /\ at # "key" /\ ~Waiting
  /\ line # <<>> \/ at = "message"
  /\ Finds(at)
  /\ Enough(at, Arguments(at))
  /\ frame' = FrameOf(at, Arguments(at))
  /\ count' = count + 1
  /\ UNCHANGED <<user, current_channel, entered, line, at, joined, again, full, up>>

\* The first word of the line, or a field of the command, is NULL.
End ==
  /\ up /\ at # "key" /\ ~Waiting
  /\ \/ line = <<>> /\ at # "message"
     \/ line # <<>> /\ Finds(at) /\ ~Enough(at, Arguments(at))
  /\ up' = FALSE
  /\ UNCHANGED <<user, current_channel, entered, line, at, frame, count, joined, again, full>>

-----------------------------------------------------------------------------
Refusal == <<"Fields", "are", "invalid">>

\* What the handler copies behind the last message.
Copied(h, ok) ==
  CASE ok /\ h = "create" -> <<"Created", "Channel">>
    [] ok /\ h = "join"   -> <<>>
    [] ok /\ h = "leave"  -> <<"Leaved", "Channel">>
    [] OTHER              -> Refusal

\* Behind the last element of messages is the line, which the next handlers get.
CopyText(h, ok) == line' = IF full /\ ~(ok /\ h = "message") THEN Copied(h, ok) ELSE line

\* Mutant of Replied: the handler looks at the line again.
RepliedStays(h) == up /\ Waiting /\ at = h /\ frame' = NoFrame /\ at' = h

Replied(h) == up /\ Waiting /\ at = h /\ frame' = NoFrame /\ at' = After(h)

\* Mutant of ChannelAfter: a leave does not reset the channel.
ChannelAfterNoReset(h) ==
  CASE h = "create" -> <<line[2]>>
    [] h = "join"   -> From(line, 2)
    [] OTHER        -> current_channel

\* The UI takes its own words for the name.
ChannelAfter(h) ==
  CASE h = "create"  -> <<line[2]>>
    [] h = "join"    -> From(line, 2)
    [] h = "leave"   -> NoChannel
    [] h = "message" -> current_channel

\* The server does what it was asked.
Accept(h) ==
  /\ Replied(h)
  /\ h # "logout"
  /\ h \in {"create", "join"} => Cardinality(joined) < MaxJoined
  /\ joined' = CASE h \in {"create", "join"} -> joined \cup {frame.channel}
                 [] h = "leave"              -> joined \ {frame.channel}
                 [] h = "message"            -> joined
  /\ current_channel' = ChannelAfter(h)
  /\ CopyText(h, TRUE)
  /\ UNCHANGED <<user, entered, count, again, full, up>>

\* What is refused leaves the channel as it was.
Refuse(h) ==
  /\ Replied(h)
  /\ CopyText(h, FALSE)
  /\ UNCHANGED <<user, current_channel, entered, count, joined, again, full, up>>

\* An accepted logout leaves the channel as it was; the server may forget it.
\* Then a login starts another loop, or is refused and the handlers go on.
Relogin ==
  /\ up /\ Waiting /\ at = "logout"
  /\ frame' = NoFrame
  /\ \/ at' = "key" /\ user' \in Users
     \/ at' = After("logout") /\ user' = user
  /\ joined' \in {joined, {}}
  /\ again' = TRUE
  /\ UNCHANGED <<current_channel, entered, line, count, full, up>>

\* Another message is added, the last that fits.
Fill ==
  /\ up /\ at = "key" /\ ~full
  /\ full' = TRUE
  /\ UNCHANGED <<user, current_channel, entered, line, at, frame, count, joined, again, up>>

Next ==
  \/ \E l \in Lines : Enter(l)
  \/ Skip \/ Send \/ End \/ Relogin \/ Fill
  \/ \E n \in DOMAIN Handlers : Accept(Handlers[n]) \/ Refuse(Handlers[n])

Spec == Init /\ [][Next]_vars

-----------------------------------------------------------------------------
OneWord(s) == Len(s) = 1

\* A line is at most one command, although five handlers look at it and some
\* change what the next ones look at, unless the array of messages is full
\* (get_user_input 552-558, 613-687).
OnePerLine == ~full => count <= 1

\* What the user asked for is what the frame of the line's first command says, if
\* the display name is one word: a create and a leave have the word after the
\* command, a join all the words after it, and a message, in a channel of one
\* word, the channel and the line (591-745 against handle_ui.c 43-235).
AsAsked ==
  Waiting /\ count = 1 /\ OneWord(user) =>
    /\ frame.display = user
    /\ frame.op = "message" /\ OneWord(current_channel) =>
         frame.channel = current_channel /\ frame.rest = entered
    /\ frame.op \in {"create", "leave"} => frame.channel = <<entered[2]>>
    /\ frame.op = "join" => frame.channel = From(entered, 2)

\* The current channel is one the server has the user in, until the user logs
\* out (618-620, 677-680, 719-722).
InChannel ==
  OneWord(user) /\ ~again /\ current_channel # NoChannel => current_channel \in joined

\* Of what the user may enter, only a line of spaces and a join without a name
\* end the program, unless a name is empty: every other line finds its fields.
\* But when the array of messages is full, an accepted join ends it as well: the
\* space copied behind the last message is the next handler's line (677-680).
EndsOnlyBy ==
  ~up =>
    \/ entered = <<>> \/ entered = <<"/join">>
    \/ user = <<>> \/ current_channel = <<>>
    \/ full /\ entered[1] = "/join" /\ current_channel = From(entered, 2)
=============================================================================
