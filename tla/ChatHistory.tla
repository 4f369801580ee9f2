---------------------------- MODULE ChatHistory ----------------------------
(***************************************************************************)
(* The array messages and num_messages of ChatState (UI/chat_ui.c), which  *)
(* the message threads and the main thread write without a lock.  Every    *)
(* access of a message thread is a step: the three copies, the reading and *)
(* the writing of num_messages++, and the mark in the element after.  The  *)
(* main thread copies the text of a response to the element num_messages,  *)
(* the one a message thread may be filling.                                *)
(*                                                                         *)
(* Messages are numbered in the order the threads take them up.  Nothing   *)
(* compares num_messages with MAX_MESSAGES.  The text of message number    *)
(* MAX_MESSAGES + 1 goes to what is behind the array, the input line (see  *)
(* ChatScreen); the model ends with it, as later ones leave ChatState.     *)
(***************************************************************************)
EXTENDS Integers

CONSTANTS
  MsgThreads,    \* message threads
  MAX_MESSAGES,  \* elements of messages
  Response       \* the text of a response

ASSUME HistoryAssumption == MAX_MESSAGES \in Nat \ {0} /\ Response \notin Nat

VARIABLES
  messages,      \* the elements, with what each of their fields is copied from
  num_messages,
  pc,            \* where each message thread is
  message,       \* the message it adds
  number,        \* num_messages as its increment has read it
  taken,         \* messages taken up
  added,         \* messages whose thread has incremented num_messages
  crowded,       \* two message threads have been adding at once
  answered       \* a response was copied while a thread was adding

historyVars == <<messages, num_messages, pc, message, number, taken, added, crowded, answered>>

Elements == 0..(MAX_MESSAGES - 1)

\* Messages up to the first that does not fit.
Count == 0..(MAX_MESSAGES + 1)

\* 0: not written yet.
Element == [text : Nat \cup {Response}, username : Nat, timestamp : Nat]

Places == {"off", "wait", "text", "username", "timestamp", "load", "store", "mark"}

HistoryTypeOK ==
  /\ messages \in [Elements -> Element]
  /\ num_messages \in Count
  /\ pc \in [MsgThreads -> Places]
  /\ message \in [MsgThreads -> Count]
  /\ number \in [MsgThreads -> Count]
  /\ taken \in Count
  /\ added \in Count
  /\ crowded \in BOOLEAN
  /\ answered \in BOOLEAN

HistoryInit ==
  /\ messages = [n \in Elements |-> [text |-> 0, username |-> 0, timestamp |-> 0]]
  /\ num_messages = 0
  /\ pc = [t \in MsgThreads |-> "off"]
  /\ message = [t \in MsgThreads |-> 0]
  /\ number = [t \in MsgThreads |-> 0]
  /\ taken = 0
  /\ added = 0
  /\ crowded = FALSE
  /\ answered = FALSE

-----------------------------------------------------------------------------
\* From the first copy to the increment.
Adding == {t \in MsgThreads : pc[t] \in {"text", "username", "timestamp", "load", "store"}}

Moves(t, from, to) == pc[t] = from /\ pc' = [pc EXCEPT ![t] = to]

\* run creates a thread.
StartThread(t) ==
  /\ Moves(t, "off", "wait")
  /\ UNCHANGED <<messages, num_messages, message, number, taken, added, crowded, answered>>

\* A thread has read a name, a text and a time stamp, and a channel is joined.
Take(t) ==
  /\ Moves(t, "wait", "text")
  /\ taken <= MAX_MESSAGES
  /\ taken' = taken + 1
  /\ message' = [message EXCEPT ![t] = taken + 1]
  /\ crowded' = (crowded \/ Adding # {})
  /\ UNCHANGED <<messages, num_messages, number, added, answered>>

Copied == UNCHANGED <<num_messages, message, number, taken, added, crowded, answered>>

\* Every copy looks up num_messages again; behind the array there is nothing
\* of the history.
CopyText(t) ==
  /\ Moves(t, "text", "username")
  /\ messages' = IF num_messages \in Elements
                 THEN [messages EXCEPT ![num_messages].text = message[t]] ELSE messages
  /\ Copied

CopyUsername(t) ==
  /\ Moves(t, "username", "timestamp")
  /\ messages' = IF num_messages \in Elements
                 THEN [messages EXCEPT ![num_messages].username = message[t]] ELSE messages
  /\ Copied

\* Mutant of CopyTimestamp: the time stamp goes to the element after.
CopyTimestampAfter(t) ==
  /\ Moves(t, "timestamp", "load")
  /\ messages' = IF num_messages + 1 \in Elements
                 THEN [messages EXCEPT ![num_messages + 1].timestamp = message[t]] ELSE messages
  /\ Copied

CopyTimestamp(t) ==
  /\ Moves(t, "timestamp", "load")
  /\ messages' = IF num_messages \in Elements
                 THEN [messages EXCEPT ![num_messages].timestamp = message[t]] ELSE messages
  /\ Copied

Load(t) ==
  /\ Moves(t, "load", "store")
  /\ number' = [number EXCEPT ![t] = num_messages]
  /\ UNCHANGED <<messages, num_messages, message, taken, added, crowded, answered>>

\* Mutant of Store: the thread takes num_messages to be what it was before.
StoreTwice(t) ==
  /\ Moves(t, "store", "mark")
  /\ num_messages' = num_messages + number[t] + 1
  /\ added' = added + 1
  /\ UNCHANGED <<messages, message, number, taken, crowded, answered>>

Store(t) ==
  /\ Moves(t, "store", "mark")
  /\ num_messages' = number[t] + 1
  /\ added' = added + 1
  /\ UNCHANGED <<messages, message, number, taken, crowded, answered>>

\* messages[num_messages].sender = 1, which nothing reads.  After the last element
\* that is behind ChatState, in memory of the heap that is not modelled; a write
\* there that ends the program ends the behaviour, as every step may.
Mark(t) ==
  /\ Moves(t, "mark", "wait")
  /\ UNCHANGED <<messages, num_messages, message, number, taken, added, crowded, answered>>

\* The steps that stay inside the array.
ThreadStep(t) ==
  Take(t) \/ CopyUsername(t) \/ CopyTimestamp(t) \/ Load(t) \/ Store(t) \/ Mark(t)

\* A command handler of the main thread: "Created Channel", "Leaved Channel",
\* a space, or what the server has refused.
Respond ==
  /\ num_messages <= MAX_MESSAGES
  /\ messages' = IF num_messages \in Elements
                 THEN [messages EXCEPT ![num_messages].text = Response] ELSE messages
  /\ answered' = (answered \/ Adding # {})
  /\ UNCHANGED <<num_messages, pc, message, number, taken, added, crowded>>

-----------------------------------------------------------------------------
\* What print_messages prints of the array.
History == [n \in {k \in 1..num_messages : k <= MAX_MESSAGES} |-> messages[n - 1]]

Whole(n) == [text |-> n, username |-> n, timestamp |-> n]

Spoilt(n) == [Whole(n) EXCEPT !.text = Response]

\* If no two threads ever added at once, every message has its own element, in
\* order, whole; only a response that came in between can have taken the place
\* of its text (thread_message 491-521 against 613-757).
OneAtATime ==
  ~crowded =>
    /\ num_messages = added
    /\ \A n \in DOMAIN History :
         History[n] = Whole(n) \/ (answered /\ History[n] = Spoilt(n))

\* In any interleaving the history is not longer than what was added to it: an
\* increment can be lost, and take others back, but never counts twice (505).
NoMoreThanAdded == num_messages <= added
=============================================================================
