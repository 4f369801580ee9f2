----------------------------- MODULE ChatScreen -----------------------------
(***************************************************************************)
(* The chat window (UI/chat_ui.c): run and its keys, the scrolling of the  *)
(* history and the editing of the input line, while the message threads of *)
(* ChatHistory add to the history.                                         *)
(*                                                                         *)
(* Texts are reduced to their lengths here.  The array messages is         *)
(* followed by input_buffer in ChatState, so what is copied to the element *)
(* MAX_MESSAGES becomes the input line.                                    *)
(***************************************************************************)
EXTENDS ChatHistory

CONSTANTS
  MAX_MESSAGE_LENGTH,  \* size of input_buffer
  Windows,             \* heights of the terminal
  TextLengths          \* lengths of the texts of messages and responses

ASSUME ScreenAssumption ==
  /\ MAX_MESSAGE_LENGTH \in Nat \ {0}
  /\ Windows \subseteq Nat /\ Windows # {}
  /\ TextLengths \subseteq 0..(MAX_MESSAGE_LENGTH - 1)

VARIABLES
  place,            \* of the main thread: "menu", run's "loop", "key" or "handlers"
  window,           \* the height of stdscr
  ignored,          \* SIGWINCH is ignored
  max_row,          \* the height the program last asked for
  scroll_offset,
  input_length,     \* characters typed
  used              \* strlen(input_buffer)

screenVars == <<place, window, ignored, max_row, scroll_offset, input_length, used>>

vars == <<historyVars, screenVars>>

-----------------------------------------------------------------------------
\* Rows that print_messages has for messages.
RowCount == max_row - 4

TypeOK ==
  /\ HistoryTypeOK
  /\ place \in {"menu", "loop", "key", "handlers"}
  /\ window \in Windows /\ max_row \in Windows
  /\ ignored \in BOOLEAN
  /\ scroll_offset \in Nat
  /\ input_length \in 0..(MAX_MESSAGE_LENGTH - 1)
  /\ used \in 0..(MAX_MESSAGE_LENGTH - 1)

\* values_init; input_buffer is as malloc gives it, which for the first
\* allocation of a process is zero.
Init ==
  /\ HistoryInit
  /\ place = "menu"
  /\ window \in Windows
  /\ ignored = FALSE
  /\ max_row = window
  /\ scroll_offset = 0
  /\ input_length = 0
  /\ used = 0

\* ncurses follows the terminal until run has SIGWINCH ignored.
Resize ==
  /\ place = "menu"
  /\ ~ignored
  /\ window' \in Windows
  /\ UNCHANGED <<historyVars, place, ignored, max_row, scroll_offset, input_length, used>>

\* An accepted login calls run, which creates a message thread; the line and
\* the scrolling are as they were.
Login ==
  /\ place = "menu"
  /\ place' = "loop"
  /\ ignored' = TRUE
  /\ \E t \in MsgThreads : StartThread(t)
  /\ UNCHANGED <<window, max_row, scroll_offset, input_length, used>>

\* A login refused after a logout: the line is cleared and the chat goes on.
Refused ==
  /\ place = "menu" /\ ignored
  /\ place' = "loop"
  /\ input_length' = 0 /\ used' = 0
  /\ UNCHANGED <<historyVars, window, ignored, max_row, scroll_offset>>

\* resize_handler begins every round of the loop.
ResizeHandler ==
  /\ place = "loop"
  /\ place' = "key"
  /\ max_row' = window
  /\ UNCHANGED <<historyVars, window, ignored, scroll_offset, input_length, used>>

-----------------------------------------------------------------------------
(* get_user_input: one key, or ENTER and the handlers of the line.         *)

Key ==
  /\ place = "key"
  /\ place' = "loop"
  /\ UNCHANGED <<historyVars, window, ignored, max_row>>

Enter ==
  /\ place = "key"
  /\ used > 0
  /\ place' = "handlers"
  /\ UNCHANGED <<historyVars, window, ignored, max_row, scroll_offset, input_length, used>>

EnterNothing ==
  /\ Key
  /\ used = 0
  /\ input_length' = 0 /\ used' = 0
  /\ UNCHANGED scroll_offset

\* What is copied to the element behind the array is the input line.
Overwrites(n) == used' = IF num_messages = MAX_MESSAGES THEN n ELSE used

\* A handler has a response.
Answer(n) ==
  /\ place = "handlers"
  /\ Respond
  /\ Overwrites(n)
  /\ UNCHANGED <<place, window, ignored, max_row, scroll_offset, input_length>>

Logout ==
  /\ place = "handlers"
  /\ place' = "menu"
  /\ UNCHANGED <<historyVars, window, ignored, max_row, scroll_offset, input_length, used>>

\* The line is cleared behind the handlers.
Clear ==
  /\ place = "handlers"
  /\ place' = "loop"
  /\ input_length' = 0 /\ used' = 0
  /\ UNCHANGED <<historyVars, window, ignored, max_row, scroll_offset>>

Smaller(a, b) == IF a < b THEN a ELSE b

\* The last character typed becomes the end of the line.
Backspace ==
  /\ Key
  /\ input_length > 0
  /\ input_length' = input_length - 1
  /\ used' = Smaller(used, input_length - 1)
  /\ UNCHANGED scroll_offset

\* Mutant of KeyDown: the rows that are not for messages are forgotten.
KeyDownAllRows ==
  /\ Key
  /\ scroll_offset < num_messages
  /\ scroll_offset' = scroll_offset + 1
  /\ UNCHANGED <<input_length, used>>

KeyDown ==
  /\ Key
  /\ scroll_offset < num_messages - max_row + 4
  /\ scroll_offset' = scroll_offset + 1
  /\ UNCHANGED <<input_length, used>>

\* Mutant of Character: the size of the buffer is the limit.
CharacterNoTerminator ==
  /\ Key
  /\ input_length < MAX_MESSAGE_LENGTH
  /\ input_length' = input_length + 1
  /\ used' = input_length + 1
  /\ UNCHANGED scroll_offset

\* A character is appended to the line.  Over the text of a message it replaces
\* a character, uncovers what is left behind it, or has no effect after its end.
Character ==
  /\ Key
  /\ input_length < MAX_MESSAGE_LENGTH - 1
  /\ input_length' = input_length + 1
  /\ \/ used # input_length /\ used' = used
     \/ used = input_length /\ used' = used + 1
     \/ used = input_length /\ added >= MAX_MESSAGES
        /\ used' \in (used + 1)..(MAX_MESSAGE_LENGTH - 1)
  /\ UNCHANGED scroll_offset

\* Any other key; a key that finds its condition false.
OtherKey ==
  /\ Key
  /\ UNCHANGED <<scroll_offset, input_length, used>>

MainThread ==
  \/ Resize \/ Login \/ Refused \/ ResizeHandler
  \/ Enter \/ EnterNothing \/ Logout \/ Clear
  \/ Backspace \/ KeyDown \/ Character \/ OtherKey
  \/ \E n \in TextLengths : Answer(n)

-----------------------------------------------------------------------------
(* The message threads.                                                    *)

\* Mutant of CopyLine: the text goes to the element after the last one.
CopyLineAfter(t, n) ==
  /\ CopyText(t)
  /\ used' = IF num_messages + 1 = MAX_MESSAGES THEN n ELSE used
  /\ UNCHANGED <<place, window, ignored, max_row, scroll_offset, input_length>>

CopyLine(t, n) ==
  /\ CopyText(t)
  /\ Overwrites(n)
  /\ UNCHANGED <<place, window, ignored, max_row, scroll_offset, input_length>>

MessageThread(t) ==
  \/ ThreadStep(t) /\ UNCHANGED screenVars
  \/ \E n \in TextLengths : CopyLine(t, n)

Next == MainThread \/ \E t \in MsgThreads : MessageThread(t)

Spec == Init /\ [][Next]_vars

-----------------------------------------------------------------------------
\* Scrolling leaves no empty row below the newest message: what the bound of
\* KEY_DOWN (572) gives holds in later rounds and logins, in any window, unless
\* two threads have added at once and taken back each other's increments (505).
NoEmptyRows ==
  ~crowded /\ scroll_offset > 0 => scroll_offset + RowCount <= num_messages

\* The input line ends where the next character goes, whatever the threads do,
\* as long as fewer messages than the array has elements were added (494, 561-581).
LineEnds == added < MAX_MESSAGES => used = input_length
=============================================================================
