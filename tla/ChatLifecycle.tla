--------------------------- MODULE ChatLifecycle ---------------------------
(***************************************************************************)
(* Programs that start, run and end on one machine (main of UI/chat_ui.c   *)
(* and main of client/src/main.c): the pipe ends across fork and exec, the *)
(* client's greeting, and the semaphore, which has one name on the machine *)
(* and which nobody unlinks, so that programs started later or meanwhile   *)
(* use the one the first of them has created.                              *)
(*                                                                         *)
(* Of the rest of a session there are only the texts of the program's own  *)
(* response pipe, pushed ones, which are posted to the machine's           *)
(* semaphore, and responses, and who reads them.  No text is longer than a *)
(* read here; ChatSession has the ones that are.                           *)
(***************************************************************************)
EXTENDS Naturals, FiniteSets

CONSTANTS
  Programs,   \* programs on the machine; one can be started again
  MaxStarts,  \* bound: starts of a program
  MaxTexts,   \* bound: messages pushed in all, but for those being posted
  MaxThreads  \* bound: message threads of a program, one for every login

ASSUME LifecycleAssumption == MaxStarts \in Nat /\ MaxTexts \in Nat /\ MaxThreads \in Nat

VARIABLES
  ui,        \* where the UI process is
  client,    \* where the client process is
  writers,   \* the processes with the response pipe's writing end
  greeting,  \* what the client has written first
  owed,      \* commands the UI has written and the client has not answered
  texts,     \* texts in the response pipe
  woken,     \* message threads behind sem_wait
  starts,    \* starts of each program
  shared,    \* two programs have run at the same time
  created,   \* somebody has created the semaphore
  sem,       \* its value
  posts,     \* calls of sem_post on it
  waits      \* calls of sem_wait that have returned

vars == <<ui, client, writers, greeting, owed, texts, woken, starts, shared,
          created, sem, posts, waits>>

process == <<ui, client, writers, greeting, starts, shared>>
channel == <<owed, texts, woken>>
semaphore == <<created, sem, posts, waits>>

-----------------------------------------------------------------------------
\* "open": before sem_open.  "fork": before fork.  "asleep": in sleep(1).
\* "reading": blocked on the greeting.  "menu": in a menu or a chat.  "await":
\* the main thread is blocked in the read for a response.
UIPlaces == {"off", "open", "fork", "asleep", "reading", "menu", "await"}

\* "posting": handle_server has written a message and not posted it yet.
ClientPlaces == {"off", "exec", "open", "connect", "up", "posting"}

TypeOK ==
  /\ ui \in [Programs -> UIPlaces]
  /\ client \in [Programs -> ClientPlaces]
  /\ writers \in [Programs -> SUBSET {"ui", "client"}]
  /\ greeting \in [Programs -> {"none", "running", "failed"}]
  /\ owed \in [Programs -> Nat]
  /\ texts \in [Programs -> Nat]
  /\ woken \in [Programs -> Nat]
  /\ starts \in [Programs -> 0..MaxStarts]
  /\ shared \in BOOLEAN
  /\ created \in BOOLEAN
  /\ sem \in Nat /\ posts \in Nat /\ waits \in Nat

Init ==
  /\ ui = [p \in Programs |-> "off"]
  /\ client = [p \in Programs |-> "off"]
  /\ writers = [p \in Programs |-> {}]
  /\ greeting = [p \in Programs |-> "none"]
  /\ owed = [p \in Programs |-> 0]
  /\ texts = [p \in Programs |-> 0]
  /\ woken = [p \in Programs |-> 0]
  /\ starts = [p \in Programs |-> 0]
  /\ shared = FALSE
  /\ created = FALSE
  /\ sem = 0 /\ posts = 0 /\ waits = 0

-----------------------------------------------------------------------------
UIMoves(p, from, to) == ui[p] = from /\ ui' = [ui EXCEPT ![p] = to]

ClientMoves(p, from, to) == client[p] = from /\ client' = [client EXCEPT ![p] = to]

\* One of the program's two processes is there.
Runs(p) == ui[p] # "off" \/ client[p] # "off"

\* The user starts the program; the pipes are created, empty.
Start(p) ==
  /\ UIMoves(p, "off", "open")
  /\ client[p] = "off"
  /\ starts[p] < MaxStarts
  /\ starts' = [starts EXCEPT ![p] = @ + 1]
  /\ shared' = (shared \/ \E q \in Programs : Runs(q))
  /\ writers' = [writers EXCEPT ![p] = {"ui"}]
  /\ greeting' = [greeting EXCEPT ![p] = "none"]
  /\ owed' = [owed EXCEPT ![p] = 0]
  /\ texts' = [texts EXCEPT ![p] = 0]
  /\ UNCHANGED <<client, woken, semaphore>>

\* sem_open with O_CREAT: the value is for a semaphore that does not exist.
SemOpen(value) ==
  /\ created' = TRUE
  /\ sem' = IF created THEN sem ELSE value
  /\ UNCHANGED <<posts, waits>>

\* Mutant of UIOpen: the child is left to open the semaphore.
UIOpenNot(p) ==
  /\ UIMoves(p, "open", "fork")
  /\ UNCHANGED <<client, writers, greeting, starts, shared, channel, semaphore>>

UIOpen(p) ==
  /\ UIMoves(p, "open", "fork")
  /\ SemOpen(0)
  /\ UNCHANGED <<client, writers, greeting, starts, shared, channel>>

Fork(p) ==
  /\ UIMoves(p, "fork", "asleep")
  /\ ClientMoves(p, "off", "exec")
  /\ writers' = [writers EXCEPT ![p] = {"ui", "client"}]
  /\ UNCHANGED <<greeting, starts, shared, channel, semaphore>>

\* Mutant of CloseEnds: the UI keeps the end that is the client's.
CloseEndsNot(p) ==
  /\ UIMoves(p, "asleep", "reading")
  /\ UNCHANGED <<client, writers, greeting, starts, shared, channel, semaphore>>

\* After its sleep the UI closes the ends that are the client's.
CloseEnds(p) ==
  /\ UIMoves(p, "asleep", "reading")
  /\ writers' = [writers EXCEPT ![p] = @ \ {"ui"}]
  /\ UNCHANGED <<client, greeting, starts, shared, channel, semaphore>>

\* The read returns the greeting, or nothing when nobody can write any more.
\* Nothing ends the string in input_str: bytes of an earlier use of the stack
\* may follow the greeting, which then is not the one that is expected.
ReadGreeting(p) ==
  /\ greeting[p] # "none" \/ writers[p] = {}
  /\ \/ greeting[p] = "running" /\ UIMoves(p, "reading", "menu")
     \/ UIMoves(p, "reading", "off")
  /\ UNCHANGED <<client, writers, greeting, starts, shared, channel, semaphore>>

\* The client is not found, and main's end is reached, or it is executed.
Exec(p) ==
  /\ \/ /\ ClientMoves(p, "exec", "open")
        /\ UNCHANGED writers
     \/ /\ ClientMoves(p, "exec", "off")
        /\ writers' = [writers EXCEPT ![p] = @ \ {"client"}]
  /\ UNCHANGED <<ui, greeting, starts, shared, channel, semaphore>>

ClientOpen(p) ==
  /\ ClientMoves(p, "open", "connect")
  /\ SemOpen(1)
  /\ UNCHANGED <<ui, writers, greeting, starts, shared, channel>>

\* The greeting says whether the connection was made; without it the client
\* ends.
Connect(p) ==
  /\ \/ /\ ClientMoves(p, "connect", "up")
        /\ greeting' = [greeting EXCEPT ![p] = "running"]
        /\ UNCHANGED writers
     \/ /\ ClientMoves(p, "connect", "off")
        /\ greeting' = [greeting EXCEPT ![p] = "failed"]
        /\ writers' = [writers EXCEPT ![p] = @ \ {"client"}]
  /\ UNCHANGED <<ui, starts, shared, channel, semaphore>>

-----------------------------------------------------------------------------
\* handle_create_message_response of a message for a user who is logged in:
\* first the text is written,
Write(p) ==
  /\ ui[p] \in {"menu", "await"}
  /\ posts < MaxTexts
  /\ ClientMoves(p, "up", "posting")
  /\ texts' = [texts EXCEPT ![p] = @ + 1]
  /\ UNCHANGED <<ui, writers, greeting, starts, shared, owed, woken, semaphore>>

\* Mutant of Post: the semaphore is not posted.
PostForgotten(p) ==
  /\ ClientMoves(p, "posting", "up")
  /\ UNCHANGED <<ui, writers, greeting, starts, shared, channel, semaphore>>

\* then the semaphore is posted.
Post(p) ==
  /\ ClientMoves(p, "posting", "up")
  /\ sem' = sem + 1 /\ posts' = posts + 1
  /\ UNCHANGED <<ui, writers, greeting, starts, shared, channel, created, waits>>

\* The main thread writes a command and reads; a write to a client that is gone
\* ends the UI.
Ask(p) ==
  \/ /\ client[p] # "off"
     /\ UIMoves(p, "menu", "await")
     /\ owed' = [owed EXCEPT ![p] = @ + 1]
     /\ UNCHANGED <<client, writers, greeting, starts, shared, texts, woken, semaphore>>
  \/ /\ client[p] = "off"
     /\ UIMoves(p, "menu", "off")
     /\ woken' = [woken EXCEPT ![p] = 0]
     /\ UNCHANGED <<client, writers, greeting, starts, shared, owed, texts, semaphore>>

\* handle_ui takes what the command pipe holds, one command or several in one
\* read, and at most one answer of the server comes of it (ChatClient has how
\* commands are lost).
Relay(p) ==
  /\ client[p] \in {"up", "posting"} /\ ui[p] \in {"menu", "await"}
  /\ \E n \in 1..owed[p] : owed' = [owed EXCEPT ![p] = @ - n]
  /\ \/ client[p] = "up" /\ texts' = [texts EXCEPT ![p] = @ + 1]
     \/ UNCHANGED texts
  /\ UNCHANGED <<process, woken, semaphore>>

\* A read takes one text or several; at the end of file, none.
Taken(p) ==
  \/ \E n \in 1..texts[p] : texts' = [texts EXCEPT ![p] = @ - n]
  \/ texts[p] = 0 /\ writers[p] = {} /\ UNCHANGED texts

\* The main thread's read for a response takes whatever the pipe holds; at the
\* end of file the UI ends (strcmp of a NULL token).
MainRead(p) ==
  /\ Taken(p)
  /\ \/ texts[p] > 0 /\ UIMoves(p, "await", "menu") /\ UNCHANGED woken
     \/ texts[p] = 0 /\ UIMoves(p, "await", "off") /\ woken' = [woken EXCEPT ![p] = 0]
  /\ UNCHANGED <<client, writers, greeting, starts, shared, owed, semaphore>>

\* Mutant of Wake: the thread does not wait.
WakeAtOnce(p) ==
  /\ ui[p] \in {"menu", "await"}
  /\ woken[p] < MaxThreads
  /\ sem' = sem - 1 /\ waits' = waits + 1
  /\ woken' = [woken EXCEPT ![p] = @ + 1]
  /\ UNCHANGED <<process, owed, texts, created, posts>>

\* thread_message, of a user who is logged in.
Wake(p) ==
  /\ ui[p] \in {"menu", "await"}
  /\ woken[p] < MaxThreads
  /\ sem > 0
  /\ sem' = sem - 1 /\ waits' = waits + 1
  /\ woken' = [woken EXCEPT ![p] = @ + 1]
  /\ UNCHANGED <<process, owed, texts, created, posts>>

Take(p) ==
  /\ ui[p] \in {"menu", "await"}
  /\ woken[p] > 0
  /\ Taken(p)
  /\ woken' = [woken EXCEPT ![p] = @ - 1]
  /\ UNCHANGED <<process, owed, semaphore>>

\* The user ends the UI with a signal.  The semaphore stays.
End(p) ==
  /\ ui[p] \in {"menu", "await"}
  /\ ui' = [ui EXCEPT ![p] = "off"]
  /\ woken' = [woken EXCEPT ![p] = 0]
  /\ UNCHANGED <<client, writers, greeting, starts, shared, owed, texts, semaphore>>

\* The client ends, between the write and the post too: end of file on its
\* standard input, a write nobody reads, a line without words (handle_ui.c 31),
\* a failed read of the connection.
ClientEnd(p) ==
  /\ client[p] \in {"up", "posting"}
  /\ client' = [client EXCEPT ![p] = "off"]
  /\ writers' = [writers EXCEPT ![p] = @ \ {"client"}]
  /\ UNCHANGED <<ui, greeting, starts, shared, channel, semaphore>>

\* What the program does by itself when it starts.
Progress(p) ==
  \/ UIOpen(p) \/ Fork(p) \/ CloseEnds(p) \/ ReadGreeting(p)
  \/ Exec(p) \/ ClientOpen(p) \/ Connect(p)

\* The texts of a session, and the ends of its processes.
Session(p) ==
  \/ Write(p) \/ Post(p) \/ Ask(p) \/ Relay(p) \/ MainRead(p) \/ Wake(p) \/ Take(p)
  \/ End(p) \/ ClientEnd(p)

Next == \E p \in Programs : Start(p) \/ Progress(p) \/ Session(p)

Spec == Init /\ [][Next]_vars

\* Both processes are scheduled, and connect returns.
FairSpec ==
  /\ Spec
  /\ \A p \in Programs :
       /\ WF_vars(UIOpen(p) \/ Fork(p) \/ CloseEnds(p) \/ ReadGreeting(p))
       /\ WF_vars(Exec(p) \/ ClientOpen(p) \/ Connect(p))

-----------------------------------------------------------------------------
\* The semaphore counts the posts that nobody has waited for, from the first
\* program on: of the two initial values in the code the client's, one, never
\* takes effect (chat_ui.c 118, main.c 60).
Counts == sem + waits = posts

\* Those who read the response pipe, or will: a message thread for every count of
\* the semaphore and for the post to come, the threads that have been woken, and
\* the main thread if it waits for a response.
Readers(p) ==
  sem + woken[p] + (IF client[p] = "posting" THEN 1 ELSE 0) + (IF ui[p] = "await" THEN 1 ELSE 0)

\* As long as no two programs run at once, no text stays in the response pipe
\* unread for want of a reader: it has one, and so has the answer to every
\* command, whoever takes which, after any number of restarts with what earlier
\* sessions have left in the semaphore (the reads in chat_ui.c and the write and
\* post in handle_server.c 262-265).
TextsAwaited ==
  ~shared =>
    \A p \in Programs :
      ui[p] \in {"menu", "await"} /\ client[p] # "off" => texts[p] + owed[p] <= Readers(p)

\* Whoever starts the program gets a menu or an end, whether or not the client
\* can be executed and connects (chat_ui.c 147-175, main.c 82-102).
StartsOrEnds ==
  \A p \in Programs : ui[p] = "open" ~> ui[p] \in {"menu", "off"}
=============================================================================
