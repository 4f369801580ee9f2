# Verification of the chat client

TLA+ models of the chat client in this repository (`UI/chat_ui.c` and
`client/src`), the TLC configurations that check them on small instances, and
theorems about them that TLAPS proves for every value of the constants.

## 1. The system

The program is two processes and a server that is not in the repository.

    user -- UI main thread --(command pipe)--> handle_ui ----(TCP)---> server
                 ^                                                       |
                 |---(response pipe)---- handle_server <----(TCP)--------|
                 v                            |
        UI message threads <---(semaphore)----+

| component | source | state it keeps | operations |
|---|---|---|---|
| UI main thread | `UI/chat_ui.c` 228-459, 532-761 | where it is in menus and chat, `current_channel`, the input line | sign up, log in, `/create`, `/join`, `/leave`, `/logout`, a message; each writes one command and blocks in one `read` for the response |
| UI message threads | `UI/chat_ui.c` 476-525 | a read buffer each; the shared `messages`, `num_messages` | `sem_wait`, `read` of the same response pipe, `strtok`, add to the history; one thread is started by every `run`, that is by every successful login, and none ends |
| UI screen | `UI/chat_ui.c` 184-250, 462-475, 527-581 | `max_row`, `scroll_offset`, `input_buffer`, `input_length` | keys, scrolling, editing, window sizes |
| client thread `handle_ui` | `main.c` 113-143, `handle_ui.c` | the command it works on | read a command, find type and object, take its fields, send a frame |
| client thread `handle_server` | `main.c` 144-188, `handle_server.c` | the frame it works on | receive a frame; a response becomes a text for the UI; a pushed message becomes a text, a semaphore post and an acknowledgement |
| binary header | `protocol_util.c`, `protocol_util.h` | none | pack and unpack version, type, object, body size |
| pipes and semaphore | `chat_ui.c` 90-177, `main.c` 30-111 | texts in the pipes, the value of `/user_messages_sem`, who holds which end | created by the UI before the fork; the semaphore outlives the program |
| chat server | external | which channels a user is in | answers frames, pushes messages |
| build files | `CMakeLists.txt`, `build.sh` | none | not modelled |

### What is hard about it

* The response pipe carries responses and pushed messages, and has several
  readers. A text carries nothing that says for whom it is, and a `read` takes
  whatever is there, up to `RESPONSE_BUFFER` (100) bytes.
* `strtok` keeps its position in a static variable. Two threads of each process
  use it.
* `messages` and `num_messages` are written by all message threads and by the
  main thread without a lock, and nothing compares `num_messages` with
  `MAX_MESSAGES`. Behind the array lies the input line.
* The menus, `run` and `handle_logout` call each other and themselves, and what
  called them goes on when they return.
* Five handlers look at one line, and what one changes is what the next sees.
* The semaphore has one name on the machine and nothing unlinks it, so that the
  next session, and another program, find what is left.
* Commands have no terminator; frames are cut out of a byte stream by hand.
* Each process can end while the other one waits: end of file on a pipe makes
  `strtok` return NULL, and a write to a pipe without reader raises SIGPIPE.

`PROJECT.json` lists every hazard with its line, and the properties that would
catch it going wrong, or why none does.

### What makes each component correct

* main thread: it reads its own response, whole, and nothing else; every command
  is answered; `current_channel` is one the server has the user in; the chat is the
  logged-in user's; a line is one command, and its frame says what the user typed.
* message threads: the history holds the pushed messages, whole, once, in order.
* screen: scrolling and editing keep to their limits while messages come in.
* client threads: fields are those of the command or frame at hand; a push is
  acknowledged.
* header and framing: what is packed is unpacked; frames are taken out of the
  stream as they were sent.
* pipes and semaphore: no text is left without a reader; who starts the program
  gets a menu or an end; when one process ends the other follows.

## 2. The modules

The session and what it promises:

| module | models | state |
|---|---|---|
| `ChatWire` | what processes share: both pipes, the semaphore, both directions of the connection, which process runs; texts as cells, what one `read` returns | `cmdPipe`, `pipe`, `sem`, `toServer`, `toClient`, `uiUp`, `clientUp` |
| `ChatUI` | main thread and message threads of the UI | `main`, `req`, `nreq`, `cur`, `mpc`, `mchunk`, `uiTok`, `history` |
| `ChatClient` | `handle_ui` and `handle_server` | `upc`, `ureq`, `spc`, `sframe`, `cliTok` |
| `ChatServer` | the server, external | `online`, `members`, `forgot`, `pushes`, `acked` |
| `ChatSession` | all of them interleaved, the properties, the inductive invariant, fairness | `serial`, `fits` (history variables) |
| `ChatPromise` | abstract: what the program promises its user, with no pipe, thread, frame or semaphore | `phase`, `wish`, `here`, `there`, `news`, `due`, `told`, `shown` |
| `ChatRefinement` | the mapping of `ChatSession` to `ChatPromise`; `KeepsPromise` | |

Parts of the program that a session takes as one step, taken apart:

| module | models | state |
|---|---|---|
| `MenuStack` | which menus and chats the main thread is in, as a stack of calls | `stack`, `isLogin`, `line`, `sent`, `online`, `up` |
| `ChatCommands` | the words of a line, the five handlers, the fields `strtok` finds | `current_channel`, `entered`, `line`, `at`, `frame`, `joined`, ... |
| `ChatHistory` | `messages` and `num_messages` with every access a step | `messages`, `num_messages`, `pc`, `number`, ... |
| `ChatScreen` | extends `ChatHistory` by `run`, its keys, scrolling, the input line behind the array | `place`, `max_row`, `scroll_offset`, `input_length`, `used`, ... |
| `WireHeader` | `serialize_header`, `deserialize_header` as operators | |
| `ChatFraming` | extends `WireHeader` by the byte stream, `dc_read_fully`, pings, the end of the connection | `sent`, `ends`, `wire`, `cut`, `read`, `at`, `buf`, `header`, `handled`, ... |
| `ChatLifecycle` | programs on one machine: fork, exec, pipe ends, greeting, the semaphore and who reads the response pipe, over sessions | `ui`, `client`, `writers`, `owed`, `texts`, `woken`, `sem`, `created`, ... |

`MC...` modules give instances for TLC, `..._proofs` modules hold the theorems.

How state and code correspond:

* `main` and `mpc`, `upc`, `spc` are program counters, cut where a thread blocks
  or where another thread can come between two calls that share state:
  `"await"` is the `read` after a write, `"create"`, `"leave"` and `"list"` lie
  between two `strtok` calls, `"finish"` is the rest of the five handlers that
  `get_user_input` (553-557) calls for the same line.
* `uiTok` and `cliTok` stand for the static position of `strtok`: whose text it
  points into, or `"spoilt"`. A thread that calls `strtok(NULL, ...)` and is not
  the owner gets another text's tokens, or none, and moves the position.
* `pipe` is a sequence of cells. A text of `size` cells stands for one of many
  bytes; `RESPONSE_BUFFER` is the number of cells a read returns, so that texts
  that fit, fit exactly, or are too long by one all occur. A pushed message has
  a cell for the name, cells for the text and one for the time stamp, with `etx`
  where a field ends, which is how `thread_message` counts its strings.
* `id` numbers commands and messages. The program has no such number; the
  properties need one.
* `history` of `ChatSession` is `messages[0..num_messages-1]`: whose message an
  element is, and whether all of it is. `ChatHistory` has the array itself, each
  field with the number of the message it was copied from; `pc` says which of
  the copies (`"text"`, `"username"`, `"timestamp"`) or which half of
  `num_messages++` (`"load"`, `"store"`) comes next.
* In `ChatScreen`, `used` is `strlen(input_buffer)` and `place` is where `run` is
  in its loop. `input_buffer` follows `messages` in `struct ChatState`, so the
  text of element `MAX_MESSAGES` is the input line.
* The head of `stack` in `MenuStack` is the innermost call. A call nothing follows
  takes its caller's place (`Becomes`); a call that is returned to is pushed
  (`Calls`), and the caller's `at` is where it goes on.
* A string of `ChatCommands` is the sequence of its words; `Finds`, `Enough` and
  `FrameOf` are the `strtok` and `strcmp` calls of the UI's handlers and of
  `handle_ui`, the last field to the end of the command or one word, as each
  command has it. What a user may type is the constant `Words`. `entered` is the line
  when ENTER is pressed, for the properties; `line` is `input_buffer`, into which
  `strcpy` behind a full array of messages writes the handlers' own texts.
* `members` of `ChatServer` and `joined` of `ChatCommands` are the channels the server
  has the user in: a create or join adds one, a leave takes the one it names, while
  the UI has one `current_channel` and resets it with any leave. At a logout the server
  may forget some, or all (`forgot`), or the next login is another user's.
* `ChatFraming` and `WireHeader` work on bytes. `wire` has all bytes the server has
  written, of which the client has read the first `read`; the connection may end after
  any of the bytes that are left, and `cut` says which. `ends` records where each
  frame ends, for the properties. `at` is which of the three
  `dc_read_fully` calls is under way, or that the client has exited after a failed read
  of a header; a header whose fields are not set
  (a ping's) has any of `LeftSizes`, a buffer that is not filled any of
  `LeftBytes`.
* In `ChatLifecycle`, `writers` are the processes that hold the writing end of the
  response pipe, which is what decides between a blocking read and an end of file.
  `owed` counts the commands nobody has answered, `texts` what is in the response
  pipe, `woken` the threads between `sem_wait` and `read`; the write of a message and
  its `sem_post` are two steps (`Write`, `Post`), and both the main thread (`MainRead`)
  and the message threads (`Take`) read the pipe.

Definitions whose name ends in a description of an error (`ReadSizeOffByOne`,
`JoinReplyNoWait`, ...) precede the definition they vary and are marked
"Mutant of": each property of the passing runs is violated when its mutant takes
the definition's place, so that no property holds by the shape of the model.

### Orderly sessions

The program works when one exchange ends before the next begins and no text is
longer than a read; nothing in it makes sure of either. Two history variables
record whether a session has kept to that: `serial` (the semaphore was zero at
the start, and each command and push began at rest, see `AtRest`) and `fits`.
`Orderly` is their conjunction. Most safety properties have two parts: what is
right in an orderly session, proved in general, and what remains right in any
session (`RecordedOnce`, `AheadBounded`, `TypeOK`). The orderly properties say
nothing of the sessions they exclude, in which the program does go wrong; the runs
that expect a violation show how. `ChatScreen` does
the same with `crowded` (two threads have added at once) and `answered` (a
response was copied meanwhile), `ChatCommands` with `full` and `again`.

### The promise

`ChatPromise` says what orderly sessions look like from outside. A command is asked,
accepted or refused by the server, and returned, one at a time. `there` are the
channels the user is in, changed with the acceptance; `here` is the one the user is
shown, or none, changed with the return: the channel that was entered, none after a
leave of any channel, and what it was after a logout. A message is sent, shown once to
a user in a channel, and the server is told, in either order, before the next command
or message. `ChatRefinement` reads these variables off the program: a command is
`"accepted"` or `"refused"` from the server's answer on, wherever the answer is on its
way back; `there` is `members`; a message is `Due` as long as it is in a socket, in a
frame, in the pipe, posted, or in a thread's buffer. Three exchanges of the program,
of pipes, `strtok`, sockets and threads, thus become one step each, and all the rest
stutters. `KeepsPromise` is checked for `OrderlySpec`, the steps of `ChatSession` that
keep a session orderly.

## 3. The runs

`CHECK_DEADLOCK FALSE` everywhere: the user may stop typing, and after the bounds
on commands and messages nothing is left to do.

| run | bounds | what it shows |
|---|---|---|
| `orderly` | 2 channels, 2 message threads, 6 commands, 3 pushes, texts of 1 to 5 cells on a buffer of 4, semaphore 0 or 1 | the orderly properties, the inductive invariant, and that the promise is kept. Six commands are sign up, log in, join, leave, log out and log in again, with a second thread waiting |
| `anyorder` | 1 channel, 1 thread, 3 commands, 2 pushes, texts of 3 cells on a buffer of 3, semaphore 0 or 1 | any interleaving: types, `RecordedOnce`, `AheadBounded`. Each text fits, but texts that come together are read together and cut. Three commands are log in, join and one more with a push on its way; two pushes are one lost and one recorded in its stead |
| `liveness` | 1 channel, 1 thread, 3 commands, 1 push, lists of 1 or 4 cells on a buffer of 3 | `ResponseComes`, `PushHandled`, `ClientFollows`; and `TakesTurns`, that it takes a push or a cut text to make exchanges overlap |
| `menus` | 5 calls, 4 commands | a sign-up, its refusal, a login, a logout and the next login fit; every field empty, blank or given |
| `screen` | 2 threads, an array of 2 messages, lines of 2 characters, windows of 4 and 5 rows (0 and 1 for messages), up to the message that does not fit. The threads are symmetric | in which interleavings the history is right, and whether scrolling and editing keep their limits |
| `framing` | 3 frames of bodies of 0 or 2 bytes, pings, 3 frames handled, the end of the connection after any byte | the frames that come whole come out as they were sent, in any pieces, up to a ping, and all are handled |
| `commands` | lines of up to 3 words, display names of 0, 1, 2 words, 3 channels | one command per line, the right fields, a channel the server has the user in, and which entered lines end the program, with a full array too |
| `lifecycle` | 2 programs, 2 starts each, 2 messages, 1 message thread each | the semaphore over sessions, that no text waits for a reader that is not there, and that every start comes to a menu or an end |
| `message_displayed`, `fields_sent`, `ui_follows`, `refused_login` | small | what a comment or document says and the program does not do |

The bodies of `framing` are bytes whose upper or lower half has the type of a
create or a ping when it is taken for a header, so that a stream out of step
shows. Two message threads suffice for `screen`: what goes wrong with an
unlocked `num_messages++` goes wrong between two; an array of two makes "the last
that fits" and "the first that does not" both happen after an ordinary one. In
`lifecycle` two messages are enough for one that the main thread reads and one more
that wakes a thread for it, before or after a restart, and for a count that is left
over.

Distinct states: `orderly` 592,769, `anyorder` 2,386,874, `commands` 2,790,070,
`framing` 362,313, `lifecycle` 343,863; the other runs are smaller.

**Fairness.** In `liveness` and `ui_follows` (`FairSpec` of `ChatSession`): weak
fairness of the main thread's own steps, of each message thread, of each client thread
and of the server's answers. Each is a thread the kernel schedules, blocked only in
calls that return when there is something to return. In `framing`: of the receiving
thread; `dc_read_fully` returns when bytes have come. In `lifecycle`: of both
processes of a program while it starts; `sleep`, `exec` and `connect` return. The
user's typing and the server's pushes have no fairness anywhere, and no run needs
strong fairness.

### What the models say of this program

Shown by the runs that expect a violation:

* The semaphore orders nothing between main thread and message threads: a push
  that arrives while a command waits is read as its response, and the response is
  later read as a message (`message_displayed`).
* `strtok` in two threads can make the body of a frame from another's tokens
  (`fields_sent`).
* After the client ends the UI waits for its user for ever; the cleanup is
  commented out (`ui_follows`).
* After a logout and a refused login the old chat goes on (`refused_login`).

Visible in the properties that hold, as the conditions they carry:

* Fields that fail their check, and the user name `login`, are sent all the same
  once the menu they led to has been refused (`AfterRefusal`).
* A chat that begins after a logout has `/logout` in its input line (`StartLine`).
* Run loops only pile up (`BaseGrows`), with a message thread each.
* Two message threads mix the fields of two messages and lose increments; a
  response written meanwhile takes a message's text (`OneAtATime`); no increment
  ever counts twice (`NoMoreThanAdded`).
* Once the array is full the text of a message, or of a response, is the input
  line (`LineEnds`), which the handlers not yet called take for the user's
  (`OnePerLine`).
* The header of a ping leaves the stream out of step (`InStep`, `FramesKept`).
* A line of spaces or `/join` without a name ends the program, and so does, when the
  array is full, a join that is accepted: the space the handler copies behind the last
  message is the line the next handler looks at (`EndsOnlyBy`). With a display name or a
  channel of two words fields go astray (`AsAsked`).
* `current_channel` survives a logout, and a leave of any channel resets it, so that the
  user can be in channels at the server and be shown none (`InChannel`, `SameChannel`,
  `Outlook` of `ChatPromise`).
* The semaphore never has the initial value one that the client asks for (`Counts`).
  A thread can be woken for a text that the main thread has read, in the first session
  too; what holds is the other direction: as long as no two programs run at once, a text
  in the pipe has somebody who will read it (`TextsAwaited`).
* On the other hand, whatever happens, no message is recorded whole twice, the main
  thread is ahead of its responses by at most the messages that were lost, and the
  chat is always the logged-in user's.

Seen while reading and not modelled: `chat_ui.c:117` says "initial value 1" where
the call passes 0; `handle_server.c:241` and 264 speak of a wait where there is
only a post; the text of a response is written behind the last message and never
printed; the row of "Available Channels" hides the newest message's.

## 4. What is proved

All theorems hold for every value of the constants that satisfies the assumptions
of the modules (buffers and texts are not empty, names of channels are not `N/A`,
bounds are natural numbers, and the like; `RefinementAssumption`: no channel is
called `same`, the promise's word for a command that asks for none).

| theorem | statement |
|---|---|
| `TypeCorrect` | `Spec => []TypeOK` of `ChatSession` |
| `OrderlyInvariant` | `Spec => []OrderlyShape` |
| `OwnResponseAlways`, `OneTokenizerAlways`, `NothingLostAlways`, `SameChannelAlways`, `HistoryInOrderAlways`, `NoDamageAlways` | the orderly properties, each from `OrderlyShape` and `TypeOK` |
| `TakesTurnsAlways` | `Spec => []TakesTurns`, inductive relative to `OrderlyShape` |
| `PromiseKept` | `OrderlySpec => KeepsPromise`: orderly sessions implement `ChatPromise` |
| `RecordedOnceAlways`, `AheadBoundedAlways` | what holds in every session of `ChatSession`, orderly or not |
| `MenuTypeCorrect`, `SignupFirstAlways`, `RightUserAlways`, `AfterRefusalAlways`, `StartLineAlways` | the invariants of `MenuStack`, for calls of any depth |
| `BaseOnlyGrows` | `Spec => BaseGrows`, its action property |
| `ScreenTypeCorrect`, `NoMoreThanAddedAlways`, `OneAtATimeAlways`, `NoEmptyRowsAlways`, `LineEndsAlways` | of `ChatScreen`, for any number of threads |
| `LifecycleTypeCorrect`, `CountsAlways`, `TextsAwaitedAlways` | of `ChatLifecycle`, for any number of programs, sessions, texts and threads |
| `CommandsTypeCorrect`, `OneCommandPerLine`, `AsAskedAlways`, `InChannelAlways`, `EndsOnlyByAlways` | the invariants of `ChatCommands`, for any words and channels |
| `FramingTypeCorrect`, `FramesKeptAlways`, `InStepAlways` | the invariants of `ChatFraming`, for any frames, any way their bytes arrive and any end of the connection |
| `RoundTrip`, `Unambiguous`, `FrameEnds` | every header is read back as it was written, no two have the same bytes, and the size in it says where the frame ends |

The arguments:

* **Orderly sessions.** None of the properties is inductive. That the main thread
  reads its own response depends on the command, the frame or the response being
  in exactly one place, on nobody else reading the pipe, on `strtok` being where
  each thread left it, and on the length of the text. `OrderlyShape` says all of
  this at once: an orderly session is `Between` two exchanges, in an `Exchange` at
  one of six places of the ring (`Commanded`, `Forwarding`, `Asked`, `Answered`,
  `Relaying`, `Replied`), or in the `Delivery` of one message (`Sent`, `Taken`,
  `Written`, `Settling`, where the acknowledgement travels while a thread is
  `Posted`, `Woken`, `Parsing`). The run `orderly` checks it; the proof has a lemma
  per process, each by the actions of that process, which take one shape to the
  next.
* **The promise.** `OrderlyShape` says where the command and the message are, so each
  action is one step of `ChatPromise` or none: the write of a command is `Ask`, the
  server's answer `Accept` or `Refuse`, the read of the response `Return`, the push
  `Send`, the record in the history `Show`, the server's taking of the acknowledgement
  `Tell`, and everything else a stutter (`NotSeen`). The one fact the shapes do not
  have is that the server lacks exactly the acknowledgement that is still `Owed`,
  `AckInv`; it is proved along with the steps (`Kept`, one lemma per process).
* **Any session.** Two invariants that need no order of events; each says where
  things can be, which no step of one process can see alone.
  `RecordedOnce` has `Told`: the first cell of a message is in the server's frames,
  in hand, in the pipe, in one thread's buffer or in the history, and numbers grow
  from the pipe back to the server, so that a second record would need a second
  first cell.
  `AheadBounded` has `Weighed`: each command and message weighs one at each place,
  and in the response pipe one for each *last* cell of a text, however reads have cut
  the texts. While texts fit, `Ending` says that wherever a read begins, a last cell
  is within it: so each read takes weight off, the main thread's write adds one and
  takes the turn, a push adds one, and no other step adds any. What is under way or
  recorded is therefore at most the pushes and one.
* **Menus.** `Shape`: `show_menu` is at the bottom and nowhere else, every run loop
  that has called a menu is in `handle_logout`, and no sign-up is above a run loop.
  `StackSteps` says that every step replaces the head, pushes, or pops. A menu whose
  next submission is of unchecked fields (`Doubtful`) is on top only after a return,
  and a return only follows a refusal; `Awaits` makes sure that there was one.
  `ChatLine` says what the line is from the place of the innermost call and whether a
  run loop is below it (then it is in `handle_logout`, by `Shape`, and the line is its
  `/logout`). `BaseGrows` is an action property: `StackSteps` again, and that the
  innermost run loop is the least position of one (`LeastElement`).
* **Commands.** Each handler finds its command only if the first word is its own, so
  `Counted`, at most one command per handler that has had the line, becomes `Spent`: a
  line for which something was sent has a first word no later handler looks for.
  `Asked` says that while a handler waits, the frame is made of the line, the user and
  the channel as they are. `OfUser` says when `line` is still the `entered` one: until
  a handler has been answered with the array full; from then on it is the space of a
  join (`Blank`, which came of an entered join), or a text that is no command.
* **Framing.** `Laid` says where each frame's bytes are on the wire, and that its
  header has its length (`RoundTrip`, `FrameEnds`). `Begun` says that the client is
  inside the first frame it has not handled: which of its bytes are in `buf`, which
  fields `header` has, and where it reads on, all measured from the end of the frame
  before. A frame the connection ended in may have lost its rest (`Lost`), and what is
  then handled is not claimed to be it. `AllRead` says that past the last frame
  nothing more is on the wire, and that only a closed connection lets the thread
  handle more than was sent.
* **History.** `Counted` relates what was taken up and added to where the threads
  are, and `Loaded` the value an increment has read to `added`: neither can exceed
  what was added, which is all that holds in every interleaving. `Sole` adds which
  fields of the one element under way are written, for a history where threads have
  not added at once. `Measured` bounds scrolling by the window that the last key saw.
* **Lifecycle.** `Counts` is inductive together with `UncreatedYet`: nothing is
  posted or waited for before somebody has created the semaphore, and that is the UI,
  with zero. `TextsAwaited` has `LoneInv`: while no two programs have run at once every
  other program is off (`Alone`), so that all counts of the semaphore are for this one,
  and `Balanced` says that it starts with no text and keeps enough readers. Each step
  that adds a text adds a reader or takes a command off `owed`, and each read takes a
  reader off and at least one text, which needs `HoldsEnd`: while there is a client, no
  read returns an end of file.

Every safety invariant and action property of the passing runs is proved. Only
model-checked are the liveness properties, `ResponseComes`, `PushHandled`,
`ClientFollows`, `AllHandled` and `StartsOrEnds`, which are outside the prover's reach,
as is ENABLED. What a recursive definition computes cannot be proved either; no module
declares a RECURSIVE operator. The runs that expect a violation show counterexamples,
of which there is nothing to prove.

## 5. Abstractions, and what is not modelled

* In `ChatSession` commands are complete: the fields of a menu are not empty, a
  command line has its arguments. `MenuStack` and `ChatCommands` have the others. A
  user who sends two commands at once is impossible in the program (the main thread
  blocks), but answers that are taken out of turn make it possible, and then
  commands do coalesce in the command pipe.
* `strtok` is atomic per call. In `ChatSession` a thread adds to the history in one
  step; `ChatHistory` takes that apart.
* Writes of the two client threads to the connection are whole frames
  (`dc_write_fully` of one buffer).
* `response[read_number] = '\0'` after a read that fills the buffer stores one
  byte behind it; the model gives that no effect.
* `ChatHistory` ends with the first message that does not fit in the array; what
  later ones overwrite is outside `ChatState`. `messages[num_messages].sender = 1`
  is read by nobody and is left out; after the last element it is a write behind the
  memory of `ChatState`, whose effect on the heap is not modelled. Memory that `malloc`
  gives first is zero.
* The server answers in order, each frame once, with the codes the handlers
  list; over a logout it keeps all of the user's channels, some, or none. In
  `ChatSession` it sends no pings and does not close the connection; in `ChatFraming` it
  does both, a ping with a header of four bytes like any other frame, and a connection
  that closes or breaks. A pushed message has one field
  before those the handler takes (`handle_server.c` 214, 246-249).
* `dc_read_fully`, `dc_write_fully` and the rest of the `dc_` libraries are external.
* In `ChatLifecycle` texts are not longer than a read, a command and its answer count as
  one text at most, and the greeting is either the expected one or, since nothing
  terminates `input_str` (`chat_ui.c` 154-158), not.
* `READ` commands and responses have handlers in the client, but the UI writes
  none (`chat_ui.c` 681-683 is commented out): no state of this program reaches
  them, and they are left out.
* What `print_messages` and `print_sections` draw (rows, columns, wording), colours
  and logging are left out, as are the build files.

## 6. Plan

Done: the session, its orderly invariant and its theorems; the promise, the
refinement and its proof; menus; commands; history and screen; header and framing;
lifecycle; the proofs listed above.

Left, in this order:

1. Abstract specifications of two parts that `ChatPromise` does not reach, with proofs
   that the parts implement them: `ChatFraming` as a queue of frames up to the first
   ping, and `ChatHistory` without simultaneous additions as a list.
2. The steps the liveness properties rest on, as far as they are not ENABLED: that
   each place of an exchange is left only to the next one (`OrderlyShape` has the
   places, the lemmas of `ChatOrder_proofs` the steps).
