---------------------------- MODULE ChatPromise ----------------------------
(***************************************************************************)
(* What the chat client promises to its user, with no pipe, thread, frame  *)
(* or semaphore in it: one command at a time is accepted or refused by the *)
(* server and its outcome taken over; a message is shown once, and the     *)
(* server is told that it has arrived, before the next command or message. *)
(*                                                                         *)
(* The promise has what the program has: a user can be in several channels *)
(* at the server, and is shown one of them or none.                        *)
(***************************************************************************)
EXTENDS Naturals, Sequences

CONSTANTS Places, Nowhere   \* the channels, and what a user in none is shown

VARIABLES
  phase,   \* of the command: "idle", "asked", "accepted", "refused"
  wish,    \* what it asks for
  here,    \* the channel the user is shown
  there,   \* the channels the user is in, at the server
  news,    \* the last message
  due,     \* it has not been shown yet
  told,    \* the last message the server knows to have arrived
  shown    \* the messages shown

promiseVars == <<phase, wish, here, there, news, due, told, shown>>

\* To enter or leave a channel, to log out, or what is done in the channel.
Wishes ==
  [verb : {"enter", "leave"}, place : Places]
    \cup [verb : {"logout", "stay"}, place : {Nowhere}]

Nothing == [verb |-> "none", place |-> Nowhere]

Init ==
  /\ phase = "idle" /\ wish = Nothing
  /\ here = Nowhere /\ there = {}
  /\ news = 0 /\ ~due /\ told = 0
  /\ shown = <<>>

Quiet == phase = "idle" /\ ~due /\ told = news

Ask(w) ==
  /\ Quiet
  /\ phase' = "asked" /\ wish' = w
  /\ UNCHANGED <<here, there, news, due, told, shown>>

Refuse ==
  /\ phase = "asked"
  /\ phase' = "refused"
  /\ UNCHANGED <<wish, here, there, news, due, told, shown>>

\* The channels of a user whose wish is granted; a logout may cost some.
Fulfilled ==
  CASE wish.verb = "enter"  -> {there \cup {wish.place}}
    [] wish.verb = "leave"  -> {there \ {wish.place}}
    [] wish.verb = "logout" -> SUBSET there
    [] OTHER                -> {there}

Accept ==
  /\ phase = "asked"
  /\ phase' = "accepted"
  /\ there' \in Fulfilled
  /\ UNCHANGED <<wish, here, news, due, told, shown>>

\* A user who has left a channel, whichever it was, is shown none.
Outlook ==
  CASE wish.verb = "enter" -> wish.place
    [] wish.verb = "leave" -> Nowhere
    [] OTHER               -> here

\* A refused command changes nothing, an accepted one what the user is shown.
Return ==
  /\ phase \in {"accepted", "refused"}
  /\ phase' = "idle" /\ wish' = Nothing
  /\ here' = IF phase = "accepted" THEN Outlook ELSE here
  /\ UNCHANGED <<there, news, due, told, shown>>

Send ==
  /\ Quiet
  /\ news' = news + 1 /\ due' = TRUE
  /\ UNCHANGED <<phase, wish, here, there, told, shown>>

\* A user who is shown in no channel is shown nothing.
Show ==
  /\ due
  /\ due' = FALSE
  /\ shown' = IF here = Nowhere THEN shown ELSE Append(shown, news)
  /\ UNCHANGED <<phase, wish, here, there, news, told>>

Tell ==
  /\ told # news
  /\ told' = news
  /\ UNCHANGED <<phase, wish, here, there, news, due, shown>>

Next ==
  \/ \E w \in Wishes : Ask(w)
  \/ Refuse \/ Accept \/ Return \/ Send \/ Show \/ Tell

Spec == Init /\ [][Next]_promiseVars
=============================================================================
