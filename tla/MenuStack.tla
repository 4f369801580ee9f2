----------------------------- MODULE MenuStack -----------------------------
(***************************************************************************)
(* The calls that the UI's main thread is in (UI/chat_ui.c): show_menu,    *)
(* show_signup_menu, show_login_menu, run and handle_logout call each      *)
(* other, and themselves, and what called them goes on when they return.   *)
(* run does not return.                                                    *)
(*                                                                         *)
(* The stack's head is the innermost call.  A call in tail position (the   *)
(* login menu after an accepted sign-up, run after an accepted login)      *)
(* takes its caller's place.  The way of a command to the server and of    *)
(* the response back is one step; ChatSession has it in full.              *)
(***************************************************************************)
EXTENDS Naturals, Sequences, SequencesExt

CONSTANTS
  MaxDepth,   \* bound: calls on the stack
  MaxSent     \* bound: commands sent

ASSUME MenuAssumption == MaxDepth \in Nat /\ MaxSent \in Nat

VARIABLES
  stack,    \* the calls
  isLogin,  \* is_login of show_menu
  line,     \* what input_buffer holds
  sent,     \* the commands sent, of which call, with their outcomes
  online,   \* the login the server has not ended, or 0
  up        \* the program is running

vars == <<stack, isLogin, line, sent, online, up>>

-----------------------------------------------------------------------------
\* The fields typed in a menu.  One is empty; one is only spaces; all are
\* given; all that are sent are given but the display name of a login, which
\* is not sent, is empty.
Fields == {"empty", "blank", "full", "nameless"}

\* strlen(...) == 0 for one of the fields.
FailsCheck(f) == f \in {"empty", "nameless"}

\* Whether the command made from the fields lacks an argument; only /logout
\* and the other commands of a run loop have the display name in them.
Lacks(m, f) == f \in {"empty", "blank"} \/ (m = "run" /\ f = "nameless")

Menus == {"menu", "signup", "login", "run"}

\* Where a call is.  "input": it waits for the user.  "rest": the sign-up menu
\* after its user name.  "submit" and "await": before and after the write.
\* "start": run before its loop.  "finish": the handlers that get_user_input
\* calls after handle_logout.
Steps == {"input", "rest", "submit", "await", "start", "finish"}

\* loginName: the user name of the sign-up is "login".  user: the login whose
\* User a run loop was given.
Call == [in : Menus, at : Steps, fields : Fields, loginName : BOOLEAN, user : Nat]

Menu(m) ==
  [in |-> m, at |-> "input", fields |-> "full", loginName |-> FALSE, user |-> 0]

Lines == {"empty", "text", "/logout", "more"}

Outcomes == {"pending", "OK", "refused"}

Command == [kind : Menus \ {"menu"}, fields : Fields, loginName : BOOLEAN, outcome : Outcomes]

TypeOK ==
  /\ stack \in Seq(Call) /\ stack # <<>>
  /\ isLogin \in BOOLEAN
  /\ line \in Lines
  /\ sent \in Seq(Command)
  /\ online \in Nat
  /\ up \in BOOLEAN

Init ==
  /\ stack = <<Menu("signup"), Menu("menu")>>
  /\ isLogin = FALSE
  /\ line = "empty"
  /\ sent = <<>>
  /\ online = 0
  /\ up = TRUE

-----------------------------------------------------------------------------
Top == Head(stack)

At(m, step) == up /\ Top.in = m /\ Top.at = step

\* The innermost call goes on as c, or calls a menu and will go on as c.
Becomes(c) == stack' = <<c>> \o Tail(stack)

Calls(c, m) ==
  /\ Len(stack) < MaxDepth
  /\ stack' = <<Menu(m), c>> \o Tail(stack)

\* Mutant of Returns: what called the menu returns too.
ReturnsTwice == stack' = Tail(Tail(stack))

Returns == stack' = Tail(stack)

\* show_menu calls the menu that is_login says once a key was pressed.
Key ==
  /\ At("menu", "input")
  /\ isLogin' \in BOOLEAN
  /\ Calls(Top, IF isLogin' THEN "login" ELSE "signup")
  /\ UNCHANGED <<line, sent, online, up>>

\* Mutant of Check: fields are submitted without the check.
CheckMissing(f, c) == Becomes([c EXCEPT !.at = "submit", !.fields = f])

\* Fields that fail the check call the menu again, but are kept: when that
\* call returns they are submitted.
Check(f, c) ==
  LET next == [c EXCEPT !.at = "submit", !.fields = f]
  IN IF FailsCheck(f) THEN Calls(next, c.in) ELSE Becomes(next)

TypeSignup ==
  /\ At("signup", "input") \/ At("signup", "rest")
  /\ \E f \in Fields \ {"nameless"} : Check(f, Top)
  /\ UNCHANGED <<isLogin, line, sent, online, up>>

\* The user name login calls the login menu, and stays the user name.
TypeLoginName ==
  /\ At("signup", "input")
  /\ Calls([Top EXCEPT !.at = "rest", !.loginName = TRUE], "login")
  /\ UNCHANGED <<isLogin, line, sent, online, up>>

TypeLogin ==
  /\ At("login", "input")
  /\ \E f \in Fields : Check(f, Top)
  /\ UNCHANGED <<isLogin, line, sent, online, up>>

Send ==
  /\ Len(sent) < MaxSent
  /\ Becomes([Top EXCEPT !.at = "await"])
  /\ sent' = Append(sent, [kind |-> Top.in, fields |-> Top.fields,
                           loginName |-> Top.loginName, outcome |-> "pending"])

Submit ==
  /\ At("signup", "submit") \/ At("login", "submit")
  /\ Send
  /\ UNCHANGED <<isLogin, line, online, up>>

\* A missing argument ends the client (strcat of NULL) and the end of file in
\* place of a response ends the UI (strcmp of NULL).
Collapse ==
  /\ \E m \in Menus : At(m, "await") /\ Lacks(m, Top.fields)
  /\ up' = FALSE
  /\ UNCHANGED <<stack, isLogin, line, sent, online>>

-----------------------------------------------------------------------------
Number == Len(sent)

\* A response to the last command; where an argument is missing, another field
\* of two words may have taken its place, but /logout has no other.
Outcome(m, o) ==
  /\ At(m, "await")
  /\ m = "run" => Top.fields # "nameless"
  /\ sent' = [sent EXCEPT ![Number].outcome = o]

SignupReply ==
  /\ \/ Outcome("signup", "OK") /\ Becomes(Menu("login"))
     \/ Outcome("signup", "refused") /\ Returns
  /\ UNCHANGED <<isLogin, line, online, up>>

\* An accepted login starts a run loop, in which the input line is as it was.
LoginReply ==
  /\ \/ /\ Outcome("login", "OK")
        /\ Becomes([Top EXCEPT !.in = "run", !.at = "start", !.user = Number])
        /\ online' = Number
     \/ /\ Outcome("login", "refused") /\ Returns
        /\ UNCHANGED online
  /\ UNCHANGED <<isLogin, line, up>>

\* run starts a message thread and shows the chat with its input line.
StartRun ==
  /\ At("run", "start")
  /\ Becomes([Top EXCEPT !.at = "input"])
  /\ UNCHANGED <<isLogin, line, sent, online, up>>

Type ==
  /\ At("run", "input")
  /\ line' \in IF line = "empty" THEN {"text", "/logout"} ELSE {"more", "empty"}
  /\ UNCHANGED <<stack, isLogin, sent, online, up>>

\* Mutant of Enter: what the line says is not looked at.
EnterAnyLine ==
  /\ At("run", "input")
  /\ line # "empty"
  /\ Send
  /\ UNCHANGED <<isLogin, line, online, up>>

\* ENTER: lines other than /logout are Commands' business.
Enter ==
  /\ At("run", "input")
  /\ \/ line = "/logout" /\ Send /\ UNCHANGED line
     \/ line # "/logout" /\ line' = "empty" /\ UNCHANGED <<stack, sent>>
  /\ UNCHANGED <<isLogin, online, up>>

\* Mutant of LogoutReply: the menu of the start is shown.
LogoutReplySignup ==
  /\ Outcome("run", "OK")
  /\ Calls([Top EXCEPT !.at = "finish"], "signup")
  /\ online' = 0
  /\ UNCHANGED <<isLogin, line, up>>

LogoutReply ==
  /\ \/ /\ Outcome("run", "OK")
        /\ Calls([Top EXCEPT !.at = "finish"], "login")
        /\ online' = 0
     \/ /\ Outcome("run", "refused")
        /\ Becomes([Top EXCEPT !.at = "finish"])
        /\ UNCHANGED online
  /\ UNCHANGED <<isLogin, line, up>>

\* Mutant of Finish: the run loop ends after a logout.
FinishReturns ==
  /\ At("run", "finish")
  /\ Returns
  /\ line' = "empty"
  /\ UNCHANGED <<isLogin, sent, online, up>>

\* The other handlers find no command in /logout, and the line is cleared.
Finish ==
  /\ At("run", "finish")
  /\ Becomes([Top EXCEPT !.at = "input"])
  /\ line' = "empty"
  /\ UNCHANGED <<isLogin, sent, online, up>>

Next ==
  \/ Key \/ TypeSignup \/ TypeLoginName \/ TypeLogin \/ Submit \/ Collapse
  \/ SignupReply \/ LoginReply \/ StartRun \/ Type \/ Enter \/ LogoutReply \/ Finish

Spec == Init /\ [][Next]_vars

-----------------------------------------------------------------------------
InRun(c) == c.in = "run"

\* After a login nobody signs up again: a sign-up menu is never above a run
\* loop, whatever was typed, refused or left (chat_ui.c 360-361, 737-755).
SignupFirst ==
  \A m, n \in DOMAIN stack : m < n /\ stack[m].in = "signup" => ~InRun(stack[n])

\* While the server has a login that is not ended, the innermost run loop is
\* the one of that login: commands are sent in its user's name (452, 755).
RightUser ==
  online # 0 =>
    \E n \in DOMAIN stack :
      /\ InRun(stack[n]) /\ stack[n].user = online
      /\ \A m \in 1..(n - 1) : ~InRun(stack[m])

\* Fields that fail the check, and a sign-up of the name login, are submitted,
\* but only after another command, of a menu opened later, was refused (310-312,
\* 346-348, 430-432).
AfterRefusal ==
  \A n \in DOMAIN sent :
    sent[n].kind # "run" /\ (FailsCheck(sent[n].fields) \/ sent[n].loginName) =>
      n > 1 /\ sent[n - 1].outcome = "refused"

\* The calls below the innermost run loop: nothing reaches them any more.
Base(s) ==
  SubSeq(s, 1 + SelectInSeq(s, InRun), Len(s))

\* What run was called from is never returned to, and whoever logs in again
\* adds to it (228-250).
BaseGrows == [][SelectInSeq(stack, InRun) # 0 => IsSuffix(Base(stack), Base(stack'))]_vars

\* The line of a chat that begins is empty, but after a logout, where it is the
\* /logout of the chat below: the line is cleared when handle_logout returns,
\* which after a login it does not (553-563).
StartLine ==
  At("run", "start") =>
    IF \E n \in 2..Len(stack) : InRun(stack[n]) THEN line = "/logout" ELSE line = "empty"
=============================================================================
