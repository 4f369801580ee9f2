-------------------------- MODULE MenuStack_proofs --------------------------
(***************************************************************************)
(* Proofs about MenuStack, for any depth of calls and number of commands.  *)
(***************************************************************************)
EXTENDS MenuStack, FiniteSetTheorems, WellFoundedInduction, TLAPS

-----------------------------------------------------------------------------
(* What the three changes of the stack do to its elements.                 *)

LEMMA BecomesShape ==
  ASSUME stack \in Seq(Call), stack # <<>>, NEW c \in Call, Becomes(c)
  PROVE  /\ stack' \in Seq(Call) /\ Len(stack') = Len(stack)
         /\ stack'[1] = c
         /\ \A n \in 2..Len(stack) : stack'[n] = stack[n]
BY DEF Becomes

LEMMA CallsShape ==
  ASSUME stack \in Seq(Call), stack # <<>>, NEW c \in Call, NEW m \in Menus, Calls(c, m)
  PROVE  /\ stack' \in Seq(Call) /\ Len(stack') = Len(stack) + 1
         /\ stack'[1] = Menu(m) /\ stack'[2] = c
         /\ \A n \in 3..(Len(stack) + 1) : stack'[n] = stack[n - 1]
<1>1. Menu(m) \in Call
  BY DEF Menu, Call, Steps, Fields
<1> QED
  BY <1>1 DEF Calls

LEMMA ReturnsShape ==
  ASSUME stack \in Seq(Call), stack # <<>>, Returns
  PROVE  /\ stack' \in Seq(Call) /\ Len(stack') = Len(stack) - 1
         /\ \A n \in 1..(Len(stack) - 1) : stack'[n] = stack[n + 1]
BY DEF Returns

-----------------------------------------------------------------------------
(* What each step does to the stack.                                       *)

\* The innermost call goes on, at another step of itself; it awaits a response
\* only when it sends.
GoesOn ==
  \E c \in Call :
    /\ Becomes(c)
    /\ c.in = Top.in /\ c.user = Top.user
    /\ c.at = "await" => Send

\* It calls a menu, the sign-up only from the start or from a sign-up, and a
\* run loop only in handle_logout.
CallsMenu ==
  \E c \in Call, m \in {"signup", "login"} :
    /\ Calls(c, m)
    /\ c.in = Top.in /\ c.user = Top.user /\ c.at # "await"
    /\ m = "signup" => Top.in \in {"menu", "signup"}
    /\ Top.in = "run" => m = "login" /\ c.at = "finish"

\* An accepted sign-up or login.
Moves == SignupReply \/ LoginReply

MovesOn ==
  \/ Top.in = "signup" /\ Becomes(Menu("login"))
  \/ /\ Top.in = "login"
     /\ Becomes([Top EXCEPT !.in = "run", !.at = "start", !.user = Number])
  \/ Top.in \in {"signup", "login"} /\ Returns

LEMMA StepNames ==
  /\ {"input", "rest", "submit", "await", "start", "finish"} \subseteq Steps
  /\ "full" \in Fields
BY DEF Steps, Fields

LEMMA TopType ==
  ASSUME TypeOK
  PROVE  Top \in Call /\ Top = stack[1] /\ Len(stack) \in Nat /\ Len(stack) >= 1
BY DEF TypeOK, Top

\* A call that goes on is the same call.
LEMMA GoneOn ==
  ASSUME NEW c \in Call, NEW s \in Steps, NEW f \in Fields
  PROVE  /\ LET d == [c EXCEPT !.at = s]
            IN d \in Call /\ d.in = c.in /\ d.user = c.user /\ d.at = s
         /\ LET d == [c EXCEPT !.at = s, !.fields = f]
            IN d \in Call /\ d.in = c.in /\ d.user = c.user /\ d.at = s
         /\ LET d == [c EXCEPT !.at = s, !.loginName = TRUE]
            IN d \in Call /\ d.in = c.in /\ d.user = c.user /\ d.at = s
BY DEF Call

\* Checked fields are submitted, or the same menu is called again.
LEMMA CheckSteps ==
  ASSUME TypeOK, NEW f \in Fields, Check(f, Top), Top.in \in {"signup", "login"}
  PROVE  GoesOn \/ CallsMenu
<1> DEFINE next == [Top EXCEPT !.at = "submit", !.fields = f]
<1>1. Top \in Call
  BY TopType
<1>2. next \in Call /\ next.in = Top.in /\ next.user = Top.user /\ next.at = "submit"
  <2>1. "submit" \in Steps
    BY StepNames
  <2> QED
    BY <1>1, <2>1 DEF Call
<1>3. CASE FailsCheck(f)
  <2>1. Calls(next, Top.in)
    <3>1. next.in = Top.in
      BY <1>2
    <3> QED
      BY <1>3, <3>1 DEF Check
  <2> QED
    BY <1>2, <2>1 DEF CallsMenu
<1>4. CASE ~FailsCheck(f)
  <2>1. Becomes(next)
    BY <1>4 DEF Check
  <2> QED
    BY <1>2, <2>1 DEF GoesOn
<1> QED
  BY <1>3, <1>4

LEMMA StackSteps ==
  ASSUME TypeOK, [Next]_vars
  PROVE  UNCHANGED stack \/ GoesOn \/ CallsMenu \/ (Moves /\ MovesOn)
<1>0. Top \in Call
  BY TopType
<1>1. CASE Key
  <2>1. Top.in = "menu" /\ Top.at = "input" /\ \E m \in {"signup", "login"} : Calls(Top, m)
    BY <1>1 DEF Key, At
  <2> QED
    BY <1>0, <2>1 DEF CallsMenu
<1>2. CASE TypeSignup \/ TypeLogin
  <2>1. Top.in \in {"signup", "login"} /\ \E f \in Fields : Check(f, Top)
    BY <1>2 DEF TypeSignup, TypeLogin, At
  <2> QED
    BY <2>1, CheckSteps
<1>3. CASE TypeLoginName
  <2> DEFINE c == [Top EXCEPT !.at = "rest", !.loginName = TRUE]
  <2>1. Top.in = "signup" /\ Calls(c, "login")
    BY <1>3 DEF TypeLoginName, At
  <2>2. c \in Call /\ c.in = Top.in /\ c.user = Top.user /\ c.at = "rest"
    BY <1>0, GoneOn, StepNames
  <2> QED
    BY <2>1, <2>2 DEF CallsMenu
<1>4. ASSUME Send PROVE GoesOn
  <2> DEFINE c == [Top EXCEPT !.at = "await"]
  <2>1. c \in Call /\ c.in = Top.in /\ c.user = Top.user
    BY <1>0, GoneOn, StepNames
  <2> QED
    BY <1>4, <2>1 DEF Send, GoesOn
<1>5. CASE Submit
  BY <1>4, <1>5 DEF Submit
<1>6. CASE Enter
  BY <1>4, <1>6 DEF Enter
<1>7. CASE SignupReply
  BY <1>7 DEF SignupReply, Outcome, At, Moves, MovesOn
<1>8. CASE LoginReply
  BY <1>8 DEF LoginReply, Outcome, At, Moves, MovesOn
<1>9. CASE StartRun \/ Finish
  <2> DEFINE c == [Top EXCEPT !.at = "input"]
  <2>1. c \in Call /\ c.in = Top.in /\ c.user = Top.user /\ c.at = "input"
    BY <1>0, GoneOn, StepNames
  <2> QED
    BY <1>9, <2>1 DEF StartRun, Finish, GoesOn
<1>10. CASE LogoutReply
  <2> DEFINE c == [Top EXCEPT !.at = "finish"]
  <2>1. c \in Call /\ c.in = Top.in /\ c.user = Top.user /\ c.at = "finish"
    BY <1>0, GoneOn, StepNames
  <2>2. Calls(c, "login") \/ Becomes(c)
    BY <1>10 DEF LogoutReply
  <2> QED
    BY <2>1, <2>2 DEF GoesOn, CallsMenu
<1>11. CASE Type \/ Collapse
  BY <1>11 DEF Type, Collapse
<1>12. CASE UNCHANGED vars
  BY <1>12 DEF vars
<1> QED
  BY <1>1, <1>2, <1>3, <1>5, <1>6, <1>7, <1>8, <1>9, <1>10, <1>11, <1>12 DEF Next

-----------------------------------------------------------------------------
(* The shape of the stack: show_menu at the bottom and nowhere else, and   *)
(* every run loop that has called a menu is in handle_logout.              *)

Shape ==
  /\ \A n \in 1..Len(stack) : stack[n].in = "menu" <=> n = Len(stack)
  /\ \A n \in 2..Len(stack) : stack[n].in = "run" => stack[n].at = "finish"
  /\ \A m, n \in 1..Len(stack) : m < n /\ stack[m].in = "signup" => stack[n].in # "run"

Stacked == TypeOK /\ Shape

LEMMA StackedInit == Init => Stacked
<1> SUFFICES ASSUME Init PROVE Stacked
  OBVIOUS
<1>1. Menu("signup") \in Call /\ Menu("menu") \in Call
  BY DEF Menu, Call, Menus, Steps, Fields
<1>2. TypeOK
  <2>1. stack \in Seq(Call) /\ stack # <<>>
    BY <1>1 DEF Init
  <2>2. sent \in Seq(Command)
    BY DEF Init
  <2> QED
    BY <2>1, <2>2 DEF Init, TypeOK, Lines
<1>3. Shape
  BY DEF Init, Shape, Menu
<1> QED
  BY <1>2, <1>3 DEF Stacked

\* The types of the stack after a step.
LEMMA MovedOn ==
  ASSUME TypeOK, Moves, MovesOn
  PROVE  \/ Top.in = "signup" /\ Menu("login") \in Call /\ Becomes(Menu("login"))
         \/ Top.in = "login" /\ \E c \in Call : c.in = "run" /\ Becomes(c)
         \/ Top.in \in {"signup", "login"} /\ Returns
<1>1. Menu("login") \in Call
  BY DEF Menu, Call, Menus, Steps, Fields
<1>2. Number \in Nat
  BY DEF Number, TypeOK
<1>3. Top \in Call
  BY TopType
<1>4. [Top EXCEPT !.in = "run", !.at = "start", !.user = Number] \in Call
  BY <1>2, <1>3 DEF Call, Menus, Steps
<1>5. [Top EXCEPT !.in = "run", !.at = "start", !.user = Number].in = "run"
  BY <1>3 DEF Call
<1> QED
  BY <1>1, <1>4, <1>5 DEF MovesOn

LEMMA ShapeStep ==
  ASSUME Stacked, [Next]_vars
  PROVE  stack' \in Seq(Call) /\ stack' # <<>> /\ Shape'
<1>0. /\ stack \in Seq(Call) /\ stack # <<>>
      /\ Len(stack) \in Nat /\ Len(stack) >= 1
      /\ Top \in Call /\ Top = stack[1]
  BY TopType DEF Stacked, TypeOK
<1>1. CASE UNCHANGED stack
  BY <1>0, <1>1 DEF Stacked, Shape
<1>2. CASE GoesOn
  <2>1. PICK c \in Call : Becomes(c) /\ c.in = stack[1].in
    BY <1>0, <1>2 DEF GoesOn
  <2>2. /\ stack' \in Seq(Call) /\ Len(stack') = Len(stack)
        /\ stack'[1] = c
        /\ \A n \in 2..Len(stack) : stack'[n] = stack[n]
    BY <1>0, <2>1, BecomesShape
  <2> QED
    BY <1>0, <2>1, <2>2 DEF Stacked, Shape
<1>3. CASE CallsMenu
  <2>1. PICK c \in Call, m \in {"signup", "login"} :
          /\ Calls(c, m)
          /\ c.in = stack[1].in
          /\ m = "signup" => stack[1].in \in {"menu", "signup"}
          /\ stack[1].in = "run" => m = "login" /\ c.at = "finish"
    BY <1>0, <1>3 DEF CallsMenu
  <2>2. /\ stack' \in Seq(Call) /\ Len(stack') = Len(stack) + 1
        /\ stack'[1].in = m /\ stack'[2] = c
        /\ \A n \in 3..(Len(stack) + 1) : stack'[n] = stack[n - 1]
    BY <1>0, <2>1, CallsShape DEF Menus, Menu
  <2>3. \A n \in 2..(Len(stack) + 1) : stack'[n].in = stack[n - 1].in
    BY <1>0, <2>1, <2>2
  <2>4. \A n \in 1..Len(stack') : stack'[n].in = "menu" <=> n = Len(stack')
    <3> SUFFICES ASSUME NEW n \in 1..Len(stack')
                 PROVE  stack'[n].in = "menu" <=> n = Len(stack')
      OBVIOUS
    <3>1. CASE n = 1
      BY <1>0, <2>2, <3>1
    <3>2. CASE n # 1
      <4>1. n \in 2..(Len(stack) + 1) /\ n - 1 \in 1..Len(stack)
        BY <1>0, <2>2, <3>2
      <4>2. stack[n - 1].in = "menu" <=> n - 1 = Len(stack)
        BY <4>1 DEF Stacked, Shape
      <4> QED
        BY <1>0, <2>2, <2>3, <4>1, <4>2
    <3> QED
      BY <3>1, <3>2
  <2>5. \A n \in 2..Len(stack') : stack'[n].in = "run" => stack'[n].at = "finish"
    BY <1>0, <2>1, <2>2, <2>3 DEF Stacked, Shape
  <2>6. ASSUME NEW k \in 1..Len(stack'), NEW n \in 1..Len(stack'), k < n, stack'[k].in = "signup"
        PROVE  stack'[n].in # "run"
    <3>1. n \in 2..(Len(stack) + 1) /\ n - 1 \in 1..Len(stack) /\ stack'[n].in = stack[n - 1].in
      BY <1>0, <2>2, <2>3, <2>6
    <3>2. CASE k = 1
      <4>1. stack[1].in \in {"menu", "signup"}
        BY <2>1, <2>2, <2>6, <3>2
      <4>2. stack[n - 1].in # "run"
        BY <1>0, <3>1, <4>1 DEF Stacked, Shape
      <4> QED
        BY <3>1, <4>2
    <3>3. CASE k # 1
      <4>1. k - 1 \in 1..Len(stack) /\ k - 1 < n - 1 /\ stack[k - 1].in = "signup"
        BY <1>0, <2>2, <2>3, <2>6, <3>3
      <4> QED
        BY <3>1, <4>1 DEF Stacked, Shape
    <3> QED
      BY <3>2, <3>3
  <2> QED
    BY <1>0, <2>2, <2>4, <2>5, <2>6 DEF Shape
<1>4. CASE Moves /\ MovesOn
  <2>1. CASE \E c \in Call : /\ Becomes(c)
                             /\ c.in \in {"login", "run"}
                             /\ stack[1].in \in {"signup", "login"}
    <3>1. PICK c \in Call : /\ Becomes(c)
                            /\ c.in \in {"login", "run"}
                            /\ stack[1].in \in {"signup", "login"}
      BY <2>1
    <3>2. /\ stack' \in Seq(Call) /\ Len(stack') = Len(stack)
          /\ stack'[1] = c
          /\ \A n \in 2..Len(stack) : stack'[n] = stack[n]
      BY <1>0, <3>1, BecomesShape
    <3> QED
      BY <1>0, <3>1, <3>2 DEF Stacked, Shape
  <2>2. CASE stack[1].in \in {"signup", "login"} /\ Returns
    <3>1. /\ stack' \in Seq(Call) /\ Len(stack') = Len(stack) - 1
          /\ \A n \in 1..(Len(stack) - 1) : stack'[n] = stack[n + 1]
      BY <1>0, <2>2, ReturnsShape
    <3>2. Len(stack) >= 2
      BY <1>0, <2>2 DEF Stacked, Shape
    <3>3. \A k, n \in 1..Len(stack') : k < n /\ stack'[k].in = "signup" => stack'[n].in # "run"
      BY <1>0, <3>1, <3>2 DEF Stacked, Shape
    <3>4. \A n \in 1..Len(stack') : stack'[n].in = "menu" <=> n = Len(stack')
      BY <1>0, <3>1, <3>2 DEF Stacked, Shape
    <3>5. \A n \in 2..Len(stack') : stack'[n].in = "run" => stack'[n].at = "finish"
      BY <1>0, <3>1, <3>2 DEF Stacked, Shape
    <3> QED
      BY <1>0, <3>1, <3>2, <3>3, <3>4, <3>5 DEF Shape
  <2>3. Menu("login").in = "login"
    BY DEF Menu
  <2> QED
    BY <1>0, <1>4, <2>1, <2>2, <2>3, MovedOn DEF Stacked
<1> QED
  BY <1>1, <1>2, <1>3, <1>4, StackSteps DEF Stacked

\* An outcome leaves a command a command.
LEMMA OutcomeType ==
  ASSUME NEW s \in Seq(Command), NEW k \in Nat, NEW o \in Outcomes
  PROVE  [s EXCEPT ![k].outcome = o] \in Seq(Command)
<1> DEFINE c == [s[k] EXCEPT !.outcome = o]
<1>1. [s EXCEPT ![k].outcome = o] = [s EXCEPT ![k] = c]
  BY Zenon
<1>2. CASE k \in DOMAIN s
  <2>1. s[k] \in Command
    BY <1>2
  <2>2. c \in Command
    BY <2>1 DEF Command
  <2> HIDE DEF c
  <2>3. [s EXCEPT ![k] = c] \in Seq(Command)
    BY <1>2, <2>2
  <2> QED
    BY <1>1, <2>3
<1>3. CASE k \notin DOMAIN s
  <2> HIDE DEF c
  <2>1. [s EXCEPT ![k] = c] = s
    BY <1>3
  <2> QED
    BY <1>1, <2>1
<1> QED
  BY <1>2, <1>3

\* The variables other than the stack keep their types.
LEMMA StackedStep == Stacked /\ [Next]_vars => Stacked'
<1> SUFFICES ASSUME Stacked, [Next]_vars PROVE Stacked'
  OBVIOUS
<1>0. TypeOK /\ Top \in Call /\ Number \in Nat
  BY TopType DEF Stacked, TypeOK, Number
<1>1. isLogin' \in BOOLEAN /\ up' \in BOOLEAN
  BY <1>0 DEF TypeOK, Next, Key, TypeSignup, TypeLoginName, TypeLogin, Submit, Collapse, SignupReply,
       LoginReply, StartRun, Type, Enter, LogoutReply, Finish, vars
<1>2. line' \in Lines
  BY <1>0 DEF TypeOK, Next, Key, TypeSignup, TypeLoginName, TypeLogin, Submit, Collapse, SignupReply,
       LoginReply, StartRun, Type, Enter, LogoutReply, Finish, vars, Lines
<1>3. online' \in Nat
  BY <1>0 DEF TypeOK, Next, Key, TypeSignup, TypeLoginName, TypeLogin, Submit, Collapse, SignupReply,
       LoginReply, StartRun, Type, Enter, LogoutReply, Finish, vars
<1>4. sent' \in Seq(Command)
  <2>1. CASE UNCHANGED sent
    BY <1>0, <2>1 DEF TypeOK
  <2>2. ASSUME Send, Top.in # "menu" PROVE sent' \in Seq(Command)
    <3>1. [kind |-> Top.in, fields |-> Top.fields,
           loginName |-> Top.loginName, outcome |-> "pending"] \in Command
      BY <1>0, <2>2 DEF Call, Command, Outcomes
    <3> QED
      BY <1>0, <2>2, <3>1 DEF Send, TypeOK
  <2>3. ASSUME NEW m \in {"signup", "login", "run"}, NEW o \in {"OK", "refused"}, Outcome(m, o)
        PROVE  sent' \in Seq(Command)
    <3>1. sent \in Seq(Command) /\ sent' = [sent EXCEPT ![Number].outcome = o]
      BY <1>0, <2>3 DEF Outcome, TypeOK
    <3>2. o \in Outcomes
      BY <2>3 DEF Outcomes
    <3> QED
      BY <1>0, <3>1, <3>2, OutcomeType
  <2>4. CASE Submit \/ Enter
    BY <2>1, <2>2, <2>4 DEF Submit, Enter, At
  <2>5. CASE SignupReply \/ LoginReply \/ LogoutReply
    BY <2>3, <2>5 DEF SignupReply, LoginReply, LogoutReply
  <2>6. CASE ~(Submit \/ Enter \/ SignupReply \/ LoginReply \/ LogoutReply)
    BY <2>1, <2>6 DEF Next, Key, TypeSignup, TypeLoginName, TypeLogin, Collapse,
                      StartRun, Type, Finish, vars
  <2> QED
    BY <2>4, <2>5, <2>6
<1> QED
  BY <1>1, <1>2, <1>3, <1>4, ShapeStep DEF Stacked, TypeOK

LEMMA StackedAlways == Spec => []Stacked
BY StackedInit, StackedStep, PTL DEF Spec

\* Every variable keeps its type.
THEOREM MenuTypeCorrect == Spec => []TypeOK
<1>1. Stacked => TypeOK
  BY DEF Stacked
<1> QED
  BY <1>1, StackedAlways, PTL

\* A sign-up menu is never above a run loop: after a login nobody signs up
\* again (chat_ui.c 360-361, 737-755).
THEOREM SignupFirstAlways == Spec => []SignupFirst
<1>1. Stacked => SignupFirst
  BY DEF Stacked, TypeOK, Shape, SignupFirst, InRun
<1> QED
  BY <1>1, StackedAlways, PTL
-----------------------------------------------------------------------------
(* The user of the chat.                                                   *)

\* What each step does to the login the server has.
LEMMA OnlineSteps ==
  ASSUME TypeOK, [Next]_vars
  PROVE  \/ online' = 0
         \/ /\ online' = Number /\ Top.in = "login"
            /\ Becomes([Top EXCEPT !.in = "run", !.at = "start", !.user = Number])
         \/ /\ online' = online
            /\ \/ UNCHANGED stack \/ GoesOn \/ CallsMenu
               \/ Top.in = "signup" /\ Becomes(Menu("login"))
               \/ Top.in \in {"signup", "login"} /\ Returns
<1>1. CASE SignupReply
  BY <1>1 DEF SignupReply, Outcome, At
<1>2. CASE LoginReply
  BY <1>2 DEF LoginReply, Outcome, At
<1>3. CASE LogoutReply
  <2> DEFINE c == [Top EXCEPT !.at = "finish"]
  <2>1. c \in Call /\ c.in = Top.in /\ c.user = Top.user /\ c.at = "finish"
    <3>1. Top \in Call
      BY TopType
    <3> QED
      BY <3>1, GoneOn, StepNames
  <2>2. online' = 0 \/ (online' = online /\ Becomes(c))
    BY <1>3 DEF LogoutReply
  <2> QED
    BY <2>1, <2>2 DEF GoesOn
<1>4. CASE ~(SignupReply \/ LoginReply \/ LogoutReply)
  <2>1. online' = online
    BY <1>4 DEF Next, Key, TypeSignup, TypeLoginName, TypeLogin, Submit, Collapse,
                StartRun, Type, Enter, Finish, vars
  <2> QED
    BY <1>4, <2>1, StackSteps DEF Moves
<1> QED
  BY <1>1, <1>2, <1>3, <1>4

LEMMA RightUserStep ==
  ASSUME Stacked, RightUser, [Next]_vars
  PROVE  RightUser'
<1>0. /\ TypeOK /\ stack \in Seq(Call) /\ stack # <<>>
      /\ Len(stack) \in Nat /\ Len(stack) >= 1
      /\ Top \in Call /\ Top = stack[1] /\ Number \in Nat
  BY TopType DEF Stacked, TypeOK, Number
<1>1. CASE /\ online' = Number
           /\ Becomes([Top EXCEPT !.in = "run", !.at = "start", !.user = Number])
  <2> DEFINE c == [Top EXCEPT !.in = "run", !.at = "start", !.user = Number]
  <2>1. c \in Call /\ c.in = "run" /\ c.user = Number
    BY <1>0 DEF Call, Menus, Steps
  <2>2. Len(stack') = Len(stack) /\ stack' \in Seq(Call) /\ stack'[1] = c
    <3> HIDE DEF c
    <3> QED
      BY <1>0, <1>1, <2>1, BecomesShape DEF c
  <2>3. 1 \in DOMAIN stack' /\ stack'[1].in = "run" /\ stack'[1].user = online'
    <3> HIDE DEF c
    <3> QED
      BY <1>0, <1>1, <2>1, <2>2
  <2> QED
    BY <2>3 DEF RightUser, InRun
<1>2. ASSUME online # 0, online' = online, stack' \in Seq(Call), NEW d \in {-1, 0, 1},
             Len(stack') = Len(stack) + d,
             \A n \in 1..Len(stack) : stack[n].in = "run" =>
               /\ n + d \in 1..Len(stack')
               /\ stack'[n + d].in = "run" /\ stack'[n + d].user = stack[n].user,
             \A n \in 1..Len(stack') : stack'[n].in = "run" =>
               n - d \in 1..Len(stack) /\ stack[n - d].in = "run"
      PROVE  RightUser'
  <2>1. PICK n \in 1..Len(stack) :
          /\ stack[n].in = "run" /\ stack[n].user = online
          /\ \A m \in 1..(n - 1) : stack[m].in # "run"
    BY <1>0, <1>2 DEF RightUser, InRun
  <2>2. n + d \in 1..Len(stack') /\ stack'[n + d].in = "run" /\ stack'[n + d].user = online'
    BY <1>0, <1>2, <2>1
  <2>3. \A m \in 1..((n + d) - 1) : stack'[m].in # "run"
    <3> SUFFICES ASSUME NEW m \in 1..((n + d) - 1), stack'[m].in = "run" PROVE FALSE
      OBVIOUS
    <3>1. m \in 1..Len(stack')
      BY <1>0, <1>2, <2>2
    <3>2. m - d \in 1..(n - 1) /\ stack[m - d].in = "run"
      BY <1>0, <1>2, <2>1, <3>1
    <3> QED
      BY <2>1, <3>2
  <2>4. n + d \in DOMAIN stack'
    BY <1>2, <2>2
  <2> QED
    BY <2>2, <2>3, <2>4 DEF RightUser, InRun
<1>3. ASSUME online # 0, online' = online, UNCHANGED stack PROVE RightUser'
  BY <1>3 DEF RightUser
<1>4. ASSUME online # 0, online' = online, GoesOn PROVE RightUser'
  <2>1. PICK c \in Call : Becomes(c) /\ c.in = stack[1].in /\ c.user = stack[1].user
    BY <1>0, <1>4 DEF GoesOn
  <2>2. /\ stack' \in Seq(Call) /\ Len(stack') = Len(stack)
        /\ stack'[1] = c
        /\ \A n \in 2..Len(stack) : stack'[n] = stack[n]
    BY <1>0, <2>1, BecomesShape
  <2>3. \A n \in 1..Len(stack) : stack'[n].in = stack[n].in /\ stack'[n].user = stack[n].user
    BY <1>0, <2>1, <2>2
  <2> QED
    BY <1>0, <1>2, <1>4, <2>2, <2>3
<1>5. ASSUME online # 0, online' = online, CallsMenu PROVE RightUser'
  <2>1. PICK c \in Call, m \in {"signup", "login"} :
          Calls(c, m) /\ c.in = stack[1].in /\ c.user = stack[1].user
    BY <1>0, <1>5 DEF CallsMenu
  <2>2. /\ stack' \in Seq(Call) /\ Len(stack') = Len(stack) + 1
        /\ stack'[1].in = m /\ stack'[2] = c
        /\ \A n \in 3..(Len(stack) + 1) : stack'[n] = stack[n - 1]
    BY <1>0, <2>1, CallsShape DEF Menus, Menu
  <2>3. \A n \in 2..(Len(stack) + 1) :
          stack'[n].in = stack[n - 1].in /\ stack'[n].user = stack[n - 1].user
    BY <1>0, <2>1, <2>2
  <2>4. \A n \in 1..Len(stack) :
          /\ n + 1 \in 1..Len(stack')
          /\ stack'[n + 1].in = stack[n].in /\ stack'[n + 1].user = stack[n].user
    BY <1>0, <2>2, <2>3
  <2>5. \A n \in 1..Len(stack') : stack'[n].in = "run" =>
          n - 1 \in 1..Len(stack) /\ stack[n - 1].in = "run"
    BY <1>0, <2>1, <2>2, <2>3
  <2> QED
    BY <1>0, <1>2, <1>5, <2>2, <2>4, <2>5
<1>6. ASSUME online # 0, online' = online, Top.in = "signup", Becomes(Menu("login"))
      PROVE  RightUser'
  <2>1. Menu("login") \in Call /\ Menu("login").in = "login"
    BY DEF Menu, Call, Menus, Steps, Fields
  <2>2. /\ stack' \in Seq(Call) /\ Len(stack') = Len(stack)
        /\ stack'[1].in = "login" /\ stack[1].in = "signup"
        /\ \A n \in 2..Len(stack) : stack'[n] = stack[n]
    BY <1>0, <1>6, <2>1, BecomesShape
  <2> QED
    BY <1>0, <1>2, <1>6, <2>2
<1>7. ASSUME online # 0, online' = online, Top.in \in {"signup", "login"}, Returns
      PROVE  RightUser'
  <2>1. /\ stack' \in Seq(Call) /\ Len(stack') = Len(stack) - 1
        /\ stack[1].in # "run"
        /\ \A n \in 1..(Len(stack) - 1) : stack'[n] = stack[n + 1]
    BY <1>0, <1>7, ReturnsShape
  <2>2. \A n \in 1..Len(stack) : stack[n].in = "run" =>
          /\ n + (-1) \in 1..Len(stack')
          /\ stack'[n + (-1)].in = "run" /\ stack'[n + (-1)].user = stack[n].user
    BY <1>0, <2>1
  <2>3. \A n \in 1..Len(stack') : stack'[n].in = "run" =>
          n - (-1) \in 1..Len(stack) /\ stack[n - (-1)].in = "run"
    BY <1>0, <2>1
  <2> QED
    BY <1>0, <1>2, <1>7, <2>1, <2>2, <2>3
<1>8. CASE online = 0 /\ online' = online
  BY <1>8 DEF RightUser
<1>9. CASE online' = 0
  BY <1>9 DEF RightUser
<1> QED
  BY <1>0, <1>1, <1>3, <1>4, <1>5, <1>6, <1>7, <1>8, <1>9, OnlineSteps

\* While the server has a login, the innermost run loop is the one of that
\* login, so that what is sent is sent in its user's name (chat_ui.c 452, 755).
THEOREM RightUserAlways == Spec => []RightUser
<1>1. Init => RightUser
  BY DEF Init, RightUser
<1>2. Stacked /\ RightUser /\ [Next]_vars => RightUser'
  BY RightUserStep
<1> QED
  BY <1>1, <1>2, StackedAlways, PTL DEF Spec

-----------------------------------------------------------------------------
(* Fields that fail the check.                                             *)

\* A menu whose next submission is of such fields, or of the name login.
Doubtful(c) ==
  /\ c.in \in {"signup", "login"} /\ c.at # "await"
  /\ FailsCheck(c.fields) \/ c.loginName

\* It is reached only by a return, which follows a refusal.
DoubtfulInv ==
  Doubtful(Top) => Number > 0 /\ sent[Number].outcome = "refused"

LEMMA MenuNotDoubtful == \A m \in Menus : ~Doubtful(Menu(m))
BY DEF Doubtful, Menu, FailsCheck

\* The new innermost call.
LEMMA NewTop ==
  ASSUME TypeOK, NEW c \in Call
  PROVE  /\ Becomes(c) => Top' = c
         /\ \A m \in Menus : Calls(c, m) => Top' = Menu(m)
<1>0. stack \in Seq(Call) /\ stack # <<>>
  BY DEF TypeOK
<1>1. ASSUME Becomes(c) PROVE Top' = c
  <2>1. stack' \in Seq(Call) /\ Len(stack') = Len(stack) /\ stack'[1] = c
    BY <1>0, <1>1, BecomesShape
  <2> QED
    BY <1>0, <2>1 DEF Top
<1>2. ASSUME NEW m \in Menus, Calls(c, m) PROVE Top' = Menu(m)
  <2>1. stack' \in Seq(Call) /\ stack'[1] = Menu(m)
    BY <1>0, <1>2, CallsShape
  <2> QED
    BY <2>1 DEF Top
<1> QED
  BY <1>1, <1>2

\* Checked fields are not doubtful, and no field makes a call doubtful that
\* has not been.
LEMMA CheckNotDoubtful ==
  ASSUME TypeOK, NEW f \in Fields, Check(f, Top), Top.in \in {"signup", "login"},
         Top.at # "await"
  PROVE  Doubtful(Top)' => Doubtful(Top)
<1> DEFINE next == [Top EXCEPT !.at = "submit", !.fields = f]
<1>1. Top \in Call
  BY TopType
<1>2. /\ next \in Call /\ next.in = Top.in /\ next.fields = f
      /\ next.loginName = Top.loginName
  BY <1>1, StepNames DEF Call
<1>3. CASE FailsCheck(f)
  <2>1. Calls(next, Top.in)
    BY <1>2, <1>3 DEF Check
  <2>2. Top' = Menu(Top.in)
    <3> HIDE DEF next
    <3> QED
      BY <1>2, <2>1, NewTop DEF Menus
  <2> QED
    BY <2>2, MenuNotDoubtful DEF Menus, Doubtful
<1>4. CASE ~FailsCheck(f)
  <2>1. Becomes(next)
    BY <1>4 DEF Check
  <2>2. Top' = next
    <3> HIDE DEF next
    <3> QED
      BY <1>2, <2>1, NewTop
  <2>3. Doubtful(Top)' => next.loginName
    <3> HIDE DEF next
    <3> QED
      BY <1>2, <1>4, <2>2 DEF Doubtful
  <2> QED
    BY <1>2, <2>3 DEF Doubtful
<1> QED
  BY <1>3, <1>4

\* A step that is neither a submission nor a response.
LEMMA QuietSteps ==
  ASSUME TypeOK, [Next]_vars, UNCHANGED sent,
         ~(SignupReply \/ LoginReply \/ LogoutReply)
  PROVE  Doubtful(Top)' => Doubtful(Top)
<1>0. Top \in Call
  BY TopType
<1>1. CASE UNCHANGED stack
  BY <1>1 DEF Top, Doubtful
<1>2. CASE Key
  <2>1. \E m \in Menus : Calls(Top, m)
    BY <1>2 DEF Key, Menus
  <2> QED
    BY <1>0, <2>1, NewTop, MenuNotDoubtful DEF Doubtful
<1>3. CASE TypeSignup \/ TypeLogin
  <2>1. /\ Top.in \in {"signup", "login"} /\ Top.at # "await"
        /\ \E f \in Fields : Check(f, Top)
    BY <1>3 DEF TypeSignup, TypeLogin, At
  <2> QED
    BY <2>1, CheckNotDoubtful
<1>4. CASE TypeLoginName
  <2> DEFINE c == [Top EXCEPT !.at = "rest", !.loginName = TRUE]
  <2>1. c \in Call /\ Calls(c, "login")
    BY <1>0, <1>4, GoneOn, StepNames DEF TypeLoginName
  <2>2. "login" \in Menus
    BY DEF Menus
  <2> HIDE DEF c
  <2> QED
    BY <2>1, <2>2, NewTop, MenuNotDoubtful DEF Doubtful
<1>5. ASSUME NEW s \in Steps, Top.in = "run", Becomes([Top EXCEPT !.at = s])
      PROVE  ~Doubtful(Top)'
  <2> DEFINE c == [Top EXCEPT !.at = s]
  <2>1. c \in Call /\ c.in = "run"
    BY <1>0, <1>5 DEF Call
  <2>2. Top' = c
    <3> HIDE DEF c
    <3> QED
      BY <1>5, <2>1, NewTop DEF c
  <2> QED
    BY <2>1, <2>2 DEF Doubtful
<1>6. CASE StartRun \/ Finish
  BY <1>5, <1>6, StepNames DEF StartRun, Finish, At
<1>7. CASE Submit \/ Enter
  <2>1. ~Send
    BY DEF Send, TypeOK
  <2> QED
    BY <1>1, <1>7, <2>1 DEF Submit, Enter
<1>8. CASE Type \/ Collapse \/ UNCHANGED vars
  BY <1>1, <1>8 DEF Type, Collapse, vars
<1> QED
  BY <1>2, <1>3, <1>4, <1>6, <1>7, <1>8 DEF Next

\* A submission.
LEMMA SendStep ==
  ASSUME Stacked, AfterRefusal, DoubtfulInv, Send, Top.at # "await", Top.in # "menu"
  PROVE  AfterRefusal' /\ DoubtfulInv'
<1>0. /\ TypeOK /\ Top \in Call /\ sent \in Seq(Command)
      /\ Number \in Nat /\ Number = Len(sent)
  BY TopType DEF Stacked, TypeOK, Number
<1> DEFINE c == [Top EXCEPT !.at = "await"]
<1>1. c \in Call /\ c.at = "await"
  BY <1>0, GoneOn, StepNames
<1>2. Top' = c
  <2> HIDE DEF c
  <2> QED
    BY <1>0, <1>1, NewTop DEF Send, c
<1>3. DoubtfulInv'
  BY <1>1, <1>2 DEF DoubtfulInv, Doubtful
<1>4. /\ Len(sent') = Number + 1
      /\ \A n \in 1..Number : sent'[n] = sent[n]
      /\ sent'[Number + 1].kind = Top.in
      /\ sent'[Number + 1].fields = Top.fields
      /\ sent'[Number + 1].loginName = Top.loginName
      /\ DOMAIN sent' = 1..(Number + 1)
  BY <1>0 DEF Send
<1>5. Top.in \in {"run", "signup", "login"}
  BY <1>0 DEF Call, Menus
<1>6. ASSUME NEW n \in DOMAIN sent', sent'[n].kind # "run",
             FailsCheck(sent'[n].fields) \/ sent'[n].loginName
      PROVE  n > 1 /\ sent'[n - 1].outcome = "refused"
  <2>1. CASE n = Number + 1
    <3>1. Doubtful(Top)
      BY <1>4, <1>5, <1>6, <2>1 DEF Doubtful
    <3>2. Number > 0 /\ sent[Number].outcome = "refused"
      BY <3>1 DEF DoubtfulInv
    <3> QED
      BY <1>0, <1>4, <2>1, <3>2
  <2>2. CASE n # Number + 1
    <3>1. n \in 1..Number
      BY <1>0, <1>4, <2>2
    <3>2. n > 1 /\ sent[n - 1].outcome = "refused"
      BY <1>0, <1>4, <1>6, <3>1 DEF AfterRefusal
    <3> QED
      BY <1>0, <1>4, <3>1, <3>2
  <2> QED
    BY <2>1, <2>2
<1> QED
  BY <1>3, <1>6 DEF AfterRefusal

\* A response.
LEMMA OutcomeStep ==
  ASSUME Stacked, AfterRefusal, NEW m \in Menus, NEW o \in Outcomes, Outcome(m, o),
         Number > 0, o = "refused" \/ ~Doubtful(Top)'
  PROVE  AfterRefusal' /\ DoubtfulInv'
<1>0. TypeOK /\ sent \in Seq(Command) /\ Number \in Nat /\ Number = Len(sent)
  BY DEF Stacked, TypeOK, Number
<1>1. sent' = [sent EXCEPT ![Number].outcome = o]
  BY DEF Outcome
<1>2. sent' = [sent EXCEPT ![Number] = [sent[Number] EXCEPT !.outcome = o]]
  BY <1>1, Zenon
<1> DEFINE c == [sent[Number] EXCEPT !.outcome = o]
<1>3. /\ Len(sent') = Number /\ DOMAIN sent' = 1..Number
      /\ \A n \in 1..Number : n # Number => sent'[n] = sent[n]
      /\ Number > 0 => sent'[Number] = c
  <2>1. sent' = [sent EXCEPT ![Number] = c]
    BY <1>2
  <2> HIDE DEF c
  <2> QED
    BY <1>0, <2>1
<1>4. Number > 0 => /\ c.kind = sent[Number].kind /\ c.fields = sent[Number].fields
                    /\ c.loginName = sent[Number].loginName /\ c.outcome = o
  <2>1. Number > 0 => sent[Number] \in Command
    BY <1>0
  <2> QED
    BY <2>1 DEF Command
<1> HIDE DEF c
<1>5. ASSUME NEW n \in 1..Number, sent'[n].kind # "run",
             FailsCheck(sent'[n].fields) \/ sent'[n].loginName
      PROVE  n > 1 /\ sent'[n - 1].outcome = "refused"
  <2>1. /\ sent[n].kind # "run"
        /\ FailsCheck(sent[n].fields) \/ sent[n].loginName
    <3>1. CASE n = Number
      <4>1. Number > 0 /\ sent'[n] = c
        BY <1>0, <1>3, <3>1
      <4>2. /\ c.kind = sent[n].kind /\ c.fields = sent[n].fields
            /\ c.loginName = sent[n].loginName
        BY <1>4, <3>1, <4>1
      <4> QED
        BY <1>5, <4>1, <4>2
    <3>2. CASE n # Number
      BY <1>3, <1>5, <3>2
    <3> QED
      BY <3>1, <3>2
  <2>2. n > 1 /\ sent[n - 1].outcome = "refused"
    BY <1>0, <2>1 DEF AfterRefusal
  <2>3. n - 1 \in 1..Number /\ n - 1 # Number
    BY <1>0, <2>2
  <2> QED
    BY <1>3, <2>2, <2>3
<1>6. AfterRefusal'
  BY <1>3, <1>5 DEF AfterRefusal
<1>7. DoubtfulInv'
  <2>1. CASE ~Doubtful(Top)'
    BY <2>1 DEF DoubtfulInv
  <2>2. CASE o = "refused"
    <3>1. Number' = Number
      BY <1>3 DEF Number
    <3> QED
      BY <1>3, <1>4, <2>2, <3>1 DEF DoubtfulInv
  <2> QED
    BY <2>1, <2>2
<1> QED
  BY <1>6, <1>7

\* Whoever awaits a response has sent a command.
Awaits == \A n \in 1..Len(stack) : stack[n].at = "await" => Number > 0

LEMMA AwaitsStep ==
  ASSUME Stacked, Awaits, [Next]_vars
  PROVE  Awaits'
<1>0. /\ TypeOK /\ stack \in Seq(Call) /\ stack # <<>>
      /\ Len(stack) \in Nat /\ Len(stack) >= 1 /\ Number \in Nat
  BY TopType DEF Stacked, TypeOK, Number
<1>1. ASSUME Send PROVE Number' > 0
  BY <1>1 DEF Send, Number, Stacked, TypeOK
<1>2. Number' >= Number
  <2>1. CASE UNCHANGED sent
    BY <1>0, <2>1 DEF Number
  <2>2. ASSUME Send PROVE Number' >= Number
    BY <2>2 DEF Send, Number, Stacked, TypeOK
  <2>3. ASSUME NEW m, NEW o, Outcome(m, o) PROVE Number' >= Number
    BY <2>3 DEF Outcome, Number, Stacked, TypeOK
  <2> QED
    BY <2>1, <2>2, <2>3 DEF Next, Key, TypeSignup, TypeLoginName, TypeLogin, Submit, Collapse,
       SignupReply, LoginReply, StartRun, Type, Enter, LogoutReply, Finish, vars
<1>3. Number' \in Nat
  <2>1. Stacked'
    BY StackedStep
  <2> QED
    BY <2>1 DEF Stacked, TypeOK, Number
<1>4. CASE Number' > 0
  BY <1>4 DEF Awaits
<1>5. CASE UNCHANGED stack
  BY <1>0, <1>2, <1>3, <1>5 DEF Awaits
<1>6. ASSUME NEW c \in Call, Becomes(c), c.at # "await" PROVE Awaits'
  <2>1. /\ Len(stack') = Len(stack) /\ stack'[1] = c
        /\ \A n \in 2..Len(stack) : stack'[n] = stack[n]
    BY <1>0, <1>6, BecomesShape
  <2> QED
    BY <1>0, <1>2, <1>3, <1>6, <2>1 DEF Awaits
<1>7. CASE GoesOn
  BY <1>1, <1>4, <1>6, <1>7 DEF GoesOn
<1>8. CASE CallsMenu
  <2>1. PICK c \in Call, m \in {"signup", "login"} : Calls(c, m) /\ c.at # "await"
    BY <1>8 DEF CallsMenu
  <2>2. /\ Len(stack') = Len(stack) + 1
        /\ stack'[1].at = "input" /\ stack'[2] = c
        /\ \A n \in 3..(Len(stack) + 1) : stack'[n] = stack[n - 1]
    BY <1>0, <2>1, CallsShape DEF Menus, Menu
  <2> QED
    BY <1>0, <1>2, <1>3, <2>1, <2>2 DEF Awaits
<1>9. CASE MovesOn
  <2>1. Menu("login") \in Call /\ Menu("login").at # "await"
    BY DEF Menu, Call, Menus, Steps, Fields
  <2>2. /\ [Top EXCEPT !.in = "run", !.at = "start", !.user = Number] \in Call
        /\ [Top EXCEPT !.in = "run", !.at = "start", !.user = Number].at # "await"
    <3>1. Top \in Call
      BY <1>0, TopType
    <3> QED
      BY <1>0, <3>1 DEF Call, Menus, Steps
  <2>3. ASSUME Returns PROVE Awaits'
    <3>1. /\ Len(stack') = Len(stack) - 1
          /\ \A n \in 1..(Len(stack) - 1) : stack'[n] = stack[n + 1]
      BY <1>0, <2>3, ReturnsShape
    <3> QED
      BY <1>0, <1>2, <1>3, <3>1 DEF Awaits
  <2> QED
    BY <1>6, <1>9, <2>1, <2>2, <2>3 DEF MovesOn
<1> QED
  BY <1>0, <1>5, <1>7, <1>8, <1>9, StackSteps

Refusals == Awaits /\ AfterRefusal /\ DoubtfulInv

LEMMA RefusalsInit == Init => Refusals
<1> SUFFICES ASSUME Init PROVE Refusals
  OBVIOUS
<1>1. \A n \in 1..Len(stack) : stack[n].at = "input"
  BY DEF Init, Menu
<1>2. Top = Menu("signup")
  BY DEF Init, Top
<1> QED
  BY <1>1, <1>2, MenuNotDoubtful DEF Refusals, Awaits, AfterRefusal, DoubtfulInv, Init, Menus

LEMMA RefusalsStep ==
  ASSUME Stacked, Refusals, [Next]_vars
  PROVE  Refusals'
<1>0. TypeOK /\ Top \in Call /\ Top = stack[1] /\ Len(stack) >= 1 /\ Len(stack) \in Nat
  BY TopType DEF Stacked
<1>1. Awaits'
  BY AwaitsStep DEF Refusals
<1>2. ASSUME NEW m \in Menus, NEW o \in Outcomes, Outcome(m, o),
             o = "refused" \/ ~Doubtful(Top)'
      PROVE  AfterRefusal' /\ DoubtfulInv'
  <2>1. Number > 0
    BY <1>0, <1>2 DEF Outcome, At, Refusals, Awaits
  <2> QED
    BY <1>2, <2>1, OutcomeStep DEF Refusals
<1>3. {"OK", "refused"} \subseteq Outcomes /\ {"signup", "login", "run"} \subseteq Menus
  BY DEF Outcomes, Menus
<1>4. CASE SignupReply
  <2>1. Menu("login") \in Call
    BY DEF Menu, Call, Menus, Steps, Fields
  <2>2. Becomes(Menu("login")) => ~Doubtful(Top)'
    BY <1>0, <1>3, <2>1, NewTop, MenuNotDoubtful DEF Doubtful
  <2> QED
    BY <1>1, <1>2, <1>3, <1>4, <2>2 DEF SignupReply, Refusals
<1>5. CASE LoginReply
  <2> DEFINE c == [Top EXCEPT !.in = "run", !.at = "start", !.user = Number]
  <2>1. c \in Call /\ c.in = "run"
    <3>1. Number \in Nat
      BY <1>0 DEF Number, TypeOK
    <3> QED
      BY <1>0, <3>1 DEF Call, Menus, Steps
  <2>2. Becomes(c) => ~Doubtful(Top)'
    <3> HIDE DEF c
    <3> QED
      BY <1>0, <2>1, NewTop DEF Doubtful
  <2> QED
    BY <1>1, <1>2, <1>3, <1>5, <2>2 DEF LoginReply, Refusals
<1>6. CASE LogoutReply
  <2> DEFINE c == [Top EXCEPT !.at = "finish"]
  <2>1. c \in Call
    BY <1>0, GoneOn, StepNames
  <2>2. Calls(c, "login") => ~Doubtful(Top)'
    <3> HIDE DEF c
    <3> QED
      BY <1>0, <1>3, <2>1, NewTop, MenuNotDoubtful DEF Doubtful
  <2> QED
    BY <1>1, <1>2, <1>3, <1>6, <2>2 DEF LogoutReply, Refusals
<1>7. ASSUME Send, Top.at # "await", Top.in # "menu" PROVE AfterRefusal' /\ DoubtfulInv'
  BY <1>7, SendStep DEF Refusals
<1>8. ASSUME UNCHANGED sent, ~(SignupReply \/ LoginReply \/ LogoutReply)
      PROVE  AfterRefusal' /\ DoubtfulInv'
  BY <1>0, <1>8, QuietSteps DEF Refusals, AfterRefusal, DoubtfulInv, Number
<1>9. CASE Submit \/ Enter
  <2>1. Top.at # "await" /\ Top.in # "menu" /\ (Send \/ UNCHANGED sent)
    BY <1>9 DEF Submit, Enter, At
  <2> QED
    BY <1>1, <1>4, <1>5, <1>6, <1>7, <1>8, <2>1 DEF Refusals
<1>10. CASE ~(SignupReply \/ LoginReply \/ LogoutReply \/ Submit \/ Enter)
  <2>1. UNCHANGED sent
    BY <1>10 DEF Next, Key, TypeSignup, TypeLoginName, TypeLogin, Collapse,
                 StartRun, Type, Finish, vars
  <2> QED
    BY <1>1, <1>8, <1>10, <2>1 DEF Refusals
<1> QED
  BY <1>1, <1>4, <1>5, <1>6, <1>9, <1>10 DEF Refusals

\* Fields that fail the check, and the user name login, are submitted only
\* right after the refusal of another menu's command (chat_ui.c 310-312,
\* 346-348, 430-432).
THEOREM AfterRefusalAlways == Spec => []AfterRefusal
<1>1. Stacked /\ Refusals /\ [Next]_vars => Refusals'
  BY RefusalsStep
<1>2. Refusals => AfterRefusal
  BY DEF Refusals
<1> QED
  BY <1>1, <1>2, RefusalsInit, StackedAlways, PTL DEF Spec

-----------------------------------------------------------------------------
(* The input line of the chat.                                             *)

RunBelow == \E n \in 2..Len(stack) : InRun(stack[n])

\* The line is the /logout of the chat below until a chat takes input, and
\* again from ENTER on.
ChatLine ==
  /\ ~InRun(Top) \/ Top.at = "start" => line = IF RunBelow THEN "/logout" ELSE "empty"
  /\ InRun(Top) /\ Top.at \in {"await", "finish"} => line = "/logout"

\* A call other than run leaves the line alone.
LEMMA MenusKeepLine ==
  ASSUME [Next]_vars, ~InRun(Top)
  PROVE  line' = line
BY DEF Next, Key, TypeSignup, TypeLoginName, TypeLogin, Submit, Collapse, SignupReply,
       LoginReply, StartRun, Type, Enter, LogoutReply, Finish, vars, At, Outcome, InRun

LEMMA LineInMenu ==
  ASSUME Stacked, ChatLine, [Next]_vars, ~InRun(Top)
  PROVE  ChatLine'
<1>0. /\ TypeOK /\ stack \in Seq(Call) /\ stack # <<>>
      /\ Len(stack) \in Nat /\ Len(stack) >= 1
      /\ Top \in Call /\ Top = stack[1] /\ Number \in Nat
  BY TopType DEF Stacked, TypeOK, Number
<1>1. line' = line /\ line = IF RunBelow THEN "/logout" ELSE "empty"
  BY MenusKeepLine DEF ChatLine
<1>2. ASSUME NEW c \in Call, Becomes(c), c.in # "run" \/ c.at = "start" PROVE ChatLine'
  <2>1. /\ Len(stack') = Len(stack) /\ stack' \in Seq(Call) /\ stack'[1] = c
        /\ \A n \in 2..Len(stack) : stack'[n] = stack[n]
    BY <1>0, <1>2, BecomesShape
  <2>2. Top' = c
    BY <1>0, <1>2, NewTop
  <2>3. RunBelow' <=> RunBelow
    BY <1>0, <2>1 DEF RunBelow, InRun
  <2> QED
    BY <1>1, <1>2, <2>2, <2>3 DEF ChatLine, InRun
<1>3. CASE UNCHANGED stack
  BY <1>1, <1>3 DEF ChatLine, RunBelow, Top
<1>4. CASE GoesOn
  BY <1>2, <1>4 DEF GoesOn, InRun
<1>5. CASE CallsMenu
  <2>1. PICK c \in Call, m \in {"signup", "login"} : Calls(c, m) /\ c.in = Top.in
    BY <1>5 DEF CallsMenu
  <2>2. /\ Len(stack') = Len(stack) + 1 /\ stack'[2] = c
        /\ \A n \in 3..(Len(stack) + 1) : stack'[n] = stack[n - 1]
    BY <1>0, <2>1, CallsShape DEF Menus
  <2>3. Top' = Menu(m)
    BY <1>0, <2>1, NewTop DEF Menus
  <2>4. ~InRun(Top')
    BY <2>3 DEF InRun, Menu
  <2>5. RunBelow' => RunBelow
    <3> SUFFICES ASSUME NEW n \in 2..(Len(stack) + 1), stack'[n].in = "run" PROVE RunBelow
      BY <2>2 DEF RunBelow, InRun
    <3>1. n # 2
      BY <2>1, <2>2 DEF InRun
    <3>2. n - 1 \in 2..Len(stack) /\ stack[n - 1].in = "run"
      BY <1>0, <2>2, <3>1
    <3> QED
      BY <3>2 DEF RunBelow, InRun
  <2>6. RunBelow => RunBelow'
    <3> SUFFICES ASSUME NEW n \in 2..Len(stack), stack[n].in = "run" PROVE RunBelow'
      BY DEF RunBelow, InRun
    <3>1. n + 1 \in 2..Len(stack') /\ stack'[n + 1].in = "run"
      BY <1>0, <2>2
    <3> QED
      BY <3>1 DEF RunBelow, InRun
  <2> QED
    BY <1>1, <2>4, <2>5, <2>6 DEF ChatLine
<1>6. CASE Moves /\ MovesOn
  <2>1. CASE Top.in = "signup" /\ Becomes(Menu("login"))
    <3>1. Menu("login") \in Call /\ Menu("login").in = "login"
      BY DEF Menu, Call, Menus, Steps, Fields
    <3> QED
      BY <1>2, <2>1, <3>1
  <2>2. CASE Becomes([Top EXCEPT !.in = "run", !.at = "start", !.user = Number])
    <3> DEFINE c == [Top EXCEPT !.in = "run", !.at = "start", !.user = Number]
    <3>1. c \in Call /\ c.at = "start"
      BY <1>0 DEF Call, Menus, Steps
    <3> HIDE DEF c
    <3> QED
      BY <1>2, <2>2, <3>1 DEF c
  <2>3. CASE Top.in \in {"signup", "login"} /\ Returns
    <3>1. /\ stack' \in Seq(Call) /\ Len(stack') = Len(stack) - 1
          /\ \A n \in 1..(Len(stack) - 1) : stack'[n] = stack[n + 1]
      BY <1>0, <2>3, ReturnsShape
    <3>2. Len(stack) >= 2
      BY <1>0, <2>3 DEF Stacked, Shape
    <3>3. Top' = stack[2]
      BY <1>0, <3>1, <3>2 DEF Top
    <3>4. CASE stack[2].in = "run"
      <4>1. RunBelow
        BY <1>0, <3>2, <3>4 DEF RunBelow, InRun
      <4>2. Top'.at = "finish"
        BY <1>0, <3>2, <3>3, <3>4 DEF Stacked, Shape
      <4> QED
        BY <1>1, <3>3, <3>4, <4>1, <4>2 DEF ChatLine, InRun
    <3>5. CASE stack[2].in # "run"
      <4>1. RunBelow' => RunBelow
        BY <1>0, <3>1 DEF RunBelow, InRun
      <4>2. RunBelow => RunBelow'
        <5> SUFFICES ASSUME NEW n \in 2..Len(stack), stack[n].in = "run" PROVE RunBelow'
          BY DEF RunBelow, InRun
        <5>1. n - 1 \in 2..Len(stack') /\ stack'[n - 1].in = "run"
          BY <1>0, <3>1, <3>5
        <5> QED
          BY <5>1 DEF RunBelow, InRun
      <4> QED
        BY <1>1, <3>3, <3>5, <4>1, <4>2 DEF ChatLine, InRun
    <3> QED
      BY <3>4, <3>5
  <2> QED
    BY <1>6, <2>1, <2>2, <2>3 DEF MovesOn
<1> QED
  BY <1>0, <1>3, <1>4, <1>5, <1>6, StackSteps

LEMMA LineInRun ==
  ASSUME Stacked, ChatLine, [Next]_vars, InRun(Top)
  PROVE  ChatLine'
<1>0. /\ TypeOK /\ stack \in Seq(Call) /\ stack # <<>>
      /\ Len(stack) \in Nat /\ Len(stack) >= 1 /\ Top \in Call /\ Top.in = "run"
  BY TopType DEF Stacked, TypeOK, InRun
<1>1. ASSUME NEW s \in {"input", "await", "finish"}, Becomes([Top EXCEPT !.at = s]),
             s # "input" => line' = "/logout"
      PROVE  ChatLine'
  <2> DEFINE c == [Top EXCEPT !.at = s]
  <2>1. c \in Call /\ c.in = "run" /\ c.at = s
    BY <1>0, <1>1 DEF Call, Steps
  <2>2. Top' = c
    <3> HIDE DEF c
    <3> QED
      BY <1>0, <1>1, <2>1, NewTop DEF c
  <2> HIDE DEF c
  <2> QED
    BY <1>1, <2>1, <2>2 DEF ChatLine, InRun
<1>2. CASE LogoutReply
  <2>1. line' = "/logout"
    BY <1>2 DEF LogoutReply, Outcome, At, ChatLine, InRun
  <2>2. CASE Calls([Top EXCEPT !.at = "finish"], "login")
    <3> DEFINE c == [Top EXCEPT !.at = "finish"]
    <3>1. c \in Call /\ c.in = "run"
      BY <1>0 DEF Call, Steps
    <3> HIDE DEF c
    <3>2. stack'[2] = c /\ Len(stack') >= 2 /\ Len(stack') \in Nat
      BY <1>0, <2>2, <3>1, CallsShape DEF c, Menus
    <3>3. Top' = Menu("login")
      BY <1>0, <2>2, <3>1, NewTop DEF c, Menus
    <3>4. RunBelow' /\ ~InRun(Top')
      BY <3>1, <3>2, <3>3 DEF RunBelow, InRun, Menu
    <3> QED
      BY <2>1, <3>4 DEF ChatLine
  <2> QED
    BY <1>1, <1>2, <2>1, <2>2 DEF LogoutReply
<1>3. CASE StartRun \/ Finish
  BY <1>1, <1>3 DEF StartRun, Finish
<1>4. CASE Enter /\ Send
  BY <1>1, <1>4 DEF Enter, Send, At
<1>5. CASE Type \/ (Enter /\ UNCHANGED stack)
  <2>1. Top.at = "input" /\ Top' = Top
    BY <1>5 DEF Type, Enter, At, Top
  <2> QED
    BY <1>0, <2>1 DEF ChatLine, InRun
<1>6. CASE Collapse \/ UNCHANGED vars
  BY <1>6 DEF Collapse, vars, ChatLine, RunBelow, Top
<1> QED
  BY <1>0, <1>2, <1>3, <1>4, <1>5, <1>6 DEF Next, Key, TypeSignup, TypeLoginName, TypeLogin,
     Submit, SignupReply, LoginReply, Enter, Outcome, At

\* The line of a chat that begins is empty, but after a logout it is the
\* /logout of the chat below (chat_ui.c 553-563).
THEOREM StartLineAlways == Spec => []StartLine
<1>1. Init => ChatLine
  <2> SUFFICES ASSUME Init PROVE ChatLine
    OBVIOUS
  <2>1. Top.in = "signup" /\ ~RunBelow /\ line = "empty"
    BY DEF Init, Top, Menu, RunBelow, InRun
  <2> QED
    BY <2>1 DEF ChatLine, InRun
<1>2. Stacked /\ ChatLine /\ [Next]_vars => ChatLine'
  BY LineInMenu, LineInRun
<1>3. ChatLine => StartLine
  BY DEF ChatLine, StartLine, RunBelow, At, InRun
<1> QED
  BY <1>1, <1>2, <1>3, StackedAlways, PTL DEF Spec

-----------------------------------------------------------------------------
(* What is below the innermost run loop.                                   *)

\* A set of natural numbers has a least element: the one that ends the smallest
\* of the intervals 1..i.
LEMMA LeastElement ==
  ASSUME NEW S \in SUBSET Nat, S # {}
  PROVE  \E x \in S : \A y \in S : x =< y
<1> DEFINE Upto == {1..i : i \in S}
<1>1. Upto \subseteq FiniteSubsetsOf(Nat) /\ Upto # {}
  <2>1. \A i \in S : 1..i \subseteq Nat /\ IsFiniteSet(1..i)
    BY FS_Interval
  <2>2. \A i \in S : 1..i \in FiniteSubsetsOf(Nat)
    BY <2>1 DEF FiniteSubsetsOf
  <2> QED
    BY <2>2
<1>2. PICK X \in Upto : \A Y \in Upto : ~(<<Y, X>> \in StrictSubsetOrdering(Nat))
  <2> HIDE DEF Upto
  <2> QED
    BY <1>1, FS_StrictSubsetOrderingWellFounded, WFMin
<1>3. PICK x \in S : X = 1..x
  OBVIOUS
<1>4. ASSUME NEW y \in S, y < x PROVE FALSE
  <2>1. 1..y \in Upto /\ 1..y \subseteq 1..x /\ 1..y # 1..x
    BY <1>4
  <2>2. <<1..y, 1..x>> \in StrictSubsetOrdering(Nat)
    BY <2>1 DEF StrictSubsetOrdering
  <2> QED
    BY <1>2, <1>3, <2>1, <2>2
<1> QED
  BY <1>4

\* SelectInSeq finds the innermost run loop, if there is one.
LEMMA InnermostRun ==
  ASSUME NEW s \in Seq(Call)
  PROVE  LET k == SelectInSeq(s, InRun)
         IN /\ k \in 0..Len(s)
            /\ k # 0 => InRun(s[k]) /\ \A m \in 1..(k - 1) : ~InRun(s[m])
            /\ k = 0 => \A m \in 1..Len(s) : ~InRun(s[m])
<1> DEFINE I == {i \in 1..Len(s) : InRun(s[i])}
<1>1. SelectInSeq(s, InRun) = IF I # {} THEN Min(I) ELSE 0
  BY DEF SelectInSeq
<1>2. CASE I # {}
  <2>1. I \in SUBSET Nat
    OBVIOUS
  <2>2. \E x \in I : \A y \in I : x =< y
    BY <1>2, <2>1, LeastElement
  <2>3. Min(I) \in I /\ \A y \in I : Min(I) =< y
    BY <2>2 DEF Min
  <2>4. SelectInSeq(s, InRun) \in I /\ \A y \in I : SelectInSeq(s, InRun) =< y
    BY <1>1, <1>2, <2>3, Zenon
  <2> DEFINE k == SelectInSeq(s, InRun)
  <2> HIDE DEF k
  <2>5. k \in 1..Len(s) /\ InRun(s[k]) /\ \A m \in 1..Len(s) : InRun(s[m]) => k =< m
    BY <2>4, Zenon DEF k
  <2>6. k \in 0..Len(s) /\ k # 0 /\ \A m \in 1..(k - 1) : ~InRun(s[m])
    BY <2>5
  <2> QED
    BY <2>5, <2>6, Zenon DEF k
<1>3. CASE I = {}
  <2>1. SelectInSeq(s, InRun) = 0
    BY <1>1, <1>3, Zenon
  <2>2. \A m \in 1..Len(s) : ~InRun(s[m])
    BY <1>3
  <2> QED
    BY <2>1, <2>2
<1> QED
  BY <1>2, <1>3

\* Sequences that agree from the end on.
LEMMA TailSuffix ==
  ASSUME NEW s \in Seq(Call), NEW t \in Seq(Call), NEW i \in 0..Len(s), NEW j \in 0..Len(t),
         Len(s) - i <= Len(t) - j,
         \A m \in 0..(Len(s) - i - 1) : t[Len(t) - m] = s[Len(s) - m]
  PROVE  IsSuffix(SubSeq(s, 1 + i, Len(s)), SubSeq(t, 1 + j, Len(t)))
<1> DEFINE a == SubSeq(s, 1 + i, Len(s))
           b == SubSeq(t, 1 + j, Len(t))
<1>1. /\ a \in Seq(Call) /\ Len(a) = Len(s) - i /\ Len(s) \in Nat
      /\ \A m \in 1..Len(a) : a[m] = s[i + m]
  OBVIOUS
<1>2. /\ b \in Seq(Call) /\ Len(b) = Len(t) - j /\ Len(t) \in Nat
      /\ \A m \in 1..Len(b) : b[m] = t[j + m]
  OBVIOUS
<1> HIDE DEF a, b
<1>3. /\ Reverse(a) = [m \in 1..Len(a) |-> a[(Len(a) - m) + 1]]
      /\ Reverse(b) = [m \in 1..Len(b) |-> b[(Len(b) - m) + 1]]
  BY DEF Reverse
<1>4. /\ Reverse(a) \in Seq(Call) /\ Len(Reverse(a)) = Len(a)
      /\ Reverse(b) \in Seq(Call) /\ Len(Reverse(b)) = Len(b)
  <2>1. Len(a) \in Nat /\ \A m \in 1..Len(a) : a[(Len(a) - m) + 1] \in Call
    BY <1>1
  <2>2. Len(b) \in Nat /\ \A m \in 1..Len(b) : b[(Len(b) - m) + 1] \in Call
    BY <1>2
  <2>3. Reverse(a) \in Seq(Call) /\ Len(Reverse(a)) = Len(a)
    BY <1>3, <2>1
  <2>4. Reverse(b) \in Seq(Call) /\ Len(Reverse(b)) = Len(b)
    BY <1>3, <2>2
  <2> QED
    BY <2>3, <2>4
<1>5. \A m \in 1..Len(a) : Reverse(a)[m] = Reverse(b)[m]
  <2> SUFFICES ASSUME NEW m \in 1..Len(a) PROVE Reverse(a)[m] = Reverse(b)[m]
    OBVIOUS
  <2>1. Reverse(a)[m] = s[Len(s) - (m - 1)]
    <3>1. (Len(a) - m) + 1 \in 1..Len(a) /\ i + ((Len(a) - m) + 1) = Len(s) - (m - 1)
      BY <1>1
    <3> QED
      BY <1>1, <1>3, <3>1
  <2>2. Reverse(b)[m] = t[Len(t) - (m - 1)]
    <3>1. (Len(b) - m) + 1 \in 1..Len(b) /\ j + ((Len(b) - m) + 1) = Len(t) - (m - 1)
      BY <1>1, <1>2
    <3>2. m \in 1..Len(b)
      BY <1>1, <1>2
    <3> QED
      BY <1>2, <1>3, <3>1, <3>2
  <2>3. m - 1 \in 0..(Len(s) - i - 1)
    BY <1>1
  <2> QED
    BY <2>1, <2>2, <2>3
<1>6. SubSeq(Reverse(a), 1, Len(a)) = SubSeq(Reverse(b), 1, Len(a))
  <2>1. Len(a) \in Nat /\ Len(a) <= Len(b)
    BY <1>1, <1>2
  <2> DEFINE p == Reverse(a)
             q == Reverse(b)
  <2>2. p \in Seq(Call) /\ q \in Seq(Call) /\ Len(p) = Len(a) /\ Len(q) = Len(b)
    BY <1>4
  <2>3. \A m \in 1..Len(a) : p[m] = q[m]
    BY <1>5
  <2> HIDE DEF p, q
  <2>4. SubSeq(p, 1, Len(a)) = SubSeq(q, 1, Len(a))
    BY <2>1, <2>2, <2>3
  <2> QED
    BY <2>4 DEF p, q
<1>7. IsSuffix(a, b)
  BY <1>1, <1>2, <1>4, <1>6 DEF IsSuffix, IsPrefix
<1> QED
  BY <1>7 DEF a, b

\* A step that keeps what is below the innermost call, and a run loop.
LEMMA BaseKept ==
  ASSUME stack \in Seq(Call), stack' \in Seq(Call), SelectInSeq(stack, InRun) # 0,
         NEW d \in {-1, 0, 1}, Len(stack') = Len(stack) + d,
         \A n \in 2..Len(stack) : stack'[n + d] = stack[n],
         InRun(stack[1]) => d >= 0 /\ InRun(stack'[1 + d])
  PROVE  IsSuffix(Base(stack), Base(stack'))
<1> DEFINE k == SelectInSeq(stack, InRun)
           j == SelectInSeq(stack', InRun)
<1>1. k \in 0..Len(stack) /\ InRun(stack[k]) /\ k # 0
  BY InnermostRun
<1>2. /\ j \in 0..Len(stack')
      /\ j # 0 => \A m \in 1..(j - 1) : ~InRun(stack'[m])
      /\ j = 0 => \A m \in 1..Len(stack') : ~InRun(stack'[m])
  BY InnermostRun
<1> HIDE DEF k, j
<1>3. k + d \in 1..Len(stack') /\ InRun(stack'[k + d])
  <2>1. CASE k = 1
    BY <1>1, <2>1
  <2>2. CASE k # 1
    BY <1>1, <2>2
  <2> QED
    BY <2>1, <2>2
<1>4. j <= k + d
  BY <1>1, <1>2, <1>3
<1>5. \A m \in 0..(Len(stack) - k - 1) : stack'[Len(stack') - m] = stack[Len(stack) - m]
  <2> SUFFICES ASSUME NEW m \in 0..(Len(stack) - k - 1)
               PROVE  stack'[Len(stack') - m] = stack[Len(stack) - m]
    OBVIOUS
  <2>1. Len(stack) - m \in 2..Len(stack) /\ (Len(stack) - m) + d = Len(stack') - m
    BY <1>1
  <2> QED
    BY <2>1
<1>6. Len(stack) - k <= Len(stack') - j
  BY <1>1, <1>2, <1>4
<1> QED
  BY <1>1, <1>2, <1>5, <1>6, TailSuffix DEF Base, k, j

LEMMA BaseStep ==
  ASSUME Stacked, [Next]_vars, SelectInSeq(stack, InRun) # 0
  PROVE  IsSuffix(Base(stack), Base(stack'))
<1>0. /\ TypeOK /\ stack \in Seq(Call) /\ stack # <<>>
      /\ Len(stack) \in Nat /\ Len(stack) >= 1
      /\ Top \in Call /\ Top = stack[1] /\ Number \in Nat
  BY TopType DEF Stacked, TypeOK, Number
<1>1. ASSUME NEW c \in Call, Becomes(c), InRun(stack[1]) => InRun(c)
      PROVE  IsSuffix(Base(stack), Base(stack'))
  <2>1. /\ stack' \in Seq(Call) /\ Len(stack') = Len(stack) /\ stack'[1] = c
        /\ \A n \in 2..Len(stack) : stack'[n] = stack[n]
    BY <1>0, <1>1, BecomesShape
  <2>2. /\ Len(stack') = Len(stack) + 0
        /\ \A n \in 2..Len(stack) : stack'[n + 0] = stack[n]
        /\ InRun(stack[1]) => InRun(stack'[1 + 0])
    BY <1>0, <1>1, <2>1
  <2> QED
    BY <1>0, <2>1, <2>2, BaseKept
<1>2. CASE UNCHANGED stack
  <2>1. /\ stack' \in Seq(Call) /\ Len(stack') = Len(stack) + 0
        /\ \A n \in 2..Len(stack) : stack'[n + 0] = stack[n]
        /\ InRun(stack[1]) => InRun(stack'[1 + 0])
    BY <1>0, <1>2
  <2> QED
    BY <1>0, <2>1, BaseKept
<1>3. CASE GoesOn
  BY <1>0, <1>1, <1>3 DEF GoesOn, InRun
<1>4. CASE CallsMenu
  <2>1. PICK c \in Call, m \in {"signup", "login"} : Calls(c, m) /\ c.in = stack[1].in
    BY <1>0, <1>4 DEF CallsMenu
  <2>2. /\ stack' \in Seq(Call) /\ Len(stack') = Len(stack) + 1 /\ stack'[2] = c
        /\ \A n \in 3..(Len(stack) + 1) : stack'[n] = stack[n - 1]
    BY <1>0, <2>1, CallsShape DEF Menus
  <2>3. /\ \A n \in 2..Len(stack) : stack'[n + 1] = stack[n]
        /\ InRun(stack[1]) => InRun(stack'[1 + 1])
    BY <1>0, <2>1, <2>2 DEF InRun
  <2> QED
    BY <1>0, <2>2, <2>3, BaseKept
<1>5. CASE Moves /\ MovesOn
  <2>1. CASE \E c \in Call : Becomes(c) /\ ~InRun(stack[1])
    BY <1>1, <2>1
  <2>2. CASE ~InRun(stack[1]) /\ Returns
    <3>1. /\ stack' \in Seq(Call) /\ Len(stack') = Len(stack) + (-1)
          /\ \A n \in 2..Len(stack) : stack'[n + (-1)] = stack[n]
      BY <1>0, <2>2, ReturnsShape
    <3> QED
      BY <1>0, <2>2, <3>1, BaseKept
  <2> QED
    BY <1>0, <1>5, <2>1, <2>2, MovedOn DEF InRun
<1> QED
  BY <1>0, <1>2, <1>3, <1>4, <1>5, StackSteps

\* The calls below the innermost run loop are never returned to: they stay, and
\* whoever logs in again adds to them (chat_ui.c 228-250).
THEOREM BaseOnlyGrows == Spec => BaseGrows
<1>1. Stacked /\ [Next]_vars =>
        [SelectInSeq(stack, InRun) # 0 => IsSuffix(Base(stack), Base(stack'))]_vars
  BY BaseStep
<1> QED
  BY <1>1, StackedAlways, PTL DEF Spec, BaseGrows
=============================================================================
