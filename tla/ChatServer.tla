----------------------------- MODULE ChatServer -----------------------------
(***************************************************************************)
(* The chat server at the other end of the connection.  It is not part of  *)
(* the repository: what it may send is what the client's handlers expect.  *)
(* It answers the frames of a client one by one in the order they arrive,  *)
(* each with a success or a failure code, and pushes messages to a client  *)
(* that is logged in whenever it likes.                                    *)
(***************************************************************************)
EXTENDS ChatWire

CONSTANT MaxPushes   \* bound: messages the server pushes in a session

ASSUME ServerAssumption == MaxPushes \in Nat

VARIABLES
  online,   \* the user is logged in
  members,  \* the channels this session's user has been put in
  forgot,   \* some were forgotten at a logout, or are another user's
  pushes,   \* messages pushed so far
  acked     \* the last message acknowledged

serverVars == <<online, members, forgot, pushes, acked>>

ServerTypeOK ==
  /\ online \in BOOLEAN
  /\ members \subseteq Names
  /\ forgot \in BOOLEAN
  /\ pushes \in Nat
  /\ acked \in Nat

ServerInit ==
  /\ online = FALSE
  /\ members = {}
  /\ forgot = FALSE
  /\ pushes = 0
  /\ acked = 0

-----------------------------------------------------------------------------
Response(r, ok, size) ==
  [op |-> Opcode[r.kind], code |-> IF ok THEN "ok" ELSE "err", id |-> r.id,
   size |-> size, intact |-> TRUE]

Pushed(n, size) ==
  [op |-> "CREATE MESSAGE", code |-> "msg", id |-> n, size |-> size, intact |-> TRUE]

\* What the channels of a user can be after a response.  A user leaves the
\* channel that is named and no other.  After a logout the server may have
\* forgotten some, or the next login is another user's, who is in fewer.
Granted(r, ok, m) ==
  CASE ok /\ r.kind \in {"create", "join"} -> {m \cup {r.chan}}
    [] ok /\ r.kind = "leave"              -> {m \ {r.chan}}
    [] ok /\ r.kind = "logout"             -> SUBSET m
    [] OTHER                               -> {m}

\* Only the response to a login carries a list, and is of more than one cell.
ResponseSizes(r, ok) == IF ok /\ r.kind = "login" THEN ListSizes ELSE {1}

Answer(ok, size) ==
  /\ clientUp
  /\ toServer # <<>>
  /\ LET r == Head(toServer)
     IN /\ r.tag = "request"
        /\ size \in ResponseSizes(r, ok)
        /\ toClient' = Append(toClient, Response(r, ok, size))
        /\ members' \in Granted(r, ok, members)
        /\ forgot' = (forgot \/ (ok /\ r.kind = "logout" /\ members' # members))
        /\ online' = CASE ok /\ r.kind = "login"  -> TRUE
                       [] ok /\ r.kind = "logout" -> FALSE
                       [] OTHER                   -> online
  /\ toServer' = Tail(toServer)
  /\ UNCHANGED <<pushes, acked, cmdPipe, pipe, sem, uiUp, clientUp>>

TakeAck ==
  /\ clientUp
  /\ toServer # <<>>
  /\ Head(toServer).tag = "ack"
  /\ acked' = Head(toServer).id
  /\ toServer' = Tail(toServer)
  /\ UNCHANGED <<online, members, forgot, pushes, toClient, cmdPipe, pipe, sem, uiUp, clientUp>>

Push(size) ==
  /\ clientUp
  /\ online
  /\ pushes < MaxPushes
  /\ pushes' = pushes + 1
  /\ toClient' = Append(toClient, Pushed(pushes + 1, size))
  /\ UNCHANGED <<online, members, forgot, acked, toServer, cmdPipe, pipe, sem, uiUp, clientUp>>
=============================================================================
