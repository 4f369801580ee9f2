---------------------------- MODULE ChatFraming ----------------------------
(***************************************************************************)
(* Frames out of the byte stream of the connection (handle_server in       *)
(* client/src/main.c, deserialize_header in protocol_util.c): a byte of    *)
(* the header, the three that follow, the body, each with dc_read_fully,   *)
(* which takes what has arrived until it has enough.  A ping's header is   *)
(* taken for complete after its first byte.                                *)
(*                                                                         *)
(* The connection may end after any byte.  Then a read finds nothing or    *)
(* fails: a failure to read a header ends the client, all else leaves the  *)
(* buffer as it was and the loop goes on.                                  *)
(***************************************************************************)
EXTENDS WireHeader

CONSTANTS
  Types,       \* types of the server's frames
  Objects,     \* their objects
  Bodies,      \* their bodies
  LeftSizes,   \* body sizes a header that is not filled in may have
  LeftBytes,   \* bytes a buffer that is not filled may have
  MaxFrames,   \* bound: frames of the server
  MaxHandled   \* bound: frames handled

ASSUME FramingAssumption ==
  /\ Types \subseteq Nibble
  /\ Objects \subseteq Byte
  /\ Bodies \subseteq Seq(Byte)
  /\ \A b \in Bodies : Len(b) < 65536
  /\ LeftSizes \subseteq Word /\ LeftSizes # {}
  /\ LeftBytes \subseteq Byte /\ LeftBytes # {}
  /\ MaxFrames \in Nat
  /\ MaxHandled \in Nat

VARIABLES
  sent,     \* the frames of the server
  ends,     \* history: how many bytes there were after each of them
  wire,     \* their bytes
  cut,      \* how many of them come before the connection ends, if it has
  read,     \* how many of the bytes the client has read
  open,     \* the connection has not ended
  at,       \* what the client reads: "header", "rest" or "body"; or "exited"
  buf,      \* what it has of that
  header,   \* binaryHeaderField
  handled   \* the frames given to handle_server_request

vars == <<sent, ends, wire, cut, read, open, at, buf, header, handled>>

-----------------------------------------------------------------------------
NoHeader == [version |-> 0, type |-> 0, object |-> 0, body_size |-> 0]

FrameRecord == [type : Nibble, object : Byte, body : Seq(Byte)]

\* The bytes that reach the client.
Arriving == IF open THEN Len(wire) ELSE cut

TypeOK ==
  /\ sent \in Seq(FrameRecord)
  /\ ends \in Seq(Nat)
  /\ wire \in Seq(Byte)
  /\ cut \in 0..Len(wire)
  /\ read \in 0..Arriving
  /\ open \in BOOLEAN
  /\ at \in {"header", "rest", "body", "exited"}
  /\ buf \in Seq(Byte)
  /\ header \in Header
  /\ handled \in Seq(FrameRecord)

Init ==
  /\ sent = <<>>
  /\ ends = <<>>
  /\ wire = <<>>
  /\ cut = 0
  /\ read = 0
  /\ open = TRUE
  /\ at = "header"
  /\ buf = <<>>
  /\ header = NoHeader
  /\ handled = <<>>

-----------------------------------------------------------------------------
(* The server.                                                             *)

ServerSend ==
  /\ open
  /\ Len(sent) < MaxFrames
  /\ \E t \in Types, o \in Objects, b \in Bodies :
       /\ sent' = Append(sent, [type |-> t, object |-> o, body |-> b])
       /\ wire' = wire \o Frame(t, o, b)
  /\ ends' = Append(ends, Len(wire'))
  /\ UNCHANGED <<cut, read, open, at, buf, header, handled>>

\* The server closes the connection, or ends, or is cut off in a frame: of what
\* the client has not read, any part is lost.
ServerClose ==
  /\ open
  /\ open' = FALSE
  /\ cut' \in read..Len(wire)
  /\ UNCHANGED <<sent, ends, wire, read, at, buf, header, handled>>

-----------------------------------------------------------------------------
(* The client.                                                             *)

\* Mutant of Needed: the terminator of the body is waited for.
NeededOneMore ==
  CASE at = "header" -> 1 [] at = "rest" -> 3 [] at = "body" -> header.body_size + 1
    [] at = "exited" -> 0

Needed ==
  CASE at = "header" -> 1 [] at = "rest" -> 3 [] at = "body" -> header.body_size
    [] at = "exited" -> 0

\* Mutant of Receive: what one read returns is taken for enough.
ReceiveOnce ==
  /\ buf = <<>>
  /\ \E n \in 1..Needed :
       /\ read + n <= Arriving
       /\ buf' = [k \in 1..Needed |-> IF k <= n THEN wire[read + k] ELSE 0]
       /\ read' = read + n
  /\ UNCHANGED <<sent, ends, wire, cut, open, at, header, handled>>

\* One read of dc_read_fully returns some of what it lacks.
Receive ==
  /\ Len(buf) < Needed
  /\ \E n \in 1..(Needed - Len(buf)) :
       /\ read + n <= Arriving
       /\ buf' = buf \o SubSeq(wire, read + 1, read + n)
       /\ read' = read + n
  /\ UNCHANGED <<sent, ends, wire, cut, open, at, header, handled>>

AtEnd == ~open /\ read = Arriving

\* At the end of the connection the rest of the buffer is what it was.
ReceiveEnd ==
  /\ Len(buf) < Needed
  /\ AtEnd
  /\ Len(handled) < MaxHandled
  /\ \E b \in LeftBytes : buf' = buf \o [n \in 1..(Needed - Len(buf)) |-> b]
  /\ UNCHANGED <<sent, ends, wire, cut, read, open, at, header, handled>>

\* The connection is broken: the client exits if it was to read a header.
ReadFails ==
  /\ at = "header" /\ buf = <<>>
  /\ AtEnd
  /\ at' = "exited"
  /\ UNCHANGED <<sent, ends, wire, cut, read, open, buf, header, handled>>

Complete(part) == at = part /\ Len(buf) >= Needed

\* The header is allocated anew; for a ping its other fields are not set.
TakeHeader ==
  /\ Complete("header")
  /\ IF IsPing(TypeOf(buf[1]))
     THEN /\ at' = "body"
          /\ \E o \in Objects, s \in LeftSizes :
               header' = [version |-> VersionOf(buf[1]), type |-> TypeOf(buf[1]),
                          object |-> o, body_size |-> s]
     ELSE /\ at' = "rest"
          /\ header' = [header EXCEPT !.version = VersionOf(buf[1]),
                                      !.type = TypeOf(buf[1])]
  /\ buf' = <<>>
  /\ UNCHANGED <<sent, ends, wire, cut, read, open, handled>>

TakeRest ==
  /\ Complete("rest")
  /\ header' = [header EXCEPT !.object = ObjectOf(buf), !.body_size = SizeOf(buf)]
  /\ at' = "body"
  /\ buf' = <<>>
  /\ UNCHANGED <<sent, ends, wire, cut, read, open, handled>>

\* handle_server_request is called with the header and the body.
Handle ==
  /\ Complete("body")
  /\ handled' = Append(handled, [type |-> header.type, object |-> header.object, body |-> buf])
  /\ at' = "header"
  /\ buf' = <<>>
  /\ UNCHANGED <<sent, ends, wire, cut, read, open, header>>

Client == Receive \/ ReceiveEnd \/ ReadFails \/ TakeHeader \/ TakeRest \/ Handle

Next == ServerSend \/ ServerClose \/ Client

Spec == Init /\ [][Next]_vars

\* The thread is scheduled, and dc_read_fully returns when bytes have come.
FairSpec == Spec /\ WF_vars(Client)

-----------------------------------------------------------------------------
NoPing(n) == \A k \in 1..n : ~IsPing(sent[k].type)

\* Where a frame ends.
End(n) == IF n = 0 THEN 0 ELSE ends[n]

\* A frame comes to its end.
Whole(n) == n <= Len(sent) /\ End(n) <= Arriving

\* Of the frames that come whole, up to the first ping, what is handled is what
\* was sent, frame for frame, however the bytes arrive and wherever the
\* connection ends (main.c 150-187, protocol_util.c 10-57).
FramesKept ==
  \A n \in DOMAIN handled : Whole(n) /\ NoPing(n) => handled[n] = sent[n]

\* The client has not handled the last frame that begins in the bytes there are.
Coming == Len(handled) < Len(sent) /\ End(Len(handled)) <= Arriving

\* Whenever the client begins to read a header, it has read the frames it has
\* handled and no byte more, or, of one that was cut, all there was: no read
\* goes past its frame as long as there is no ping (main.c 150-187).
InStep ==
  NoPing(Len(sent)) /\ at = "header" /\ buf = <<>> =>
    read = IF Coming THEN End(Len(handled)) ELSE Arriving

\* Every frame that comes whole is handled in the end if none is a ping.
AllHandled ==
  \A n \in 1..MaxFrames :
    Len(sent) >= n ~> (Len(handled) >= n \/ ~Whole(n) \/ ~NoPing(Len(sent)))
=============================================================================
