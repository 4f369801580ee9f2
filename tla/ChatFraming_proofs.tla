------------------------- MODULE ChatFraming_proofs -------------------------
(***************************************************************************)
(* Proofs about WireHeader and ChatFraming: what serialize_header writes,  *)
(* deserialize_header reads back, and the client takes the frames that the *)
(* server sent out of the bytes, for any frames and however they arrive.   *)
(***************************************************************************)
EXTENDS ChatFraming, SequenceTheorems, TLAPS

-----------------------------------------------------------------------------
(* The binary header.                                                      *)

\* serialize_header writes four bytes.
LEMMA SerializeType ==
  ASSUME NEW h \in Header
  PROVE  Serialize(h) \in Seq(Byte) /\ Len(Serialize(h)) = 4
<1>1. /\ h.version \in Nibble /\ h.type \in Nibble /\ h.object \in Byte
      /\ h.body_size \in Nat /\ h.body_size < 65536
  BY DEF Header, Word
<1>2. h.version * 16 + h.type \in Byte
  BY <1>1 DEF Byte, Nibble
<1>3. h.body_size \div 256 \in Byte /\ h.body_size % 256 \in Byte
  BY <1>1 DEF Byte
<1> QED
  BY <1>1, <1>2, <1>3 DEF Serialize

\* Two numbers packed as the digits of one are unpacked again.
LEMMA Digits ==
  ASSUME NEW a \in Nat, NEW b \in Nat, NEW m \in {16, 256}, b < m
  PROVE  (a * m + b) \div m = a /\ (a * m + b) % m = b
<1>1. CASE m = 16
  BY <1>1
<1>2. CASE m = 256
  BY <1>2
<1> QED
  BY <1>1, <1>2

\* Every header is read back as it was written, with all of its bits, from the
\* first byte and the three after it (protocol_util.c 10-52).
THEOREM RoundTrip ==
  ASSUME NEW h \in Header
  PROVE  LET b == Serialize(h)
             rest == <<b[2], b[3], b[4]>>
         IN [version |-> VersionOf(b[1]), type |-> TypeOf(b[1]),
             object |-> ObjectOf(rest), body_size |-> SizeOf(rest)] = h
<1>1. /\ h.version \in Nibble /\ h.type \in Nibble
      /\ h.object \in Byte /\ h.body_size \in Nat
  BY DEF Header, Word
<1>2. VersionOf(h.version * 16 + h.type) = h.version /\ TypeOf(h.version * 16 + h.type) = h.type
  BY <1>1, Digits DEF VersionOf, TypeOf, Nibble
<1>3. (h.body_size \div 256) * 256 + (h.body_size % 256) = h.body_size
  BY <1>1
<1>4. h = [version |-> h.version, type |-> h.type, object |-> h.object, body_size |-> h.body_size]
  BY DEF Header
<1>5. LET b == Serialize(h)
          rest == <<b[2], b[3], b[4]>>
      IN /\ VersionOf(b[1]) = h.version /\ TypeOf(b[1]) = h.type
         /\ ObjectOf(rest) = h.object /\ SizeOf(rest) = h.body_size
  BY <1>2, <1>3 DEF Serialize, ObjectOf, SizeOf
<1> QED
  BY <1>4, <1>5

\* No two headers have the same bytes: the four bits of the version and of the
\* type, and the two bytes of the size, do not run into each other.
COROLLARY Unambiguous ==
  ASSUME NEW g \in Header, NEW h \in Header, Serialize(g) = Serialize(h)
  PROVE  g = h
BY RoundTrip

\* What comes after four bytes leaves them as they are.
LEMMA Prefixed ==
  ASSUME NEW b \in Seq(Byte), NEW body \in Seq(Byte), Len(b) = 4
  PROVE  /\ Len(b \o body) = 4 + Len(body)
         /\ (b \o body)[1] = b[1] /\ (b \o body)[2] = b[2]
         /\ (b \o body)[3] = b[3] /\ (b \o body)[4] = b[4]
         /\ (b \o body) \in Seq(Byte)
         /\ \A k \in 1..Len(body) : (b \o body)[4 + k] = body[k]
<1>1. /\ Len(b \o body) = Len(b) + Len(body)
      /\ (b \o body) \in Seq(Byte)
      /\ \A k \in 1 .. Len(b) + Len(body) :
           (b \o body)[k] = IF k <= Len(b) THEN b[k] ELSE body[k - Len(b)]
  BY ConcatProperties
<1>2. Len(body) \in Nat
  OBVIOUS
<1>3. ASSUME NEW k \in 1..Len(body) PROVE (b \o body)[4 + k] = body[k]
  <2>1. 4 + k \in 1 .. Len(b) + Len(body) /\ ~(4 + k <= Len(b)) /\ (4 + k) - Len(b) = k
    BY <1>2
  <2> QED
    BY <1>1, <2>1
<1>4. /\ (b \o body)[1] = b[1] /\ (b \o body)[2] = b[2]
      /\ (b \o body)[3] = b[3] /\ (b \o body)[4] = b[4]
  BY <1>1, <1>2
<1> QED
  BY <1>1, <1>2, <1>3, <1>4

\* A frame is its header and its body, and the size in the header says where it
\* ends, for every body that the 16 bits can give the length of (50-57).
THEOREM FrameEnds ==
  ASSUME NEW t \in Nibble, NEW o \in Byte, NEW body \in Seq(Byte), Len(body) < 65536
  PROVE  LET f == Frame(t, o, body)
             rest == <<f[2], f[3], f[4]>>
         IN /\ TypeOf(f[1]) = t /\ ObjectOf(rest) = o
            /\ Len(f) = 4 + SizeOf(rest)
            /\ SubSeq(f, 5, Len(f)) = body
<1> DEFINE h == HeaderOf(t, o, body)
           b == Serialize(h)
<1>1. Len(body) % 65536 = Len(body)
  OBVIOUS
<1>2. h \in Header /\ h.type = t /\ h.object = o /\ h.body_size = Len(body)
  BY <1>1 DEF HeaderOf, Header, Word, Nibble, DEFAULT_VERSION
<1> HIDE DEF h
<1>3. b \in Seq(Byte) /\ Len(b) = 4
  BY <1>2, SerializeType
<1>4. LET rest == <<b[2], b[3], b[4]>>
      IN [version |-> VersionOf(b[1]), type |-> TypeOf(b[1]),
          object |-> ObjectOf(rest), body_size |-> SizeOf(rest)] = h
  BY <1>2, RoundTrip
<1> HIDE DEF b
<1>5. TypeOf(b[1]) = t /\ ObjectOf(<<b[2], b[3], b[4]>>) = o /\ SizeOf(<<b[2], b[3], b[4]>>) = Len(body)
  BY <1>2, <1>4
<1>6. Frame(t, o, body) = b \o body
  BY DEF Frame, h, b
<1>7. /\ Len(b \o body) = 4 + Len(body)
      /\ (b \o body)[1] = b[1] /\ (b \o body)[2] = b[2]
      /\ (b \o body)[3] = b[3] /\ (b \o body)[4] = b[4]
  BY <1>3, Prefixed
<1>8. SubSeq(b \o body, 5, Len(b \o body)) = body
  BY <1>3, <1>7, SubSeqOfConcat2, SubSeqFull
<1> QED
  BY <1>5, <1>6, <1>7, <1>8

\* Numbers of bytes and parts of bytes.
LEMMA ByteParts ==
  ASSUME NEW x \in Byte, NEW y \in Byte
  PROVE  /\ VersionOf(x) \in Nibble /\ TypeOf(x) \in Nibble
         /\ (x * 256) + y \in Nat /\ (x * 256) + y < 65536
<1>1. x \in Nat /\ y \in Nat /\ x <= 255 /\ y <= 255
  BY DEF Byte
<1>2. x \div 16 \in Nibble
  BY <1>1 DEF Nibble
<1>3. x % 16 \in Nibble
  BY <1>1 DEF Nibble
<1>4. (x * 256) + y \in Nat /\ (x * 256) + y < 65536
  BY <1>1
<1> QED
  BY <1>2, <1>3, <1>4 DEF VersionOf, TypeOf

\* The bytes of a frame, one by one.
LEMMA FrameBytes ==
  ASSUME NEW t \in Nibble, NEW o \in Byte, NEW body \in Seq(Byte), Len(body) < 65536,
         NEW f, f = Frame(t, o, body)
  PROVE  /\ f \in Seq(Byte) /\ Len(f) = 4 + Len(body)
         /\ TypeOf(f[1]) = t /\ f[2] = o
         /\ (f[3] * 256) + f[4] = Len(body)
         /\ \A k \in 1..Len(body) : f[4 + k] = body[k]
<1> DEFINE h == HeaderOf(t, o, body)
           b == Serialize(h)
<1>1. Len(body) % 65536 = Len(body) /\ Len(body) \in Nat
  OBVIOUS
<1>2. h \in Header
  BY <1>1 DEF HeaderOf, Header, Word, Nibble, DEFAULT_VERSION
<1>3. b \in Seq(Byte) /\ Len(b) = 4
  BY <1>2, SerializeType
<1>4. Frame(t, o, body) = b \o body
  BY DEF Frame
<1> HIDE DEF b, h
<1>5. /\ (b \o body) \in Seq(Byte) /\ Len(b \o body) = 4 + Len(body)
      /\ \A k \in 1..Len(body) : (b \o body)[4 + k] = body[k]
  BY <1>3, Prefixed
<1>6. TypeOf(f[1]) = t /\ ObjectOf(<<f[2], f[3], f[4]>>) = o
      /\ Len(f) = 4 + SizeOf(<<f[2], f[3], f[4]>>)
  <2>1. LET g == Frame(t, o, body)
            rest == <<g[2], g[3], g[4]>>
        IN TypeOf(g[1]) = t /\ ObjectOf(rest) = o /\ Len(g) = 4 + SizeOf(rest)
    BY FrameEnds
  <2> QED
    BY <2>1
<1>7. Len(f) = 4 + Len(body)
  BY <1>4, <1>5
<1>8. f[2] = o /\ SizeOf(<<f[2], f[3], f[4]>>) = f[3] * 256 + f[4]
  BY <1>6 DEF ObjectOf, SizeOf
<1>9. f[3] \in Byte /\ f[4] \in Byte
  <2>1. f \in Seq(Byte) /\ 3 \in 1..Len(f) /\ 4 \in 1..Len(f)
    BY <1>1, <1>4, <1>5, <1>7
  <2> QED
    BY <2>1
<1>10. (f[3] * 256) + f[4] = Len(body)
  <2> DEFINE x == (f[3] * 256) + f[4]
             n == SizeOf(<<f[2], f[3], f[4]>>)
  <2>1. x \in Nat
    BY <1>9, ByteParts
  <2>2. n = x /\ 4 + Len(body) = 4 + n
    BY <1>6, <1>7, <1>8
  <2>3. x = Len(body)
    <3> HIDE DEF x, n
    <3> QED
      BY <1>1, <2>1, <2>2
  <2> QED
    BY <2>3
<1> QED
  BY <1>4, <1>5, <1>6, <1>7, <1>8, <1>10

-----------------------------------------------------------------------------
(* The types, and a buffer that never has more than is needed.             *)

Within == Len(buf) <= Needed

Typed == TypeOK /\ Within

LEMMA TypedInit == Init => Typed
<1> SUFFICES ASSUME Init PROVE Typed
  OBVIOUS
<1>1. header \in Header
  BY DEF Init, NoHeader, Header, Byte, Word, Nibble
<1>2. TypeOK
  BY <1>1 DEF Init, TypeOK, Arriving
<1>3. Within
  BY DEF Init, Within, Needed
<1> QED
  BY <1>2, <1>3 DEF Typed

LEMMA NeededType ==
  ASSUME TypeOK
  PROVE  Needed \in Nat /\ Len(buf) \in Nat
BY DEF TypeOK, Needed, Header, Word

LEMMA ArrivingType ==
  ASSUME TypeOK
  PROVE  Arriving \in Nat /\ Arriving <= Len(wire) /\ read \in Nat /\ read <= Arriving
<1>1. Len(wire) \in Nat /\ cut \in 0..Len(wire)
  BY DEF TypeOK
<1>2. Arriving \in Nat /\ Arriving <= Len(wire)
  BY <1>1 DEF Arriving
<1> QED
  BY <1>2 DEF TypeOK

\* What the server sends is a frame record, in bytes.
LEMMA SendTypes ==
  ASSUME NEW t \in Types, NEW o \in Objects, NEW b \in Bodies
  PROVE  /\ t \in Nibble /\ o \in Byte /\ b \in Seq(Byte) /\ Len(b) < 65536
         /\ [type |-> t, object |-> o, body |-> b] \in FrameRecord
         /\ Frame(t, o, b) \in Seq(Byte)
<1>1. t \in Nibble /\ o \in Byte /\ b \in Seq(Byte) /\ Len(b) < 65536
  BY FramingAssumption
<1>2. [type |-> t, object |-> o, body |-> b] \in FrameRecord
  BY <1>1 DEF FrameRecord
<1>3. Frame(t, o, b) \in Seq(Byte)
  BY <1>1, FrameBytes
<1> QED
  BY <1>1, <1>2, <1>3

LEMMA SendTyped ==
  ASSUME Typed, ServerSend
  PROVE  Typed'
<1>1. PICK t \in Types, o \in Objects, b \in Bodies :
        /\ sent' = Append(sent, [type |-> t, object |-> o, body |-> b])
        /\ wire' = wire \o Frame(t, o, b)
  BY DEF ServerSend
<1> DEFINE r == [type |-> t, object |-> o, body |-> b]
           f == Frame(t, o, b)
<1>2. r \in FrameRecord /\ f \in Seq(Byte)
  BY SendTypes
<1> HIDE DEF r, f
<1>3. sent' \in Seq(FrameRecord)
  BY <1>1, <1>2 DEF r, Typed, TypeOK
<1>4. wire' \in Seq(Byte) /\ Len(wire') = Len(wire) + Len(f) /\ Len(f) \in Nat /\ Len(wire) \in Nat
  BY <1>1, <1>2 DEF f, Typed, TypeOK
<1>5. ends' \in Seq(Nat)
  BY <1>4 DEF ServerSend, Typed, TypeOK
<1>6. cut' \in 0..Len(wire') /\ read' \in 0..Arriving'
  BY <1>4 DEF ServerSend, Typed, TypeOK, Arriving
<1> QED
  BY <1>3, <1>4, <1>5, <1>6 DEF ServerSend, Typed, TypeOK, Within, Needed

\* What one read takes: a piece of the wire, byte for byte.
LEMMA Piece ==
  ASSUME NEW w \in Seq(Byte), NEW r \in Nat, NEW n \in Nat, 1 <= n, r + n <= Len(w)
  PROVE  /\ SubSeq(w, r + 1, r + n) \in Seq(Byte)
         /\ Len(SubSeq(w, r + 1, r + n)) = n
         /\ \A k \in 1..n : SubSeq(w, r + 1, r + n)[k] = w[r + k]
<1>1. PICK m \in Int : m = r + 1
  OBVIOUS
<1>2. PICK o \in Int : o = r + n
  OBVIOUS
<1>3. ASSUME NEW k \in m..o PROVE w[k] \in Byte
  <2>1. k \in 1..Len(w)
    BY <1>1, <1>2
  <2> QED
    BY <2>1
<1>4. (o - m) + 1 = n /\ m <= o /\ \A k \in 1..n : (m + k) - 1 = r + k
  BY <1>1, <1>2
<1>5. /\ SubSeq(w, m, o) \in Seq(Byte)
      /\ Len(SubSeq(w, m, o)) = IF m <= o THEN (o - m) + 1 ELSE 0
      /\ \A k \in 1..((o - m) + 1) : SubSeq(w, m, o)[k] = w[(m + k) - 1]
  BY <1>3, SubSeqProperties
<1> QED
  BY <1>1, <1>2, <1>4, <1>5

LEMMA ReceiveTyped ==
  ASSUME Typed, Receive \/ ReceiveEnd
  PROVE  Typed'
<1>0. /\ Needed \in Nat /\ Len(buf) \in Nat /\ buf \in Seq(Byte) /\ wire \in Seq(Byte)
      /\ read \in 0..Arriving /\ Arriving \in Nat /\ Arriving <= Len(wire) /\ Len(wire) \in Nat
  BY NeededType, ArrivingType DEF Typed, TypeOK
<1>1. buf' \in Seq(Byte) /\ Len(buf') <= Needed /\ read' \in 0..Arriving
  <2>1. CASE Receive
    <3>1. PICK n \in 1..(Needed - Len(buf)) :
            /\ read + n <= Arriving
            /\ buf' = buf \o SubSeq(wire, read + 1, read + n)
            /\ read' = read + n
      BY <2>1 DEF Receive
    <3>2. SubSeq(wire, read + 1, read + n) \in Seq(Byte)
          /\ Len(SubSeq(wire, read + 1, read + n)) = n
      BY <1>0, <3>1, Piece
    <3> QED
      BY <1>0, <3>1, <3>2
  <2>2. CASE ReceiveEnd
    <3>1. PICK b \in LeftBytes : buf' = buf \o [n \in 1..(Needed - Len(buf)) |-> b]
      BY <2>2 DEF ReceiveEnd
    <3> DEFINE t == [n \in 1..(Needed - Len(buf)) |-> b]
    <3>2. Needed - Len(buf) \in Nat /\ b \in Byte
      BY <1>0, <2>2, FramingAssumption DEF ReceiveEnd
    <3>3. t \in Seq(Byte) /\ Len(t) = Needed - Len(buf)
      BY <3>2
    <3>4. buf' = buf \o t
      BY <3>1
    <3> HIDE DEF t
    <3>5. buf' \in Seq(Byte) /\ Len(buf') = Needed
      BY <1>0, <3>3, <3>4
    <3> QED
      BY <1>0, <2>2, <3>5 DEF ReceiveEnd
  <2> QED
    BY <2>1, <2>2
<1>2. UNCHANGED <<sent, ends, wire, cut, open, at, header, handled>>
  BY DEF Receive, ReceiveEnd
<1>3. Arriving' = Arriving
  BY <1>2 DEF Arriving
<1> QED
  BY <1>1, <1>2, <1>3 DEF Typed, TypeOK, Within, Needed

LEMMA TakeTyped ==
  ASSUME Typed, TakeHeader \/ TakeRest
  PROVE  Typed'
<1>0. /\ Needed \in Nat /\ Len(buf) \in Nat /\ buf \in Seq(Byte) /\ header \in Header
  BY NeededType DEF Typed, TypeOK
<1>1. header' \in Header
  <2>1. CASE TakeHeader
    <3>1. Len(buf) >= 1 /\ buf[1] \in Byte
      BY <1>0, <2>1 DEF TakeHeader, Complete, Needed
    <3>2. VersionOf(buf[1]) \in Nibble /\ TypeOf(buf[1]) \in Nibble
      BY <3>1, ByteParts
    <3>3. Objects \subseteq Byte /\ LeftSizes \subseteq Word
      BY FramingAssumption
    <3>4. CASE IsPing(TypeOf(buf[1]))
      <4>1. PICK o \in Objects, s \in LeftSizes :
              header' = [version |-> VersionOf(buf[1]), type |-> TypeOf(buf[1]),
                         object |-> o, body_size |-> s]
        BY <2>1, <3>4 DEF TakeHeader
      <4>2. o \in Byte /\ s \in Word
        BY <3>3
      <4> QED
        BY <3>2, <4>1, <4>2 DEF Header
    <3>5. CASE ~IsPing(TypeOf(buf[1]))
      <4>1. header' = [header EXCEPT !.version = VersionOf(buf[1]), !.type = TypeOf(buf[1])]
        BY <2>1, <3>5 DEF TakeHeader
      <4> QED
        BY <1>0, <3>2, <4>1 DEF Header
    <3> QED
      BY <3>4, <3>5
  <2>2. CASE TakeRest
    <3>1. Len(buf) >= 3
      BY <1>0, <2>2 DEF TakeRest, Complete, Needed
    <3>2. buf[1] \in Byte /\ buf[2] \in Byte /\ buf[3] \in Byte
      BY <1>0, <3>1
    <3>3. ObjectOf(buf) \in Byte /\ SizeOf(buf) \in Word
      BY <3>2, ByteParts DEF ObjectOf, SizeOf, Word
    <3> QED
      BY <1>0, <2>2, <3>3 DEF TakeRest, Header
  <2> QED
    BY <2>1, <2>2
<1>2. /\ UNCHANGED <<sent, ends, wire, cut, read, open, handled>>
      /\ at' \in {"rest", "body"} /\ buf' = <<>>
  BY DEF TakeHeader, TakeRest
<1>3. Within'
  <2>1. header'.body_size \in Nat
    BY <1>1 DEF Header, Word
  <2> QED
    BY <1>2, <2>1 DEF Within, Needed
<1>4. buf' \in Seq(Byte) /\ at' \in {"header", "rest", "body"} /\ Arriving' = Arriving
  BY <1>2 DEF Arriving
<1> QED
  BY <1>1, <1>2, <1>3, <1>4 DEF Typed, TypeOK

LEMMA HandleTyped ==
  ASSUME Typed, Handle
  PROVE  Typed'
<1>1. [type |-> header.type, object |-> header.object, body |-> buf] \in FrameRecord
  BY DEF Typed, TypeOK, Header, FrameRecord
<1>2. handled' \in Seq(FrameRecord)
  BY <1>1 DEF Handle, Typed, TypeOK
<1>3. /\ at' = "header" /\ buf' = <<>> /\ UNCHANGED <<sent, ends, wire, cut, read, open, header>>
      /\ Arriving' = Arriving
  BY DEF Handle, Arriving
<1>4. Within'
  BY <1>3 DEF Within, Needed
<1> QED
  BY <1>2, <1>3, <1>4 DEF Typed, TypeOK

LEMMA TypedStep == Typed /\ [Next]_vars => Typed'
<1> SUFFICES ASSUME Typed, [Next]_vars PROVE Typed'
  OBVIOUS
<1>1. CASE ServerClose
  <2>1. /\ UNCHANGED <<sent, ends, wire, read, at, buf, header, handled>>
        /\ open' = FALSE /\ cut' \in read..Len(wire)
    BY <1>1 DEF ServerClose
  <2>2. Len(wire) \in Nat /\ read \in Nat
    BY ArrivingType DEF Typed, TypeOK
  <2>3. cut' \in 0..Len(wire) /\ read \in 0..cut'
    BY <2>1, <2>2
  <2>4. Arriving' = cut'
    BY <2>1 DEF Arriving
  <2> QED
    BY <2>1, <2>3, <2>4 DEF Typed, TypeOK, Within, Needed
<1>2. CASE UNCHANGED vars
  BY <1>2 DEF vars, Typed, TypeOK, Within, Needed, Arriving
<1>3. CASE ReadFails
  BY <1>3 DEF ReadFails, Typed, TypeOK, Within, Needed, Arriving
<1> QED
  BY <1>1, <1>2, <1>3, SendTyped, ReceiveTyped, TakeTyped, HandleTyped DEF Next, Client

LEMMA TypedAlways == Spec => []Typed
BY TypedInit, TypedStep, PTL DEF Spec

\* Every variable keeps its type: no field of a header is wider than its bits.
THEOREM FramingTypeCorrect == Spec => []TypeOK
<1>1. Typed => TypeOK
  BY DEF Typed
<1> QED
  BY <1>1, TypedAlways, PTL

-----------------------------------------------------------------------------
(* Where the frames are in the bytes.                                      *)

\* The bytes after the first e are those of frame f.
Holds(f, e) ==
  /\ TypeOf(wire[e + 1]) = f.type
  /\ wire[e + 2] = f.object
  /\ (wire[e + 3] * 256) + wire[e + 4] = Len(f.body)
  /\ \A k \in 1..Len(f.body) : wire[(e + 4) + k] = f.body[k]

Placed(n) ==
  /\ ends[n] <= Len(wire)
  /\ ends[n] = End(n - 1) + (4 + Len(sent[n].body))
  /\ Holds(sent[n], End(n - 1))

Laid ==
  /\ Len(ends) = Len(sent)
  /\ End(Len(sent)) = Len(wire)
  /\ \A n \in 1..Len(sent) : Placed(n)

LEMMA LaidInit == Init => Laid
BY DEF Init, Laid, Placed, End

LEMMA EndType ==
  ASSUME TypeOK, Laid, NEW n \in 0..Len(sent)
  PROVE  End(n) \in Nat /\ End(n) <= Len(wire)
BY DEF TypeOK, Laid, Placed, End

LEMMA BodyType ==
  ASSUME TypeOK, NEW n \in 1..Len(sent)
  PROVE  /\ sent[n].type \in Nibble /\ sent[n].object \in Byte
         /\ sent[n].body \in Seq(Byte) /\ Len(sent[n].body) \in Nat
<1>1. sent[n] \in FrameRecord
  BY DEF TypeOK
<1> QED
  BY <1>1 DEF FrameRecord

\* More bytes leave a frame where it is.
LEMMA HoldsStill ==
  ASSUME TypeOK, NEW f, NEW e \in Nat, Len(f.body) \in Nat, Holds(f, e),
         e + (4 + Len(f.body)) <= Len(wire),
         \A k \in 1..Len(wire) : wire'[k] = wire[k]
  PROVE  Holds(f, e)'
<1>1. Len(wire) \in Nat
  BY DEF TypeOK
<1>2. /\ e + 1 \in 1..Len(wire) /\ e + 2 \in 1..Len(wire)
      /\ e + 3 \in 1..Len(wire) /\ e + 4 \in 1..Len(wire)
      /\ \A k \in 1..Len(f.body) : (e + 4) + k \in 1..Len(wire)
  <2>1. PICK w \in Nat, l \in Nat : w = Len(wire) /\ l = Len(f.body)
    BY <1>1
  <2>2. e + (4 + l) <= w
    BY <2>1
  <2>3. \A k \in 1..l : (e + 4) + k \in 1..w
    BY <2>2
  <2>4. e + 1 \in 1..w /\ e + 2 \in 1..w /\ e + 3 \in 1..w /\ e + 4 \in 1..w
    BY <2>2
  <2> QED
    BY <2>1, <2>3, <2>4
<1> QED
  BY <1>2 DEF Holds

\* One sequence after another.
LEMMA Joined ==
  ASSUME NEW s \in Seq(Byte), NEW f \in Seq(Byte), NEW u, u = s \o f
  PROVE  /\ Len(u) = Len(s) + Len(f)
         /\ \A k \in 1 .. Len(s) + Len(f) :
              u[k] = IF k <= Len(s) THEN s[k] ELSE f[k - Len(s)]
BY ConcatProperties

\* What ServerSend does to the sequences, element by element.
LEMMA SendShape ==
  ASSUME TypeOK, Laid, ServerSend
  PROVE  \E r \in FrameRecord, w \in Nat :
           /\ w = Len(wire)
           /\ Len(sent') = Len(sent) + 1 /\ sent'[Len(sent) + 1] = r
           /\ \A n \in 1..Len(sent) : sent'[n] = sent[n]
           /\ Len(wire') = Len(wire) + (4 + Len(r.body))
           /\ \A k \in 1..Len(wire) : wire'[k] = wire[k]
           /\ Len(ends') = Len(sent) + 1 /\ ends'[Len(sent) + 1] = Len(wire')
           /\ \A n \in 1..Len(sent) : ends'[n] = ends[n]
           /\ Holds(r, w)'
<1>0. /\ sent \in Seq(FrameRecord) /\ wire \in Seq(Byte) /\ ends \in Seq(Nat)
      /\ Len(sent) \in Nat /\ Len(wire) \in Nat /\ Len(ends) = Len(sent)
  BY DEF TypeOK, Laid
<1>1. PICK t \in Types, o \in Objects, b \in Bodies :
        /\ sent' = Append(sent, [type |-> t, object |-> o, body |-> b])
        /\ wire' = wire \o Frame(t, o, b)
  BY DEF ServerSend
<1>2. PICK f : f = Frame(t, o, b)
  OBVIOUS
<1>14. t \in Nibble /\ o \in Byte /\ b \in Seq(Byte) /\ Len(b) < 65536
  BY FramingAssumption
<1>15. [type |-> t, object |-> o, body |-> b] \in FrameRecord
  BY SendTypes
<1>3. PICK r \in FrameRecord : r = [type |-> t, object |-> o, body |-> b]
  BY <1>15
<1>4. r.type = t /\ r.object = o /\ r.body = b
  BY <1>3
<1>5. /\ f \in Seq(Byte) /\ Len(f) = 4 + Len(b)
      /\ TypeOf(f[1]) = t /\ f[2] = o
      /\ (f[3] * 256) + f[4] = Len(b)
      /\ \A k \in 1..Len(b) : f[4 + k] = b[k]
  <2>1. t \in Nibble /\ o \in Byte /\ b \in Seq(Byte) /\ Len(b) < 65536
    BY <1>14
  <2> QED
    BY <1>2, <2>1, FrameBytes, SMTT(30)
<1>6. Len(b) \in Nat
  BY <1>14
<1>7. /\ Len(wire') = Len(wire) + Len(f)
      /\ \A k \in 1 .. Len(wire) + Len(f) :
           wire'[k] = IF k <= Len(wire) THEN wire[k] ELSE f[k - Len(wire)]
  <2>1. wire' = wire \o f
    BY <1>1, <1>2
  <2>2. wire \in Seq(Byte) /\ f \in Seq(Byte)
    BY <1>0, <1>5
  <2> QED
    BY <2>1, <2>2, Joined
<1>8. \A k \in 1..Len(wire) : wire'[k] = wire[k]
  BY <1>0, <1>5, <1>6, <1>7
<1>9. \A k \in 1..(4 + Len(b)) : wire'[Len(wire) + k] = f[k]
  <2> SUFFICES ASSUME NEW k \in 1..(4 + Len(b)) PROVE wire'[Len(wire) + k] = f[k]
    OBVIOUS
  <2>1. /\ Len(wire) + k \in 1 .. Len(wire) + Len(f)
        /\ ~(Len(wire) + k <= Len(wire)) /\ (Len(wire) + k) - Len(wire) = k
    BY <1>0, <1>5, <1>6
  <2> QED
    BY <1>7, <2>1
<1>10. PICK w \in Nat : w = Len(wire)
  BY <1>0
<1>11. Holds(r, w)'
  <2>1. /\ wire'[w + 1] = f[1] /\ wire'[w + 2] = f[2]
        /\ wire'[w + 3] = f[3] /\ wire'[w + 4] = f[4]
    BY <1>6, <1>9, <1>10
  <2>2. ASSUME NEW k \in 1..Len(b) PROVE wire'[(w + 4) + k] = b[k]
    <3>1. 4 + k \in 1..(4 + Len(b)) /\ (w + 4) + k = w + (4 + k)
      BY <1>6
    <3>2. wire'[w + (4 + k)] = f[4 + k]
      BY <1>9, <1>10, <3>1
    <3> QED
      BY <1>5, <3>1, <3>2
  <2> QED
    BY <1>4, <1>5, <2>1, <2>2 DEF Holds
<1>12. /\ Len(sent') = Len(sent) + 1 /\ sent'[Len(sent) + 1] = r
       /\ \A n \in 1..Len(sent) : sent'[n] = sent[n]
  BY <1>0, <1>1, <1>3
<1>13. /\ Len(ends') = Len(sent) + 1 /\ ends'[Len(sent) + 1] = Len(wire')
       /\ \A n \in 1..Len(sent) : ends'[n] = ends[n]
  BY <1>0 DEF ServerSend
<1> QED
  BY <1>4, <1>5, <1>7, <1>8, <1>10, <1>11, <1>12, <1>13

LEMMA LaidSend ==
  ASSUME TypeOK, Laid, ServerSend
  PROVE  Laid'
<1>1. PICK r \in FrameRecord, w \in Nat :
        /\ w = Len(wire)
        /\ Len(sent') = Len(sent) + 1 /\ sent'[Len(sent) + 1] = r
        /\ \A n \in 1..Len(sent) : sent'[n] = sent[n]
        /\ Len(wire') = Len(wire) + (4 + Len(r.body))
        /\ \A k \in 1..Len(wire) : wire'[k] = wire[k]
        /\ Len(ends') = Len(sent) + 1 /\ ends'[Len(sent) + 1] = Len(wire')
        /\ \A n \in 1..Len(sent) : ends'[n] = ends[n]
        /\ Holds(r, w)'
  BY SendShape
<1>2. PICK m \in Nat : m = Len(sent)
  BY DEF TypeOK
<1>3. Len(r.body) \in Nat
  BY DEF FrameRecord
<1>4. \A k \in 0..m : End(k)' = End(k)
  BY <1>1, <1>2 DEF End
<1>5. End(m) = w
  BY <1>1, <1>2 DEF Laid
<1>6. ASSUME NEW n \in 1..m
      PROVE  Placed(n)'
  <2>1. n \in 1..Len(sent) /\ n - 1 \in 0..Len(sent) /\ n - 1 \in 0..m
    BY <1>2
  <2>2. PICK e \in Nat : e = End(n - 1)
    BY <2>1, EndType
  <2>3. PICK f : f = sent[n]
    OBVIOUS
  <2>4. /\ Len(f.body) \in Nat /\ Holds(f, e)
        /\ ends[n] = e + (4 + Len(f.body)) /\ ends[n] <= Len(wire)
    BY <2>1, <2>2, <2>3, BodyType DEF Laid, Placed
  <2>5. Holds(f, e)'
    BY <1>1, <2>4, HoldsStill
  <2>6. sent'[n] = f /\ End(n - 1)' = e /\ ends'[n] = ends[n]
    BY <1>1, <1>4, <2>1, <2>2, <2>3
  <2>7. ends[n] <= Len(wire')
    BY <1>1, <1>3, <2>4
  <2> QED
    BY <2>4, <2>5, <2>6, <2>7 DEF Placed
<1>7. Placed(m + 1)'
  <2>1. PICK n \in Nat : n = m + 1
    BY <1>2
  <2>2. n - 1 = m /\ sent'[n] = r /\ ends'[n] = Len(wire')
    BY <1>1, <1>2, <2>1
  <2>3. End(n - 1)' = w
    BY <1>2, <1>4, <1>5, <2>2
  <2>4. Len(wire') = w + (4 + Len(r.body)) /\ Len(wire') \in Nat
    BY <1>1, <1>3
  <2>5. Placed(n)'
    <3>1. Holds(r, w)'
      BY <1>1
    <3>2. ends'[n] <= Len(wire') /\ ends'[n] = w + (4 + Len(r.body))
      BY <2>2, <2>4
    <3> QED
      BY <2>2, <2>3, <3>1, <3>2 DEF Placed
  <2> QED
    BY <2>1, <2>5
<1>8. Len(sent') = m + 1 /\ Len(ends') = m + 1 /\ ends'[m + 1] = Len(wire')
  BY <1>1, <1>2
<1>9. End(Len(sent))' = Len(wire')
  BY <1>2, <1>8 DEF End
<1>10. ASSUME NEW n \in 1..Len(sent') PROVE Placed(n)'
  <2>1. n \in 1..m \/ n = m + 1
    BY <1>2, <1>8
  <2> QED
    BY <1>6, <1>7, <2>1
<1> QED
  BY <1>8, <1>9, <1>10 DEF Laid

LEMMA LaidStep ==
  ASSUME TypeOK, Laid, [Next]_vars
  PROVE  Laid'
<1>1. CASE ServerSend
  BY <1>1, LaidSend
<1>2. CASE UNCHANGED <<sent, ends, wire>>
  BY <1>2 DEF Laid, Placed, Holds, End
<1> QED
  BY <1>1, <1>2 DEF Next, Client, ServerClose, Receive, ReceiveEnd, ReadFails, TakeHeader,
     TakeRest, Handle, vars

-----------------------------------------------------------------------------
(* How far the client is in the frame f, whose first byte comes after e      *)
(* bytes: it reads one of its parts, and has of it what is on the wire.  Of  *)
(* a ping nothing is known any more after the first byte.                    *)

Copied(e) == \A k \in 1..Len(buf) : buf[k] = wire[e + k]

InHeader(e) == at = "header" /\ read = e + Len(buf) /\ Copied(e)

InRest(f, e) ==
  /\ at = "rest" /\ ~IsPing(f.type)
  /\ header.type = f.type
  /\ read = (e + 1) + Len(buf) /\ Copied(e + 1)

InBody(f, e) ==
  /\ at = "body" /\ ~IsPing(f.type)
  /\ header.type = f.type /\ header.object = f.object /\ header.body_size = Len(f.body)
  /\ read = (e + 4) + Len(buf) /\ Copied(e + 4)

InPing(f) == at = "body" /\ IsPing(f.type)

Inside(f, e) == InHeader(e) \/ InRest(f, e) \/ InBody(f, e) \/ InPing(f)

\* What one read adds is what comes next on the wire.
LEMMA ReceiveCopied ==
  ASSUME Typed, Receive, NEW e \in Nat, read = e + Len(buf), Copied(e)
  PROVE  read' = e + Len(buf') /\ Copied(e)'
<1>0. /\ Needed \in Nat /\ Len(buf) \in Nat /\ buf \in Seq(Byte) /\ wire \in Seq(Byte)
      /\ read \in 0..Arriving /\ Arriving \in Nat /\ Arriving <= Len(wire) /\ Len(wire) \in Nat
  BY NeededType, ArrivingType DEF Typed, TypeOK
<1>1. PICK n \in 1..(Needed - Len(buf)) :
        /\ read + n <= Arriving
        /\ buf' = buf \o SubSeq(wire, read + 1, read + n)
        /\ read' = read + n
  BY DEF Receive
<1>2. PICK s : s = SubSeq(wire, read + 1, read + n)
  OBVIOUS
<1>3. /\ s \in Seq(Byte) /\ Len(s) = n /\ n \in Nat
      /\ \A k \in 1..n : s[k] = wire[read + k]
  BY <1>0, <1>1, <1>2, Piece
<1>4. buf' = buf \o s
  BY <1>1, <1>2
<1>5. /\ Len(buf') = Len(buf) + n
      /\ \A k \in 1 .. Len(buf) + n :
           buf'[k] = IF k <= Len(buf) THEN buf[k] ELSE s[k - Len(buf)]
  BY <1>0, <1>3, <1>4, Joined
<1>6. wire' = wire
  BY DEF Receive
<1>7. ASSUME NEW k \in 1..Len(buf') PROVE buf'[k] = wire'[e + k]
  <2>0. k \in 1 .. Len(buf) + n
    BY <1>5, <1>7
  <2>1. CASE k <= Len(buf)
    <3>1. buf'[k] = buf[k]
      BY <1>5, <2>0, <2>1
    <3>2. k \in 1..Len(buf)
      BY <1>0, <2>0, <2>1
    <3> QED
      BY <1>6, <3>1, <3>2 DEF Copied
  <2>2. CASE ~(k <= Len(buf))
    <3>3. PICK l \in Nat : l = Len(buf)
      BY <1>0
    <3>4. k \in 1 .. l + n /\ ~(k <= l)
      BY <2>0, <2>2, <3>3
    <3>5. k - l \in 1..n
      BY <1>3, <3>4
    <3>1. PICK j \in 1..n : j = k - Len(buf)
      BY <3>3, <3>5
    <3>2. read + j = e + k
      BY <1>0, <1>3, <3>1, <1>5
    <3> QED
      BY <1>3, <1>5, <1>6, <1>7, <2>2, <3>1, <3>2
  <2> QED
    BY <2>1, <2>2
<1> QED
  BY <1>0, <1>1, <1>3, <1>5, <1>7 DEF Copied

LEMMA ReceiveInside ==
  ASSUME Typed, Receive, NEW f, NEW e \in Nat, Inside(f, e)
  PROVE  Inside(f, e)'
<1>1. UNCHANGED <<at, header>>
  BY DEF Receive
<1>2. CASE InHeader(e)
  <2>1. read' = e + Len(buf') /\ Copied(e)'
    BY <1>2, ReceiveCopied DEF InHeader
  <2> QED
    BY <1>1, <1>2, <2>1 DEF InHeader, Inside
<1>3. CASE InRest(f, e)
  <2>1. PICK g \in Nat : g = e + 1
    OBVIOUS
  <2>2. read = g + Len(buf) /\ Copied(g)
    BY <1>3, <2>1 DEF InRest
  <2>3. read' = g + Len(buf') /\ Copied(g)'
    BY <2>2, ReceiveCopied
  <2> QED
    BY <1>1, <1>3, <2>1, <2>3 DEF InRest, Inside
<1>4. CASE InBody(f, e)
  <2>1. PICK g \in Nat : g = e + 4
    OBVIOUS
  <2>2. read = g + Len(buf) /\ Copied(g)
    BY <1>4, <2>1 DEF InBody
  <2>3. read' = g + Len(buf') /\ Copied(g)'
    BY <2>2, ReceiveCopied
  <2> QED
    BY <1>1, <1>4, <2>1, <2>3 DEF InBody, Inside
<1>5. CASE InPing(f)
  BY <1>1, <1>5 DEF InPing, Inside
<1> QED
  BY <1>2, <1>3, <1>4, <1>5 DEF Inside

\* The end of the connection is not met inside a whole frame, except a ping.
LEMMA ReceiveEndInside ==
  ASSUME Typed, ReceiveEnd, NEW f, NEW e \in Nat, Len(f.body) \in Nat,
         e + (4 + Len(f.body)) <= Arriving, Inside(f, e)
  PROVE  Inside(f, e)'
<1>0. /\ Needed \in Nat /\ Len(buf) \in Nat /\ Arriving \in Nat
  BY NeededType, ArrivingType DEF Typed
<1>1. Len(buf) < Needed /\ read = Arriving /\ at' = at
  BY DEF ReceiveEnd, AtEnd
<1>2. ~InHeader(e)
  BY <1>0, <1>1 DEF InHeader, Needed
<1>3. ~InRest(f, e)
  BY <1>0, <1>1 DEF InRest, Needed
<1>4. ~InBody(f, e)
  BY <1>0, <1>1 DEF InBody, Needed
<1> QED
  BY <1>1, <1>2, <1>3, <1>4 DEF Inside, InPing

\* A read takes bytes that arrive; at the end the buffer is filled up.
LEMMA ReceiveMore ==
  ASSUME Typed, Receive
  PROVE  read # Arriving
<1>1. PICK n \in 1..(Needed - Len(buf)) : read + n <= Arriving
  BY DEF Receive
<1>2. Arriving \in Nat /\ Needed \in Nat /\ Len(buf) \in Nat
  BY ArrivingType, NeededType DEF Typed
<1> QED
  BY <1>1, <1>2

LEMMA FilledUp ==
  ASSUME Typed, ReceiveEnd
  PROVE  buf' # <<>>
<1>1. PICK b \in LeftBytes : buf' = buf \o [n \in 1..(Needed - Len(buf)) |-> b]
  BY DEF ReceiveEnd
<1>2. PICK k \in Nat : k = Needed - Len(buf) /\ k >= 1
  <2>1. Needed \in Nat /\ Len(buf) \in Nat /\ Len(buf) < Needed
    BY NeededType DEF Typed, ReceiveEnd
  <2> QED
    BY <2>1
<1>3. PICK t : t = [n \in 1..k |-> b]
  OBVIOUS
<1>4. t \in Seq(Byte) /\ Len(t) = k
  BY <1>3, FramingAssumption
<1>5. buf' = buf \o t
  BY <1>1, <1>2, <1>3
<1>6. PICK u : u = buf'
  OBVIOUS
<1>7. u # <<>>
  <2>1. buf \in Seq(Byte) /\ Len(buf) \in Nat
    BY DEF Typed, TypeOK
  <2>2. Len(u) = Len(buf) + Len(t)
    BY <1>4, <1>5, <1>6, <2>1, Joined
  <2> QED
    BY <1>2, <1>4, <2>1, <2>2
<1> QED
  BY <1>6, <1>7

LEMMA TakeHeaderInside ==
  ASSUME Typed, TakeHeader, NEW f, NEW e \in Nat, Holds(f, e), Inside(f, e)
  PROVE  Inside(f, e)'
<1>0. Len(buf) \in Nat /\ header \in Header
  BY DEF Typed, TypeOK
<1>1. at = "header" /\ Len(buf) = 1
  <2>1. at = "header" /\ Len(buf) >= Needed /\ Len(buf) <= Needed
    BY DEF TakeHeader, Complete, Typed, Within
  <2>2. Len(buf) >= 1 /\ Len(buf) <= 1
    BY <2>1 DEF Needed
  <2>3. Len(buf) \in Nat
    BY <1>0
  <2> QED
    BY <2>1, <2>2, <2>3
<1>2. InHeader(e)
  BY <1>1 DEF Inside, InRest, InBody, InPing
<1>3. TypeOf(buf[1]) = f.type /\ read = e + 1
  BY <1>1, <1>2 DEF InHeader, Copied, Holds
<1>4. buf' = <<>> /\ read' = read
  BY DEF TakeHeader
<1>5. CASE IsPing(f.type)
  BY <1>3, <1>5 DEF TakeHeader, Inside, InPing
<1>6. CASE ~IsPing(f.type)
  <2>1. at' = "rest" /\ header' = [header EXCEPT !.version = VersionOf(buf[1]), !.type = TypeOf(buf[1])]
    BY <1>3, <1>6 DEF TakeHeader
  <2>2. header'.type = f.type
    BY <1>0, <1>3, <2>1 DEF Header
  <2>3. read' = (e + 1) + Len(buf') /\ Copied(e + 1)'
    BY <1>3, <1>4 DEF Copied
  <2> QED
    BY <1>6, <2>1, <2>2, <2>3 DEF Inside, InRest
<1> QED
  BY <1>5, <1>6

LEMMA TakeRestInside ==
  ASSUME Typed, TakeRest, NEW f, NEW e \in Nat, Holds(f, e), Inside(f, e)
  PROVE  Inside(f, e)'
<1>0. Len(buf) \in Nat /\ header \in Header
  BY DEF Typed, TypeOK
<1>1. at = "rest" /\ Len(buf) = 3
  <2>1. at = "rest" /\ Len(buf) >= Needed /\ Len(buf) <= Needed
    BY DEF TakeRest, Complete, Typed, Within
  <2>2. PICK n \in Nat : n = Len(buf)
    BY <1>0
  <2>3. n >= 3 /\ n <= 3
    BY <2>1, <2>2 DEF Needed
  <2>4. n = 3
    BY <2>3
  <2> QED
    BY <2>1, <2>2, <2>4
<1>2. InRest(f, e)
  BY <1>1 DEF Inside, InHeader, InBody, InPing
<1>3. \A k \in 1..3 : buf[k] = wire[(e + 1) + k]
  BY <1>1, <1>2 DEF InRest, Copied
<1>4. ObjectOf(buf) = f.object /\ SizeOf(buf) = Len(f.body)
  <2>1. buf[1] = wire[e + 2] /\ buf[2] = wire[e + 3] /\ buf[3] = wire[e + 4]
    BY <1>3
  <2> QED
    BY <2>1 DEF Holds, ObjectOf, SizeOf
<1>5. header' = [header EXCEPT !.object = ObjectOf(buf), !.body_size = SizeOf(buf)]
      /\ at' = "body" /\ buf' = <<>> /\ read' = read
  BY DEF TakeRest
<1>6. header'.type = f.type /\ header'.object = f.object /\ header'.body_size = Len(f.body)
  BY <1>0, <1>2, <1>4, <1>5 DEF Header, InRest
<1>7. read' = (e + 4) + Len(buf') /\ Copied(e + 4)'
  BY <1>1, <1>2, <1>5 DEF InRest, Copied
<1> QED
  BY <1>2, <1>5, <1>6, <1>7 DEF Inside, InBody, InRest

\* More bytes change nothing for the frame that is read.
LEMMA SendInside ==
  ASSUME Typed, Laid, ServerSend, NEW f, NEW e \in Nat, Inside(f, e)
  PROVE  Inside(f, e)'
<1>0. /\ Len(buf) \in Nat /\ Len(wire) \in Nat /\ read <= Len(wire)
  BY ArrivingType DEF Typed, TypeOK
<1>1. \A k \in 1..Len(wire) : wire'[k] = wire[k]
  BY SendShape DEF Typed
<1>2. UNCHANGED <<read, at, buf, header>>
  BY DEF ServerSend
<1>3. ASSUME NEW g \in Nat, read = g + Len(buf), Copied(g)
      PROVE  Copied(g)'
  <2>1. \A k \in 1..Len(buf) : g + k \in 1..Len(wire)
    BY <1>0, <1>3
  <2> QED
    BY <1>1, <1>2, <1>3, <2>1 DEF Copied
<1>4. CASE InHeader(e)
  BY <1>2, <1>3, <1>4 DEF InHeader, Inside
<1>5. CASE InRest(f, e)
  <2>1. PICK g \in Nat : g = e + 1
    OBVIOUS
  <2>2. Copied(g)'
    BY <1>3, <1>5, <2>1 DEF InRest
  <2> QED
    BY <1>2, <1>5, <2>1, <2>2 DEF InRest, Inside
<1>6. CASE InBody(f, e)
  <2>1. PICK g \in Nat : g = e + 4
    OBVIOUS
  <2>2. Copied(g)'
    BY <1>3, <1>6, <2>1 DEF InBody
  <2> QED
    BY <1>2, <1>6, <2>1, <2>2 DEF InBody, Inside
<1>7. CASE InPing(f)
  BY <1>2, <1>7 DEF InPing, Inside
<1> QED
  BY <1>4, <1>5, <1>6, <1>7 DEF Inside

\* A body that is complete is that of the frame, and the frame is read.
LEMMA HandleInside ==
  ASSUME Typed, Handle, NEW f \in FrameRecord, NEW e \in Nat, Inside(f, e),
         ~IsPing(f.type), Holds(f, e)
  PROVE  /\ [type |-> header.type, object |-> header.object, body |-> buf] = f
         /\ read = e + (4 + Len(f.body))
<1>0. Len(buf) \in Nat /\ buf \in Seq(Byte)
  BY DEF Typed, TypeOK
<1>1. at = "body"
  BY DEF Handle, Complete
<1>2. InBody(f, e)
  BY <1>1 DEF Inside, InHeader, InRest, InPing
<1>3. f.body \in Seq(Byte) /\ Len(f.body) \in Nat
      /\ f = [type |-> f.type, object |-> f.object, body |-> f.body]
  BY DEF FrameRecord
<1>4. Len(buf) = Len(f.body)
  <2>1. header.body_size = Len(f.body)
    BY <1>2 DEF InBody
  <2> QED
    BY <1>0, <1>1, <1>3, <2>1 DEF Handle, Complete, Needed, Typed, Within
<1>5. \A k \in 1..Len(buf) : buf[k] = f.body[k]
  BY <1>2, <1>4 DEF InBody, Copied, Holds
<1>6. buf = f.body
  BY <1>0, <1>3, <1>4, <1>5, SeqEqual
<1>7. header.type = f.type /\ header.object = f.object
  BY <1>2 DEF InBody
<1>8. read = e + (4 + Len(f.body))
  BY <1>2, <1>3, <1>4 DEF InBody
<1> QED
  BY <1>3, <1>6, <1>7, <1>8

-----------------------------------------------------------------------------
(* The inductive invariant: the client is inside the first frame it has not  *)
(* handled, or that frame is cut and all there was of it is read, or all     *)
(* there is has been read; what comes after the end is made up, and only     *)
(* then may the client have handled more than was sent.                      *)

Lost(n) ==
  /\ ~open /\ read = Arriving /\ End(n) > Arriving
  /\ ~(at = "header" /\ buf = <<>>)

Begun ==
  Coming /\ NoPing(Len(handled)) =>
    \/ Inside(sent[Len(handled) + 1], End(Len(handled)))
    \/ Lost(Len(handled) + 1)

AllRead ==
  ~Coming /\ NoPing(Len(sent)) =>
    /\ read = Arriving
    /\ open => Len(handled) = Len(sent) /\ at = "header" /\ buf = <<>>

Follows == Typed /\ Laid /\ Begun /\ AllRead /\ FramesKept

\* The frame that comes after n others, and where it lies.
LEMMA Front ==
  ASSUME Typed, Laid, NEW n \in Nat, n < Len(sent)
  PROVE  \E f \in FrameRecord, e \in Nat :
           /\ f = sent[n + 1] /\ e = End(n) /\ Len(f.body) \in Nat
           /\ Holds(f, e)
           /\ End(n + 1) = e + (4 + Len(f.body))
           /\ e + (4 + Len(f.body)) <= Len(wire)
<1>1. n + 1 \in 1..Len(sent) /\ n \in 0..Len(sent) /\ (n + 1) - 1 = n /\ Len(sent) \in Nat
  BY DEF Typed, TypeOK
<1>2. Placed(n + 1)
  BY <1>1 DEF Laid
<1>3. sent[n + 1] \in FrameRecord /\ Len(sent[n + 1].body) \in Nat
  BY <1>1, BodyType DEF Typed, TypeOK
<1>4. End(n) \in Nat
  BY <1>1, EndType DEF Typed
<1>5. End(n + 1) = ends[n + 1]
  BY DEF End
<1> QED
  BY <1>1, <1>2, <1>3, <1>4, <1>5 DEF Placed

LEMMA CountTypes ==
  ASSUME TypeOK
  PROVE  Len(sent) \in Nat /\ Len(handled) \in Nat /\ DOMAIN handled = 1..Len(handled)
BY DEF TypeOK

\* A frame is not read before it begins, and a frame of which nothing is known
\* is a ping.
LEMMA InsideRead ==
  ASSUME Typed, NEW f, NEW e \in Nat, Inside(f, e), ~IsPing(f.type)
  PROVE  /\ e <= read
         /\ at = "header" => read = e + Len(buf)
<1>1. Len(buf) \in Nat
  BY DEF Typed, TypeOK
<1> QED
  BY <1>1 DEF Inside, InHeader, InRest, InBody, InPing

\* While the connection is open all that was sent arrives.
LEMMA ComingOpen ==
  ASSUME Typed, Laid, open, Len(handled) < Len(sent)
  PROVE  Coming /\ Arriving = Len(wire)
<1>1. Len(handled) \in 0..Len(sent)
  BY DEF Typed, TypeOK
<1> QED
  BY <1>1, EndType DEF Typed, Coming, Arriving

Quiet == Receive \/ ReceiveEnd \/ ReadFails \/ TakeHeader \/ TakeRest \/ UNCHANGED vars

LEMMA QuietKeeps ==
  ASSUME Quiet
  PROVE  /\ UNCHANGED <<sent, ends, wire, cut, open, handled>>
         /\ \A n : NoPing(n)' = NoPing(n)
         /\ \A n : End(n)' = End(n)
         /\ Arriving' = Arriving /\ Coming' = Coming
<1>1. UNCHANGED <<sent, ends, wire, cut, open, handled>>
  BY DEF Quiet, Receive, ReceiveEnd, ReadFails, TakeHeader, TakeRest, vars
<1> QED
  BY <1>1 DEF NoPing, End, Arriving, Coming

LEMMA QuietBegun ==
  ASSUME Follows, Quiet
  PROVE  Begun'
<1>0. Typed /\ Laid /\ Begun
  BY DEF Follows
<1>1. PICK h \in Nat : h = Len(handled)
  BY <1>0, CountTypes DEF Typed
<1>2. /\ UNCHANGED <<sent, ends, wire, cut, open, handled>> /\ Arriving' = Arriving
      /\ NoPing(h)' = NoPing(h) /\ Coming' = Coming
      /\ End(h)' = End(h) /\ End(h + 1)' = End(h + 1)
  BY QuietKeeps
<1>3. ASSUME Coming, NoPing(h)
      PROVE  Inside(sent[h + 1], End(h))' \/ Lost(h + 1)'
  <2>1. PICK f \in FrameRecord, e \in Nat :
           /\ f = sent[h + 1] /\ e = End(h) /\ Len(f.body) \in Nat
           /\ Holds(f, e)
           /\ End(h + 1) = e + (4 + Len(f.body))
           /\ e + (4 + Len(f.body)) <= Len(wire)
    BY <1>0, <1>1, <1>3, Front DEF Coming
  <2>2. sent'[h + 1] = f /\ End(h)' = e
    BY <1>2, <2>1
  <2>3. e <= Arriving /\ Arriving \in Nat /\ read \in Nat /\ read <= Arriving
    BY <1>0, <1>1, <1>3, <2>1, ArrivingType DEF Coming, Typed
  <2>4. Inside(f, e) \/ Lost(h + 1)
    BY <1>0, <1>1, <1>3, <2>1 DEF Begun
  <2>5. CASE Receive
    <3>1. ~Lost(h + 1)
      BY <1>0, <2>5, ReceiveMore DEF Lost
    <3> QED
      BY <1>0, <2>2, <2>4, <2>5, <3>1, ReceiveInside
  <2>6. CASE ReceiveEnd
    <3>1. CASE Inside(f, e) /\ e + (4 + Len(f.body)) <= Arriving
      BY <1>0, <2>1, <2>2, <2>6, <3>1, ReceiveEndInside
    <3>2. CASE End(h + 1) > Arriving
      <4>1. ~open /\ read' = read /\ read = Arriving
        BY <2>6 DEF ReceiveEnd, AtEnd
      <4>2. buf' # <<>>
        BY <1>0, <2>6, FilledUp
      <4> QED
        BY <1>2, <3>2, <4>1, <4>2 DEF Lost
    <3> QED
      BY <2>1, <2>3, <2>4, <3>1, <3>2 DEF Lost
  <2>7. CASE ReadFails
    <3>1. /\ ~open /\ read' = read /\ read = Arriving /\ at' = "exited"
          /\ at = "header" /\ buf = <<>>
      BY <2>7 DEF ReadFails, AtEnd
    <3>2. Inside(f, e)
      BY <2>4, <3>1 DEF Lost
    <3>3. read = e
      <4>1. Len(buf) = 0
        BY <3>1
      <4> QED
        BY <3>1, <3>2, <4>1 DEF Inside, InHeader, InRest, InBody, InPing
    <3>4. End(h + 1) > Arriving
      BY <2>1, <2>3, <3>1, <3>3
    <3> QED
      BY <1>2, <3>1, <3>4 DEF Lost
  <2>8. CASE TakeHeader
    <3>1. Lost(h + 1) => Lost(h + 1)'
      BY <1>2, <2>8 DEF Lost, TakeHeader
    <3> QED
      BY <1>0, <2>1, <2>2, <2>4, <2>8, <3>1, TakeHeaderInside
  <2>9. CASE TakeRest
    <3>1. Lost(h + 1) => Lost(h + 1)'
      BY <1>2, <2>9 DEF Lost, TakeRest
    <3> QED
      BY <1>0, <2>1, <2>2, <2>4, <2>9, <3>1, TakeRestInside
  <2>10. CASE UNCHANGED vars
    <3>1. Inside(f, e) => Inside(f, e)'
      BY <2>10 DEF vars, Inside, InHeader, InRest, InBody, InPing, Copied
    <3>2. Lost(h + 1) => Lost(h + 1)'
      BY <1>2, <2>10 DEF vars, Lost
    <3> QED
      BY <2>2, <2>4, <3>1, <3>2
  <2> QED
    BY <2>5, <2>6, <2>7, <2>8, <2>9, <2>10 DEF Quiet
<1> QED
  BY <1>1, <1>2, <1>3 DEF Begun

LEMMA QuietAllRead ==
  ASSUME Follows, Quiet
  PROVE  AllRead'
<1>0. Typed /\ AllRead
  BY DEF Follows
<1>1. /\ UNCHANGED <<sent, open, handled>> /\ NoPing(Len(sent))' = NoPing(Len(sent))
      /\ Arriving' = Arriving /\ Coming' = Coming
  BY QuietKeeps DEF NoPing
<1>2. SUFFICES ASSUME ~Coming, NoPing(Len(sent))
               PROVE  /\ read' = Arriving
                      /\ open => Len(handled) = Len(sent) /\ at' = "header" /\ buf' = <<>>
  BY <1>1 DEF AllRead
<1>3. /\ read = Arriving
      /\ open => Len(handled) = Len(sent) /\ at = "header" /\ buf = <<>>
  BY <1>0, <1>2 DEF AllRead
<1>4. CASE Receive
  BY <1>0, <1>3, <1>4, ReceiveMore
<1>5. CASE ReceiveEnd \/ ReadFails
  BY <1>3, <1>5 DEF ReceiveEnd, ReadFails, AtEnd
<1>6. CASE TakeHeader
  <2>1. at = "header" /\ Len(buf) >= 1
    BY <1>6 DEF TakeHeader, Complete, Needed
  <2>2. buf # <<>>
    BY <2>1
  <2> QED
    BY <1>3, <1>6, <2>2 DEF TakeHeader
<1>7. CASE TakeRest
  BY <1>3, <1>7 DEF TakeRest, Complete
<1>8. CASE UNCHANGED vars
  BY <1>3, <1>8 DEF vars
<1> QED
  BY <1>4, <1>5, <1>6, <1>7, <1>8 DEF Quiet

LEMMA QuietKept ==
  ASSUME Follows, Quiet
  PROVE  FramesKept'
<1>1. /\ UNCHANGED <<sent, handled>> /\ Arriving' = Arriving
      /\ \A n : NoPing(n)' = NoPing(n) /\ End(n)' = End(n)
  BY QuietKeeps
<1> QED
  BY <1>1 DEF Follows, FramesKept, Whole

\* Where the connection ends, the frame that the client is in has begun.
LEMMA CloseFollows ==
  ASSUME Follows, ServerClose
  PROVE  Begun' /\ AllRead' /\ FramesKept'
<1>0. Typed /\ Laid /\ Begun /\ AllRead /\ FramesKept
  BY DEF Follows
<1>1. PICK m \in Nat, h \in Nat : m = Len(sent) /\ h = Len(handled)
  BY <1>0, CountTypes DEF Typed
<1>2. /\ UNCHANGED <<sent, ends, wire, read, at, buf, header, handled>>
      /\ open /\ ~open' /\ cut' \in read..Len(wire)
  BY DEF ServerClose
<1>3. PICK a \in Nat, b \in Nat, r \in Nat :
        a = Arriving /\ b = Arriving' /\ r = read /\ a = Len(wire) /\ b <= a /\ r <= b
  <2>1. Arriving = Len(wire) /\ Arriving' = cut' /\ Len(wire) \in Nat /\ read \in Nat
    BY <1>0, <1>2, ArrivingType DEF Arriving, Typed, TypeOK
  <2> QED
    BY <1>2, <2>1
<1>4. \A n : (NoPing(n)' <=> NoPing(n)) /\ End(n)' = End(n)
  BY <1>2 DEF NoPing, End
<1>9. FramesKept'
  <2>1. ASSUME NEW n \in 1..h, n <= m, End(n) <= b PROVE End(n) <= a
    <3>1. n \in 0..Len(sent)
      BY <1>1, <2>1
    <3> QED
      BY <1>0, <1>3, <3>1, EndType DEF Typed
  <2>2. DOMAIN handled = 1..h
    BY <1>0, <1>1, CountTypes DEF Typed
  <2> QED
    BY <1>0, <1>1, <1>2, <1>3, <1>4, <2>1, <2>2 DEF FramesKept, Whole
<1>5. CASE h < m
  <2>1. Coming
    BY <1>0, <1>1, <1>2, <1>5, ComingOpen
  <2>2. PICK f \in FrameRecord, e \in Nat : f = sent[h + 1] /\ e = End(h)
    BY <1>0, <1>1, <1>5, Front
  <2>3. NoPing(h) => Inside(f, e)
    BY <1>0, <1>1, <1>2, <2>1, <2>2 DEF Begun, Lost
  <2>4. Inside(f, e) => Inside(f, e)'
    BY <1>2 DEF Inside, InHeader, InRest, InBody, InPing, Copied
  <2>5. sent'[h + 1] = f /\ End(h)' = e
    BY <1>2, <1>4, <2>2
  <2>6. Begun'
    BY <1>1, <1>2, <1>4, <2>3, <2>4, <2>5 DEF Begun
  <2>7. NoPing(m) => Coming'
    <3>1. SUFFICES ASSUME NoPing(m) PROVE Coming'
      OBVIOUS
    <3>2. NoPing(h) /\ ~IsPing(f.type)
      BY <1>1, <1>5, <2>2, <3>1 DEF NoPing
    <3>3. e <= r
      BY <1>0, <1>3, <2>3, <3>2, InsideRead
    <3>4. e <= b
      BY <1>3, <3>3
    <3> QED
      BY <1>1, <1>2, <1>3, <1>5, <2>5, <3>4 DEF Coming
  <2>8. AllRead'
    BY <1>1, <1>2, <1>4, <2>7 DEF AllRead
  <2> QED
    BY <1>9, <2>6, <2>8
<1>6. CASE ~(h < m)
  <2>1. ~Coming /\ ~Coming'
    BY <1>1, <1>2, <1>6 DEF Coming
  <2>2. Begun'
    BY <2>1 DEF Begun
  <2>3. NoPing(m) => r = a
    BY <1>0, <1>1, <1>3, <2>1 DEF AllRead
  <2>4. r = a => r = b
    BY <1>3
  <2>5. AllRead'
    BY <1>1, <1>2, <1>3, <1>4, <2>3, <2>4 DEF AllRead
  <2> QED
    BY <1>9, <2>2, <2>5
<1> QED
  BY <1>5, <1>6

LEMMA SendFollows ==
  ASSUME Follows, ServerSend
  PROVE  Begun' /\ AllRead' /\ FramesKept'
<1>0. Typed /\ TypeOK /\ Laid /\ Begun /\ AllRead /\ FramesKept
  BY DEF Follows, Typed
<1>1. PICK r \in FrameRecord, w \in Nat :
        /\ w = Len(wire)
        /\ Len(sent') = Len(sent) + 1 /\ sent'[Len(sent) + 1] = r
        /\ \A n \in 1..Len(sent) : sent'[n] = sent[n]
        /\ Len(wire') = Len(wire) + (4 + Len(r.body))
        /\ \A k \in 1..Len(wire) : wire'[k] = wire[k]
        /\ Len(ends') = Len(sent) + 1 /\ ends'[Len(sent) + 1] = Len(wire')
        /\ \A n \in 1..Len(sent) : ends'[n] = ends[n]
        /\ Holds(r, w)'
  BY <1>0, SendShape
<1>2. PICK m \in Nat, h \in Nat : m = Len(sent) /\ h = Len(handled)
  BY <1>0, CountTypes
<1>3. UNCHANGED <<read, at, buf, header, handled, open>> /\ open
  BY DEF ServerSend
<1>15. /\ Arriving = w /\ Arriving' = Len(wire') /\ w <= Len(wire')
       /\ Len(wire') \in Nat
  <2>1. Len(r.body) \in Nat
    BY DEF FrameRecord
  <2> QED
    BY <1>1, <1>3, <2>1 DEF Arriving
<1>4. \A n \in 0..m : NoPing(n)' <=> NoPing(n)
  BY <1>1, <1>2 DEF NoPing
<1>5. NoPing(m + 1)' => NoPing(m)
  BY <1>1, <1>2 DEF NoPing
<1>6. h > m => ~NoPing(m)
  BY <1>0, <1>2, <1>3 DEF AllRead, Coming
<1>7. /\ Len(sent') = m + 1 /\ sent'[m + 1] = r
      /\ \A n \in 1..m : sent'[n] = sent[n]
  BY <1>1, <1>2
<1>8. \A n \in 0..m : End(n)' = End(n)
  BY <1>1, <1>2 DEF End
<1>9. ASSUME h < m + 1, NoPing(h)'
      PROVE  Inside(sent[h + 1], End(h))'
  <2>1. CASE h < m
    <3>1. PICK f \in FrameRecord, e \in Nat :
             /\ f = sent[h + 1] /\ e = End(h) /\ Len(f.body) \in Nat
             /\ Holds(f, e)
             /\ End(h + 1) = e + (4 + Len(f.body))
             /\ e + (4 + Len(f.body)) <= Len(wire)
      BY <1>0, <1>2, <2>1, Front
    <3>2. Inside(f, e)
      <4>1. Coming /\ h \in 0..m
        BY <1>0, <1>2, <1>3, <2>1, ComingOpen
      <4> QED
        BY <1>0, <1>2, <1>3, <1>4, <1>9, <3>1, <4>1 DEF Begun, Lost
    <3>3. Inside(f, e)'
      BY <1>0, <3>2, SendInside
    <3>4. sent'[h + 1] = f /\ End(h)' = e
      BY <1>7, <1>8, <2>1, <3>1
    <3> QED
      BY <3>3, <3>4
  <2>2. CASE h = m
    <3>1. NoPing(m)
      BY <1>4, <1>9, <2>2
    <3>2. read = w /\ at = "header" /\ buf = <<>>
      BY <1>0, <1>2, <1>3, <1>15, <2>2, <3>1 DEF AllRead, Coming
    <3>3. InHeader(w)'
      BY <1>3, <3>2 DEF InHeader, Copied
    <3>4. End(m) = w
      BY <1>0, <1>1, <1>2 DEF Laid
    <3>5. End(h)' = w
      BY <1>8, <2>2, <3>4
    <3> QED
      BY <3>3, <3>5 DEF Inside
  <2> QED
    BY <1>9, <2>1, <2>2
<1>10. ASSUME h >= m + 1 PROVE ~NoPing(m + 1)'
  BY <1>5, <1>6, <1>10
<1>16. \A n \in 0..m : End(n) <= w
  BY <1>0, <1>1, <1>2, EndType
<1>11. ASSUME NEW n \in 1..h, n <= m + 1, NoPing(n)'
       PROVE  handled[n] = sent'[n]
  <2>1. CASE n = m + 1
    BY <1>5, <1>6, <1>11, <2>1
  <2>2. CASE n # m + 1
    <3>1. n \in 1..m /\ n \in 0..m
      BY <1>11, <2>2
    <3>2. handled[n] = sent[n]
      BY <1>0, <1>2, <1>4, <1>11, <1>15, <1>16, <3>1, CountTypes DEF FramesKept, Whole
    <3> QED
      BY <1>7, <3>1, <3>2
  <2> QED
    BY <2>1, <2>2
<1>12. Begun'
  BY <1>2, <1>3, <1>7, <1>9 DEF Begun, Coming
<1>13. AllRead'
  <2>1. h < m + 1 => End(h)' <= Len(wire')
    <3>1. SUFFICES ASSUME h < m + 1 PROVE End(h)' <= Len(wire')
      OBVIOUS
    <3>2. h \in 0..m
      BY <3>1
    <3>3. PICK e \in Nat : e = End(h)
      BY <1>0, <1>2, <3>2, EndType
    <3>4. e <= w /\ End(h)' = e
      BY <1>8, <1>16, <3>2, <3>3
    <3> QED
      BY <1>15, <3>4
  <2>2. h < m + 1 => Coming'
    BY <1>2, <1>3, <1>7, <1>15, <2>1 DEF Coming
  <2> QED
    BY <1>2, <1>3, <1>7, <1>10, <2>2 DEF AllRead
<1>14. FramesKept'
  <2>1. DOMAIN handled = 1..h
    BY <1>0, <1>2, CountTypes
  <2> QED
    BY <1>3, <1>7, <1>11, <2>1 DEF FramesKept, Whole
<1> QED
  BY <1>12, <1>13, <1>14

LEMMA HandleFollows ==
  ASSUME Follows, Handle
  PROVE  Begun' /\ AllRead' /\ FramesKept'
<1>0. Typed /\ TypeOK /\ Laid /\ Begun /\ AllRead /\ FramesKept
  BY DEF Follows, Typed
<1>1. PICK m \in Nat, h \in Nat : m = Len(sent) /\ h = Len(handled)
  BY <1>0, CountTypes
<1>2. PICK g : g = [type |-> header.type, object |-> header.object, body |-> buf]
  OBVIOUS
<1>3. /\ UNCHANGED <<sent, ends, wire, cut, read, open>> /\ at' = "header" /\ buf' = <<>>
      /\ at = "body" /\ Arriving' = Arriving
  BY DEF Handle, Complete, Arriving
<1>4. /\ Len(handled') = h + 1 /\ handled'[h + 1] = g
      /\ \A n \in 1..h : handled'[n] = handled[n]
      /\ DOMAIN handled' = 1..(h + 1)
  <2>1. handled' = Append(handled, g)
    BY <1>2 DEF Handle
  <2>2. handled \in Seq(FrameRecord)
    BY <1>0 DEF TypeOK
  <2> QED
    BY <1>1, <2>1, <2>2
<1>5. \A n : (NoPing(n)' <=> NoPing(n)) /\ End(n)' = End(n)
  BY <1>3 DEF NoPing, End
<1>10. PICK a \in Nat, p \in Nat : a = Arriving /\ p = read /\ p <= a /\ a <= Len(wire)
  BY <1>0, ArrivingType
<1>6. ASSUME h < m, NoPing(h + 1), End(h) <= a
      PROVE  \/ g = sent[h + 1] /\ read = End(h + 1)
             \/ Lost(h + 1)
  <2>1. PICK f \in FrameRecord, e \in Nat :
           /\ f = sent[h + 1] /\ e = End(h) /\ Len(f.body) \in Nat
           /\ Holds(f, e)
           /\ End(h + 1) = e + (4 + Len(f.body))
           /\ e + (4 + Len(f.body)) <= Len(wire)
    BY <1>0, <1>1, <1>6, Front
  <2>2. NoPing(h) /\ ~IsPing(f.type) /\ Coming
    BY <1>1, <1>6, <1>10, <2>1 DEF NoPing, Coming
  <2>3. Inside(f, e) \/ Lost(h + 1)
    BY <1>0, <1>1, <2>1, <2>2 DEF Begun
  <2>4. CASE Inside(f, e)
    <3>1. [type |-> header.type, object |-> header.object, body |-> buf] = f
          /\ read = e + (4 + Len(f.body))
      BY <1>0, <2>1, <2>2, <2>4, HandleInside
    <3> QED
      BY <1>2, <2>1, <3>1
  <2> QED
    BY <2>3, <2>4
<1>11. ASSUME h < m, End(h + 1) <= a
       PROVE  End(h) <= a /\ ~Lost(h + 1) /\ End(h + 1) \in Nat
  <2>1. PICK f \in FrameRecord, e \in Nat :
           /\ e = End(h) /\ Len(f.body) \in Nat
           /\ End(h + 1) = e + (4 + Len(f.body))
    BY <1>0, <1>1, <1>11, Front
  <2>2. PICK d \in Nat : d = End(h + 1)
    BY <2>1
  <2> QED
    BY <1>10, <1>11, <2>1, <2>2 DEF Lost
<1>7. Begun'
  <2>1. SUFFICES ASSUME h + 1 < m, End(h + 1) <= a, NoPing(h + 1)
                 PROVE  InHeader(End(h + 1))'
    BY <1>1, <1>3, <1>4, <1>5, <1>10 DEF Begun, Inside, Coming
  <2>2. read = End(h + 1)
    BY <1>6, <1>11, <2>1
  <2>3. PICK e \in Nat : e = End(h + 1)
    <3>1. h + 1 \in 0..Len(sent)
      BY <1>1, <2>1
    <3> QED
      BY <1>0, <3>1, EndType
  <2>4. End(h + 1)' = e
    BY <1>5, <2>3
  <2>5. InHeader(e)'
    BY <1>3, <2>2, <2>3 DEF InHeader, Copied
  <2> QED
    BY <2>4, <2>5
<1>8. AllRead'
  <2>1. SUFFICES ASSUME ~Coming', NoPing(m)
                 PROVE  read = a /\ (open => h + 1 = m)
    BY <1>1, <1>3, <1>4, <1>5, <1>10 DEF AllRead
  <2>2. CASE Coming
    <3>1. h < m /\ End(h) <= a
      BY <1>1, <1>10, <2>2 DEF Coming
    <3>2. NoPing(h + 1)
      BY <1>1, <2>1, <3>1 DEF NoPing
    <3>3. CASE Lost(h + 1)
      BY <1>10, <3>3 DEF Lost
    <3>4. CASE g = sent[h + 1] /\ read = End(h + 1)
      <4>1. End(h + 1) <= a
        BY <1>10, <3>4
      <4>2. ~(h + 1 < m)
        BY <1>1, <1>3, <1>4, <1>5, <1>10, <2>1, <4>1 DEF Coming
      <4>3. h + 1 = m
        BY <3>1, <4>2
      <4>4. p = Len(wire)
        BY <1>0, <1>1, <1>10, <3>4, <4>3 DEF Laid
      <4> QED
        BY <1>10, <4>3, <4>4
    <3> QED
      BY <1>6, <3>1, <3>2, <3>3, <3>4
  <2>3. CASE ~Coming
    BY <1>0, <1>1, <1>3, <1>10, <2>1, <2>3 DEF AllRead
  <2> QED
    BY <2>2, <2>3
<1>9. FramesKept'
  <2>1. SUFFICES ASSUME NEW n \in 1..(h + 1), n <= m, End(n) <= a, NoPing(n)
                 PROVE  handled'[n] = sent[n]
    BY <1>1, <1>3, <1>4, <1>5, <1>10 DEF FramesKept, Whole
  <2>2. CASE n = h + 1
    <3>1. h < m
      BY <2>1, <2>2
    <3> QED
      BY <1>4, <1>6, <1>11, <2>1, <2>2, <3>1
  <2>3. CASE n # h + 1
    <3>1. n \in 1..h
      BY <2>1, <2>3
    <3> QED
      BY <1>0, <1>1, <1>4, <1>10, <2>1, <3>1, CountTypes DEF FramesKept, Whole
  <2> QED
    BY <2>2, <2>3
<1> QED
  BY <1>7, <1>8, <1>9

LEMMA FollowsInit == Init => Follows
<1> SUFFICES ASSUME Init PROVE Follows
  OBVIOUS
<1>1. Typed /\ Laid
  BY TypedInit, LaidInit
<1>2. Begun
  BY DEF Init, Begun, Coming
<1>3. AllRead
  BY DEF Init, AllRead, Arriving
<1>4. FramesKept
  BY DEF Init, FramesKept
<1> QED
  BY <1>1, <1>2, <1>3, <1>4 DEF Follows

LEMMA FollowsStep == Follows /\ [Next]_vars => Follows'
<1> SUFFICES ASSUME Follows, [Next]_vars PROVE Follows'
  OBVIOUS
<1>1. Typed' /\ Laid'
  BY TypedStep, LaidStep DEF Follows, Typed
<1>2. CASE ServerSend
  BY <1>1, <1>2, SendFollows DEF Follows
<1>3. CASE Handle
  BY <1>1, <1>3, HandleFollows DEF Follows
<1>4. CASE Quiet
  BY <1>1, <1>4, QuietBegun, QuietAllRead, QuietKept DEF Follows
<1>5. CASE ServerClose
  BY <1>1, <1>5, CloseFollows DEF Follows
<1> QED
  BY <1>2, <1>3, <1>4, <1>5 DEF Next, Client, Quiet

LEMMA FollowsAlways == Spec => []Follows
BY FollowsInit, FollowsStep, PTL DEF Spec

\* Of the frames that come whole, up to the first ping, what is handled is what
\* was sent, for any frames, however their bytes arrive and wherever the
\* connection ends (main.c 150-187).
THEOREM FramesKeptAlways == Spec => []FramesKept
<1>1. Follows => FramesKept
  BY DEF Follows
<1> QED
  BY <1>1, FollowsAlways, PTL

\* Whenever a header is to be read, the frames handled have been read and not a
\* byte more, or all there was of one that was cut (main.c 150-187).
THEOREM InStepAlways == Spec => []InStep
<1>1. Follows => InStep
  <2> SUFFICES ASSUME Follows, NoPing(Len(sent)), at = "header", buf = <<>>
               PROVE  read = IF Coming THEN End(Len(handled)) ELSE Arriving
    BY DEF InStep
  <2>0. Typed /\ TypeOK /\ Laid /\ Begun /\ AllRead
    BY DEF Follows, Typed
  <2>1. PICK m \in Nat, h \in Nat : m = Len(sent) /\ h = Len(handled)
    BY <2>0, CountTypes
  <2>2. CASE Coming
    <3>1. h < m /\ NoPing(h)
      BY <2>1, <2>2 DEF NoPing, Coming
    <3>2. PICK f \in FrameRecord, e \in Nat : f = sent[h + 1] /\ e = End(h)
      BY <2>0, <2>1, <3>1, Front
    <3>3. Inside(f, e) /\ ~IsPing(f.type)
      BY <2>0, <2>1, <2>2, <3>1, <3>2 DEF Begun, Lost, NoPing
    <3>4. read = e + Len(buf)
      BY <2>0, <3>3, InsideRead
    <3>5. Len(buf) = 0
      OBVIOUS
    <3> QED
      BY <2>1, <2>2, <3>2, <3>4, <3>5
  <2>3. CASE ~Coming
    BY <2>0, <2>3 DEF AllRead
  <2> QED
    BY <2>2, <2>3
<1> QED
  BY <1>1, FollowsAlways, PTL
=============================================================================
