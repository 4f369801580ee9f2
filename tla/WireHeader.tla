----------------------------- MODULE WireHeader -----------------------------
(***************************************************************************)
(* The binary header of a frame (client/src/protocol_util.c): version and  *)
(* type of four bits, object of eight and body size of sixteen, in network *)
(* order.  Shifts and masks are products and remainders; a byte order that *)
(* htonl and ntohl undo is left out.                                       *)
(***************************************************************************)
EXTENDS Integers, Sequences

Byte == 0..255

\* Four bits.
Nibble == 0..15

\* uint16_t.
Word == {n \in Nat : n < 65536}

DEFAULT_VERSION == 1

Type == [CREATE |-> 1, READ |-> 2, UPDATE |-> 3, DESTROY |-> 4,
         PINGUSER |-> 9, PINGCHANNEL |-> 10]

Object == [USER |-> 1, CHANNEL |-> 2, MESSAGE |-> 3, AUTH |-> 4]

\* The fields of struct binary_header_field, with their widths.
Header == [version : Nibble, type : Nibble, object : Byte, body_size : Word]

IsPing(t) == t \in {Type.PINGUSER, Type.PINGCHANNEL}

-----------------------------------------------------------------------------
\* Mutant of Serialize: the bytes of the body size are swapped.
SerializeSwapped(h) ==
  <<h.version * 16 + h.type, h.object, h.body_size % 256, h.body_size \div 256>>

\* serialize_header: the four bytes before the body.
Serialize(h) ==
  <<h.version * 16 + h.type, h.object, h.body_size \div 256, h.body_size % 256>>

\* deserialize_header, from the first byte and from the three that follow.
VersionOf(byte) == byte \div 16
TypeOf(byte) == byte % 16
ObjectOf(rest) == rest[1]

\* Mutant of SizeOf: the byte before it is not masked out.
SizeOfUnmasked(rest) == rest[1] * 65536 + rest[2] * 256 + rest[3]

SizeOf(rest) == rest[2] * 256 + rest[3]

\* send_create_user and its like: the header of a body.  body_size is 16 bits.
HeaderOf(t, o, body) ==
  [version |-> DEFAULT_VERSION, type |-> t, object |-> o,
   body_size |-> Len(body) % 65536]

Frame(t, o, body) == Serialize(HeaderOf(t, o, body)) \o body
=============================================================================
