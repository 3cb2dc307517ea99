------------------------------- MODULE Frames -------------------------------
(***************************************************************************)
(* The frames of RequestWebSocket.cpp (client to server) and               *)
(* ResponseWebSocket.cpp (server to client) as bytes of a stream that      *)
(* arrives in any pieces, and the two loops that cut messages out of it.   *)
(*                                                                         *)
(* A byte has Byte values, 256 in the code.  Its upper half is a flag, so  *)
(* the lower half of the second byte has Byte \div 2 values, of which the  *)
(* last two announce a length of 2 and of 8 bytes.  A smaller Byte leaves  *)
(* every kind of header in place and makes the frames shorter.  The lower  *)
(* half of the first byte is the opcode, of which there are Opcodes, 16 in *)
(* the code, below the three bits RSV.                                     *)
(***************************************************************************)
EXTENDS Integers, SequencesExt

CONSTANTS
  Byte,        \* values of a byte
  Opcodes,     \* values of the opcode
  Xor(_, _),   \* ^ of two bytes
  MaxFrame,    \* Config: MaxFrameSize
  MaxMessage,  \* Config: MaxMessageSize
  ToServer,    \* frames that clients of any make send to the server
  ToClient,    \* frames that the server sends
  MaxFrames    \* bound: frames sent

Half   == Byte \div 2
Medium == Half - 2
Long   == Half - 1

\* Values of up to eight bytes together, and of a size_t.
Power[n \in 0 .. 8] == IF n = 0 THEN 1 ELSE Byte * Power[n - 1]
Word == Power[8]

\* A frame: flag FIN, RSV and opcode, mask or << >>, payload.  All of it fits into a
\* ByteArray, with 14 bytes of header at most.
IsFrame(f) ==
  /\ f.fin \in {0, 1} /\ f.type \in 0 .. Half - 1
  /\ f.mask = << >> \/ f.mask \in [1 .. 4 -> 0 .. Byte - 1]
  /\ f.data \in Seq(0 .. Byte - 1) /\ Len(f.data) + 14 < Word

ASSUME FramesAssumption ==
  /\ Byte \in Nat /\ Byte % 2 = 0 /\ Byte >= 8 /\ Opcodes \in Nat \ {0}
  /\ \A a, b \in 0 .. Byte - 1 : Xor(a, b) \in 0 .. Byte - 1 /\ Xor(Xor(a, b), b) = a
  /\ MaxFrame \in Nat /\ MaxMessage \in Nat /\ MaxFrame + 14 < Word /\ MaxFrames \in Nat
  /\ \A f \in ToServer \cup ToClient : IsFrame(f)
  /\ \A f \in ToClient : f.fin = 1 /\ f.mask = << >>

VARIABLES
  to,    \* who receives: "server" or "client"
  sent,  \* the frames that were sent
  wire,  \* bytes on their way
  data,  \* bytes received: RequestData::data, or m_data of the client
  list   \* messages cut out of them: [type, data]

vars == <<to, sent, wire, data, list>>

Undefined == 0  \* MessageType::Undefined

-----------------------------------------------------------------------------
(* Writing frames.                                                         *)

\* The length v in n bytes, the highest first.
LengthBytes(v, n) == [i \in 1 .. n |-> (v \div Power[n - i]) % Byte]

\* The two bytes of WebSocketHeader, and the extended length.
Header(f, size) ==
  LET masked == IF f.mask = << >> THEN 0 ELSE 1
      Two(len) == << (f.fin * Half) + f.type, (masked * Half) + len >>
  IN CASE size < Medium                     -> Two(size)
       [] size >= Medium /\ size < Power[2] -> Two(Medium) \o LengthBytes(size, 2)
       [] OTHER                             -> Two(Long) \o LengthBytes(size, 8)

Masked(bytes, mask) ==
  [i \in 1 .. Len(bytes) |-> Xor(bytes[i], mask[((i - 1) % 4) + 1])]

\* RequestWebSocket::Send, and what other clients send.
RequestFrame(f) ==
  Header(f, Len(f.data)) \o f.mask
    \o (IF f.mask = << >> THEN f.data ELSE Masked(f.data, f.mask))

\* ResponseWebSocket::Send
ResponseFrame(f) == Header(f, Len(f.data)) \o f.data

Encoded(f) == IF to = "server" THEN RequestFrame(f) ELSE ResponseFrame(f)

-----------------------------------------------------------------------------
(* Reading them: what a Parse finds at the start of some bytes, a record   *)
(* with ok FALSE if there is no message yet.                               *)

Nothing == [ok |-> FALSE, type |-> Undefined, data |-> << >>, size |-> 0]

Value(bytes) == FoldLeft(LAMBDA v, b : (v * Byte) + b, 0, bytes)

\* Bytes of the extended length.
LengthSize(bytes) ==
  LET len == bytes[2] % Half
  IN CASE len = Medium -> 2 [] len = Long -> 8 [] OTHER -> 0

HasHeader(bytes) == Len(bytes) >= 2 /\ Len(bytes) >= 2 + LengthSize(bytes)

\* The header with extended length and mask.
HeaderSize(bytes) ==
  2 + LengthSize(bytes) + (IF bytes[2] >= Half THEN 4 ELSE 0)

\* Mutant: the extended length is read the wrong way round.
PayloadSizeSwapped(bytes) ==
  IF LengthSize(bytes) = 0 THEN bytes[2] % Half
  ELSE Value(Reverse(SubSeq(bytes, 3, 2 + LengthSize(bytes))))

\* The length of the payload.
PayloadSize(bytes) ==
  IF LengthSize(bytes) = 0 THEN bytes[2] % Half
  ELSE Value(SubSeq(bytes, 3, 2 + LengthSize(bytes)))

\* Mutant: one byte more is waited for.
IsWholeStrict(bytes) == Len(bytes) > HeaderSize(bytes) + PayloadSize(bytes)

IsWhole(bytes) == Len(bytes) >= HeaderSize(bytes) + PayloadSize(bytes)

\* RequestWebSocket::Parse: whatever RSV says, the type is the opcode alone.
RequestParse(bytes) ==
  LET head == HeaderSize(bytes)
      size == PayloadSize(bytes)
      payload == SubSeq(bytes, head + 1, head + size)
      mask == SubSeq(bytes, head - 3, head)
  IN IF /\ HasHeader(bytes)
        /\ size > 0 /\ size <= MaxFrame /\ size <= MaxMessage
        /\ IsWhole(bytes)
        /\ bytes[1] >= Half
     THEN [ok |-> TRUE, type |-> (bytes[1] % Half) % Opcodes, size |-> head + size,
           data |-> IF bytes[2] >= Half THEN Masked(payload, mask) ELSE payload]
     ELSE Nothing

\* ResponseWebSocket::Parse: the extended length is taken with the lowest
\* byte first, the type is not looked at.  A header that has not arrived is
\* read from what lies behind the data; whatever that is, the data is then
\* shorter than the header alone.
ResponseParse(bytes) ==
  LET head == 2 + LengthSize(bytes)
      size == IF LengthSize(bytes) = 0 THEN bytes[2] % Half
              ELSE Value(Reverse(SubSeq(bytes, 3, head)))
  IN IF HasHeader(bytes) /\ Len(bytes) >= (head + size) % Word
     THEN [ok |-> TRUE, type |-> Undefined, size |-> head + size,
           data |-> SubSeq(bytes, head + 1, head + size)]
     ELSE Nothing

Parsed(bytes) == IF to = "server" THEN RequestParse(bytes) ELSE ResponseParse(bytes)

-----------------------------------------------------------------------------
Init ==
  /\ to \in {"server", "client"}
  /\ sent = << >> /\ wire = << >> /\ data = << >> /\ list = << >>

Send ==
  /\ Len(sent) < MaxFrames
  /\ \E f \in IF to = "server" THEN ToServer ELSE ToClient :
       /\ sent' = Append(sent, f)
       /\ wire' = wire \o Encoded(f)
  /\ UNCHANGED <<to, data, list>>

\* PutToQueue, or the insertion in OnDataReady: what a read() brings is
\* some number of these steps.
Arrive ==
  /\ wire # << >>
  /\ data' = Append(data, Head(wire))
  /\ wire' = Tail(wire)
  /\ UNCHANGED <<to, sent, list>>

\* CheckWsFrame, or one round of the loop in OnDataReady.
Cut ==
  LET message == Parsed(data) IN
  /\ message.ok
  /\ data' = SubSeq(data, message.size + 1, Len(data))
  /\ list' = Append(list, [type |-> message.type, data |-> message.data])
  /\ UNCHANGED <<to, sent, wire>>

Next == Send \/ Arrive \/ Cut

Spec == Init /\ [][Next]_vars
-----------------------------------------------------------------------------
(* Properties.                                                             *)

\* What the receiver makes a message of.  The server takes whole messages
\* with a payload within the limits; the client reads a length below
\* Medium as it was meant.
Understood(f) ==
  IF to = "server" THEN f.fin = 1 /\ Len(f.data) \in 1 .. Min({MaxFrame, MaxMessage})
                   ELSE Len(f.data) < Medium

\* The frames up to the first that the receiver does not understand.
Good == LET Bad == {i \in 1 .. Len(sent) : ~ Understood(sent[i])}
        IN IF Bad = {} THEN Len(sent) ELSE Min(Bad) - 1

Message(f) ==
  [type |-> IF to = "server" THEN f.type % Opcodes ELSE Undefined, data |-> f.data]

\* However the stream is cut into reads, the messages are those that were
\* sent, and what is left begins with the next frame: neither end loses the
\* frame boundaries, at any length and mask, up to a frame that is not
\* understood - and the server not at that either.
StreamKept ==
  LET n == Len(list) IN
  to = "server" \/ Good = Len(sent) =>
    /\ n <= Good
    /\ list = [i \in 1 .. n |-> Message(sent[i])]
    /\ data \o wire = FlattenSeq([i \in 1 .. Len(sent) - n |-> Encoded(sent[n + i])])

\* A message is cut out exactly when all of its frame has arrived: no part
\* of a header or of a payload is taken for a whole, and none is waited for
\* any longer.
CutsInTime ==
  LET n == Len(list) IN
  to = "server" \/ Good = Len(sent) =>
    (Parsed(data).ok <=> n < Good /\ Len(data) >= Len(Encoded(sent[n + 1])))
=============================================================================
