------------------------------ MODULE WsPacket ------------------------------
(***************************************************************************)
(* The frame codec of src/src/util/ws/ws_packet.cpp as operators: the      *)
(* reads of ByteBuffer, WebSocketPacket::recv_dataframe and what it calls, *)
(* and WebSocketPacket::pack_dataframe; and the clients' own encoder,      *)
(* create_websocket_frame.  A buffer is a sequence of bytes and an offset  *)
(* counts the bytes of it that were consumed.                              *)
(*                                                                         *)
(* The two lengths at which the length field of a frame grows are          *)
(* constants, 126 and 65535 in the code, so that small frames can take     *)
(* every form of the header.                                               *)
(*                                                                         *)
(* The definitions commented "Slip" are mutated forms of the definition    *)
(* that follows them.                                                      *)
(***************************************************************************)
EXTENDS Naturals, Sequences

CONSTANTS
  Len7Limit,     \* first payload length that needs a two-byte length field
  Len16Max,      \* last payload length that fits in a two-byte length field
  ByteXor(_, _)      \* exclusive or of two bytes

\* From 4 bytes on a payload is longer than the part of a masking key that may
\* have arrived with the shortest packet that is parsed; 126 in the code.
ASSUME LengthsAssumption ==
  /\ Len7Limit \in 4 .. 126
  /\ Len16Max \in Len7Limit .. 65535

Byte == 0 .. 255

\* Exclusive or stays in the byte and undoes itself.
ASSUME XorAssumption ==
  \A a, b \in Byte : ByteXor(a, b) \in Byte /\ ByteXor(ByteXor(a, b), b) = a

\* Arithmetic for the proofs, whose provers do not know powers.
ASSUME PowersAssumption == 256 ^ 0 = 1 /\ 256 ^ 1 = 256

WSOpcode_Continue == 0
WSOpcode_Text == 1
WSOpcode_Binary == 2
WSOpcode_Close == 8
WSOpcode_Ping == 9
WSOpcode_Pong == 10

\* What a WebSocketPacket carries from one frame to the next: a 64-bit length
\* field is parsed and never stored, and a key that could not be read stays.
Packet == [payload_length : Nat, masking_key : Seq(Byte)]

\* A constructed packet.  The key is not initialised by the code; no frame
\* uses a key that was not read.
NewPacket == [payload_length |-> 0, masking_key |-> <<0, 0, 0, 0>>]

-----------------------------------------------------------------------------
(* ByteBuffer *)

\* read_bytes_x: where the offset is after a read of n bytes, which takes all
\* of them or, when there are too few, none.
AfterRead(buf, oft, n) == IF n <= Len(buf) - oft THEN oft + n ELSE oft

\* What such a read leaves in a target that held "old".
ReadBytes(buf, oft, n, old) ==
  IF n <= Len(buf) - oft THEN SubSeq(buf, oft + 1, oft + n) ELSE old

\* erase: drops the first n bytes, or everything.
Erase(buf, n) == SubSeq(buf, n + 1, Len(buf))

\* curat() is vector::at(oft), which throws at the end of a non-empty vector.
CurAtThrows(buf, oft) == Len(buf) # 0 /\ oft >= Len(buf)

-----------------------------------------------------------------------------
(* recv_dataframe *)

\* Width of the extended length field behind a seven-bit length type.
ExtendedWidth(type) ==
  IF type = Len7Limit THEN 2 ELSE IF type = Len7Limit + 1 THEN 8 ELSE 0

\* payload_length_ after the length field was read.  The value of a 64-bit
\* field goes to a local variable and payload_length_ keeps what it held.
PayloadLength(type, ext, packet) ==
  IF type < Len7Limit THEN type
  ELSE IF type = Len7Limit THEN 256 * ext[1] + ext[2]
  ELSE packet.payload_length

\* fetch_frame_info: the header at oft.  "header" is the offset behind it.
FetchFrameInfo(packet, buf, oft) ==
  LET first  == ReadBytes(buf, oft, 1, <<0>>)[1]
      next   == AfterRead(buf, oft, 1)
      second == ReadBytes(buf, next, 1, <<first>>)[1]
      extAt  == AfterRead(buf, next, 1)
      width  == ExtendedWidth(second % 128)
      ext    == ReadBytes(buf, extAt, width, [i \in 1 .. width |-> 0])
      mask   == second \div 128
      keyAt  == AfterRead(buf, extAt, width)
  IN  [fin            |-> first \div 128,
       opcode         |-> first % 128,
       mask           |-> mask,
       masking_key    |-> IF mask = 1
                          THEN ReadBytes(buf, keyAt, 4, packet.masking_key)
                          ELSE packet.masking_key,
       payload_length |-> PayloadLength(second % 128, ext, packet),
       header         |-> AfterRead(buf, keyAt, 4 * mask)]

\* The length test of recv_dataframe: header_size is an offset into the whole
\* buffer, as is the length it is compared with.
FrameComplete(info, buf) == info.payload_length + info.header <= Len(buf)

\* fetch_payload copies an unmasked payload through curat().
FetchPayloadThrows(info, buf) == info.mask = 0 /\ CurAtThrows(buf, info.header)

\* Slip: the key is not advanced.
FetchPayloadFirstKeyByte(info, buf) ==
  [i \in 1 .. info.payload_length |->
     IF info.mask = 1
     THEN ByteXor(buf[info.header + i], info.masking_key[1])
     ELSE buf[info.header + i]]

FetchPayload(info, buf) ==
  [i \in 1 .. info.payload_length |->
     IF info.mask = 1
     THEN ByteXor(buf[info.header + i], info.masking_key[((i - 1) % 4) + 1])
     ELSE buf[info.header + i]]

-----------------------------------------------------------------------------
(* pack_dataframe *)

\* The bytes of n in network order, in a field of the given width; n < 2^24.
NetworkOrder(n, width) ==
  [i \in 1 .. width |->
     IF width - i < 3 THEN (n \div 256 ^ (width - i)) % 256 ELSE 0]

\* get_length_type and the length bytes that follow it.
LengthType(n) ==
  IF n < Len7Limit THEN n ELSE IF n <= Len16Max THEN Len7Limit ELSE Len7Limit + 1

\* Slip: the fin bit is left out of the first byte.
PackDataframeNoFin(fin, opcode, mask, key, payload) ==
  LET type == LengthType(Len(payload))
  IN  <<opcode % 16, 128 * mask + type>>
        \o NetworkOrder(Len(payload), ExtendedWidth(type))
        \o (IF mask = 1 THEN key ELSE <<>>)
        \o [i \in 1 .. Len(payload) |->
              IF mask = 1 THEN ByteXor(payload[i], key[((i - 1) % 4) + 1])
              ELSE payload[i]]

PackDataframe(fin, opcode, mask, key, payload) ==
  LET type == LengthType(Len(payload))
  IN  <<128 * fin + (opcode % 16), 128 * mask + type>>
        \o NetworkOrder(Len(payload), ExtendedWidth(type))
        \o (IF mask = 1 THEN key ELSE <<>>)
        \o [i \in 1 .. Len(payload) |->
              IF mask = 1 THEN ByteXor(payload[i], key[((i - 1) % 4) + 1])
              ELSE payload[i]]

-----------------------------------------------------------------------------
(* create_websocket_frame *)

\* Slip: the key starts again at every third byte.
MaskPayloadThreeBytes(payload, key) ==
  [i \in 1 .. Len(payload) |-> ByteXor(payload[i], key[((i - 1) % 3) + 1])]

MaskPayload(payload, key) ==
  [i \in 1 .. Len(payload) |-> ByteXor(payload[i], key[((i - 1) % 4) + 1])]

\* Always a whole masked text; the key is random.
CreateWebsocketFrame(payload, key) ==
  LET type == LengthType(Len(payload))
  IN  <<129, 128 + type>> \o NetworkOrder(Len(payload), ExtendedWidth(type))
        \o key \o MaskPayload(payload, key)
=============================================================================
