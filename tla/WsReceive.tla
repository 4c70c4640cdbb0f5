------------------------------ MODULE WsReceive ------------------------------
(***************************************************************************)
(* read_and_process_message of src/src/net/wss_client.cpp (the okx client  *)
(* has the same function): the bytes of the TLS stream are appended to     *)
(* recv_buf in reads of any size, frames are cut out of the front of it    *)
(* one after the other, their payloads are collected in msg_buf, and a     *)
(* frame with the fin bit hands msg_buf to process_one_message.            *)
(*                                                                         *)
(* The peer is external.  It follows RFC 6455: a message is one frame or a *)
(* run of fragments, the opcode stands on the first fragment, and control  *)
(* frames may come between fragments.                                      *)
(*                                                                         *)
(* The definitions commented "Slip" are mutated forms of the definition    *)
(* that follows them; they belong to no behaviour of the specification.    *)
(***************************************************************************)
EXTENDS WsPacket, SequencesExt

CONSTANTS
  WEBSOCKET_HEADER_MIN_SIZE,  \* 5 in the code
  Frames,                     \* frames the peer may send
  MaxFrames                   \* bound: frames sent on one connection

\* A frame as the peer sees it.
Frame == [fin : 0 .. 1, opcode : 0 .. 15, mask : 0 .. 1, key : Seq(Byte),
          payload : Seq(Byte)]

\* With 5 a masked header without a length field has arrived when parsing
\* starts.
ASSUME HeaderMinAssumption ==
  WEBSOCKET_HEADER_MIN_SIZE \in Nat /\ WEBSOCKET_HEADER_MIN_SIZE >= 5
ASSUME MaxFramesAssumption == MaxFrames \in Nat
\* RFC 6455, 5.3 and 5.5: a key has four bytes, and control frames are never
\* fragmented.
ASSUME FramesAssumption ==
  /\ Frames \subseteq Frame
  /\ \A f \in Frames : f.mask = 1 => Len(f.key) = 4
  /\ \A f \in Frames : f.opcode >= 8 => f.fin = 1

VARIABLES
  wire,          \* bytes sent by the peer and not yet read
  recv_buf,      \* ByteBuffer: bytes read
  oft,           \* its offset
  msg_buf,       \* payloads of the current message
  packet,        \* the WebSocketPacket of the current batch
  pc,            \* "read", "parse", "returned", "aborted" by an exception, or
                 \* "asserted": ended by an assertion of the JSON library
  sent,          \* history: frames sent by the peer
  decoded,       \* history: frames cut out of recv_buf
  handled,       \* history: what the JSON parser got of each text
  written,       \* history: frames the client wrote, as bytes
  write_failed   \* history: an SSL_write of a pong failed

inVars == <<recv_buf, oft, packet, pc>>
msgVars == <<msg_buf, decoded, handled, written, write_failed>>
vars == <<wire, sent, inVars, msgVars>>

-----------------------------------------------------------------------------
(* The peer *)

\* RFC 6455, 5.2: the bytes of a frame.
RfcBytes(f) ==
  LET n == Len(f.payload)
      b(k) == (n \div 256 ^ k) % 256
  IN  <<128 * f.fin + f.opcode>>
        \o (IF n < Len7Limit THEN <<128 * f.mask + n>>
            ELSE IF n <= Len16Max
            THEN <<128 * f.mask + Len7Limit, b(1), b(0)>>
            ELSE <<128 * f.mask + Len7Limit + 1, 0, 0, 0, 0, 0, b(2), b(1), b(0)>>)
        \o (IF f.mask = 1
            THEN f.key \o [i \in 1 .. n |-> ByteXor(f.payload[i], f.key[((i - 1) % 4) + 1])]
            ELSE f.payload)

\* Texts in one masked frame are encoded as the clients encode theirs, so that
\* the peer may be one that sends a client's frames back.
Encode(f) ==
  IF f.fin = 1 /\ f.opcode = WSOpcode_Text /\ f.mask = 1
  THEN CreateWebsocketFrame(f.payload, f.key)
  ELSE RfcBytes(f)

IsControl(f) == f.opcode >= 8

\* A fragmented message has begun and its last fragment is still to come.
InMessage(frames) ==
  \E i \in DOMAIN frames :
    /\ ~IsControl(frames[i]) /\ frames[i].fin = 0
    /\ \A j \in DOMAIN frames : j > i => IsControl(frames[j])

MaySend(f) ==
  /\ Len(sent) < MaxFrames
  /\ IsControl(f) \/ (InMessage(sent) <=> f.opcode = WSOpcode_Continue)

-----------------------------------------------------------------------------
TypeOK ==
  /\ wire \in Seq(Byte)
  /\ recv_buf \in Seq(Byte)
  /\ oft \in 0 .. Len(recv_buf)
  /\ msg_buf \in Seq(Byte)
  /\ packet \in Packet
  /\ pc \in {"read", "parse", "returned", "aborted", "asserted"}
  /\ sent \in Seq(Frames)
  /\ decoded \in Seq([fin : 0 .. 1, opcode : 0 .. 127, payload : Seq(Byte)])
  /\ handled \in Seq(Seq(Byte))
  /\ written \in Seq(Seq(Byte))
  /\ write_failed \in BOOLEAN

Init ==
  /\ wire = <<>>
  /\ recv_buf = <<>>
  /\ oft = 0
  /\ msg_buf = <<>>
  /\ packet = NewPacket
  /\ pc = "read"
  /\ sent = <<>>
  /\ decoded = <<>>
  /\ handled = <<>>
  /\ written = <<>>
  /\ write_failed = FALSE

PeerSends(f) ==
  /\ MaySend(f)
  /\ pc \in {"read", "parse"}
  /\ sent' = Append(sent, f)
  /\ wire' = wire \o Encode(f)
  /\ UNCHANGED <<inVars, msgVars>>

-----------------------------------------------------------------------------
(* Reading *)

\* Slip: the guard lets a packet be parsed as soon as there is a byte.
EnoughToParseAny(buf, from) == Len(buf) > from

\* Slip: the guard asks for the largest header that a frame can have.
EnoughToParseLargest(buf, from) == Len(buf) > from + 14

\* Parsing starts only when more than the minimum is left behind the offset,
\* and goes on only then.
EnoughToParse(buf, from) == Len(buf) > from + WEBSOCKET_HEADER_MIN_SIZE

\* SSL_read, repeated while SSL_pending reports more: n bytes arrive.  The
\* socket blocks, so a retry after WANT_READ changes nothing.
ReadBatch(n) ==
  /\ pc = "read"
  /\ wire' = SubSeq(wire, n + 1, Len(wire))
  /\ recv_buf' = recv_buf \o SubSeq(wire, 1, n)
  /\ IF EnoughToParse(recv_buf', oft)
     THEN pc' = "parse" /\ packet' = NewPacket
     ELSE UNCHANGED <<pc, packet>>
  /\ UNCHANGED <<sent, oft, msgVars>>

\* SSL_read reports an error or the end of the stream: the function returns
\* with whatever is left unparsed.
ReadFails ==
  /\ pc = "read"
  /\ pc' = "returned"
  /\ UNCHANGED <<wire, sent, recv_buf, oft, packet, msgVars>>

-----------------------------------------------------------------------------
(* Parsing *)

\* The headers that fetch_frame_info finds at the offset: exactly one.
Infos == {FetchFrameInfo(packet, recv_buf, oft)}

\* Slip: resetoft() is forgotten behind erase().
CompactKeepsOffset(n) ==
  /\ recv_buf' = Erase(recv_buf, n)
  /\ oft' = n
  /\ packet' = NewPacket
  /\ pc' = "read"

\* What is left when the parsing loop ends with the offset at n.
Compact(n) ==
  /\ recv_buf' = Erase(recv_buf, n)
  /\ oft' = 0
  /\ packet' = NewPacket
  /\ pc' = "read"

\* Slip: the offset stays behind the header of an incomplete frame.
ParseIncompleteSkipsHeader ==
  /\ pc = "parse"
  /\ \E info \in Infos : ~FrameComplete(info, recv_buf) /\ Compact(info.header)
  /\ UNCHANGED <<wire, sent, msgVars>>

\* The frame has not arrived completely: the offset goes back to its start.
ParseIncomplete ==
  /\ pc = "parse"
  /\ \E info \in Infos : ~FrameComplete(info, recv_buf)
  /\ Compact(oft)
  /\ UNCHANGED <<wire, sent, msgVars>>

\* c_str() as its reader takes it: the bytes in front of the first NUL.
CString(msg) ==
  LET end == CHOOSE n \in 0 .. Len(msg) :
               /\ \A i \in 1 .. n : msg[i] # 0
               /\ n < Len(msg) => msg[n + 1] = 0
  IN  SubSeq(msg, 1, end)

\* process_one_message on the packet that ended a message.  Its result is
\* ignored by the caller, and so is a pong that could not be written.
ProcessOneMessage(info, payload, msg) ==
  \/ /\ info.opcode = WSOpcode_Ping
     /\ \/ written' = Append(written, PackDataframe(1, WSOpcode_Pong, info.mask,
                                                    info.masking_key, payload))
           /\ UNCHANGED write_failed
        \/ write_failed' = TRUE /\ UNCHANGED written
     /\ UNCHANGED handled
  \/ /\ info.opcode = WSOpcode_Text
     /\ handled' = Append(handled, CString(msg))
     /\ UNCHANGED <<written, write_failed>>
  \/ /\ info.opcode \notin {WSOpcode_Ping, WSOpcode_Text}
     /\ UNCHANGED <<handled, written, write_failed>>

\* Slip: msg_buf is not cleared behind a message.
CollectForever(info, payload) ==
  LET msg == msg_buf \o payload
  IN  /\ msg_buf' = msg
      /\ IF info.fin = 1 THEN ProcessOneMessage(info, payload, msg)
         ELSE UNCHANGED <<handled, written, write_failed>>

\* msg_buf grows by the payload and is handed on and cleared at a fin bit.
Collect(info, payload) ==
  LET msg == msg_buf \o payload
  IN  IF info.fin = 1
      THEN ProcessOneMessage(info, payload, msg) /\ msg_buf' = <<>>
      ELSE msg_buf' = msg /\ UNCHANGED <<handled, written, write_failed>>

\* One frame: its payload is collected, and the loop goes on behind it or
\* ends when no more than the minimum is left.
TakeFrame(info) ==
  LET payload == FetchPayload(info, recv_buf)
      end     == info.header + info.payload_length
  IN  /\ decoded' = Append(decoded, [fin |-> info.fin, opcode |-> info.opcode,
                                     payload |-> payload])
      /\ Collect(info, payload)
      /\ IF EnoughToParse(recv_buf, end)
         THEN /\ oft' = end
              /\ packet' = [payload_length |-> info.payload_length,
                            masking_key |-> info.masking_key]
              /\ UNCHANGED <<recv_buf, pc>>
         ELSE Compact(end)

\* std::out_of_range, which nobody catches.
Abort == pc' = "aborted" /\ UNCHANGED <<recv_buf, oft, packet, msgVars>>

ParseFrame ==
  /\ pc = "parse"
  /\ \E info \in Infos :
       /\ FrameComplete(info, recv_buf)
       /\ IF FetchPayloadThrows(info, recv_buf) THEN Abort ELSE TakeFrame(info)
  /\ UNCHANGED <<wire, sent>>

\* Instead: the frame ends a text that is JSON but not of the form that
\* process_one_message takes for granted, an object with strings and a number
\* in it, and an assertion of the library ends the process.
AssertionFails ==
  /\ pc = "parse"
  /\ \E info \in Infos :
       /\ FrameComplete(info, recv_buf) /\ ~FetchPayloadThrows(info, recv_buf)
       /\ info.fin = 1 /\ info.opcode = WSOpcode_Text
       /\ CString(msg_buf \o FetchPayload(info, recv_buf)) # <<>>
  /\ pc' = "asserted"
  /\ UNCHANGED <<wire, sent, recv_buf, oft, packet, msgVars>>

-----------------------------------------------------------------------------
Next ==
  \/ \E f \in Frames : PeerSends(f)
  \/ \E n \in 1 .. Len(wire) : ReadBatch(n)
  \/ ReadFails
  \/ ParseIncomplete
  \/ ParseFrame
  \/ AssertionFails

\* TLS delivers what the peer sent as long as the connection lives, and the
\* client's one thread runs.  The peer need not send and may vanish.
Fairness ==
  /\ WF_vars(\E n \in 1 .. Len(wire) : ReadBatch(n))
  /\ WF_vars(ParseIncomplete \/ ParseFrame)

Spec == Init /\ [][Next]_vars /\ Fairness

-----------------------------------------------------------------------------
(* Properties *)

\* A sent frame as the client is to see it.
View(f) == [fin |-> f.fin, opcode |-> f.opcode, payload |-> f.payload]

Views(frames) == [i \in DOMAIN frames |-> View(frames[i])]

\* The frames sent and not yet cut out of the stream.
Undecoded == SubSeq(sent, Len(decoded) + 1, Len(sent))

Bytes(frames) == FlattenSeq([i \in DOMAIN frames |-> Encode(frames[i])])

\* The client never loses the frame boundary: the bytes behind the offset and
\* those still on the way are exactly the frames that were not yet decoded,
\* whatever the reads, an incomplete frame and the compaction did.
FrameSync ==
  pc # "returned" =>
    SubSeq(recv_buf, oft + 1, Len(recv_buf)) \o wire = Bytes(Undecoded)

\* Between two batches the buffer holds less than the next frame, or no more
\* than the minimum below which the client does not parse: nothing longer
\* is delayed and nothing that was decoded stays in memory.
NothingLongDelayed ==
  pc = "read" =>
    /\ oft = 0
    /\ Len(recv_buf) > WEBSOCKET_HEADER_MIN_SIZE =>
         Undecoded # <<>> /\ Len(recv_buf) < Len(Encode(Undecoded[1]))

\* out holds the values at the indices in I, each once, in ascending order.
InOrder(out, I, value) ==
  \E at \in [DOMAIN out -> I] :
    /\ \A i \in I : \E j \in DOMAIN out : at[j] = i
    /\ \A j, k \in DOMAIN out : j < k => at[j] < at[k]
    /\ \A j \in DOMAIN out : out[j] = value[at[j]]

\* Of every message that the peer sent in one text frame, the JSON parser gets
\* its own bytes up to the first NUL, and nothing else: neither fragments nor
\* control frames around it leak into it.
SingleFrameTextsIntact ==
  InOrder(handled,
          {i \in DOMAIN decoded : decoded[i].fin = 1 /\ decoded[i].opcode = WSOpcode_Text},
          [i \in DOMAIN decoded |-> CString(decoded[i].payload)])

PongOf(f) == [f EXCEPT !.opcode = WSOpcode_Pong]

\* Every ping is answered in order by a pong with the ping's payload, unless
\* a write failed; the pong's bytes are a frame that the peer can parse.
PingsAnswered ==
  ~write_failed =>
    InOrder(written,
            {i \in 1 .. Len(decoded) : sent[i].opcode = WSOpcode_Ping},
            [i \in DOMAIN sent |-> Encode(PongOf(sent[i]))])

\* The unchecked reads of the parser stay inside the buffer: vector::at does
\* not throw, because no frame is parsed before its header has arrived.
NoOutOfRange == pc # "aborted"

\* A frame that is longer than the minimum is decoded while the connection
\* lives, without waiting for a frame behind it.
LongFramesDecoded ==
  \A n \in 1 .. MaxFrames :
    (Len(sent) >= n /\ Len(Encode(sent[n])) > WEBSOCKET_HEADER_MIN_SIZE) ~>
      (Len(decoded) >= n \/ pc \in {"returned", "aborted", "asserted"})

-----------------------------------------------------------------------------
(* What the comments say and the code does not do *)

\* "Complete message received ... Process one complete message"
\* (wss_client.cpp:360-362): a text message whose last fragment was decoded
\* has been handed to the JSON parser.
TextMessagesHandled ==
  LET data  == SelectSeq(decoded, LAMBDA f : f.opcode < 8)
      ended == {i \in DOMAIN data :
                  /\ data[i].fin = 1
                  /\ \E j \in 1 .. i :
                       /\ data[j].opcode = WSOpcode_Text
                       /\ \A k \in j + 1 .. i : data[k].opcode = WSOpcode_Continue}
  IN  Len(handled) = Cardinality(ended)

\* "No complete message received yet" (wss_client.cpp:377): when the client
\* goes back to reading, the frame that comes next has not arrived completely
\* if it ends a message.
NoCompleteFrameWaits ==
  pc = "read" /\ Undecoded # <<>> /\ Undecoded[1].fin = 1 =>
    Len(recv_buf) < Len(Encode(Undecoded[1]))

\* The frames that were decoded are those that were sent.
Intact == IsPrefix(decoded, Views(sent))

\* All bytes of the frame that comes next are in the buffer.
NextArrived ==
  Undecoded # <<>> /\ oft + Len(Encode(Undecoded[1])) <= Len(recv_buf)

\* recv_dataframe returns "an entire frame size", and ">0 means find get a
\* frame" (ws_packet.h:126-129): of a frame that has arrived, what it finds is
\* that frame, entire.
EntireFramesFound ==
  [][Intact /\ NextArrived /\ decoded' # decoded => Intact']_vars

-----------------------------------------------------------------------------
\* The client is the receiving end of a channel of frames.
Channel == INSTANCE FrameChannel
             WITH Frames <- {View(f) : f \in Frames}, sent <- Views(sent),
                  delivered <- decoded
ChannelSpec == Channel!Spec
=============================================================================
