---------------------------- MODULE WsReceiveProofs ----------------------------
(***************************************************************************)
(* Proofs about WsReceive: its inductive invariant, with it the safety     *)
(* properties of the receive path, and that it is the receiving end of a   *)
(* FrameChannel, for any frames whose length fits in two bytes, any reads  *)
(* of the stream and any number of frames.                                 *)
(***************************************************************************)
EXTENDS WsReceive, WsPacketProofs

-----------------------------------------------------------------------------
(* Erasing a prefix *)

\* What is left behind the first k elements.
LEMMA EraseType ==
  ASSUME NEW T, NEW s \in Seq(T), NEW k \in 0 .. Len(s)
  PROVE  /\ Erase(s, k) \in Seq(T)
         /\ Len(Erase(s, k)) = Len(s) - k
         /\ \A i \in 1 .. Len(s) - k : Erase(s, k)[i] = s[k + i]
<1>1. Len(s) \in Nat
  BY LenProperties
<1>2. \A i \in k + 1 .. Len(s) : s[i] \in T
  BY <1>1, ElementOfSeq
<1>3. k + 1 \in Int /\ Len(s) \in Int
  BY <1>1
<1>4. /\ SubSeq(s, k + 1, Len(s)) \in Seq(T)
      /\ Len(SubSeq(s, k + 1, Len(s))) =
           (IF k + 1 <= Len(s) THEN Len(s) - (k + 1) + 1 ELSE 0)
      /\ \A i \in 1 .. Len(s) - (k + 1) + 1 :
           SubSeq(s, k + 1, Len(s))[i] = s[k + 1 + i - 1]
  BY <1>1, <1>2, <1>3, SubSeqProperties
<1>5. \A i \in 1 .. Len(s) - k : SubSeq(s, k + 1, Len(s))[i] = s[k + i]
  <2> TAKE i \in 1 .. Len(s) - k
  <2>1. i \in 1 .. Len(s) - (k + 1) + 1 /\ k + 1 + i - 1 = k + i
    BY <1>1
  <2> QED
    BY <1>4, <2>1
<1>6. Len(SubSeq(s, k + 1, Len(s))) = Len(s) - k
  BY <1>1, <1>4
<1> QED
  BY <1>4, <1>5, <1>6 DEF Erase

\* Nothing is erased.
LEMMA EraseNothing ==
  ASSUME NEW T, NEW s \in Seq(T)
  PROVE  Erase(s, 0) = s
<1>1. Len(s) \in Nat /\ 0 \in 0 .. Len(s) /\ Len(s) - 0 = Len(s)
  BY LenProperties
<1>2. /\ Erase(s, 0) \in Seq(T) /\ Len(Erase(s, 0)) = Len(s)
      /\ \A i \in 1 .. Len(s) : Erase(s, 0)[i] = s[0 + i]
  BY <1>1, EraseType
<1>3. \A i \in 1 .. Len(s) : Erase(s, 0)[i] = s[i]
  BY <1>1, <1>2
<1> QED
  BY <1>2, <1>3, SeqEqual

\* Two erasures are one.
LEMMA EraseTwice ==
  ASSUME NEW T, NEW s \in Seq(T), NEW k \in 0 .. Len(s), NEW m \in 0 .. Len(s) - k
  PROVE  Erase(Erase(s, k), m) = Erase(s, k + m)
<1> DEFINE e == Erase(s, k)
           a == Erase(e, m)
           b == Erase(s, k + m)
<1>1. Len(s) \in Nat /\ k \in Nat /\ m \in Nat /\ k + m \in 0 .. Len(s)
  BY LenProperties
<1>2. /\ e \in Seq(T) /\ Len(e) = Len(s) - k
      /\ \A i \in 1 .. Len(s) - k : e[i] = s[k + i]
  BY EraseType
<1>3. /\ b \in Seq(T) /\ Len(b) = Len(s) - (k + m)
      /\ \A i \in 1 .. Len(s) - (k + m) : b[i] = s[(k + m) + i]
  BY <1>1, EraseType
<1>4. e \in Seq(T) /\ m \in 0 .. Len(e)
  BY <1>2
<1> HIDE DEF e, b
<1>5. /\ a \in Seq(T) /\ Len(a) = Len(e) - m
      /\ \A i \in 1 .. Len(e) - m : a[i] = e[m + i]
  BY <1>4, EraseType
<1> HIDE DEF a
<1>6. Len(a) = Len(b)
  BY <1>1, <1>2, <1>3, <1>5
<1>7. \A i \in 1 .. Len(a) : a[i] = b[i]
  <2> TAKE i \in 1 .. Len(a)
  <2>1. /\ i \in 1 .. Len(e) - m /\ m + i \in 1 .. Len(s) - k
        /\ i \in 1 .. Len(s) - (k + m) /\ k + (m + i) = (k + m) + i
    BY <1>1, <1>2, <1>5
  <2> QED
    BY <1>2, <1>3, <1>5, <2>1
<1>8. a = b
  BY <1>3, <1>5, <1>6, <1>7, SeqEqual
<1> QED
  BY <1>8 DEF a, b, e

\* A prefix of the first of two sequences is erased.
LEMMA EraseFirst ==
  ASSUME NEW T, NEW s \in Seq(T), NEW t \in Seq(T), NEW k \in 0 .. Len(s)
  PROVE  Erase(s \o t, k) = Erase(s, k) \o t
<1> DEFINE w == s \o t
           e == Erase(s, k)
           a == Erase(w, k)
           b == e \o t
<1>1. Len(s) \in Nat /\ Len(t) \in Nat /\ k \in Nat
  BY LenProperties
<1>2. /\ w \in Seq(T) /\ Len(w) = Len(s) + Len(t)
      /\ \A i \in 1 .. Len(s) + Len(t) : w[i] = IF i <= Len(s) THEN s[i] ELSE t[i - Len(s)]
  BY ConcatProperties
<1>3. /\ e \in Seq(T) /\ Len(e) = Len(s) - k
      /\ \A i \in 1 .. Len(s) - k : e[i] = s[k + i]
  BY EraseType
<1>4. w \in Seq(T) /\ k \in 0 .. Len(w) /\ e \in Seq(T)
  BY <1>1, <1>2, <1>3
<1> HIDE DEF w, e
<1>5. /\ a \in Seq(T) /\ Len(a) = Len(w) - k
      /\ \A i \in 1 .. Len(w) - k : a[i] = w[k + i]
  BY <1>4, EraseType
<1>6. /\ b \in Seq(T) /\ Len(b) = Len(e) + Len(t)
      /\ \A i \in 1 .. Len(e) + Len(t) : b[i] = IF i <= Len(e) THEN e[i] ELSE t[i - Len(e)]
  BY <1>4, ConcatProperties
<1> HIDE DEF a, b
<1>7. Len(a) = Len(b)
  BY <1>1, <1>2, <1>3, <1>5, <1>6
<1>8. \A i \in 1 .. Len(a) : a[i] = b[i]
  <2> TAKE i \in 1 .. Len(a)
  <2>1. /\ i \in 1 .. Len(w) - k /\ k + i \in 1 .. Len(s) + Len(t)
        /\ i \in 1 .. Len(e) + Len(t)
    BY <1>1, <1>2, <1>3, <1>5
  <2>2. a[i] = w[k + i]
    BY <1>5, <2>1
  <2>3. CASE k + i <= Len(s)
    <3>1. i <= Len(e) /\ i \in 1 .. Len(s) - k
      BY <1>1, <1>3, <2>1, <2>3
    <3> QED
      BY <1>2, <1>3, <1>6, <2>1, <2>2, <2>3, <3>1
  <2>4. CASE ~(k + i <= Len(s))
    <3>1. ~(i <= Len(e)) /\ (k + i) - Len(s) = i - Len(e)
      BY <1>1, <1>3, <2>1, <2>4
    <3> QED
      BY <1>2, <1>6, <2>1, <2>2, <2>4, <3>1
  <2> QED
    BY <2>3, <2>4
<1>9. a = b
  BY <1>5, <1>6, <1>7, <1>8, SeqEqual
<1> QED
  BY <1>9 DEF a, b, e, w

\* The whole first of two sequences is erased.
LEMMA EraseWhole ==
  ASSUME NEW T, NEW s \in Seq(T), NEW t \in Seq(T)
  PROVE  Erase(s \o t, Len(s)) = t
<1>1. Len(s) \in Nat /\ Len(s) \in 0 .. Len(s) /\ Len(s) - Len(s) = 0
  BY LenProperties
<1>2. Erase(s \o t, Len(s)) = Erase(s, Len(s)) \o t
  BY <1>1, EraseFirst
<1>3. Erase(s, Len(s)) \in Seq(T) /\ Len(Erase(s, Len(s))) = 0
  BY <1>1, EraseType
<1>4. Erase(s, Len(s)) = <<>>
  BY <1>3, EmptySeq
<1>5. <<>> \o t = t
  BY ConcatEmptySeq
<1> QED
  BY <1>2, <1>4, <1>5

-----------------------------------------------------------------------------
(* The peer's frames *)

\* The peer sends no frame that needs a 64-bit length.
OnlyShortFrames == \A f \in Frames : Len(f.payload) <= Len16Max

\* b is frame f.
IsBytesOf(b, f) == IsFrame(b, f.fin, f.opcode, f.mask, f.key, f.payload)

\* The fields of a frame.
LEMMA FrameFields ==
  ASSUME NEW f \in Frames
  PROVE  /\ f \in Frame
         /\ f.fin \in 0 .. 1 /\ f.opcode \in 0 .. 15 /\ f.mask \in 0 .. 1
         /\ f.key \in Seq(Byte) /\ f.payload \in Seq(Byte) /\ Len(f.payload) \in Nat
         /\ f.mask = 1 => Len(f.key) = 4
         /\ f.opcode >= 8 => f.fin = 1
<1>1. f \in Frame /\ (f.mask = 1 => Len(f.key) = 4) /\ (f.opcode >= 8 => f.fin = 1)
  BY FramesAssumption
<1>2. /\ f.fin \in 0 .. 1 /\ f.opcode \in 0 .. 15 /\ f.mask \in 0 .. 1
      /\ f.key \in Seq(Byte) /\ f.payload \in Seq(Byte)
  BY <1>1 DEF Frame
<1> QED
  BY <1>1, <1>2, LenProperties

\* Short frames are what the codec deals with.
LEMMA FrameEncodable ==
  ASSUME OnlyShortFrames, NEW f \in Frames
  PROVE  Encodable(f.fin, f.opcode, f.mask, f.key, f.payload)
BY FrameFields DEF Encodable, OnlyShortFrames

\* The bytes that RFC 6455 demands.
LEMMA RfcIsFrame ==
  ASSUME NEW f \in Frame, Encodable(f.fin, f.opcode, f.mask, f.key, f.payload)
  PROVE  IsBytesOf(RfcBytes(f), f)
<1>0. \A a, b, c \in Seq(Byte) : (a \o b) \o c = a \o (b \o c)
  BY SMTT(30), Associative
<1> DEFINE n    == Len(f.payload)
           one  == <<128 * f.fin + f.opcode>>
           len  == IF n < Len7Limit THEN <<128 * f.mask + n>>
                   ELSE <<128 * f.mask + Len7Limit, (n \div 256 ^ 1) % 256,
                          (n \div 256 ^ 0) % 256>>
           h    == one \o len
           key  == IF f.mask = 1 THEN f.key ELSE <<>>
           body == Body(f.mask, f.key, f.payload)
<1>1. /\ n \in Nat /\ n <= Len16Max /\ n <= 65535
      /\ f.fin \in 0 .. 1 /\ f.opcode \in 0 .. 15 /\ f.mask \in 0 .. 1
      /\ f.key \in Seq(Byte) /\ f.payload \in Seq(Byte)
      /\ f.mask = 1 => Len(f.key) = 4
  <2>1. /\ f.payload \in Seq(Byte) /\ n <= Len16Max
        /\ f.fin \in 0 .. 1 /\ f.opcode \in 0 .. 15 /\ f.mask \in 0 .. 1
        /\ f.key \in Seq(Byte)
        /\ f.mask = 1 => Len(f.key) = 4
    BY DEF Encodable
  <2>2. n \in Nat
    BY <2>1, LenProperties
  <2> HIDE DEF n
  <2> QED
    BY <2>1, <2>2, Limits
<1>2. RfcBytes(f) = h \o (IF f.mask = 1 THEN f.key \o body ELSE f.payload)
  <2> DEFINE field == IF n < Len7Limit THEN <<128 * f.mask + n>>
                      ELSE IF n <= Len16Max
                      THEN <<128 * f.mask + Len7Limit, (n \div 256 ^ 1) % 256,
                             (n \div 256 ^ 0) % 256>>
                      ELSE <<128 * f.mask + Len7Limit + 1, 0, 0, 0, 0, 0,
                             (n \div 256 ^ 2) % 256, (n \div 256 ^ 1) % 256,
                             (n \div 256 ^ 0) % 256>>
             rest  == IF f.mask = 1
                      THEN f.key \o [i \in 1 .. n |->
                                       ByteXor(f.payload[i], f.key[((i - 1) % 4) + 1])]
                      ELSE f.payload
  <2>1. RfcBytes(f) = (one \o field) \o rest
    BY Zenon DEF RfcBytes
  <2>2. field = len
    BY <1>1
  <2>3. rest = IF f.mask = 1 THEN f.key \o body ELSE f.payload
    BY DEF Body, MaskPayload
  <2> HIDE DEF field, len, rest, one, body
  <2> QED
    BY <2>1, <2>2, <2>3
<1>3. IsStart(h, f.fin, f.opcode, f.mask, n)
  <2>1. /\ 128 * f.fin + f.opcode \in Byte
        /\ n < Len7Limit => 128 * f.mask + n \in Byte
        /\ 128 * f.mask + Len7Limit \in Byte
    <3> HIDE DEF n
    <3>1. f.opcode \in 0 .. 127 /\ Len7Limit \in 0 .. 127 /\ (n < Len7Limit => n \in 0 .. 127)
      BY <1>1, Limits
    <3> QED
      <4>1. \A x \in 0 .. 1 : \A y \in 0 .. 127 : 128 * x + y \in Byte
        BY UpperBit
      <4>2. f.fin \in 0 .. 1 /\ f.mask \in 0 .. 1
        BY <1>1
      <4>3. 128 * f.fin + f.opcode \in Byte
        BY <3>1, <4>1, <4>2
      <4>4. 128 * f.mask + Len7Limit \in Byte
        BY <3>1, <4>1, <4>2
      <4>5. n < Len7Limit => 128 * f.mask + n \in Byte
        BY <3>1, <4>1, <4>2
      <4> QED
        BY <4>3, <4>4, <4>5
  <2>2. /\ (n \div 256 ^ 1) % 256 = n \div 256 /\ (n \div 256 ^ 0) % 256 = n % 256
        /\ n \div 256 \in Byte /\ n % 256 \in Byte
    <3> HIDE DEF n
    <3> QED
      BY <1>1, TwoBytes
  <2> HIDE DEF n
  <2>3. one \in Seq(Byte) /\ Len(one) = 1 /\ one[1] = 128 * f.fin + f.opcode
    BY <2>1
  <2>4. /\ len \in Seq(Byte) /\ Len(len) = (IF n < Len7Limit THEN 1 ELSE 3)
        /\ len[1] = 128 * f.mask + (IF n < Len7Limit THEN n ELSE Len7Limit)
        /\ ~(n < Len7Limit) => len[2] = n \div 256 /\ len[3] = n % 256
    <3>1. CASE n < Len7Limit
      BY <2>1, <3>1
    <3>2. CASE ~(n < Len7Limit)
      BY <2>1, <2>2, <3>2
    <3> QED
      BY <3>1, <3>2
  <2> HIDE DEF one, len
  <2>5. /\ h \in Seq(Byte) /\ Len(h) = 1 + Len(len)
        /\ \A i \in 1 .. 1 + Len(len) : h[i] = IF i <= 1 THEN one[i] ELSE len[i - 1]
    <3>1. one \in Seq(Byte) /\ len \in Seq(Byte)
      BY <2>3, <2>4
    <3>2. /\ h \in Seq(Byte) /\ Len(h) = Len(one) + Len(len)
          /\ \A i \in 1 .. Len(one) + Len(len) :
               h[i] = IF i <= Len(one) THEN one[i] ELSE len[i - Len(one)]
      BY <3>1, ConcatProperties
    <3> QED
      BY <2>3, <3>2
  <2> HIDE DEF h
  <2>6. h[1] = 128 * f.fin + f.opcode
        /\ h[2] = 128 * f.mask + (IF n < Len7Limit THEN n ELSE Len7Limit)
    BY <2>3, <2>4, <2>5
  <2>7. ~(n < Len7Limit) => h[3] = n \div 256 /\ h[4] = n % 256
    BY <2>4, <2>5
  <2>8. n >= Len7Limit <=> ~(n < Len7Limit)
    BY <1>1, Limits
  <2> QED
    BY <2>4, <2>5, <2>6, <2>7, <2>8 DEF IsStart, LengthEnd
<1>4. h \in Seq(Byte)
  BY <1>3 DEF IsStart
<1>5. body \in Seq(Byte)
  <2>1. \A mask \in 0 .. 1 : \A k \in Seq(Byte) : \A p \in Seq(Byte) :
          (mask = 1 => Len(k) = 4) => Body(mask, k, p) \in Seq(Byte)
    BY BodyType
  <2> QED
    BY <1>1, <2>1
<1>6. RfcBytes(f) = (h \o key) \o body
  <2> HIDE DEF h, n
  <2>1. CASE f.mask = 1
    <3>1. RfcBytes(f) = h \o (f.key \o body) /\ key = f.key
      BY <1>2, <2>1
    <3> HIDE DEF body, key
    <3>2. (h \o f.key) \o body = h \o (f.key \o body)
      <4>1. f.key \in Seq(Byte)
        BY <1>1
      <4> QED
        BY <1>0, <1>4, <1>5, <4>1
    <3> QED
      BY <3>1, <3>2
  <2>2. CASE f.mask # 1
    <3>1. body = f.payload /\ key = <<>>
      BY <2>2 DEF Body
    <3>2. h \o <<>> = h
      BY <1>4, ConcatEmptySeq
    <3> QED
      BY <1>2, <2>2, <3>1, <3>2
  <2> QED
    BY <2>1, <2>2
<1>7. IsFrame((h \o key) \o body, f.fin, f.opcode, f.mask, f.key, f.payload)
  <2> HIDE DEF h
  <2> QED
    BY <1>3, AssembleFrame
<1> QED
  BY <1>6, <1>7 DEF IsBytesOf

\* What the peer sends for a frame is that frame.
LEMMA EncodeIsFrame ==
  ASSUME OnlyShortFrames, NEW f \in Frames
  PROVE  IsBytesOf(Encode(f), f)
<1>1. f \in Frame /\ Encodable(f.fin, f.opcode, f.mask, f.key, f.payload)
  BY FrameFields, FrameEncodable
<1>2. CASE f.fin = 1 /\ f.opcode = WSOpcode_Text /\ f.mask = 1
  <2>1. Encode(f) = CreateWebsocketFrame(f.payload, f.key)
    BY <1>2 DEF Encode
  <2>2. Encodable(1, WSOpcode_Text, 1, f.key, f.payload)
    BY <1>1, <1>2
  <2> QED
    BY <1>2, <2>1, <2>2, CreateIsFrame DEF IsBytesOf
<1>3. CASE ~(f.fin = 1 /\ f.opcode = WSOpcode_Text /\ f.mask = 1)
  BY <1>1, <1>3, RfcIsFrame DEF Encode
<1> QED
  BY <1>2, <1>3

\* The bytes of a frame, at least two.
LEMMA EncodeType ==
  ASSUME OnlyShortFrames, NEW f \in Frames
  PROVE  Encode(f) \in Seq(Byte) /\ Len(Encode(f)) \in Nat /\ Len(Encode(f)) >= 2
<1>1. IsBytesOf(Encode(f), f)
  BY EncodeIsFrame
<1>2. f.mask \in 0 .. 1 /\ Len(f.payload) \in Nat
  BY FrameFields
<1> QED
  BY <1>1, <1>2 DEF IsBytesOf, IsFrame, HeaderLength, LengthEnd

\* The pong that answers a ping is the frame that PongOf names, whether or not
\* the key of the ping is the one that the packet kept.
LEMMA PongIsFrame ==
  ASSUME OnlyShortFrames, NEW f \in Frames, NEW key \in Seq(Byte),
         f.mask = 1 => key = f.key
  PROVE  /\ PackDataframe(1, WSOpcode_Pong, f.mask, key, f.payload) \in Seq(Byte)
         /\ f.fin = 1 =>
              PackDataframe(1, WSOpcode_Pong, f.mask, key, f.payload) = Encode(PongOf(f))
<1> DEFINE g == PongOf(f)
           b == PackDataframe(1, WSOpcode_Pong, f.mask, key, f.payload)
<1>1. /\ Encodable(f.fin, f.opcode, f.mask, f.key, f.payload)
      /\ f \in Frame
  BY FrameFields, FrameEncodable
<1>2. Encodable(1, WSOpcode_Pong, f.mask, key, f.payload)
  BY <1>1 DEF Encodable, WSOpcode_Pong
<1>3. IsFrame(b, 1, WSOpcode_Pong, f.mask, key, f.payload)
  BY <1>2, PackIsFrame
<1> HIDE DEF b
<1>4. b \in Seq(Byte)
  BY <1>3 DEF IsFrame
<1>5. ASSUME f.fin = 1 PROVE b = Encode(g)
  <2>1. /\ g.fin = 1 /\ g.opcode = WSOpcode_Pong /\ g.mask = f.mask
        /\ g.key = f.key /\ g.payload = f.payload /\ g \in Frame
    BY <1>1, <1>5 DEF PongOf, Frame, WSOpcode_Pong
  <2> HIDE DEF g
  <2>2. Encodable(g.fin, g.opcode, g.mask, g.key, g.payload)
    BY <1>1, <1>5, <2>1 DEF Encodable, WSOpcode_Pong
  <2>3. Encode(g) = RfcBytes(g)
    BY <2>1 DEF Encode, WSOpcode_Pong, WSOpcode_Text
  <2>4. IsFrame(Encode(g), 1, WSOpcode_Pong, f.mask, f.key, f.payload)
    BY <2>1, <2>2, <2>3, RfcIsFrame DEF IsBytesOf
  <2>5. IsFrame(Encode(g), 1, WSOpcode_Pong, f.mask, key, f.payload)
    <3>1. CASE f.mask = 1
      BY <2>4, <3>1
    <3>2. CASE f.mask # 1
      <4>1. Body(f.mask, f.key, f.payload) = Body(f.mask, key, f.payload)
        BY <3>2 DEF Body
      <4> QED
        BY <2>4, <3>2, <4>1 DEF IsFrame
    <3> QED
      BY <3>1, <3>2
  <2> QED
    BY <1>2, <1>3, <2>5, FrameDetermined
<1> QED
  BY <1>4, <1>5 DEF b

-----------------------------------------------------------------------------
(* The stream *)

\* Read bytes and bytes on their way begin with e: what has arrived of it lies
\* in the buffer, and behind it comes the rest.
LEMMA FrontOfStream ==
  ASSUME NEW T, NEW buf \in Seq(T), NEW on_way \in Seq(T), NEW k \in 0 .. Len(buf),
         NEW e \in Seq(T), NEW rest \in Seq(T),
         Erase(buf, k) \o on_way = e \o rest
  PROVE  /\ \A i \in 1 .. Len(e) : k + i <= Len(buf) => buf[k + i] = e[i]
         /\ k + Len(e) <= Len(buf) => Erase(buf, k + Len(e)) \o on_way = rest
<1> DEFINE r == Erase(buf, k)
           n == Len(e)
<1>1. /\ Len(buf) \in Nat /\ k \in Nat /\ n \in Nat
      /\ r \in Seq(T) /\ Len(r) = Len(buf) - k
      /\ \A i \in 1 .. Len(buf) - k : r[i] = buf[k + i]
  <2>1. Len(buf) \in Nat /\ k \in Nat /\ n \in Nat
    BY LenProperties
  <2>2. /\ Erase(buf, k) \in Seq(T) /\ Len(Erase(buf, k)) = Len(buf) - k
        /\ \A i \in 1 .. Len(buf) - k : Erase(buf, k)[i] = buf[k + i]
    BY EraseType
  <2> QED
    BY <2>1, <2>2
<1>2. r \in Seq(T)
  BY <1>1
<1> HIDE DEF r
<1>3. \A i \in 1 .. Len(r) + Len(on_way) :
        (r \o on_way)[i] = IF i <= Len(r) THEN r[i] ELSE on_way[i - Len(r)]
  BY <1>2, ConcatProperties
<1>4. \A i \in 1 .. Len(e) + Len(rest) :
        (e \o rest)[i] = IF i <= Len(e) THEN e[i] ELSE rest[i - Len(e)]
  BY ConcatProperties
<1>5. r \o on_way = e \o rest
  BY DEF r
<1>6. ASSUME NEW i \in 1 .. n, k + i <= Len(buf) PROVE buf[k + i] = e[i]
  <2>1. Len(on_way) \in Nat /\ Len(rest) \in Nat
    BY LenProperties
  <2>2. /\ i \in 1 .. Len(buf) - k /\ i \in 1 .. Len(r) + Len(on_way) /\ i <= Len(r)
        /\ i \in 1 .. Len(e) + Len(rest) /\ i <= Len(e)
    BY <1>1, <1>6, <2>1
  <2>3. (r \o on_way)[i] = r[i]
    BY <1>3, <2>2
  <2>4. (e \o rest)[i] = e[i]
    BY <1>4, <2>2
  <2>5. r[i] = buf[k + i]
    BY <1>1, <2>2
  <2> QED
    BY <1>5, <2>3, <2>4, <2>5
<1>7. ASSUME k + n <= Len(buf) PROVE Erase(buf, k + n) \o on_way = rest
  <2>1. n \in 0 .. Len(r) /\ n \in 0 .. Len(buf) - k
    BY <1>1, <1>7
  <2>2. Erase(r \o on_way, n) = Erase(r, n) \o on_way
    BY <1>2, <2>1, EraseFirst
  <2>3. Erase(e \o rest, n) = rest
    BY EraseWhole
  <2>4. Erase(r, n) = Erase(buf, k + n)
    BY <2>1, EraseTwice DEF r
  <2> QED
    BY <1>5, <2>2, <2>3, <2>4
<1> QED
  BY <1>6, <1>7

\* A read moves bytes from the wire into the buffer.
LEMMA ReadMoves ==
  ASSUME NEW T, NEW buf \in Seq(T), NEW on_way \in Seq(T), NEW n \in 1 .. Len(on_way)
  PROVE  /\ SubSeq(on_way, 1, n) \in Seq(T)
         /\ SubSeq(on_way, n + 1, Len(on_way)) \in Seq(T)
         /\ SubSeq(on_way, 1, n) \o SubSeq(on_way, n + 1, Len(on_way)) = on_way
         /\ buf \o SubSeq(on_way, 1, n) \in Seq(T)
         /\ Len(buf) <= Len(buf \o SubSeq(on_way, 1, n))
<1> DEFINE a == SubSeq(on_way, 1, n)
           b == SubSeq(on_way, n + 1, Len(on_way))
<1>1. Len(on_way) \in Nat /\ n \in Nat /\ Len(buf) \in Nat
  BY LenProperties
<1>2. \A i \in 1 .. Len(on_way) : on_way[i] \in T
  BY ElementOfSeq
<1>3. a \in Seq(T) /\ b \in Seq(T)
  BY <1>1, <1>2, SubSeqProperties
<1>4. a \o b = on_way
  <2>1. 1 \in 1 .. Len(on_way) + 1 /\ n \in 1 - 1 .. Len(on_way)
        /\ Len(on_way) \in n .. Len(on_way)
    BY <1>1
  <2>2. SubSeq(on_way, 1, n) \o SubSeq(on_way, n + 1, Len(on_way))
          = SubSeq(on_way, 1, Len(on_way))
    BY <2>1, ConcatAdjacentSubSeq
  <2>3. SubSeq(on_way, 1, Len(on_way)) = on_way
    BY SubSeqFull
  <2> QED
    BY <2>2, <2>3
<1> HIDE DEF a, b
<1>5. buf \o a \in Seq(T) /\ Len(buf \o a) = Len(buf) + Len(a) /\ Len(a) \in Nat
  BY <1>3, ConcatProperties, LenProperties
<1>6. Len(buf) <= Len(buf \o a)
  BY <1>1, <1>5
<1> QED
  BY <1>3, <1>4, <1>5, <1>6 DEF a, b

\* Behind an offset the two parts of what was on the way follow what was read.
LEMMA ReadKeeps ==
  \A buf, a, b \in Seq(Byte) : \A k \in 0 .. Len(buf) :
    Erase(buf \o a, k) \o b = Erase(buf, k) \o (a \o b)
<1> TAKE buf, a, b \in Seq(Byte)
<1> TAKE k \in 0 .. Len(buf)
<1> DEFINE e == Erase(buf, k)
           w == Erase(buf \o a, k)
<1>1. w = e \o a
  BY EraseFirst
<1>2. e \in Seq(Byte)
  BY EraseType
<1> HIDE DEF e, w
<1>3. (e \o a) \o b = e \o (a \o b)
  BY SMTT(30), <1>2, ConcatAssociative
<1>4. w \o b = e \o (a \o b)
  BY <1>1, <1>3
<1> QED
  BY <1>4 DEF e, w

\* The bytes of no frame, of one more frame, and of the first frame.
LEMMA BytesType ==
  ASSUME OnlyShortFrames, NEW s \in Seq(Frames)
  PROVE  /\ [i \in DOMAIN s |-> Encode(s[i])] \in Seq(Seq(Byte))
         /\ Len([i \in DOMAIN s |-> Encode(s[i])]) = Len(s)
         /\ Bytes(s) \in Seq(Byte)
<1> DEFINE e == [i \in DOMAIN s |-> Encode(s[i])]
<1>1. Len(s) \in Nat /\ DOMAIN s = 1 .. Len(s)
  BY LenProperties
<1>2. \A i \in 1 .. Len(s) : Encode(s[i]) \in Seq(Byte)
  <2> TAKE i \in 1 .. Len(s)
  <2>1. s[i] \in Frames
    BY ElementOfSeq
  <2> QED
    BY <2>1, EncodeType
<1>3. e \in [1 .. Len(s) -> Seq(Byte)]
  BY <1>1, <1>2
<1> HIDE DEF e
<1>4. e \in Seq(Seq(Byte)) /\ DOMAIN e = 1 .. Len(s)
  BY <1>1, <1>3, SeqDef
<1>5. Len(e) = Len(s)
  <2>1. Len(e) \in Nat /\ DOMAIN e = 1 .. Len(e)
    BY <1>4, LenProperties
  <2> QED
    BY <1>1, <1>4, <2>1
<1>6. FlattenSeq(e) \in Seq(Byte)
  <2>1. <<>> \in Seq(Byte)
    BY EmptySeq
  <2> QED
    BY <1>4, <2>1, FlattenAppend
<1> QED
  BY <1>4, <1>5, <1>6 DEF e, Bytes

\* No frames are no bytes.
LEMMA BytesEmpty == Bytes(<<>>) = <<>>
<1>1. [i \in DOMAIN <<>> |-> Encode(<<>>[i])] = <<>>
  OBVIOUS
<1> QED
  BY <1>1 DEF Bytes, FlattenSeq

\* The bytes of one more frame come behind those of the others.
LEMMA BytesAppend ==
  ASSUME OnlyShortFrames, NEW s \in Seq(Frames), NEW f \in Frames
  PROVE  Bytes(Append(s, f)) = Bytes(s) \o Encode(f)
<1> DEFINE e == [i \in DOMAIN s |-> Encode(s[i])]
           v == Append(s, f)
           d == [i \in DOMAIN v |-> Encode(v[i])]
           a == Append(e, Encode(f))
<1>1. e \in Seq(Seq(Byte)) /\ Len(e) = Len(s) /\ Encode(f) \in Seq(Byte)
  BY BytesType, EncodeType
<1>2. /\ v \in Seq(Frames) /\ Len(v) = Len(s) + 1 /\ Len(s) \in Nat
      /\ DOMAIN v = 1 .. Len(v) /\ DOMAIN s = 1 .. Len(s)
      /\ v[Len(s) + 1] = f /\ \A i \in 1 .. Len(s) : v[i] = s[i]
  BY AppendProperties, LenProperties
<1>3. \A i \in 1 .. Len(s) : e[i] = Encode(s[i])
  BY <1>2
<1>4. v \in Seq(Frames)
  BY <1>2
<1> HIDE DEF e, v
<1>5. d \in Seq(Seq(Byte)) /\ Len(d) = Len(v) /\ Bytes(v) = FlattenSeq(d)
  BY <1>4, BytesType DEF Bytes
<1>6. \A i \in 1 .. Len(v) : d[i] = Encode(v[i])
  BY <1>2
<1>7. /\ a \in Seq(Seq(Byte)) /\ Len(a) = Len(e) + 1 /\ a[Len(e) + 1] = Encode(f)
      /\ \A i \in 1 .. Len(e) : a[i] = e[i]
  BY <1>1, AppendProperties
<1> HIDE DEF a, d
<1>8. \A i \in 1 .. Len(d) : d[i] = a[i]
  <2> TAKE i \in 1 .. Len(d)
  <2>1. d[i] = Encode(v[i]) /\ i \in 1 .. Len(s) + 1
    BY <1>2, <1>5, <1>6
  <2>2. CASE i \in 1 .. Len(s)
    BY <1>1, <1>2, <1>3, <1>7, <2>1, <2>2
  <2>3. CASE i = Len(s) + 1
    BY <1>1, <1>2, <1>7, <2>1, <2>3
  <2> QED
    BY <1>2, <2>1, <2>2, <2>3
<1>9. d = a
  <2>1. Len(d) = Len(a)
    BY <1>1, <1>2, <1>5, <1>7
  <2> QED
    BY <1>5, <1>7, <1>8, <2>1, SeqEqual
<1>10. FlattenSeq(Append(e, Encode(f))) = FlattenSeq(e) \o Encode(f)
  BY <1>1, FlattenAppend
<1>11. Bytes(v) = FlattenSeq(e) \o Encode(f)
  BY <1>5, <1>9, <1>10 DEF a
<1> QED
  BY <1>11 DEF v, e, Bytes

\* The bytes of the first frame come before those of the others.
LEMMA BytesHead ==
  ASSUME OnlyShortFrames, NEW s \in Seq(Frames), s # <<>>
  PROVE  /\ s[1] \in Frames /\ Tail(s) \in Seq(Frames)
         /\ Bytes(s) = Encode(s[1]) \o Bytes(Tail(s))
<1> DEFINE e == [i \in DOMAIN s |-> Encode(s[i])]
           t == Tail(s)
           d == [i \in DOMAIN t |-> Encode(t[i])]
<1>1. /\ t \in Seq(Frames) /\ Len(t) = Len(s) - 1
      /\ \A i \in 1 .. Len(t) : t[i] = s[i + 1]
      /\ Len(s) \in Nat /\ Len(s) # 0 /\ DOMAIN s = 1 .. Len(s)
      /\ Len(t) \in Nat /\ DOMAIN t = 1 .. Len(t)
  BY HeadTailProperties, EmptySeq, LenProperties
<1>2. s[1] \in Frames
  BY <1>1, ElementOfSeq
<1>3. e \in Seq(Seq(Byte)) /\ Len(e) = Len(s) /\ Bytes(s) = FlattenSeq(e)
  BY BytesType DEF Bytes
<1>4. \A i \in 1 .. Len(s) : e[i] = Encode(s[i])
  BY <1>1
<1>5. t \in Seq(Frames)
  BY <1>1
<1> HIDE DEF e, t
<1>6. d \in Seq(Seq(Byte)) /\ Len(d) = Len(t) /\ Bytes(t) = FlattenSeq(d)
  BY <1>5, BytesType DEF Bytes
<1>7. \A i \in 1 .. Len(t) : d[i] = Encode(t[i])
  BY <1>1
<1> HIDE DEF d
<1>8. e # <<>>
  BY <1>1, <1>3, EmptySeq
<1>9. FlattenSeq(e) = e[1] \o FlattenSeq(Tail(e))
  BY <1>3, <1>8, FlattenHead
<1>10. /\ Tail(e) \in Seq(Seq(Byte)) /\ Len(Tail(e)) = Len(e) - 1
       /\ \A i \in 1 .. Len(Tail(e)) : Tail(e)[i] = e[i + 1]
  BY <1>3, <1>8, HeadTailProperties
<1>11. d = Tail(e)
  <2>1. Len(d) = Len(Tail(e))
    BY <1>1, <1>3, <1>6, <1>10
  <2>2. \A i \in 1 .. Len(d) : d[i] = Tail(e)[i]
    <3> TAKE i \in 1 .. Len(d)
    <3>1. d[i] = Encode(t[i]) /\ t[i] = s[i + 1]
      BY <1>1, <1>6, <1>7
    <3> DEFINE j == i + 1
    <3>2. j \in 1 .. Len(s)
      BY <1>1, <1>6
    <3> HIDE DEF j
    <3>3. e[j] = Encode(s[j])
      BY <1>4, <3>2
    <3>4. Tail(e)[i] = e[i + 1]
      BY <1>10, <2>1
    <3> QED
      BY <3>1, <3>3, <3>4 DEF j
  <2> QED
    BY <1>6, <1>10, <2>1, <2>2, SeqEqual
<1>12. e[1] = Encode(s[1])
  BY <1>1, <1>4
<1>13. Bytes(s) = Encode(s[1]) \o Bytes(t)
  BY <1>3, <1>6, <1>9, <1>11, <1>12
<1> QED
  BY <1>2, <1>5, <1>13 DEF t

\* The frames behind the first k, when one more is sent and when the next one
\* is taken.
LEMMA BehindAppend ==
  ASSUME NEW s \in Seq(Frames), NEW k \in 0 .. Len(s), NEW f \in Frames
  PROVE  Erase(Append(s, f), k) = Append(Erase(s, k), f)
<1>1. <<f>> \in Seq(Frames) /\ Append(s, f) = s \o <<f>>
  BY AppendIsConcat
<1>2. Erase(s \o <<f>>, k) = Erase(s, k) \o <<f>>
  BY <1>1, EraseFirst
<1>3. Erase(s, k) \in Seq(Frames)
  BY EraseType
<1>4. Erase(s, k) \o <<f>> = Append(Erase(s, k), f)
  BY <1>3, AppendIsConcat
<1> QED
  BY <1>1, <1>2, <1>4

\* The frame behind k others is the first one when the k are erased.
LEMMA BehindNext ==
  ASSUME NEW s \in Seq(Frames), NEW k \in 0 .. Len(s), Erase(s, k) # <<>>
  PROVE  /\ k < Len(s) /\ Erase(s, k)[1] = s[k + 1] /\ s[k + 1] \in Frames
         /\ Tail(Erase(s, k)) = Erase(s, k + 1)
<1> DEFINE e == Erase(s, k)
<1>1. /\ Len(s) \in Nat /\ e \in Seq(Frames) /\ Len(e) = Len(s) - k
      /\ \A i \in 1 .. Len(s) - k : e[i] = s[k + i]
  BY EraseType, LenProperties
<1>2. Len(e) \in Nat /\ Len(e) # 0
  BY <1>1, EmptySeq
<1>3. k < Len(s) /\ 1 \in 1 .. Len(s) - k /\ 1 \in 0 .. Len(s) - k /\ k + 1 \in 1 .. Len(s)
  BY <1>1, <1>2
<1>4. e[1] = s[k + 1]
  BY <1>1, <1>3
<1>5. s[k + 1] \in Frames
  BY <1>3, ElementOfSeq
<1>6. Erase(e, 1) = Erase(s, k + 1)
  BY <1>3, EraseTwice
<1>7. Tail(e) = SubSeq(e, 2, Len(e))
  <2> HIDE DEF e
  <2> QED
    BY <1>1, TailIsSubSeq
<1>8. Tail(e) = Erase(e, 1)
  BY <1>7 DEF Erase
<1> QED
  BY <1>3, <1>4, <1>5, <1>6, <1>8

-----------------------------------------------------------------------------
(* The inductive invariant *)

\* Among the first k frames a fragmented message has begun and not ended.
InMessageAfter(k) ==
  \E i \in 1 .. k :
    /\ ~IsControl(sent[i]) /\ sent[i].fin = 0
    /\ \A j \in 1 .. k : j > i => IsControl(sent[j])

\* The bytes behind the offset and on the wire are the frames not yet decoded.
InSync == Erase(recv_buf, oft) \o wire = Bytes(Undecoded)

\* The frames decoded are the first ones sent.
DecodedSent ==
  /\ Len(decoded) <= Len(sent)
  /\ \A i \in 1 .. Len(decoded) : decoded[i] = View(sent[i])

\* The inner loop runs while more than the minimum is left.
ParsesEnough == pc = "parse" => EnoughToParse(recv_buf, oft)

\* The peer keeps the order of fragments.
LegalOrder ==
  \A i \in 1 .. Len(sent) :
    IsControl(sent[i]) \/ (InMessageAfter(i - 1) <=> sent[i].opcode = WSOpcode_Continue)

\* Between two messages msg_buf is empty.
EmptyBetween == ~InMessageAfter(Len(decoded)) => msg_buf = <<>>

IInv ==
  /\ TypeOK /\ InSync /\ DecodedSent /\ ParsesEnough /\ NothingLongDelayed
  /\ LegalOrder /\ EmptyBetween /\ SingleFrameTextsIntact /\ PingsAnswered
  /\ NoOutOfRange

\* The frame at the offset.
NextFrame == sent[Len(decoded) + 1]
EndOfNext == oft + Len(Encode(NextFrame))

\* A step of ParseFrame, said of the frame instead of the bytes; key is the
\* one that the packet carries.
TakesNext(key) ==
  /\ Len(decoded) < Len(sent) /\ NextFrame \in Frames
  /\ EndOfNext \in 0 .. Len(recv_buf)
  /\ Erase(recv_buf, EndOfNext) \o wire = Bytes(Erase(sent, Len(decoded) + 1))
  /\ key \in Seq(Byte) /\ (NextFrame.mask = 1 => key = NextFrame.key)
  /\ decoded' = Append(decoded, View(NextFrame))
  /\ Collect([fin |-> NextFrame.fin, opcode |-> NextFrame.opcode,
              mask |-> NextFrame.mask, masking_key |-> key],
             NextFrame.payload)
  /\ IF EnoughToParse(recv_buf, EndOfNext)
     THEN oft' = EndOfNext /\ packet' \in Packet /\ UNCHANGED <<recv_buf, pc>>
     ELSE Compact(EndOfNext)
  /\ UNCHANGED <<wire, sent>>

\* A step of ParseIncomplete, said likewise.
NextIncomplete ==
  /\ Len(decoded) < Len(sent) /\ NextFrame \in Frames
  /\ Len(recv_buf) < EndOfNext
  /\ Undecoded # <<>> /\ Undecoded[1] = NextFrame
  /\ Compact(oft)
  /\ UNCHANGED <<wire, sent, msgVars>>

\* Where the inner loop is, the next frame has been sent and the buffer holds
\* what has arrived of it.
LEMMA NextArrives ==
  ASSUME OnlyShortFrames, TypeOK, InSync, DecodedSent, ParsesEnough, pc = "parse"
  PROVE  /\ Len(decoded) < Len(sent) /\ NextFrame \in Frames
         /\ Undecoded # <<>> /\ Undecoded[1] = NextFrame
         /\ Len(recv_buf) > oft + 5
         /\ Arrives(recv_buf, oft, Encode(NextFrame))
         /\ EndOfNext <= Len(recv_buf) =>
              Erase(recv_buf, EndOfNext) \o wire = Bytes(Erase(sent, Len(decoded) + 1))
<1> DEFINE k == Len(decoded)
<1>1. /\ recv_buf \in Seq(Byte) /\ wire \in Seq(Byte) /\ sent \in Seq(Frames)
      /\ Len(recv_buf) \in Nat /\ Len(sent) \in Nat /\ Len(wire) \in Nat
      /\ oft \in 0 .. Len(recv_buf) /\ k \in 0 .. Len(sent) /\ k \in Nat
  <2>1. /\ recv_buf \in Seq(Byte) /\ wire \in Seq(Byte) /\ sent \in Seq(Frames)
        /\ oft \in 0 .. Len(recv_buf) /\ k <= Len(sent)
    BY DEF TypeOK, DecodedSent
  <2>2. decoded \in Seq([fin : 0 .. 1, opcode : 0 .. 127, payload : Seq(Byte)])
    BY DEF TypeOK
  <2>3. Len(recv_buf) \in Nat /\ Len(sent) \in Nat /\ Len(wire) \in Nat
    BY <2>1, LenProperties
  <2>4. k \in Nat
    BY <2>2, LenProperties
  <2> HIDE DEF k
  <2> QED
    BY <2>1, <2>3, <2>4
<1>2. Len(recv_buf) > oft + 5
  BY <1>1, HeaderMinAssumption DEF ParsesEnough, EnoughToParse
<1>3. Undecoded = Erase(sent, k) /\ Erase(sent, k) \in Seq(Frames)
  BY <1>1, EraseType DEF Undecoded, Erase
<1>4. Erase(recv_buf, oft) \in Seq(Byte) /\ Len(Erase(recv_buf, oft)) = Len(recv_buf) - oft
  BY <1>1, EraseType
<1>5. Erase(sent, k) # <<>>
  <2> SUFFICES ASSUME Erase(sent, k) = <<>> PROVE FALSE
    OBVIOUS
  <2>1. Erase(recv_buf, oft) \o wire = <<>>
    BY <1>3, BytesEmpty DEF InSync
  <2>2. Len(Erase(recv_buf, oft) \o wire) = Len(Erase(recv_buf, oft)) + Len(wire)
    BY <1>1, <1>4, ConcatProperties
  <2>3. Len(Erase(recv_buf, oft) \o wire) = 0
    BY <2>1, EmptySeq
  <2> QED
    BY <1>1, <1>2, <1>4, <2>2, <2>3
<1>6. /\ k < Len(sent) /\ Erase(sent, k)[1] = NextFrame /\ NextFrame \in Frames
      /\ Tail(Erase(sent, k)) = Erase(sent, k + 1)
  BY <1>1, <1>5, BehindNext DEF NextFrame
<1> DEFINE e    == Encode(NextFrame)
           rest == Bytes(Erase(sent, k + 1))
<1>7. /\ Erase(recv_buf, oft) \o wire = e \o rest
      /\ e \in Seq(Byte) /\ rest \in Seq(Byte)
  <2>1. Bytes(Erase(sent, k)) = Encode(Erase(sent, k)[1]) \o Bytes(Tail(Erase(sent, k)))
        /\ Tail(Erase(sent, k)) \in Seq(Frames)
    BY <1>3, <1>5, BytesHead
  <2>2. e \in Seq(Byte)
    BY <1>6, EncodeType
  <2>3. rest \in Seq(Byte)
    BY <1>6, <2>1, BytesType
  <2> QED
    BY <1>3, <1>6, <2>1, <2>2, <2>3 DEF InSync
<1> HIDE DEF e, rest
<1>8. /\ \A i \in 1 .. Len(e) : oft + i <= Len(recv_buf) => recv_buf[oft + i] = e[i]
      /\ oft + Len(e) <= Len(recv_buf) => Erase(recv_buf, oft + Len(e)) \o wire = rest
  BY <1>1, <1>7, FrontOfStream
<1> QED
  BY <1>2, <1>3, <1>5, <1>6, <1>8 DEF Arrives, EndOfNext, e, rest

\* What the parser finds there.
LEMMA NextFound ==
  ASSUME OnlyShortFrames, TypeOK, InSync, DecodedSent, ParsesEnough, pc = "parse"
  PROVE  LET info == FetchFrameInfo(packet, recv_buf, oft)
         IN  /\ info.fin = NextFrame.fin /\ info.opcode = NextFrame.opcode
             /\ info.mask = NextFrame.mask
             /\ info.payload_length = Len(NextFrame.payload)
             /\ info.masking_key \in Seq(Byte)
             /\ FrameComplete(info, recv_buf) <=> EndOfNext <= Len(recv_buf)
             /\ FrameComplete(info, recv_buf) =>
                  /\ info.header + info.payload_length = EndOfNext
                  /\ FetchPayload(info, recv_buf) = NextFrame.payload
                  /\ ~FetchPayloadThrows(info, recv_buf)
                  /\ NextFrame.mask = 1 => info.masking_key = NextFrame.key
<1> DEFINE f == NextFrame
           b == Encode(f)
<1>1. /\ f \in Frames /\ Len(recv_buf) > oft + 5 /\ Arrives(recv_buf, oft, b)
  BY NextArrives
<1> HIDE DEF f
<1>2. Encodable(f.fin, f.opcode, f.mask, f.key, f.payload)
  BY <1>1, FrameEncodable
<1>3. IsFrame(b, f.fin, f.opcode, f.mask, f.key, f.payload)
  BY <1>1, EncodeIsFrame DEF IsBytesOf
<1>4. recv_buf \in Seq(Byte) /\ oft \in Nat /\ packet \in Packet
  BY DEF TypeOK
<1> HIDE DEF b
<1>5. LET info == FetchFrameInfo(packet, recv_buf, oft)
      IN  /\ info.fin = f.fin /\ info.opcode = f.opcode /\ info.mask = f.mask
          /\ info.payload_length = Len(f.payload)
          /\ info.masking_key \in Seq(Byte)
          /\ FrameComplete(info, recv_buf) <=> oft + Len(b) <= Len(recv_buf)
          /\ FrameComplete(info, recv_buf) =>
               /\ info.header + info.payload_length = oft + Len(b)
               /\ FetchPayload(info, recv_buf) = f.payload
               /\ ~FetchPayloadThrows(info, recv_buf)
               /\ f.mask = 1 => info.masking_key = f.key
  BY <1>1, <1>2, <1>3, <1>4, FrameFound
<1> QED
  BY <1>5 DEF EndOfNext, f, b

\* When the parser finds a complete frame, it is the next one the peer sent.
LEMMA ParseTakes ==
  ASSUME OnlyShortFrames, TypeOK, InSync, DecodedSent, ParsesEnough, ParseFrame
  PROVE  \E key : TakesNext(key)
<1> DEFINE info == FetchFrameInfo(packet, recv_buf, oft)
<1>1. /\ pc = "parse" /\ FrameComplete(info, recv_buf)
      /\ IF FetchPayloadThrows(info, recv_buf) THEN Abort ELSE TakeFrame(info)
      /\ UNCHANGED <<wire, sent>>
  BY DEF ParseFrame, Infos
<1>2. /\ info.fin = NextFrame.fin /\ info.opcode = NextFrame.opcode
      /\ info.mask = NextFrame.mask
      /\ info.payload_length = Len(NextFrame.payload)
      /\ info.masking_key \in Seq(Byte)
      /\ FrameComplete(info, recv_buf) <=> EndOfNext <= Len(recv_buf)
      /\ FrameComplete(info, recv_buf) =>
           /\ info.header + info.payload_length = EndOfNext
           /\ FetchPayload(info, recv_buf) = NextFrame.payload
           /\ ~FetchPayloadThrows(info, recv_buf)
           /\ NextFrame.mask = 1 => info.masking_key = NextFrame.key
  BY <1>1, NextFound
<1> HIDE DEF info
<1>3. /\ EndOfNext <= Len(recv_buf) /\ info.header + info.payload_length = EndOfNext
      /\ FetchPayload(info, recv_buf) = NextFrame.payload
      /\ NextFrame.mask = 1 => info.masking_key = NextFrame.key
      /\ TakeFrame(info)
  BY <1>1, <1>2
<1>4. /\ Len(decoded) < Len(sent) /\ NextFrame \in Frames
      /\ Erase(recv_buf, EndOfNext) \o wire = Bytes(Erase(sent, Len(decoded) + 1))
  BY <1>1, <1>3, NextArrives
<1>5. EndOfNext \in 0 .. Len(recv_buf) /\ Len(NextFrame.payload) \in Nat
  <2>1. Len(Encode(NextFrame)) \in Nat /\ Len(NextFrame.payload) \in Nat
    BY <1>4, EncodeType, FrameFields
  <2>2. oft \in Nat /\ Len(recv_buf) \in Nat
    BY LenProperties DEF TypeOK
  <2> QED
    BY <1>3, <2>1, <2>2 DEF EndOfNext
<1>6. decoded' = Append(decoded, View(NextFrame))
  BY <1>2, <1>3 DEF TakeFrame, View
<1>7. Collect([fin |-> NextFrame.fin, opcode |-> NextFrame.opcode,
               mask |-> NextFrame.mask, masking_key |-> info.masking_key],
              NextFrame.payload)
  <2>1. Collect(info, NextFrame.payload)
    BY <1>3 DEF TakeFrame
  <2> QED
    BY <1>2, <2>1 DEF Collect, ProcessOneMessage
<1>8. IF EnoughToParse(recv_buf, EndOfNext)
      THEN oft' = EndOfNext /\ packet' \in Packet /\ UNCHANGED <<recv_buf, pc>>
      ELSE Compact(EndOfNext)
  <2>1. IF EnoughToParse(recv_buf, EndOfNext)
        THEN /\ oft' = EndOfNext
             /\ packet' = [payload_length |-> info.payload_length,
                           masking_key |-> info.masking_key]
             /\ UNCHANGED <<recv_buf, pc>>
        ELSE Compact(EndOfNext)
    BY <1>3 DEF TakeFrame
  <2>2. [payload_length |-> info.payload_length, masking_key |-> info.masking_key] \in Packet
    BY <1>2, <1>5 DEF Packet
  <2> QED
    BY <2>1, <2>2
<1>9. TakesNext(info.masking_key)
  BY <1>1, <1>2, <1>3, <1>4, <1>5, <1>6, <1>7, <1>8 DEF TakesNext
<1> QED
  BY <1>9

\* When the parser waits for more bytes, the next frame is not there as a whole.
LEMMA ParseWaits ==
  ASSUME OnlyShortFrames, TypeOK, InSync, DecodedSent, ParsesEnough, ParseIncomplete
  PROVE  NextIncomplete
<1> DEFINE info == FetchFrameInfo(packet, recv_buf, oft)
<1>1. /\ pc = "parse" /\ ~FrameComplete(info, recv_buf) /\ Compact(oft)
      /\ UNCHANGED <<wire, sent, msgVars>>
  BY DEF ParseIncomplete, Infos
<1>2. FrameComplete(info, recv_buf) <=> EndOfNext <= Len(recv_buf)
  BY <1>1, NextFound
<1> HIDE DEF info
<1>3. /\ Len(decoded) < Len(sent) /\ NextFrame \in Frames
      /\ Undecoded # <<>> /\ Undecoded[1] = NextFrame
  BY <1>1, NextArrives
<1>4. EndOfNext \in Nat /\ Len(recv_buf) \in Nat
  <2>1. Len(Encode(NextFrame)) \in Nat
    BY <1>3, EncodeType
  <2>2. oft \in Nat /\ Len(recv_buf) \in Nat
    BY LenProperties DEF TypeOK
  <2> QED
    BY <2>1, <2>2 DEF EndOfNext
<1> QED
  BY <1>1, <1>2, <1>3, <1>4 DEF NextIncomplete

-----------------------------------------------------------------------------
(* Values in order *)

\* Only the values at the indices count.
LEMMA InOrderSame ==
  ASSUME NEW out, NEW I, NEW J, NEW u, NEW v, I = J, \A i \in I : u[i] = v[i],
         InOrder(out, I, u)
  PROVE  InOrder(out, J, v)
<1>1. PICK at \in [DOMAIN out -> I] :
        /\ \A i \in I : \E j \in DOMAIN out : at[j] = i
        /\ \A j, k \in DOMAIN out : j < k => at[j] < at[k]
        /\ \A j \in DOMAIN out : out[j] = u[at[j]]
  BY DEF InOrder
<1>2. \A j \in DOMAIN out : out[j] = v[at[j]]
  BY <1>1
<1>3. at \in [DOMAIN out -> J]
  BY <1>1
<1> QED
  BY <1>1, <1>2, <1>3 DEF InOrder

\* No values at no indices.
LEMMA InOrderEmpty ==
  ASSUME NEW I, NEW u, I = {}
  PROVE  InOrder(<<>>, I, u)
<1>1. <<>> \in [DOMAIN <<>> -> I] /\ DOMAIN <<>> = {}
  OBVIOUS
<1> QED
  BY <1>1 DEF InOrder

\* A value is appended and its index is above all others.
LEMMA InOrderAppend ==
  ASSUME NEW T, NEW out \in Seq(T), NEW I, NEW J, NEW u, NEW v, NEW n \in Nat, NEW e \in T,
         I \subseteq 1 .. n, J = I \cup {n + 1},
         \A i \in I : u[i] = v[i], v[n + 1] = e,
         InOrder(out, I, u)
  PROVE  InOrder(Append(out, e), J, v)
<1> DEFINE m == Len(out) + 1
           new == Append(out, e)
<1>1. /\ Len(out) \in Nat /\ DOMAIN out = 1 .. Len(out)
      /\ new \in Seq(T) /\ Len(new) = m /\ new[m] = e
      /\ \A j \in 1 .. Len(out) : new[j] = out[j]
      /\ DOMAIN new = 1 .. Len(new)
  BY AppendProperties, LenProperties
<1> HIDE DEF new
<1>2. PICK at \in [DOMAIN out -> I] :
        /\ \A i \in I : \E j \in DOMAIN out : at[j] = i
        /\ \A j, k \in DOMAIN out : j < k => at[j] < at[k]
        /\ \A j \in DOMAIN out : out[j] = u[at[j]]
  BY DEF InOrder
<1> DEFINE to == [j \in 1 .. m |-> IF j = m THEN n + 1 ELSE at[j]]
<1>3. m \in 1 .. m /\ to[m] = n + 1
  BY <1>1
<1>4. \A j \in 1 .. Len(out) : j \in 1 .. m /\ j # m /\ to[j] = at[j]
                               /\ at[j] \in I /\ at[j] \in 1 .. n
  <2> TAKE j \in 1 .. Len(out)
  <2>1. j \in 1 .. m /\ j # m
    BY <1>1
  <2>2. to[j] = at[j]
    BY <2>1
  <2>3. at[j] \in I
    BY <1>1, <1>2
  <2> QED
    BY <2>1, <2>2, <2>3
<1>5. \A j \in 1 .. m : j = m \/ j \in 1 .. Len(out)
  BY <1>1
<1>6. to \in [1 .. m -> J]
  <2>1. \A j \in 1 .. m : to[j] \in J
    <3> HIDE DEF to, m
    <3> QED
      BY <1>3, <1>4, <1>5
  <2> QED
    BY <2>1
<1> HIDE DEF to
<1>7. \A i \in J : \E j \in 1 .. m : to[j] = i
  <2> TAKE i \in J
  <2>1. CASE i = n + 1
    BY <1>3, <2>1
  <2>2. CASE i \in I
    <3>1. PICK j \in 1 .. Len(out) : at[j] = i
      BY <1>1, <1>2, <2>2
    <3> QED
      BY <1>4, <3>1
  <2> QED
    BY <2>1, <2>2
<1>8. \A j, k \in 1 .. m : j < k => to[j] < to[k]
  <2> TAKE j, k \in 1 .. m
  <2> SUFFICES ASSUME j < k PROVE to[j] < to[k]
    OBVIOUS
  <2>1. j \in 1 .. Len(out)
    BY <1>1
  <2>2. CASE k = m
    BY <1>3, <1>4, <2>1, <2>2
  <2>3. CASE k # m
    <3>1. k \in 1 .. Len(out)
      BY <1>5, <2>3
    <3> QED
      BY <1>1, <1>2, <1>4, <2>1, <3>1
  <2> QED
    BY <2>2, <2>3
<1>9. \A j \in 1 .. m : new[j] = v[to[j]]
  <2> TAKE j \in 1 .. m
  <2>1. CASE j = m
    BY <1>1, <1>3, <2>1
  <2>2. CASE j \in 1 .. Len(out)
    <3>1. new[j] = out[j]
      BY <1>1, <2>2
    <3>2. to[j] = at[j] /\ at[j] \in I
      BY <1>2, <1>4, <2>2
    <3>3. out[j] = u[at[j]]
      BY <1>2, <2>2
    <3> QED
      BY <1>1, <3>1, <3>2, <3>3
  <2> QED
    BY <1>5, <2>1, <2>2
<1>10. DOMAIN new = 1 .. m
  BY <1>1
<1>11. InOrder(new, J, v)
  BY SMTT(30), <1>6, <1>7, <1>8, <1>9, <1>10 DEF InOrder
<1> QED
  BY <1>11 DEF new

-----------------------------------------------------------------------------
(* One step of each part of the invariant *)

\* The variables in a sent frame.
LEMMA PeerGrows ==
  ASSUME TypeOK, NEW f \in Frames, PeerSends(f)
  PROVE  /\ sent' \in Seq(Frames) /\ Len(sent) \in Nat /\ Len(sent') = Len(sent) + 1
         /\ sent'[Len(sent) + 1] = f
         /\ \A i \in 1 .. Len(sent) : sent'[i] = sent[i]
<1>1. sent \in Seq(Frames) /\ sent' = Append(sent, f)
  BY DEF TypeOK, PeerSends
<1> QED
  BY <1>1, AppendProperties, LenProperties

\* The fragments that began among frames already sent.
LEMMA InMessageStays ==
  ASSUME TypeOK, NEW f \in Frames, PeerSends(f), NEW k \in Nat, k <= Len(sent)
  PROVE  InMessageAfter(k)' <=> InMessageAfter(k)
<1>1. /\ Len(sent) \in Nat
      /\ \A i \in 1 .. Len(sent) : sent'[i] = sent[i]
  BY PeerGrows
<1>2. \A i \in 1 .. k : i \in 1 .. Len(sent)
  BY <1>1
<1>3. \A i \in 1 .. k : sent'[i] = sent[i]
  BY <1>1, <1>2
<1> QED
  BY <1>3 DEF InMessageAfter, IsControl

\* Whether a message is open depends on the frames up to that place only.
LEMMA InMessageSame ==
  ASSUME UNCHANGED sent, NEW k
  PROVE  InMessageAfter(k)' <=> InMessageAfter(k)
BY DEF InMessageAfter, IsControl

\* What c_str() gives is a part of the text: there is a first NUL, or an end.
LEMMA CStringType ==
  ASSUME NEW msg \in Seq(Byte)
  PROVE  CString(msg) \in Seq(Byte)
<1> DEFINE L == Len(msg)
           Clean(n) == \A i \in 1 .. n : msg[i] # 0
           Ends(n) == Clean(n) /\ (n < L => msg[n + 1] = 0)
           S == {n \in Nat : n <= L => Clean(n)}
<1>1. L \in Nat
  BY LenProperties
<1> HIDE DEF L
<1>2. \E n \in 0 .. L : Ends(n)
  <2> SUFFICES ASSUME \A n \in 0 .. L : ~Ends(n) PROVE FALSE
    OBVIOUS
  <2>1. 0 \in S
    OBVIOUS
  <2>2. \A n \in S : n + 1 \in S
    <3> TAKE n \in S
    <3>1. n \in Nat /\ n + 1 \in Nat
      OBVIOUS
    <3>2. ASSUME n + 1 <= L PROVE Clean(n + 1)
      <4>1. Clean(n) /\ n \in 0 .. L /\ n < L
        BY <1>1, <3>1, <3>2
      <4>2. msg[n + 1] # 0
        BY <4>1
      <4> QED
        BY <3>1, <4>1, <4>2
    <3> QED
      BY <3>1, <3>2
  <2>3. L \in S
    BY <1>1, <2>1, <2>2, NaturalsInSet
  <2> QED
    BY <1>1, <2>3
<1>3. CString(msg) = SubSeq(msg, 1, CHOOSE n \in 0 .. L : Ends(n))
  BY DEF CString, L
<1> QED
  BY <1>1, <1>2, <1>3, SubSeqProperties DEF L

\* The types are kept, the erase of the parsed bytes included.
LEMMA TypeStep ==
  OnlyShortFrames /\ IInv /\ [Next]_vars => TypeOK'
<1> SUFFICES ASSUME OnlyShortFrames, IInv, [Next]_vars
             PROVE  TypeOK'
  OBVIOUS
<1> USE DEF IInv
<1>0. /\ recv_buf \in Seq(Byte) /\ wire \in Seq(Byte) /\ Len(recv_buf) \in Nat
      /\ oft \in 0 .. Len(recv_buf) /\ sent \in Seq(Frames)
  BY LenProperties DEF TypeOK
<1>1. ASSUME NEW f \in Frames, PeerSends(f) PROVE TypeOK'
  <2>1. sent' \in Seq(Frames)
    BY <1>1, PeerGrows
  <2>2. wire' \in Seq(Byte)
    <3>1. wire' = wire \o Encode(f) /\ Encode(f) \in Seq(Byte)
      BY <1>1, EncodeType DEF PeerSends
    <3> QED
      BY <1>0, <3>1, ConcatProperties
  <2> QED
    BY <1>1, <2>1, <2>2 DEF TypeOK, PeerSends, inVars, msgVars
<1>2. ASSUME NEW n \in 1 .. Len(wire), ReadBatch(n) PROVE TypeOK'
  <2>1. /\ SubSeq(wire, n + 1, Len(wire)) \in Seq(Byte)
        /\ recv_buf \o SubSeq(wire, 1, n) \in Seq(Byte)
        /\ Len(recv_buf) <= Len(recv_buf \o SubSeq(wire, 1, n))
    BY <1>0, ReadMoves
  <2>2. wire' \in Seq(Byte) /\ recv_buf' \in Seq(Byte) /\ Len(recv_buf) <= Len(recv_buf')
    BY <1>2, <2>1 DEF ReadBatch
  <2>3. Len(recv_buf') \in Nat
    BY <2>2, LenProperties
  <2>4. oft' \in 0 .. Len(recv_buf')
    BY <1>0, <1>2, <2>2, <2>3 DEF ReadBatch
  <2>5. pc' \in {"read", "parse"} /\ packet' \in Packet
    <3>1. NewPacket \in Packet
      BY DEF NewPacket, Packet, Byte
    <3> QED
      BY <1>2, <3>1 DEF ReadBatch, TypeOK
  <2> QED
    BY <1>2, <2>2, <2>4, <2>5 DEF TypeOK, ReadBatch, msgVars
<1>3. ASSUME ReadFails PROVE TypeOK'
  BY <1>3 DEF TypeOK, ReadFails, msgVars
<1>4. ASSUME NEW n \in 0 .. Len(recv_buf), Compact(n)
      PROVE  /\ recv_buf' \in Seq(Byte) /\ oft' \in 0 .. Len(recv_buf')
             /\ packet' \in Packet /\ pc' \in {"read"}
  <2>1. recv_buf' \in Seq(Byte) /\ Len(recv_buf') \in Nat
    BY <1>0, <1>4, EraseType, LenProperties DEF Compact
  <2>2. NewPacket \in Packet
    BY DEF NewPacket, Packet, Byte
  <2> QED
    BY <1>4, <2>1, <2>2 DEF Compact
<1>5. ASSUME ParseIncomplete PROVE TypeOK'
  <2>1. Compact(oft) /\ UNCHANGED <<wire, sent, msgVars>>
    BY <1>5 DEF ParseIncomplete
  <2> QED
    BY <1>0, <1>4, <2>1 DEF TypeOK, msgVars
<1>6. ASSUME ParseFrame PROVE TypeOK'
  <2>1. PICK key : TakesNext(key)
    BY <1>6, ParseTakes
  <2> DEFINE f == NextFrame
             D == [fin : 0 .. 1, opcode : 0 .. 127, payload : Seq(Byte)]
  <2>2. /\ f \in Frames /\ EndOfNext \in 0 .. Len(recv_buf) /\ key \in Seq(Byte)
        /\ f.mask = 1 => key = f.key
        /\ decoded' = Append(decoded, View(f))
        /\ Collect([fin |-> f.fin, opcode |-> f.opcode,
                    mask |-> f.mask, masking_key |-> key], f.payload)
        /\ IF EnoughToParse(recv_buf, EndOfNext)
           THEN oft' = EndOfNext /\ packet' \in Packet /\ UNCHANGED <<recv_buf, pc>>
           ELSE Compact(EndOfNext)
        /\ UNCHANGED <<wire, sent>>
    BY <2>1 DEF TakesNext
  <2> HIDE DEF f
  <2>3. /\ recv_buf' \in Seq(Byte) /\ oft' \in 0 .. Len(recv_buf') /\ packet' \in Packet
        /\ pc' \in {"read", "parse", "returned", "aborted", "asserted"}
    BY <1>0, <1>4, <2>2 DEF TypeOK
  <2>4. /\ f.fin \in 0 .. 1 /\ f.opcode \in 0 .. 15 /\ f.payload \in Seq(Byte)
    BY <2>2, FrameFields
  <2>5. decoded' \in Seq(D)
    <3>1. View(f) \in D
      BY <2>4 DEF View
    <3>2. decoded \in Seq(D)
      BY DEF TypeOK
    <3> HIDE DEF D
    <3> QED
      BY <2>2, <3>1, <3>2, AppendProperties
  <2>6. msg_buf \o f.payload \in Seq(Byte) /\ <<>> \in Seq(Byte)
    BY <2>4, ConcatProperties, EmptySeq DEF TypeOK
  <2>7. Append(handled, CString(msg_buf \o f.payload)) \in Seq(Seq(Byte))
    BY <2>6, CStringType, AppendProperties DEF TypeOK
  <2>8. Append(written, PackDataframe(1, WSOpcode_Pong, f.mask, key, f.payload))
          \in Seq(Seq(Byte))
    <3>1. PackDataframe(1, WSOpcode_Pong, f.mask, key, f.payload) \in Seq(Byte)
      BY <2>2, PongIsFrame
    <3> QED
      BY <3>1, AppendProperties DEF TypeOK
  <2>9. /\ msg_buf' \in Seq(Byte) /\ handled' \in Seq(Seq(Byte))
        /\ written' \in Seq(Seq(Byte)) /\ write_failed' \in BOOLEAN
    <3>1. /\ handled \in Seq(Seq(Byte)) /\ written \in Seq(Seq(Byte))
          /\ write_failed \in BOOLEAN
      BY DEF TypeOK
    <3>2. CASE f.fin = 1
      BY <2>2, <2>6, <2>7, <2>8, <3>1, <3>2 DEF Collect, ProcessOneMessage
    <3>3. CASE f.fin # 1
      BY <2>2, <2>6, <3>1, <3>3 DEF Collect
    <3> QED
      BY <3>2, <3>3
  <2>10. wire' \in Seq(Byte) /\ sent' \in Seq(Frames)
    BY <1>0, <2>2
  <2> QED
    BY <2>3, <2>5, <2>9, <2>10 DEF TypeOK
<1>7. ASSUME AssertionFails PROVE TypeOK'
  BY <1>7 DEF TypeOK, AssertionFails, msgVars
<1>8. ASSUME UNCHANGED vars PROVE TypeOK'
  BY <1>8 DEF vars, inVars, msgVars, TypeOK
<1> QED
  BY <1>1, <1>2, <1>3, <1>5, <1>6, <1>7, <1>8 DEF Next

\* The frames decoded, when one more is.
LEMMA DecodedGrows ==
  ASSUME TypeOK, NEW key, TakesNext(key)
  PROVE  /\ Len(decoded) \in Nat /\ Len(decoded') = Len(decoded) + 1
         /\ decoded'[Len(decoded) + 1] = View(NextFrame)
         /\ \A i \in 1 .. Len(decoded) : decoded'[i] = decoded[i]
         /\ DOMAIN decoded = 1 .. Len(decoded)
         /\ DOMAIN decoded' = 1 .. Len(decoded) + 1
<1> DEFINE D == [fin : 0 .. 1, opcode : 0 .. 127, payload : Seq(Byte)]
           d == decoded'
<1>1. NextFrame \in Frames /\ d = Append(decoded, View(NextFrame))
  BY DEF TakesNext
<1>2. View(NextFrame) \in D
  <2>1. /\ NextFrame.fin \in 0 .. 1 /\ NextFrame.opcode \in 0 .. 15
        /\ NextFrame.payload \in Seq(Byte)
    BY <1>1, FrameFields
  <2> HIDE DEF NextFrame
  <2> QED
    BY <2>1 DEF View
<1>3. decoded \in Seq(D)
  BY DEF TypeOK
<1> HIDE DEF D, d
<1>4. /\ d \in Seq(D) /\ Len(d) = Len(decoded) + 1
      /\ d[Len(decoded) + 1] = View(NextFrame)
      /\ \A i \in 1 .. Len(decoded) : d[i] = decoded[i]
  BY <1>1, <1>2, <1>3, AppendProperties
<1>5. /\ Len(decoded) \in Nat /\ DOMAIN decoded = 1 .. Len(decoded)
      /\ DOMAIN d = 1 .. Len(d)
  BY <1>3, <1>4, LenProperties
<1> QED
  BY <1>4, <1>5 DEF d

\* The bytes behind the frames taken.
LEMMA SyncStep ==
  OnlyShortFrames /\ IInv /\ [Next]_vars => InSync'
<1> SUFFICES ASSUME OnlyShortFrames, IInv, [Next]_vars
             PROVE  InSync'
  OBVIOUS
<1> USE DEF IInv
<1>0. /\ recv_buf \in Seq(Byte) /\ wire \in Seq(Byte) /\ Len(recv_buf) \in Nat
      /\ oft \in 0 .. Len(recv_buf) /\ sent \in Seq(Frames) /\ Len(sent) \in Nat
      /\ Len(decoded) \in 0 .. Len(sent)
  <2>1. Len(decoded) \in Nat
    BY LenProperties DEF TypeOK
  <2>2. recv_buf \in Seq(Byte) /\ sent \in Seq(Frames) /\ wire \in Seq(Byte)
        /\ oft \in 0 .. Len(recv_buf) /\ Len(decoded) <= Len(sent)
    BY DEF TypeOK, DecodedSent
  <2> QED
    BY <2>1, <2>2, LenProperties
<1>1. Undecoded = Erase(sent, Len(decoded))
  BY DEF Undecoded, Erase
<1>2. InSync' <=> Erase(recv_buf', oft') \o wire' = Bytes(Erase(sent', Len(decoded')))
  BY DEF InSync, Undecoded, Erase
<1>3. ASSUME NEW f \in Frames, PeerSends(f) PROVE InSync'
  <2>1. /\ recv_buf' = recv_buf /\ oft' = oft /\ decoded' = decoded
        /\ wire' = wire \o Encode(f) /\ sent' = Append(sent, f)
    BY <1>3 DEF PeerSends, inVars, msgVars
  <2>2. Encode(f) \in Seq(Byte) /\ Erase(recv_buf, oft) \in Seq(Byte)
        /\ Erase(sent, Len(decoded)) \in Seq(Frames)
    BY <1>0, EncodeType, EraseType
  <2>3. Erase(recv_buf, oft) \o (wire \o Encode(f)) = (Erase(recv_buf, oft) \o wire) \o Encode(f)
    <3>1. Erase(recv_buf, oft) \in Seq(Byte) /\ wire \in Seq(Byte) /\ Encode(f) \in Seq(Byte)
      BY <1>0, <2>2
    <3> QED
      BY <3>1, ConcatAssociative
  <2>4. Erase(Append(sent, f), Len(decoded)) = Append(Erase(sent, Len(decoded)), f)
    BY <1>0, BehindAppend
  <2>5. Bytes(Append(Erase(sent, Len(decoded)), f))
          = Bytes(Erase(sent, Len(decoded))) \o Encode(f)
    BY <2>2, BytesAppend
  <2>6. Erase(recv_buf, oft) \o wire = Bytes(Erase(sent, Len(decoded)))
    BY <1>1 DEF InSync
  <2> QED
    BY <1>2, <2>1, <2>3, <2>4, <2>5, <2>6
<1>4. ASSUME NEW n \in 1 .. Len(wire), ReadBatch(n) PROVE InSync'
  <2>1. /\ recv_buf' = recv_buf \o SubSeq(wire, 1, n) /\ oft' = oft /\ sent' = sent
        /\ wire' = SubSeq(wire, n + 1, Len(wire)) /\ decoded' = decoded
    BY <1>4 DEF ReadBatch, msgVars
  <2> DEFINE a == SubSeq(wire, 1, n)
             b == SubSeq(wire, n + 1, Len(wire))
  <2>2. a \in Seq(Byte) /\ b \in Seq(Byte) /\ a \o b = wire
    BY <1>0, ReadMoves
  <2> HIDE DEF a, b
  <2>3. Erase(recv_buf \o a, oft) \o b = Erase(recv_buf, oft) \o (a \o b)
    <3>1. recv_buf \in Seq(Byte) /\ oft \in 0 .. Len(recv_buf)
      BY <1>0
    <3>2. a \in Seq(Byte) /\ b \in Seq(Byte)
      BY <2>2
    <3> QED
      BY Zenon, <3>1, <3>2, ReadKeeps
  <2>4. Erase(recv_buf', oft') \o wire' = Erase(recv_buf \o a, oft) \o b
    BY <2>1 DEF a, b
  <2> QED
    BY <1>1, <1>2, <2>1, <2>2, <2>3, <2>4 DEF InSync
<1>5. ASSUME ReadFails PROVE InSync'
  BY <1>1, <1>2, <1>5 DEF ReadFails, msgVars, InSync
<1>6. ASSUME NEW n \in 0 .. Len(recv_buf), Compact(n)
      PROVE  Erase(recv_buf', oft') = Erase(recv_buf, n)
  <2>1. recv_buf' = Erase(recv_buf, n) /\ oft' = 0
    BY <1>6 DEF Compact
  <2>2. Erase(recv_buf, n) \in Seq(Byte)
    BY <1>0, EraseType
  <2> QED
    BY <2>1, <2>2, EraseNothing
<1>7. ASSUME ParseIncomplete PROVE InSync'
  <2>1. Compact(oft) /\ UNCHANGED <<wire, sent, decoded>>
    BY <1>7 DEF ParseIncomplete, msgVars
  <2>2. Erase(recv_buf', oft') = Erase(recv_buf, oft)
    BY <1>0, <1>6, <2>1
  <2> QED
    BY <1>1, <1>2, <2>1, <2>2 DEF InSync
<1>8. ASSUME ParseFrame PROVE InSync'
  <2>1. PICK key : TakesNext(key)
    BY <1>8, ParseTakes
  <2>2. /\ EndOfNext \in 0 .. Len(recv_buf)
        /\ Erase(recv_buf, EndOfNext) \o wire = Bytes(Erase(sent, Len(decoded) + 1))
        /\ IF EnoughToParse(recv_buf, EndOfNext)
           THEN oft' = EndOfNext /\ UNCHANGED recv_buf
           ELSE Compact(EndOfNext)
        /\ UNCHANGED <<wire, sent>>
    BY <2>1 DEF TakesNext
  <2>3. Len(decoded') = Len(decoded) + 1
    BY <2>1, DecodedGrows
  <2>4. Erase(recv_buf', oft') = Erase(recv_buf, EndOfNext)
    BY <1>6, <2>2
  <2> QED
    BY <1>2, <2>2, <2>3, <2>4
<1>9. ASSUME AssertionFails PROVE InSync'
  BY <1>1, <1>2, <1>9 DEF AssertionFails, msgVars, InSync
<1>10. ASSUME UNCHANGED vars PROVE InSync'
  BY <1>1, <1>2, <1>10 DEF vars, inVars, msgVars, InSync
<1> QED
  BY <1>3, <1>4, <1>5, <1>7, <1>8, <1>9, <1>10 DEF Next

\* The frames decoded are those sent.
LEMMA DecodedStep ==
  OnlyShortFrames /\ IInv /\ [Next]_vars => DecodedSent'
<1> SUFFICES ASSUME OnlyShortFrames, IInv, [Next]_vars
             PROVE  DecodedSent'
  OBVIOUS
<1> USE DEF IInv
<1>1. ASSUME NEW f \in Frames, PeerSends(f) PROVE DecodedSent'
  <2>1. /\ Len(sent) \in Nat /\ Len(sent') = Len(sent) + 1
        /\ \A i \in 1 .. Len(sent) : sent'[i] = sent[i]
    BY <1>1, PeerGrows
  <2>2. decoded' = decoded /\ Len(decoded) \in Nat
    BY <1>1, LenProperties DEF PeerSends, msgVars, TypeOK
  <2> QED
    BY <2>1, <2>2 DEF DecodedSent, View
<1>2. ASSUME ParseFrame PROVE DecodedSent'
  <2>1. PICK key : TakesNext(key)
    BY <1>2, ParseTakes
  <2>2. /\ Len(decoded) \in Nat /\ Len(decoded') = Len(decoded) + 1
        /\ decoded'[Len(decoded) + 1] = View(NextFrame)
        /\ \A i \in 1 .. Len(decoded) : decoded'[i] = decoded[i]
    BY <2>1, DecodedGrows
  <2>3. sent' = sent /\ Len(decoded) < Len(sent) /\ Len(sent) \in Nat
    BY <2>1, LenProperties DEF TakesNext, TypeOK
  <2>4. \A i \in 1 .. Len(decoded') : decoded'[i] = View(sent[i])
    <3> TAKE i \in 1 .. Len(decoded')
    <3>1. CASE i \in 1 .. Len(decoded)
      BY <2>2, <3>1 DEF DecodedSent
    <3>2. CASE i = Len(decoded) + 1
      BY <2>2, <3>2 DEF NextFrame
    <3> QED
      BY <2>2, <3>1, <3>2
  <2> QED
    BY <2>2, <2>3, <2>4 DEF DecodedSent, View
<1>3. ASSUME UNCHANGED <<sent, decoded>> PROVE DecodedSent'
  BY <1>3 DEF DecodedSent, View
<1> QED
  BY <1>1, <1>2, <1>3
  DEF Next, vars, inVars, msgVars, ReadBatch, ReadFails, ParseIncomplete, AssertionFails

\* The batch goes on while there is more than the minimum.
LEMMA ParsesStep ==
  OnlyShortFrames /\ IInv /\ [Next]_vars => ParsesEnough'
<1> SUFFICES ASSUME OnlyShortFrames, IInv, [Next]_vars
             PROVE  ParsesEnough'
  OBVIOUS
<1> USE DEF IInv
<1>1. ASSUME NEW f \in Frames, PeerSends(f) PROVE ParsesEnough'
  BY <1>1 DEF PeerSends, inVars, ParsesEnough, EnoughToParse
<1>2. ASSUME NEW n \in 1 .. Len(wire), ReadBatch(n) PROVE ParsesEnough'
  BY <1>2 DEF ReadBatch, ParsesEnough, EnoughToParse
<1>3. ASSUME ReadFails PROVE ParsesEnough'
  BY <1>3 DEF ReadFails, ParsesEnough
<1>4. ASSUME ParseIncomplete PROVE ParsesEnough'
  BY <1>4 DEF ParseIncomplete, Compact, ParsesEnough
<1>5. ASSUME ParseFrame PROVE ParsesEnough'
  <2>1. PICK key : TakesNext(key)
    BY <1>5, ParseTakes
  <2> QED
    BY <2>1 DEF TakesNext, Compact, ParsesEnough, EnoughToParse
<1>6. ASSUME AssertionFails PROVE ParsesEnough'
  BY <1>6 DEF AssertionFails, ParsesEnough
<1>7. ASSUME UNCHANGED vars PROVE ParsesEnough'
  BY <1>7 DEF vars, inVars, ParsesEnough, EnoughToParse
<1> QED
  BY <1>1, <1>2, <1>3, <1>4, <1>5, <1>6, <1>7 DEF Next

\* No parse ends in an exception.
LEMMA AbortStep ==
  OnlyShortFrames /\ IInv /\ [Next]_vars => NoOutOfRange'
<1> SUFFICES ASSUME OnlyShortFrames, IInv, [Next]_vars
             PROVE  NoOutOfRange'
  OBVIOUS
<1> USE DEF IInv
<1>1. ASSUME ParseFrame PROVE NoOutOfRange'
  <2>1. PICK key : TakesNext(key)
    BY <1>1, ParseTakes
  <2> QED
    BY <2>1 DEF TakesNext, Compact, NoOutOfRange
<1>2. ASSUME NEW n \in 1 .. Len(wire), ReadBatch(n) PROVE NoOutOfRange'
  BY <1>2 DEF ReadBatch, NoOutOfRange
<1> QED
  BY <1>1, <1>2
  DEF Next, vars, inVars, PeerSends, ReadFails, ParseIncomplete, Compact,
      AssertionFails, NoOutOfRange

\* What waits in the buffer between two batches.
LEMMA DelayStep ==
  OnlyShortFrames /\ IInv /\ [Next]_vars => NothingLongDelayed'
<1> SUFFICES ASSUME OnlyShortFrames, IInv, [Next]_vars
             PROVE  NothingLongDelayed'
  OBVIOUS
<1> USE DEF IInv
<1>0. /\ recv_buf \in Seq(Byte) /\ Len(recv_buf) \in Nat /\ sent \in Seq(Frames)
      /\ oft \in 0 .. Len(recv_buf) /\ Len(decoded) \in 0 .. Len(sent)
      /\ WEBSOCKET_HEADER_MIN_SIZE \in Nat
  <2>1. Len(decoded) \in Nat
    BY LenProperties DEF TypeOK
  <2>2. recv_buf \in Seq(Byte) /\ sent \in Seq(Frames)
        /\ oft \in 0 .. Len(recv_buf) /\ Len(decoded) <= Len(sent)
    BY DEF TypeOK, DecodedSent
  <2> QED
    BY <2>1, <2>2, LenProperties, HeaderMinAssumption
<1>1. ASSUME NEW f \in Frames, PeerSends(f) PROVE NothingLongDelayed'
  <2>1. /\ recv_buf' = recv_buf /\ oft' = oft /\ decoded' = decoded /\ pc' = pc
        /\ sent' = Append(sent, f)
    BY <1>1 DEF PeerSends, inVars, msgVars
  <2>2. Undecoded' = Append(Undecoded, f) /\ Undecoded \in Seq(Frames)
    <3>1. Undecoded' = Erase(Append(sent, f), Len(decoded))
          /\ Undecoded = Erase(sent, Len(decoded))
      BY <2>1 DEF Undecoded, Erase
    <3> QED
      BY <1>0, <3>1, BehindAppend, EraseType
  <2>3. Undecoded # <<>> => Undecoded' # <<>> /\ Undecoded'[1] = Undecoded[1]
    <3> DEFINE u == Undecoded
               v == Append(u, f)
    <3>1. u \in Seq(Frames)
      BY <2>2
    <3> HIDE DEF u
    <3>2. /\ Len(u) \in Nat /\ v \in Seq(Frames) /\ Len(v) = Len(u) + 1
          /\ \A i \in 1 .. Len(u) : v[i] = u[i]
          /\ u # <<>> => Len(u) # 0
      BY <3>1, AppendProperties, LenProperties, EmptySeq
    <3> HIDE DEF v
    <3>3. v # <<>>
      BY <3>2, EmptySeq
    <3>4. u # <<>> => v[1] = u[1]
      BY <3>2
    <3> QED
      BY <2>2, <3>3, <3>4 DEF u, v
  <2> QED
    BY <2>1, <2>3 DEF NothingLongDelayed, Encode
<1>2. ASSUME NEW n \in 1 .. Len(wire), ReadBatch(n) PROVE NothingLongDelayed'
  <2>1. pc = "read" /\ oft = 0 /\ oft' = 0
    BY <1>2 DEF ReadBatch, NothingLongDelayed
  <2>2. recv_buf' \in Seq(Byte)
    <3>1. recv_buf' = recv_buf \o SubSeq(wire, 1, n) /\ wire \in Seq(Byte)
      BY <1>2 DEF ReadBatch, TypeOK
    <3> QED
      BY <1>0, <3>1, ReadMoves
  <2>3. Len(recv_buf') \in Nat
    BY <2>2, LenProperties
  <2>4. pc' = "read" => ~(Len(recv_buf') > WEBSOCKET_HEADER_MIN_SIZE)
    BY <1>0, <1>2, <2>1, <2>3 DEF ReadBatch, EnoughToParse
  <2> QED
    BY <2>1, <2>4 DEF NothingLongDelayed
<1>3. ASSUME ReadFails PROVE NothingLongDelayed'
  BY <1>3 DEF ReadFails, NothingLongDelayed
<1>4. ASSUME ParseIncomplete PROVE NothingLongDelayed'
  <2>1. NextIncomplete
    BY <1>4, ParseWaits
  <2>2. /\ Len(recv_buf) < oft + Len(Encode(NextFrame)) /\ NextFrame \in Frames
        /\ Undecoded # <<>> /\ Undecoded[1] = NextFrame
        /\ recv_buf' = Erase(recv_buf, oft) /\ oft' = 0
        /\ Undecoded' = Undecoded
    BY <2>1 DEF NextIncomplete, EndOfNext, Compact, msgVars, Undecoded
  <2>3. Len(recv_buf') = Len(recv_buf) - oft /\ Len(Encode(NextFrame)) \in Nat
    BY <1>0, <2>2, EraseType, EncodeType
  <2>4. Len(recv_buf') < Len(Encode(NextFrame))
    BY <1>0, <2>2, <2>3
  <2>5. Undecoded' # <<>> /\ Len(recv_buf') < Len(Encode(Undecoded'[1]))
    BY <2>2, <2>4
  <2> QED
    BY <2>2, <2>5 DEF NothingLongDelayed, Encode
<1>5. ASSUME ParseFrame PROVE NothingLongDelayed'
  <2>1. PICK key : TakesNext(key)
    BY <1>5, ParseTakes
  <2>2. /\ EndOfNext \in 0 .. Len(recv_buf) /\ pc = "parse"
        /\ IF EnoughToParse(recv_buf, EndOfNext) THEN UNCHANGED pc
           ELSE Compact(EndOfNext)
    BY <1>5, <2>1 DEF TakesNext, ParseFrame
  <2>3. CASE EnoughToParse(recv_buf, EndOfNext)
    BY <2>2, <2>3 DEF NothingLongDelayed
  <2>4. CASE ~EnoughToParse(recv_buf, EndOfNext)
    <3>1. recv_buf' = Erase(recv_buf, EndOfNext) /\ oft' = 0
      BY <2>2, <2>4 DEF Compact
    <3>2. Len(recv_buf') = Len(recv_buf) - EndOfNext
      BY <1>0, <2>2, <3>1, EraseType
    <3>3. ~(Len(recv_buf') > WEBSOCKET_HEADER_MIN_SIZE)
      BY <1>0, <2>2, <2>4, <3>2 DEF EnoughToParse
    <3> QED
      BY <3>1, <3>3 DEF NothingLongDelayed
  <2> QED
    BY <2>3, <2>4
<1>6. ASSUME AssertionFails PROVE NothingLongDelayed'
  BY <1>6 DEF AssertionFails, NothingLongDelayed
<1>7. ASSUME UNCHANGED vars PROVE NothingLongDelayed'
  BY <1>7 DEF vars, inVars, msgVars, NothingLongDelayed, Undecoded, Encode
<1> QED
  BY <1>1, <1>2, <1>3, <1>4, <1>5, <1>6, <1>7 DEF Next

\* The order of fragments.
LEMMA OrderStep ==
  OnlyShortFrames /\ IInv /\ [Next]_vars => LegalOrder'
<1> SUFFICES ASSUME OnlyShortFrames, IInv, [Next]_vars
             PROVE  LegalOrder'
  OBVIOUS
<1> USE DEF IInv
<1>1. ASSUME NEW f \in Frames, PeerSends(f) PROVE LegalOrder'
  <2>1. /\ Len(sent) \in Nat /\ Len(sent') = Len(sent) + 1
        /\ sent'[Len(sent) + 1] = f
        /\ \A i \in 1 .. Len(sent) : sent'[i] = sent[i]
        /\ DOMAIN sent = 1 .. Len(sent)
    BY <1>1, PeerGrows, LenProperties DEF TypeOK
  <2>2. \A k \in Nat : k <= Len(sent) => (InMessageAfter(k)' <=> InMessageAfter(k))
    BY <1>1, InMessageStays
  <2>3. InMessage(sent) <=> InMessageAfter(Len(sent))
    BY <2>1 DEF InMessage, InMessageAfter
  <2>4. IsControl(f) \/ (InMessageAfter(Len(sent)) <=> f.opcode = WSOpcode_Continue)
    BY <1>1, <2>3 DEF PeerSends, MaySend
  <2>5. \A i \in 1 .. Len(sent) + 1 :
          \/ IsControl(sent'[i])
          \/ InMessageAfter(i - 1)' <=> sent'[i].opcode = WSOpcode_Continue
    <3> TAKE i \in 1 .. Len(sent) + 1
    <3>1. i - 1 \in Nat /\ i - 1 <= Len(sent)
      BY <2>1
    <3>2. InMessageAfter(i - 1)' <=> InMessageAfter(i - 1)
      BY <2>2, <3>1
    <3>3. CASE i \in 1 .. Len(sent)
      <4>1. IsControl(sent[i])
            \/ (InMessageAfter(i - 1) <=> sent[i].opcode = WSOpcode_Continue)
        BY <3>3 DEF LegalOrder
      <4>2. sent'[i] = sent[i]
        BY <2>1, <3>3
      <4> QED
        BY <3>2, <4>1, <4>2
    <3>4. CASE i = Len(sent) + 1
      <4>1. i - 1 = Len(sent)
        BY <2>1, <3>4
      <4>2. sent'[i] = f
        BY <2>1, <3>4
      <4> QED
        BY <2>4, <3>2, <4>1, <4>2
    <3> QED
      BY <2>1, <3>3, <3>4
  <2> QED
    BY <2>1, <2>5 DEF LegalOrder, IsControl
<1>2. ASSUME UNCHANGED sent PROVE LegalOrder'
  BY <1>2 DEF LegalOrder, InMessageAfter, IsControl
<1> QED
  BY <1>1, <1>2
  DEF Next, vars, ReadBatch, ReadFails, ParseIncomplete, ParseFrame, AssertionFails

\* What is collected between two messages.
LEMMA EmptyStep ==
  OnlyShortFrames /\ IInv /\ [Next]_vars => EmptyBetween'
<1> SUFFICES ASSUME OnlyShortFrames, IInv, [Next]_vars
             PROVE  EmptyBetween'
  OBVIOUS
<1> USE DEF IInv
<1>1. ASSUME NEW f \in Frames, PeerSends(f) PROVE EmptyBetween'
  <2>1. decoded' = decoded /\ msg_buf' = msg_buf
    BY <1>1 DEF PeerSends, msgVars
  <2>2. Len(decoded) \in Nat /\ Len(decoded) <= Len(sent)
    BY LenProperties DEF TypeOK, DecodedSent
  <2>3. InMessageAfter(Len(decoded))' <=> InMessageAfter(Len(decoded))
    <3> DEFINE k == Len(decoded)
    <3>1. \A n \in Nat : n <= Len(sent) => (InMessageAfter(n)' <=> InMessageAfter(n))
      BY <1>1, InMessageStays
    <3>2. k' = k
      BY <2>1
    <3>3. (\E i \in 1 .. k : /\ ~IsControl(sent'[i]) /\ sent'[i].fin = 0
                             /\ \A j \in 1 .. k : j > i => IsControl(sent'[j]))
          <=> InMessageAfter(k)
      BY <2>2, <3>1 DEF InMessageAfter
    <3> QED
      BY <3>2, <3>3 DEF InMessageAfter, IsControl
  <2> QED
    BY <2>1, <2>3 DEF EmptyBetween
<1>2. ASSUME ParseFrame PROVE EmptyBetween'
  <2>1. PICK key : TakesNext(key)
    BY <1>2, ParseTakes
  <2> DEFINE k == Len(decoded)
  <2>2. /\ NextFrame \in Frames /\ sent' = sent /\ k \in Nat /\ Len(decoded') = k + 1
        /\ IF NextFrame.fin = 1 THEN msg_buf' = <<>> ELSE TRUE
    BY <2>1, DecodedGrows DEF TakesNext, Collect
  <2>3. CASE NextFrame.fin = 1
    BY <2>2, <2>3 DEF EmptyBetween
  <2>4. CASE NextFrame.fin # 1
    <3>1. NextFrame.fin = 0 /\ ~IsControl(NextFrame)
      BY <2>2, <2>4, FrameFields DEF IsControl
    <3>2. /\ k + 1 \in 1 .. k + 1 /\ sent[k + 1] = NextFrame
          /\ \A j \in 1 .. k + 1 : ~(j > k + 1)
      BY <2>2 DEF NextFrame
    <3>3. InMessageAfter(k + 1)
      BY <3>1, <3>2 DEF InMessageAfter
    <3>4. InMessageAfter(Len(decoded))'
      BY <2>2, <3>3 DEF InMessageAfter, IsControl
    <3> QED
      BY <3>4 DEF EmptyBetween
  <2> QED
    BY <2>3, <2>4
<1>3. ASSUME UNCHANGED <<sent, decoded, msg_buf>> PROVE EmptyBetween'
  BY <1>3 DEF EmptyBetween, InMessageAfter, IsControl
<1> QED
  BY <1>1, <1>2, <1>3
  DEF Next, vars, msgVars, ReadBatch, ReadFails, ParseIncomplete, AssertionFails

\* The texts in one frame.
LEMMA TextsStep ==
  OnlyShortFrames /\ IInv /\ [Next]_vars => SingleFrameTextsIntact'
<1> SUFFICES ASSUME OnlyShortFrames, IInv, [Next]_vars
             PROVE  SingleFrameTextsIntact'
  OBVIOUS
<1> USE DEF IInv
<1>1. ASSUME ParseFrame PROVE SingleFrameTextsIntact'
  <2>1. PICK key : TakesNext(key)
    BY <1>1, ParseTakes
  <2> DEFINE n == Len(decoded)
             f == NextFrame
             d == decoded'
             I == {i \in 1 .. n : decoded[i].fin = 1 /\ decoded[i].opcode = WSOpcode_Text}
             J == {i \in 1 .. n + 1 : d[i].fin = 1 /\ d[i].opcode = WSOpcode_Text}
             u == [i \in 1 .. n |-> CString(decoded[i].payload)]
             v == [i \in 1 .. n + 1 |-> CString(d[i].payload)]
             p == CString(f.payload)
  <2>2. /\ n \in Nat /\ d[n + 1] = View(f)
        /\ \A i \in 1 .. n : d[i] = decoded[i]
        /\ DOMAIN decoded = 1 .. n /\ DOMAIN d = 1 .. n + 1
    BY <2>1, DecodedGrows
  <2>3. /\ f \in Frames /\ n < Len(sent) /\ Len(sent) \in Nat /\ f = sent[n + 1]
        /\ Collect([fin |-> f.fin, opcode |-> f.opcode,
                    mask |-> f.mask, masking_key |-> key], f.payload)
    BY <2>1, LenProperties DEF TakesNext, NextFrame, TypeOK
  <2>4. InOrder(handled, I, u)
    BY <2>2 DEF SingleFrameTextsIntact
  <2>5. SingleFrameTextsIntact' <=> InOrder(handled', J, v)
    BY <2>2 DEF SingleFrameTextsIntact, InOrder, CString
  <2> HIDE DEF f, d, n
  <2>6. /\ \A i \in 1 .. n : i \in 1 .. n + 1 /\ i # n + 1
        /\ \A i \in 1 .. n + 1 : i \in 1 .. n \/ i = n + 1
        /\ n + 1 \in 1 .. n + 1
    BY <2>2
  <2>7. d[n + 1].fin = f.fin /\ d[n + 1].opcode = f.opcode /\ d[n + 1].payload = f.payload
    BY <2>2 DEF View
  <2>8. I \subseteq 1 .. n /\ \A i \in I : u[i] = v[i]
    BY <2>2, <2>6
  <2>9. CASE f.fin = 1 /\ f.opcode = WSOpcode_Text
    <3>1. J = I \cup {n + 1}
      BY <2>2, <2>6, <2>7, <2>9
    <3>2. msg_buf = <<>>
      <4>1. n + 1 \in 1 .. Len(sent) /\ (n + 1) - 1 = n
        BY <2>2, <2>3
      <4>2. IsControl(f) \/ (InMessageAfter(n) <=> f.opcode = WSOpcode_Continue)
        BY <2>3, <4>1 DEF LegalOrder
      <4>3. ~IsControl(f) /\ f.opcode # WSOpcode_Continue
        BY <2>9 DEF IsControl, WSOpcode_Text, WSOpcode_Continue
      <4> QED
        BY <4>2, <4>3 DEF EmptyBetween, n
    <3>3. f.payload \in Seq(Byte) /\ <<>> \o f.payload = f.payload
      <4>1. f.payload \in Seq(Byte)
        BY <2>3, FrameFields
      <4> QED
        BY <4>1, ConcatEmptySeq
    <3>4. handled' = Append(handled, p)
      BY <2>3, <2>9, <3>2, <3>3
      DEF Collect, ProcessOneMessage, WSOpcode_Text, WSOpcode_Ping
    <3>5. v[n + 1] = p /\ p \in Seq(Byte)
      BY <2>6, <2>7, <3>3, CStringType
    <3>6. handled \in Seq(Seq(Byte))
      BY DEF TypeOK
    <3> HIDE DEF I, J, u, v, p
    <3>7. InOrder(Append(handled, p), J, v)
      <4>1. /\ n \in Nat /\ I \subseteq 1 .. n
            /\ \A i \in I : u[i] = v[i]
        BY <2>2, <2>8
      <4> QED
        BY <2>4, <3>1, <3>5, <3>6, <4>1, InOrderAppend
    <3> QED
      BY <2>5, <3>4, <3>7
  <2>10. CASE ~(f.fin = 1 /\ f.opcode = WSOpcode_Text)
    <3>1. J = I
      BY <2>2, <2>6, <2>7, <2>10
    <3>2. handled' = handled
      BY <2>3, <2>10 DEF Collect, ProcessOneMessage
    <3> HIDE DEF I, J, u, v
    <3>3. InOrder(handled, J, v)
      BY <2>4, <2>8, <3>1, InOrderSame
    <3> QED
      BY <2>5, <3>2, <3>3
  <2> QED
    BY <2>9, <2>10
<1>2. ASSUME UNCHANGED <<decoded, handled>> PROVE SingleFrameTextsIntact'
  <2> DEFINE d == decoded'
             h == handled'
  <2>1. SingleFrameTextsIntact' <=>
          InOrder(h, {i \in DOMAIN d : d[i].fin = 1 /\ d[i].opcode = WSOpcode_Text},
                  [i \in DOMAIN d |-> CString(d[i].payload)])
    BY DEF SingleFrameTextsIntact, InOrder, CString
  <2>2. d = decoded /\ h = handled
    BY <1>2
  <2> HIDE DEF d, h
  <2> QED
    BY <2>1, <2>2 DEF SingleFrameTextsIntact
<1> QED
  BY <1>1, <1>2
  DEF Next, vars, msgVars, PeerSends, ReadBatch, ReadFails, ParseIncomplete, AssertionFails

\* The pings and their answers.
LEMMA PingsStep ==
  OnlyShortFrames /\ IInv /\ [Next]_vars => PingsAnswered'
<1> SUFFICES ASSUME OnlyShortFrames, IInv, [Next]_vars
             PROVE  PingsAnswered'
  OBVIOUS
<1> USE DEF IInv
<1> DEFINE n == Len(decoded)
           I == {i \in 1 .. n : sent[i].opcode = WSOpcode_Ping}
           u == [i \in DOMAIN sent |-> Encode(PongOf(sent[i]))]
<1>0. /\ n \in Nat /\ Len(sent) \in Nat /\ n <= Len(sent)
      /\ DOMAIN sent = 1 .. Len(sent)
  BY LenProperties DEF TypeOK, DecodedSent
<1>1. ASSUME NEW f \in Frames, PeerSends(f) PROVE PingsAnswered'
  <2>1. /\ decoded' = decoded /\ written' = written /\ write_failed' = write_failed
    BY <1>1 DEF PeerSends, msgVars
  <2> DEFINE s == sent'
             J == {i \in 1 .. n : s[i].opcode = WSOpcode_Ping}
             v == [i \in DOMAIN s |-> Encode(PongOf(s[i]))]
  <2>2. /\ Len(s) = Len(sent) + 1 /\ \A i \in 1 .. Len(sent) : s[i] = sent[i]
        /\ DOMAIN s = 1 .. Len(s)
    BY <1>1, PeerGrows, LenProperties
  <2>3. PingsAnswered' <=> (~write_failed => InOrder(written, J, v))
    <3> DEFINE w == written'
               m == Len(decoded')
               failed == write_failed'
    <3>1. PingsAnswered' <=>
            (~failed => InOrder(w, {i \in 1 .. m : s[i].opcode = WSOpcode_Ping}, v))
      BY DEF PingsAnswered, InOrder, Encode, PongOf, RfcBytes
    <3>2. w = written /\ m = n /\ (failed <=> write_failed)
      BY <2>1
    <3> HIDE DEF s, w, m, failed, v
    <3> QED
      BY <3>1, <3>2
  <2> HIDE DEF s
  <2>4. \A i \in 1 .. n : i \in 1 .. Len(sent) /\ i \in 1 .. Len(s) /\ s[i] = sent[i]
    BY <1>0, <2>2
  <2> HIDE DEF n
  <2>5. I = J /\ \A i \in I : u[i] = v[i]
    BY <1>0, <2>2, <2>4
  <2>6. ~write_failed => InOrder(written, I, u)
    BY DEF PingsAnswered, n
  <2> HIDE DEF I, J, u, v
  <2>7. ~write_failed => InOrder(written, J, v)
    BY <2>5, <2>6, InOrderSame
  <2> QED
    BY <2>3, <2>7
<1>2. ASSUME ParseFrame PROVE PingsAnswered'
  <2>1. PICK key : TakesNext(key)
    BY <1>2, ParseTakes
  <2> DEFINE f == NextFrame
             J == {i \in 1 .. n + 1 : sent[i].opcode = WSOpcode_Ping}
             p == PackDataframe(1, WSOpcode_Pong, f.mask, key, f.payload)
  <2>2. /\ f \in Frames /\ n < Len(sent) /\ f = sent[n + 1] /\ sent' = sent
        /\ key \in Seq(Byte) /\ (f.mask = 1 => key = f.key)
        /\ Collect([fin |-> f.fin, opcode |-> f.opcode,
                    mask |-> f.mask, masking_key |-> key], f.payload)
    BY <2>1 DEF TakesNext, NextFrame
  <2>3. Len(decoded') = n + 1
    BY <2>1, DecodedGrows
  <2>4. PingsAnswered' <=> (~write_failed' => InOrder(written', J, u))
    <3> DEFINE s == sent'
               w == written'
               m == Len(decoded')
               failed == write_failed'
    <3>1. PingsAnswered' <=>
            (~failed => InOrder(w, {i \in 1 .. m : s[i].opcode = WSOpcode_Ping},
                                [i \in DOMAIN s |-> Encode(PongOf(s[i]))]))
      BY DEF PingsAnswered, InOrder, Encode, PongOf, RfcBytes
    <3>2. s = sent /\ m = n + 1
      BY <2>2, <2>3
    <3> HIDE DEF s, m
    <3>3. PingsAnswered' <=> (~failed => InOrder(w, J, u))
      BY <3>1, <3>2
    <3> QED
      BY <3>3
  <2>5. ~write_failed => InOrder(written, I, u)
    BY DEF PingsAnswered
  <2> HIDE DEF f, n
  <2>6. /\ \A i \in 1 .. n : i \in 1 .. n + 1 /\ i # n + 1
        /\ \A i \in 1 .. n + 1 : i \in 1 .. n \/ i = n + 1
        /\ n + 1 \in 1 .. n + 1 /\ n + 1 \in DOMAIN sent
    BY <1>0, <2>2
  <2>7. CASE f.opcode = WSOpcode_Ping
    <3>1. J = I \cup {n + 1} /\ I \subseteq 1 .. n
      BY <2>2, <2>6, <2>7
    <3>2. f.fin = 1
      BY <2>2, <2>7, FrameFields DEF WSOpcode_Ping
    <3>3. p \in Seq(Byte) /\ p = Encode(PongOf(f))
      BY <2>2, <3>2, PongIsFrame
    <3>4. u[n + 1] = p
      BY <2>2, <2>6, <3>3
    <3>5. written \in Seq(Seq(Byte))
      BY DEF TypeOK
    <3>6. \/ written' = Append(written, p) /\ write_failed' = write_failed
          \/ write_failed' = TRUE
      BY <2>2, <2>7, <3>2 DEF Collect, ProcessOneMessage, WSOpcode_Ping, WSOpcode_Text
    <3> HIDE DEF I, J, u, p
    <3>7. ~write_failed => InOrder(Append(written, p), J, u)
      <4> SUFFICES ASSUME ~write_failed PROVE InOrder(Append(written, p), J, u)
        OBVIOUS
      <4>1. /\ InOrder(written, I, u) /\ \A i \in I : u[i] = u[i]
            /\ p \in Seq(Byte) /\ n \in Nat
        BY <1>0, <2>5, <3>3
      <4> QED
        BY <3>1, <3>4, <3>5, <4>1, InOrderAppend
    <3>8. CASE written' = Append(written, p) /\ write_failed' = write_failed
      <4>1. ~write_failed' => InOrder(written', J, u)
        BY <3>7, <3>8
      <4> QED
        BY <2>4, <4>1
    <3>9. CASE write_failed' = TRUE
      BY <2>4, <3>9
    <3> QED
      BY <3>6, <3>8, <3>9
  <2>8. CASE f.opcode # WSOpcode_Ping
    <3>1. J = I
      BY <2>2, <2>6, <2>8
    <3>2. written' = written /\ write_failed' = write_failed
      BY <2>2, <2>8 DEF Collect, ProcessOneMessage
    <3> QED
      BY <2>4, <2>5, <3>1, <3>2
  <2> QED
    BY <2>7, <2>8
<1>3. ASSUME UNCHANGED <<sent, decoded, written, write_failed>> PROVE PingsAnswered'
  <2> DEFINE s == sent'
             w == written'
             m == Len(decoded')
             failed == write_failed'
  <2>1. PingsAnswered' <=>
          (~failed => InOrder(w, {i \in 1 .. m : s[i].opcode = WSOpcode_Ping},
                              [i \in DOMAIN s |-> Encode(PongOf(s[i]))]))
    BY DEF PingsAnswered, InOrder, Encode, PongOf, RfcBytes
  <2>2. s = sent /\ w = written /\ m = n /\ (failed <=> write_failed)
    BY <1>3
  <2> HIDE DEF s, w, m, failed
  <2> QED
    BY <2>1, <2>2 DEF PingsAnswered
<1> QED
  BY <1>1, <1>2, <1>3
  DEF Next, vars, msgVars, ReadBatch, ReadFails, ParseIncomplete, AssertionFails

-----------------------------------------------------------------------------
(* The theorems *)

\* At the start nothing is sent, received or decoded.
LEMMA InitIInv == Init => IInv
<1> SUFFICES ASSUME Init PROVE IInv
  OBVIOUS
<1>1. /\ wire = <<>> /\ recv_buf = <<>> /\ oft = 0 /\ msg_buf = <<>> /\ pc = "read"
      /\ sent = <<>> /\ decoded = <<>> /\ handled = <<>> /\ written = <<>>
      /\ packet = NewPacket /\ write_failed = FALSE
  BY DEF Init
<1>2. \A T : <<>> \in Seq(T) /\ Len(<<>>) = 0
  BY EmptySeq
<1>3. TypeOK
  <2>1. NewPacket \in Packet
    BY DEF NewPacket, Packet, Byte
  <2>2. /\ <<>> \in Seq(Byte)
        /\ <<>> \in Seq(Frames)
        /\ <<>> \in Seq([fin : 0 .. 1, opcode : 0 .. 127, payload : Seq(Byte)])
        /\ <<>> \in Seq(Seq(Byte))
        /\ Len(<<>>) = 0
    BY <1>2
  <2>3. wire \in Seq(Byte) /\ recv_buf \in Seq(Byte) /\ msg_buf \in Seq(Byte)
    BY <1>1, <2>2
  <2>4. oft \in 0 .. Len(recv_buf)
    BY <1>1, <2>2
  <2>5. packet \in Packet
    BY <1>1, <2>1
  <2>6. pc \in {"read", "parse", "returned", "aborted", "asserted"} /\ write_failed \in BOOLEAN
    BY <1>1
  <2>7. sent \in Seq(Frames)
    BY <1>1, <2>2
  <2>8. decoded \in Seq([fin : 0 .. 1, opcode : 0 .. 127, payload : Seq(Byte)])
    BY <1>1, <2>2
  <2>9. handled \in Seq(Seq(Byte)) /\ written \in Seq(Seq(Byte))
    BY <1>1, <2>2
  <2> QED
    BY <2>3, <2>4, <2>5, <2>6, <2>7, <2>8, <2>9, Zenon DEF TypeOK
<1>4. InSync
  <2>1. Undecoded = <<>>
    BY <1>1, <1>2, EraseNothing DEF Undecoded, Erase
  <2>2. Erase(<<>>, 0) = <<>>
    BY <1>2, EraseNothing
  <2>3. <<>> \o <<>> = <<>>
    BY <1>2, ConcatEmptySeq
  <2> QED
    BY <1>1, <2>1, <2>2, <2>3, BytesEmpty DEF InSync
<1>5. DecodedSent /\ ParsesEnough /\ NoOutOfRange
  BY <1>1, <1>2 DEF DecodedSent, ParsesEnough, NoOutOfRange
<1>6. NothingLongDelayed
  BY <1>1, <1>2, HeaderMinAssumption DEF NothingLongDelayed
<1>7. LegalOrder /\ EmptyBetween
  BY <1>1, <1>2 DEF LegalOrder, EmptyBetween
<1>8. SingleFrameTextsIntact
  <2> DEFINE I == {i \in DOMAIN decoded :
                     decoded[i].fin = 1 /\ decoded[i].opcode = WSOpcode_Text}
             u == [i \in DOMAIN decoded |-> CString(decoded[i].payload)]
  <2>1. I = {}
    BY <1>1
  <2> HIDE DEF I, u
  <2>2. InOrder(<<>>, I, u)
    BY <2>1, InOrderEmpty
  <2> QED
    BY <1>1, <2>2 DEF SingleFrameTextsIntact, I, u
<1>9. PingsAnswered
  <2> DEFINE I == {i \in 1 .. Len(decoded) : sent[i].opcode = WSOpcode_Ping}
             u == [i \in DOMAIN sent |-> Encode(PongOf(sent[i]))]
  <2>1. I = {}
    BY <1>1, <1>2
  <2> HIDE DEF I, u
  <2>2. InOrder(<<>>, I, u)
    BY <2>1, InOrderEmpty
  <2> QED
    BY <1>1, <2>2 DEF PingsAnswered, I, u
<1> QED
  BY <1>3, <1>4, <1>5, <1>6, <1>7, <1>8, <1>9 DEF IInv

\* Every step keeps the inductive invariant.
LEMMA NextIInv == OnlyShortFrames /\ IInv /\ [Next]_vars => IInv'
BY TypeStep, SyncStep, DecodedStep, ParsesStep, AbortStep, DelayStep, OrderStep,
   EmptyStep, TextsStep, PingsStep DEF IInv

\* The invariant that all of what follows rests on.
THEOREM SpecIInv ==
  ASSUME OnlyShortFrames
  PROVE  Spec => []IInv
BY InitIInv, NextIInv, PTL DEF Spec

\* Types: the offset stays inside the buffer, and the packet never holds
\* anything but bytes, whatever recv_dataframe left in it.
THEOREM SpecTypeOK ==
  ASSUME OnlyShortFrames
  PROVE  Spec => []TypeOK
<1>1. IInv => TypeOK
  BY DEF IInv
<1> QED
  BY <1>1, SpecIInv, PTL

\* The frame boundary is never lost, however the stream is cut into reads.
THEOREM SpecFrameSync ==
  ASSUME OnlyShortFrames
  PROVE  Spec => []FrameSync
<1>1. IInv => FrameSync
  BY DEF IInv, InSync, FrameSync, Erase
<1> QED
  BY <1>1, SpecIInv, PTL

\* Between two batches nothing longer than the minimum is complete.
THEOREM SpecNothingLongDelayed ==
  ASSUME OnlyShortFrames
  PROVE  Spec => []NothingLongDelayed
<1>1. IInv => NothingLongDelayed
  BY DEF IInv
<1> QED
  BY <1>1, SpecIInv, PTL

\* Of a text in one frame the JSON parser gets the bytes up to its first NUL.
THEOREM SpecSingleFrameTextsIntact ==
  ASSUME OnlyShortFrames
  PROVE  Spec => []SingleFrameTextsIntact
<1>1. IInv => SingleFrameTextsIntact
  BY DEF IInv
<1> QED
  BY <1>1, SpecIInv, PTL

\* Pings are answered in order by frames that the peer can parse.
THEOREM SpecPingsAnswered ==
  ASSUME OnlyShortFrames
  PROVE  Spec => []PingsAnswered
<1>1. IInv => PingsAnswered
  BY DEF IInv
<1> QED
  BY <1>1, SpecIInv, PTL

\* The unchecked reads of the parser stay inside the buffer.
THEOREM SpecNoOutOfRange ==
  ASSUME OnlyShortFrames
  PROVE  Spec => []NoOutOfRange
<1>1. IInv => NoOutOfRange
  BY DEF IInv
<1> QED
  BY <1>1, SpecIInv, PTL

-----------------------------------------------------------------------------
(* The channel *)

\* The frames sent, as the client is to see them.
LEMMA ViewsOf ==
  ASSUME NEW s \in Seq(Frames)
  PROVE  /\ Views(s) \in Seq({View(f) : f \in Frames}) /\ Len(Views(s)) = Len(s)
         /\ \A i \in 1 .. Len(s) : Views(s)[i] = View(s[i])
<1> DEFINE V == {View(f) : f \in Frames}
           v == Views(s)
<1>1. Len(s) \in Nat /\ DOMAIN s = 1 .. Len(s) /\ \A i \in 1 .. Len(s) : s[i] \in Frames
  BY LenProperties, ElementOfSeq
<1>2. v = [i \in 1 .. Len(s) |-> View(s[i])]
  BY <1>1 DEF Views
<1>3. \A i \in 1 .. Len(s) : View(s[i]) \in V
  BY <1>1
<1> HIDE DEF V, v
<1>4. v \in [1 .. Len(s) -> V] /\ \A i \in 1 .. Len(s) : v[i] = View(s[i])
  BY <1>2, <1>3
<1>5. v \in Seq(V) /\ DOMAIN v = 1 .. Len(s)
  BY <1>1, <1>4, SeqDef
<1>6. Len(v) = Len(s)
  BY <1>1, <1>5, LenProperties
<1> QED
  BY <1>4, <1>5, <1>6 DEF V, v

\* What the abstract channel sees of one more frame comes behind the rest.
LEMMA ViewsAppend ==
  ASSUME NEW s \in Seq(Frames), NEW f \in Frames
  PROVE  Views(Append(s, f)) = Append(Views(s), View(f))
<1> DEFINE V == {View(g) : g \in Frames}
           t == Append(s, f)
           v == Views(s)
           w == Views(t)
           a == Append(v, View(f))
<1>1. /\ t \in Seq(Frames) /\ Len(t) = Len(s) + 1 /\ t[Len(s) + 1] = f
      /\ \A i \in 1 .. Len(s) : t[i] = s[i]
      /\ Len(s) \in Nat
  BY AppendProperties, LenProperties
<1>2. v \in Seq(V) /\ Len(v) = Len(s) /\ \A i \in 1 .. Len(s) : v[i] = View(s[i])
  BY ViewsOf
<1>3. View(f) \in V
  OBVIOUS
<1>4. t \in Seq(Frames)
  BY <1>1
<1> HIDE DEF t, v
<1>5. w \in Seq(V) /\ Len(w) = Len(t) /\ \A i \in 1 .. Len(t) : w[i] = View(t[i])
  BY <1>4, ViewsOf
<1> HIDE DEF w, V
<1>6. /\ a \in Seq(V) /\ Len(a) = Len(v) + 1 /\ a[Len(v) + 1] = View(f)
      /\ \A i \in 1 .. Len(v) : a[i] = v[i]
  BY <1>2, <1>3, AppendProperties
<1> HIDE DEF a
<1>7. \A i \in 1 .. Len(w) : w[i] = a[i]
  <2> TAKE i \in 1 .. Len(w)
  <2>1. CASE i \in 1 .. Len(s)
    <3>1. w[i] = View(t[i]) /\ t[i] = s[i] /\ v[i] = View(s[i]) /\ a[i] = v[i]
      BY <1>1, <1>2, <1>5, <1>6, <2>1
    <3> QED
      BY <3>1
  <2>2. CASE i = Len(s) + 1
    <3>1. w[i] = View(t[i])
      BY <1>5
    <3> QED
      BY <1>1, <1>2, <1>6, <2>2, <3>1
  <2> QED
    BY <1>1, <1>5, <2>1, <2>2
<1>8. Len(w) = Len(a)
  BY <1>1, <1>2, <1>5, <1>6
<1>9. w = a
  BY <1>5, <1>6, <1>7, <1>8, SeqEqual
<1> QED
  BY <1>9 DEF w, a, t, v

\* The initial states are initial states of the abstract channel.
LEMMA RefineInit == Init => Channel!Init
BY DEF Init, Channel!Init, Views

\* A frame sent is a frame sent, a frame parsed is a frame delivered, and
\* every other step is a stutter.
LEMMA RefineNext ==
  OnlyShortFrames /\ IInv /\ [Next]_vars => [Channel!Next]_(Channel!vars)
<1> SUFFICES ASSUME OnlyShortFrames, IInv, [Next]_vars
             PROVE  [Channel!Next]_(Channel!vars)
  OBVIOUS
<1> USE DEF IInv
<1>1. ASSUME NEW f \in Frames, PeerSends(f) PROVE Channel!Next
  <2>1. sent \in Seq(Frames) /\ sent' = Append(sent, f) /\ decoded' = decoded
    BY <1>1 DEF TypeOK, PeerSends, msgVars
  <2>2. Views(sent') = Append(Views(sent), View(f))
    BY <2>1, ViewsAppend
  <2>3. View(f) \in {View(g) : g \in Frames}
    OBVIOUS
  <2>4. Channel!Send(View(f))
    BY <2>1, <2>2 DEF Channel!Send, Views, View
  <2> QED
    BY <2>3, <2>4 DEF Channel!Next
<1>2. ASSUME ParseFrame PROVE Channel!Next
  <2>1. PICK key : TakesNext(key)
    BY <1>2, ParseTakes
  <2>2. /\ sent' = sent /\ Len(decoded) < Len(sent)
        /\ decoded' = Append(decoded, View(NextFrame))
    BY <2>1 DEF TakesNext
  <2>3. sent \in Seq(Frames) /\ Len(decoded) \in Nat /\ Len(sent) \in Nat
    BY LenProperties DEF TypeOK
  <2>4. /\ Len(Views(sent)) = Len(sent)
        /\ \A i \in 1 .. Len(sent) : Views(sent)[i] = View(sent[i])
    BY <2>3, ViewsOf
  <2>5. Len(decoded) + 1 \in 1 .. Len(sent)
    BY <2>2, <2>3
  <2>6. Views(sent)[Len(decoded) + 1] = View(NextFrame)
    BY <2>4, <2>5 DEF NextFrame
  <2>7. Channel!Deliver
    BY <2>2, <2>4, <2>6 DEF Channel!Deliver, Views, View
  <2> QED
    BY <2>7 DEF Channel!Next
<1>3. ASSUME UNCHANGED <<sent, decoded>> PROVE UNCHANGED Channel!vars
  BY <1>3 DEF Channel!vars, Views, View
<1> QED
  BY <1>1, <1>2, <1>3
  DEF Next, vars, msgVars, ReadBatch, ReadFails, ParseIncomplete, AssertionFails

\* The receive path implements the channel of frames.
THEOREM ImplementsChannel ==
  ASSUME OnlyShortFrames
  PROVE  Spec => ChannelSpec
BY SpecIInv, RefineInit, RefineNext, PTL DEF Spec, ChannelSpec, Channel!Spec

=============================================================================
