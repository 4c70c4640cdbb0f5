---------------------------- MODULE WsPacketProofs ----------------------------
(***************************************************************************)
(* Proofs about the codec of WsPacket: what the encoders write for a       *)
(* payload of up to Len16Max bytes, and that the parser finds exactly that *)
(* in any buffer in which enough of it has arrived.                        *)
(***************************************************************************)
EXTENDS WsPacket, SequenceLemmas, TLAPS

-----------------------------------------------------------------------------
(* The bytes of a frame, one by one *)

\* Bytes before the payload, and those of them before the key.
LengthEnd(n) == IF n < Len7Limit THEN 2 ELSE 4
HeaderLength(mask, n) == LengthEnd(n) + 4 * mask

\* The payload as it is sent.
Body(mask, key, payload) == IF mask = 1 THEN MaskPayload(payload, key) ELSE payload

\* What the encoders and the parser of this module deal with.
Encodable(fin, opcode, mask, key, payload) ==
  /\ fin \in 0 .. 1 /\ opcode \in 0 .. 15 /\ mask \in 0 .. 1
  /\ key \in Seq(Byte) /\ (mask = 1 => Len(key) = 4)
  /\ payload \in Seq(Byte) /\ Len(payload) <= Len16Max

\* h is a header up to the key.
IsStart(h, fin, opcode, mask, n) ==
  /\ h \in Seq(Byte) /\ Len(h) = LengthEnd(n)
  /\ h[1] = 128 * fin + opcode
  /\ h[2] = 128 * mask + (IF n < Len7Limit THEN n ELSE Len7Limit)
  /\ n >= Len7Limit => h[3] = n \div 256 /\ h[4] = n % 256

\* b is the frame with these contents.
IsFrame(b, fin, opcode, mask, key, payload) ==
  LET n == Len(payload)
      k == LengthEnd(n)
      h == HeaderLength(mask, n)
  IN  /\ b \in Seq(Byte) /\ Len(b) = h + n
      /\ b[1] = 128 * fin + opcode
      /\ b[2] = 128 * mask + (IF n < Len7Limit THEN n ELSE Len7Limit)
      /\ n >= Len7Limit => b[3] = n \div 256 /\ b[4] = n % 256
      /\ mask = 1 => \A i \in 1 .. 4 : b[k + i] = key[i]
      /\ \A i \in 1 .. n : b[h + i] = Body(mask, key, payload)[i]

-----------------------------------------------------------------------------
(* Arithmetic and masking *)

\* The two lengths at which the header grows.
LEMMA Limits ==
  /\ Len7Limit \in Nat /\ Len7Limit >= 4 /\ Len7Limit <= 126
  /\ Len16Max \in Nat /\ Len16Max <= 65535
BY LengthsAssumption

\* A byte split into its upper bit and the other seven.
LEMMA UpperBit ==
  ASSUME NEW x \in 0 .. 1, NEW y \in 0 .. 127
  PROVE  (128 * x + y) \div 128 = x /\ (128 * x + y) % 128 = y /\ 128 * x + y \in Byte
BY DEF Byte

\* A number of two bytes.
LEMMA TwoBytes ==
  ASSUME NEW n \in Nat, n <= 65535
  PROVE  /\ n \div 256 \in Byte /\ n % 256 \in Byte
         /\ 256 * (n \div 256) + (n % 256) = n
         /\ (n \div 256 ^ 1) % 256 = n \div 256
         /\ (n \div 256 ^ 0) % 256 = n % 256
<1>1. n \div 256 \in 0 .. 255 /\ n % 256 \in 0 .. 255
      /\ 256 * (n \div 256) + (n % 256) = n
  <2>1. n \div 256 \in Nat /\ n % 256 \in 0 .. 255
    OBVIOUS
  <2>2. 256 * (n \div 256) + (n % 256) = n
    OBVIOUS
  <2>3. n \div 256 <= 255
    BY <2>1, <2>2
  <2> QED
    BY <2>1, <2>2, <2>3
<1>2. \A m \in 0 .. 255 : m % 256 = m
  OBVIOUS
<1>3. n \div 1 = n
  OBVIOUS
<1> QED
  BY <1>1, <1>2, <1>3, PowersAssumption DEF Byte

\* Which byte of the key is used.
LEMMA KeyIndex ==
  ASSUME NEW i \in Nat, i > 0
  PROVE  ((i - 1) % 4) + 1 \in 1 .. 4
OBVIOUS

\* A masked payload has the length of the payload, and masking it again with
\* the same key gives it back.
LEMMA BodyType ==
  ASSUME NEW mask \in 0 .. 1, NEW key \in Seq(Byte), mask = 1 => Len(key) = 4,
         NEW payload \in Seq(Byte)
  PROVE  /\ Body(mask, key, payload) \in Seq(Byte)
         /\ Len(Body(mask, key, payload)) = Len(payload)
         /\ mask = 1 => \A i \in 1 .. Len(payload) :
              ByteXor(Body(mask, key, payload)[i], key[((i - 1) % 4) + 1]) = payload[i]
<1>1. Len(payload) \in Nat
  BY LenProperties
<1>2. CASE mask = 1
  <2> DEFINE m == [i \in 1 .. Len(payload) |-> ByteXor(payload[i], key[((i - 1) % 4) + 1])]
  <2>1. \A i \in 1 .. Len(payload) : payload[i] \in Byte /\ key[((i - 1) % 4) + 1] \in Byte
    <3> TAKE i \in 1 .. Len(payload)
    <3>1. ((i - 1) % 4) + 1 \in 1 .. Len(key)
      <4>1. i \in Nat /\ i > 0
        BY <1>1
      <4> QED
        BY <1>2, <4>1, KeyIndex
    <3> QED
      BY <3>1, ElementOfSeq
  <2>2. \A i \in 1 .. Len(payload) : m[i] \in Byte
    BY <2>1, XorAssumption
  <2>3. m \in Seq(Byte) /\ Len(m) = Len(payload)
    <3>1. m \in [1 .. Len(payload) -> Byte]
      BY <2>2
    <3> HIDE DEF m
    <3> QED
      BY <1>1, <3>1, IsASeq, LenProperties
  <2>4. \A i \in 1 .. Len(payload) : ByteXor(m[i], key[((i - 1) % 4) + 1]) = payload[i]
    BY <2>1, XorAssumption
  <2>5. Body(mask, key, payload) = m
    BY <1>2 DEF Body, MaskPayload
  <2> HIDE DEF m
  <2> QED
    BY <2>3, <2>4, <2>5
<1>3. CASE mask = 0
  BY <1>3 DEF Body
<1> QED
  BY <1>2, <1>3

-----------------------------------------------------------------------------
(* The encoders *)

\* Three sequences one behind the other.
LEMMA ThreeParts ==
  ASSUME NEW T, NEW h \in Seq(T), NEW k \in Seq(T), NEW p \in Seq(T)
  PROVE  /\ (h \o k) \o p \in Seq(T)
         /\ Len((h \o k) \o p) = Len(h) + Len(k) + Len(p)
         /\ \A i \in 1 .. Len(h) : ((h \o k) \o p)[i] = h[i]
         /\ \A i \in 1 .. Len(k) : ((h \o k) \o p)[Len(h) + i] = k[i]
         /\ \A i \in 1 .. Len(p) : ((h \o k) \o p)[Len(h) + Len(k) + i] = p[i]
<1> DEFINE q == h \o k
           s == q \o p
<1>1. Len(h) \in Nat /\ Len(k) \in Nat /\ Len(p) \in Nat
  BY LenProperties
<1>2. /\ q \in Seq(T) /\ Len(q) = Len(h) + Len(k)
      /\ \A i \in 1 .. Len(h) + Len(k) : q[i] = IF i <= Len(h) THEN h[i] ELSE k[i - Len(h)]
  BY ConcatProperties
<1>3. q \in Seq(T)
  BY <1>2
<1> HIDE DEF q
<1>4. /\ s \in Seq(T) /\ Len(s) = Len(q) + Len(p)
      /\ \A i \in 1 .. Len(q) + Len(p) : s[i] = IF i <= Len(q) THEN q[i] ELSE p[i - Len(q)]
  BY <1>3, ConcatProperties
<1> HIDE DEF s
<1>5. \A i \in 1 .. Len(h) : s[i] = h[i]
  <2> TAKE i \in 1 .. Len(h)
  <2>1. i \in 1 .. Len(h) + Len(k) /\ i \in 1 .. Len(q) + Len(p) /\ i <= Len(q)
    BY <1>1, <1>2
  <2> QED
    BY <1>2, <1>4, <2>1
<1>6. \A i \in 1 .. Len(k) : s[Len(h) + i] = k[i]
  <2> TAKE i \in 1 .. Len(k)
  <2> DEFINE j == Len(h) + i
  <2>1. /\ j \in 1 .. Len(h) + Len(k) /\ j \in 1 .. Len(q) + Len(p)
        /\ j <= Len(q) /\ ~(j <= Len(h)) /\ j - Len(h) = i
    BY <1>1, <1>2
  <2> HIDE DEF j
  <2>2. s[j] = k[i]
    BY <1>2, <1>4, <2>1
  <2> QED
    BY <2>2 DEF j
<1>7. \A i \in 1 .. Len(p) : s[Len(h) + Len(k) + i] = p[i]
  <2> TAKE i \in 1 .. Len(p)
  <2> DEFINE j == Len(h) + Len(k) + i
  <2>1. j \in 1 .. Len(q) + Len(p) /\ ~(j <= Len(q)) /\ j - Len(q) = i
    BY <1>1, <1>2
  <2> HIDE DEF j
  <2>2. s[j] = p[i]
    BY <1>4, <2>1
  <2> QED
    BY <2>2 DEF j
<1>8. Len(s) = Len(h) + Len(k) + Len(p)
  BY <1>2, <1>4
<1> QED
  BY <1>4, <1>5, <1>6, <1>7, <1>8 DEF q, s

\* Start, key and payload make a frame.
LEMMA AssembleFrame ==
  ASSUME NEW fin, NEW opcode, NEW mask, NEW key, NEW payload,
         Encodable(fin, opcode, mask, key, payload),
         NEW h, IsStart(h, fin, opcode, mask, Len(payload))
  PROVE  IsFrame((h \o (IF mask = 1 THEN key ELSE <<>>)) \o Body(mask, key, payload),
                 fin, opcode, mask, key, payload)
<1> DEFINE n == Len(payload)
           k == IF mask = 1 THEN key ELSE <<>>
           p == Body(mask, key, payload)
           b == (h \o k) \o p
<1>1. n \in Nat /\ mask \in 0 .. 1 /\ (mask = 1 => Len(key) = 4)
  BY LenProperties DEF Encodable
<1>2. k \in Seq(Byte) /\ Len(k) = 4 * mask
  <2>1. key \in Seq(Byte) /\ <<>> \in Seq(Byte) /\ Len(<<>>) = 0
    BY EmptySeq DEF Encodable
  <2>2. CASE mask = 1
    BY <1>1, <2>1, <2>2
  <2>3. CASE mask = 0
    BY <2>1, <2>3
  <2> QED
    BY <1>1, <2>2, <2>3
<1>3. p \in Seq(Byte) /\ Len(p) = n
  BY BodyType DEF Encodable
<1>4. /\ h \in Seq(Byte) /\ Len(h) = LengthEnd(n) /\ Len(h) \in {2, 4}
      /\ n >= Len7Limit => Len(h) = 4
  BY <1>1, Limits DEF IsStart, LengthEnd
<1>5. mask = 1 => k = key
  OBVIOUS
<1> HIDE DEF k, p, n
<1>6. /\ b \in Seq(Byte) /\ Len(b) = Len(h) + Len(k) + Len(p)
      /\ \A i \in 1 .. Len(h) : b[i] = h[i]
      /\ \A i \in 1 .. Len(k) : b[Len(h) + i] = k[i]
      /\ \A i \in 1 .. Len(p) : b[Len(h) + Len(k) + i] = p[i]
  <2>1. h \in Seq(Byte) /\ k \in Seq(Byte) /\ p \in Seq(Byte)
    BY <1>2, <1>3, <1>4
  <2> QED
    BY <2>1, ThreeParts
<1> HIDE DEF b
<1>7. b[1] = h[1] /\ b[2] = h[2] /\ (n >= Len7Limit => b[3] = h[3] /\ b[4] = h[4])
  BY <1>4, <1>6
<1>8. HeaderLength(mask, n) = Len(h) + Len(k)
  BY <1>2, <1>4 DEF HeaderLength
<1>9. Len(b) = HeaderLength(mask, n) + n
  BY <1>3, <1>6, <1>8
<1>10. mask = 1 => \A i \in 1 .. 4 : b[LengthEnd(n) + i] = key[i]
  <2> SUFFICES ASSUME mask = 1, NEW i \in 1 .. 4
               PROVE  b[LengthEnd(n) + i] = key[i]
    OBVIOUS
  <2>1. i \in 1 .. Len(k)
    BY <1>2
  <2> QED
    BY <1>4, <1>5, <1>6, <2>1
<1>11. \A i \in 1 .. n : b[HeaderLength(mask, n) + i] = p[i]
  BY <1>3, <1>6, <1>8
<1>12. IsStart(h, fin, opcode, mask, n)
  BY DEF n
<1>13. IsFrame(b, fin, opcode, mask, key, payload)
  BY <1>6, <1>7, <1>9, <1>10, <1>11, <1>12 DEF IsFrame, IsStart, n, p
<1> QED
  BY <1>13 DEF b, k, p

\* The first bytes that the two encoders write.
LEMMA StartOfFrame ==
  ASSUME NEW fin \in 0 .. 1, NEW opcode \in 0 .. 15, NEW mask \in 0 .. 1,
         NEW n \in Nat, n <= Len16Max
  PROVE  IsStart(<<128 * fin + opcode, 128 * mask + LengthType(n)>>
                   \o NetworkOrder(n, ExtendedWidth(LengthType(n))),
                 fin, opcode, mask, n)
<1> DEFINE type == LengthType(n)
           two == <<128 * fin + opcode, 128 * mask + type>>
           ext == NetworkOrder(n, ExtendedWidth(type))
<1>1. type = (IF n < Len7Limit THEN n ELSE Len7Limit) /\ type \in 0 .. 127
  BY Limits DEF LengthType
<1>2. ExtendedWidth(type) = (IF n < Len7Limit THEN 0 ELSE 2)
  BY <1>1, Limits DEF ExtendedWidth
<1>3. ext \in Seq(Byte) /\ Len(ext) = (IF n < Len7Limit THEN 0 ELSE 2)
      /\ (n >= Len7Limit => ext[1] = n \div 256 /\ ext[2] = n % 256)
  <2>1. CASE n < Len7Limit
    <3>1. ext = [i \in 1 .. 0 |-> IF 0 - i < 3 THEN (n \div 256 ^ (0 - i)) % 256 ELSE 0]
      BY <1>2, <2>1 DEF NetworkOrder
    <3>2. ext = <<>>
      BY <3>1
    <3>3. ~(n >= Len7Limit)
      BY <2>1, Limits
    <3> QED
      BY <2>1, <3>2, <3>3, EmptySeq
  <2>2. CASE ~(n < Len7Limit)
    <3>1. ext = [i \in 1 .. 2 |-> IF 2 - i < 3 THEN (n \div 256 ^ (2 - i)) % 256 ELSE 0]
      BY <1>2, <2>2 DEF NetworkOrder
    <3>2. 2 - 1 = 1 /\ 2 - 2 = 0 /\ \A i \in 1 .. 2 : i = 1 \/ i = 2
      OBVIOUS
    <3>3. ext[1] = (n \div 256 ^ 1) % 256 /\ ext[2] = (n \div 256 ^ 0) % 256
      BY <3>1, <3>2
    <3> HIDE DEF ext
    <3>4. n <= 65535
      BY Limits
    <3>5. ext[1] = n \div 256 /\ ext[2] = n % 256 /\ ext[1] \in Byte /\ ext[2] \in Byte
      BY <3>3, <3>4, TwoBytes
    <3>6. ext \in [1 .. 2 -> Byte]
      <4>1. DOMAIN ext = 1 .. 2 /\ ext = [i \in DOMAIN ext |-> ext[i]]
        BY <3>1
      <4> QED
        BY <3>2, <3>5, <4>1
    <3>7. ext \in Seq(Byte) /\ Len(ext) = 2
      <4>1. ext \in Seq(Byte) /\ DOMAIN ext = 1 .. 2
        BY <3>6, SeqDef
      <4>2. Len(ext) \in Nat /\ DOMAIN ext = 1 .. Len(ext)
        BY <4>1, LenProperties
      <4> QED
        BY <4>1, <4>2
    <3> QED
      BY <2>2, <3>5, <3>7
  <2> QED
    BY <2>1, <2>2
<1>4. 128 * fin + opcode \in Byte /\ 128 * mask + type \in Byte
  <2>1. opcode \in 0 .. 127
    OBVIOUS
  <2> HIDE DEF type
  <2> QED
    BY <1>1, <2>1, UpperBit
<1> HIDE DEF type, ext
<1>5. /\ two \in Seq(Byte) /\ Len(two) = 2
      /\ two[1] = 128 * fin + opcode /\ two[2] = 128 * mask + type
  BY <1>4
<1> HIDE DEF two
<1>6. /\ two \o ext \in Seq(Byte) /\ Len(two \o ext) = Len(two) + Len(ext)
      /\ \A i \in 1 .. Len(two) + Len(ext) :
           (two \o ext)[i] = IF i <= Len(two) THEN two[i] ELSE ext[i - Len(two)]
  <2>1. two \in Seq(Byte) /\ ext \in Seq(Byte)
    BY <1>3, <1>5
  <2> QED
    BY <2>1, ConcatProperties
<1> DEFINE h == two \o ext
<1> HIDE DEF h
<1>7. h \in Seq(Byte) /\ Len(h) = LengthEnd(n)
  BY <1>3, <1>5, <1>6 DEF LengthEnd, h
<1>8. \A i \in 1 .. 2 + Len(ext) : h[i] = IF i <= 2 THEN two[i] ELSE ext[i - 2]
  BY <1>5, <1>6 DEF h
<1>9. h[1] = two[1] /\ h[2] = two[2]
  BY <1>3, <1>8
<1>10. n >= Len7Limit => h[3] = ext[1] /\ h[4] = ext[2]
  <2> SUFFICES ASSUME n >= Len7Limit PROVE h[3] = ext[1] /\ h[4] = ext[2]
    OBVIOUS
  <2>1. Len(ext) = 2
    BY <1>3, Limits
  <2>2. 3 \in 1 .. 2 + Len(ext) /\ 4 \in 1 .. 2 + Len(ext) /\ 3 - 2 = 1 /\ 4 - 2 = 2
    BY <2>1
  <2> QED
    BY <1>8, <2>2
<1> QED
  BY <1>1, <1>3, <1>5, <1>7, <1>9, <1>10 DEF IsStart, h, two, ext, type

\* pack_dataframe writes the frame that it was asked for.
LEMMA PackIsFrame ==
  ASSUME NEW fin, NEW opcode, NEW mask, NEW key, NEW payload,
         Encodable(fin, opcode, mask, key, payload)
  PROVE  IsFrame(PackDataframe(fin, opcode, mask, key, payload),
                 fin, opcode, mask, key, payload)
<1> DEFINE n == Len(payload)
           h == <<128 * fin + opcode, 128 * mask + LengthType(n)>>
                  \o NetworkOrder(n, ExtendedWidth(LengthType(n)))
<1>1. n \in Nat /\ n <= Len16Max /\ opcode % 16 = opcode
  BY LenProperties DEF Encodable
<1>2. IsStart(h, fin, opcode, mask, n)
  BY SMTT(30), <1>1, StartOfFrame DEF Encodable
<1>3. [i \in 1 .. n |-> IF mask = 1 THEN ByteXor(payload[i], key[((i - 1) % 4) + 1])
                       ELSE payload[i]] = Body(mask, key, payload)
  <2>1. CASE mask = 1
    BY <2>1 DEF Body, MaskPayload
  <2>2. CASE mask # 1
    <3>1. payload = [i \in 1 .. n |-> payload[i]]
      BY LenProperties DEF Encodable
    <3> QED
      BY <2>2, <3>1 DEF Body
  <2> QED
    BY <2>1, <2>2
<1>4. PackDataframe(fin, opcode, mask, key, payload)
        = (h \o (IF mask = 1 THEN key ELSE <<>>)) \o Body(mask, key, payload)
  BY <1>1, <1>3 DEF PackDataframe
<1> HIDE DEF h
<1> QED
  BY <1>2, <1>4, AssembleFrame

\* create_websocket_frame writes a masked text.
LEMMA CreateIsFrame ==
  ASSUME NEW key, NEW payload, Encodable(1, WSOpcode_Text, 1, key, payload)
  PROVE  IsFrame(CreateWebsocketFrame(payload, key), 1, WSOpcode_Text, 1, key, payload)
<1> DEFINE n == Len(payload)
           h == <<128 * 1 + WSOpcode_Text, 128 * 1 + LengthType(n)>>
                  \o NetworkOrder(n, ExtendedWidth(LengthType(n)))
<1>1. n \in Nat /\ n <= Len16Max
  BY LenProperties DEF Encodable
<1>2. IsStart(h, 1, WSOpcode_Text, 1, n)
  BY <1>1, StartOfFrame DEF Encodable
<1>3. CreateWebsocketFrame(payload, key)
        = (h \o (IF 1 = 1 THEN key ELSE <<>>)) \o Body(1, key, payload)
  <2>1. 128 * 1 + WSOpcode_Text = 129 /\ 128 * 1 = 128
    BY DEF WSOpcode_Text
  <2> QED
    BY <2>1 DEF CreateWebsocketFrame, Body
<1> HIDE DEF h
<1> QED
  BY <1>2, <1>3, AssembleFrame

\* There is one sequence of bytes for a frame.
LEMMA FrameDetermined ==
  ASSUME NEW fin, NEW opcode, NEW mask, NEW key, NEW payload,
         Encodable(fin, opcode, mask, key, payload),
         NEW b, IsFrame(b, fin, opcode, mask, key, payload),
         NEW c, IsFrame(c, fin, opcode, mask, key, payload)
  PROVE  b = c
<1> DEFINE n == Len(payload)
           h == HeaderLength(mask, n)
<1>1. n \in Nat /\ mask \in 0 .. 1
  BY LenProperties DEF Encodable
<1>2. /\ b \in Seq(Byte) /\ c \in Seq(Byte) /\ Len(b) = h + n /\ Len(c) = h + n
      /\ b[1] = c[1] /\ b[2] = c[2]
      /\ n >= Len7Limit => b[3] = c[3] /\ b[4] = c[4]
      /\ mask = 1 => \A i \in 1 .. 4 : b[LengthEnd(n) + i] = c[LengthEnd(n) + i]
      /\ \A i \in 1 .. n : b[h + i] = c[h + i]
  BY DEF IsFrame
<1>3. /\ LengthEnd(n) = (IF n < Len7Limit THEN 2 ELSE 4)
      /\ h = LengthEnd(n) + 4 * mask /\ h \in Nat
  BY <1>1 DEF LengthEnd, HeaderLength
<1> HIDE DEF n, h
<1>4. \A i \in 1 .. h + n : b[i] = c[i]
  <2> TAKE i \in 1 .. h + n
  <2>1. CASE i \in 1 .. 2
    BY <1>2, <2>1
  <2>2. CASE i \in 3 .. LengthEnd(n)
    <3>1. n >= Len7Limit /\ i \in 3 .. 4
      BY <1>1, <1>3, <2>2, Limits
    <3> QED
      BY <1>2, <3>1
  <2>3. CASE i > LengthEnd(n) /\ i <= h
    <3> DEFINE j == i - LengthEnd(n)
    <3>1. mask = 1 /\ j \in 1 .. 4 /\ i = LengthEnd(n) + j
      BY <1>1, <1>3, <2>3
    <3> HIDE DEF j
    <3> QED
      BY <1>2, <3>1
  <2>4. CASE i > h
    <3> DEFINE j == i - h
    <3>1. j \in 1 .. n /\ i = h + j
      BY <1>1, <1>3, <2>4
    <3> HIDE DEF j
    <3> QED
      BY <1>2, <3>1
  <2> QED
    BY <1>1, <1>3, <2>1, <2>2, <2>3, <2>4
<1> QED
  BY <1>2, <1>4, SeqEqual

-----------------------------------------------------------------------------
(* The parser *)

\* A read of bytes that have arrived.
LEMMA ReadArrived ==
  ASSUME NEW buf \in Seq(Byte), NEW oft \in Nat, NEW n \in Nat,
         oft + n <= Len(buf), NEW old
  PROVE  /\ AfterRead(buf, oft, n) = oft + n
         /\ ReadBytes(buf, oft, n, old) \in Seq(Byte)
         /\ Len(ReadBytes(buf, oft, n, old)) = n
         /\ \A i \in 1 .. n : ReadBytes(buf, oft, n, old)[i] = buf[oft + i]
<1>1. Len(buf) \in Nat /\ n <= Len(buf) - oft
  BY LenProperties
<1>2. ReadBytes(buf, oft, n, old) = SubSeq(buf, oft + 1, oft + n)
  BY <1>1 DEF ReadBytes
<1>3. \A i \in oft + 1 .. oft + n : buf[i] \in Byte
  BY <1>1, ElementOfSeq
<1>4. /\ SubSeq(buf, oft + 1, oft + n) \in Seq(Byte)
      /\ Len(SubSeq(buf, oft + 1, oft + n)) =
           (IF oft + 1 <= oft + n THEN (oft + n) - (oft + 1) + 1 ELSE 0)
      /\ \A i \in 1 .. (oft + n) - (oft + 1) + 1 :
           SubSeq(buf, oft + 1, oft + n)[i] = buf[oft + 1 + i - 1]
  BY <1>1, <1>3, SubSeqProperties
<1>5. Len(SubSeq(buf, oft + 1, oft + n)) = n
  BY <1>4
<1>6. \A i \in 1 .. n : SubSeq(buf, oft + 1, oft + n)[i] = buf[oft + i]
  <2> TAKE i \in 1 .. n
  <2>1. i \in 1 .. (oft + n) - (oft + 1) + 1 /\ oft + 1 + i - 1 = oft + i
    OBVIOUS
  <2> QED
    BY <1>4, <2>1
<1> QED
  BY <1>1, <1>2, <1>4, <1>5, <1>6 DEF AfterRead

\* buf holds the bytes of b from the offset on, as far as they have arrived.
Arrives(buf, oft, b) ==
  \A i \in 1 .. Len(b) : oft + i <= Len(buf) => buf[oft + i] = b[i]

\* The header that fetch_frame_info finds where a frame begins, when more than
\* the minimum has arrived.
LEMMA HeaderFound ==
  ASSUME NEW fin, NEW opcode, NEW mask, NEW key, NEW payload,
         Encodable(fin, opcode, mask, key, payload),
         NEW b, IsFrame(b, fin, opcode, mask, key, payload),
         NEW buf \in Seq(Byte), NEW oft \in Nat, Len(buf) > oft + 5,
         Arrives(buf, oft, b), NEW packet \in Packet
  PROVE  LET info == FetchFrameInfo(packet, buf, oft)
             n    == Len(payload)
         IN  /\ info.fin = fin /\ info.opcode = opcode /\ info.mask = mask
             /\ info.payload_length = n
             /\ info.masking_key \in Seq(Byte)
             /\ \/ /\ info.header = oft + HeaderLength(mask, n)
                   /\ info.header <= Len(buf)
                   /\ mask = 1 => info.masking_key = key
                \/ /\ info.header = oft + 4
                   /\ mask = 1 /\ n >= Len7Limit /\ Len(buf) < oft + 8
<1> DEFINE n      == Len(payload)
           first  == ReadBytes(buf, oft, 1, <<0>>)[1]
           next   == AfterRead(buf, oft, 1)
           second == ReadBytes(buf, next, 1, <<first>>)[1]
           extAt  == AfterRead(buf, next, 1)
           width  == ExtendedWidth(second % 128)
           ext    == ReadBytes(buf, extAt, width, [i \in 1 .. width |-> 0])
           mk     == second \div 128
           keyAt  == AfterRead(buf, extAt, width)
           mkey   == IF mk = 1 THEN ReadBytes(buf, keyAt, 4, packet.masking_key)
                     ELSE packet.masking_key
           type   == IF n < Len7Limit THEN n ELSE Len7Limit
           info   == FetchFrameInfo(packet, buf, oft)
<1>1. info = [fin            |-> first \div 128,
              opcode         |-> first % 128,
              mask           |-> mk,
              masking_key    |-> mkey,
              payload_length |-> PayloadLength(second % 128, ext, packet),
              header         |-> AfterRead(buf, keyAt, 4 * mk)]
  BY DEF FetchFrameInfo
<1>2. /\ n \in Nat /\ Len(buf) \in Nat /\ n <= Len16Max /\ n <= 65535
      /\ fin \in 0 .. 1 /\ opcode \in 0 .. 15 /\ opcode \in 0 .. 127 /\ mask \in 0 .. 1
      /\ type \in 0 .. 127
      /\ mask = 1 => Len(key) = 4
      /\ key \in Seq(Byte)
  <2>1. /\ payload \in Seq(Byte) /\ n <= Len16Max
        /\ fin \in 0 .. 1 /\ opcode \in 0 .. 15 /\ mask \in 0 .. 1
        /\ mask = 1 => Len(key) = 4
        /\ key \in Seq(Byte)
    BY DEF Encodable
  <2>2. n \in Nat /\ Len(buf) \in Nat
    BY <2>1, LenProperties
  <2> HIDE DEF n
  <2>3. n <= 65535 /\ type \in 0 .. 127 /\ opcode \in 0 .. 127
    BY <2>1, <2>2, Limits
  <2> QED
    BY <2>1, <2>2, <2>3 DEF n
<1>3. /\ LengthEnd(n) = (IF n < Len7Limit THEN 2 ELSE 4)
      /\ HeaderLength(mask, n) = LengthEnd(n) + 4 * mask
  BY DEF LengthEnd, HeaderLength
<1>4. /\ b[1] = 128 * fin + opcode
      /\ b[2] = 128 * mask + type
      /\ n >= Len7Limit => b[3] = n \div 256 /\ b[4] = n % 256
      /\ mask = 1 => \A i \in 1 .. 4 : b[LengthEnd(n) + i] = key[i]
      /\ Len(b) = HeaderLength(mask, n) + n
  BY DEF IsFrame
<1>5. /\ Len(b) \in Nat /\ Len(b) >= 2 /\ (n >= Len7Limit => Len(b) >= 4)
      /\ (mask = 1 => Len(b) >= LengthEnd(n) + 4)
  <2>1. Len(b) = LengthEnd(n) + 4 * mask + n
    BY <1>3, <1>4
  <2> HIDE DEF n
  <2> QED
    BY <1>2, <1>3, <2>1, Limits
<1>6. next = oft + 1 /\ first = b[1]
  <2>1. oft + 1 <= Len(buf) /\ 1 \in Nat /\ 1 \in 1 .. 1 /\ 1 \in 1 .. Len(b)
    BY <1>2, <1>5
  <2>2. next = oft + 1 /\ first = buf[oft + 1]
    BY <2>1, ReadArrived
  <2> QED
    BY <2>1, <2>2 DEF Arrives
<1> HIDE DEF first, next
<1>7. extAt = oft + 2 /\ second = b[2]
  <2>1. /\ (oft + 1) + 1 <= Len(buf) /\ oft + 1 \in Nat /\ 1 \in Nat /\ 1 \in 1 .. 1
        /\ 2 \in 1 .. Len(b) /\ oft + 2 <= Len(buf) /\ (oft + 1) + 1 = oft + 2
    BY <1>2, <1>5
  <2>2. AfterRead(buf, oft + 1, 1) = (oft + 1) + 1
        /\ ReadBytes(buf, oft + 1, 1, <<first>>)[1] = buf[(oft + 1) + 1]
    BY <2>1, ReadArrived
  <2>3. buf[oft + 2] = b[2]
    BY <2>1 DEF Arrives
  <2> QED
    BY <1>6, <2>1, <2>2, <2>3
<1> HIDE DEF second, extAt, type
<1>8. first \div 128 = fin /\ first % 128 = opcode /\ mk = mask /\ second % 128 = type
  <2>1. (128 * fin + opcode) \div 128 = fin /\ (128 * fin + opcode) % 128 = opcode
    <3>1. fin \in 0 .. 1 /\ opcode \in 0 .. 127
      BY <1>2
    <3> QED
      BY <3>1, UpperBit
  <2>2. (128 * mask + type) \div 128 = mask /\ (128 * mask + type) % 128 = type
    <3>1. mask \in 0 .. 1 /\ type \in 0 .. 127
      BY <1>2
    <3> QED
      BY <3>1, UpperBit
  <2> QED
    BY <1>4, <1>6, <1>7, <2>1, <2>2
<1>9. width = (IF n < Len7Limit THEN 0 ELSE 2) /\ width \in Nat
  BY <1>2, <1>8, Limits DEF ExtendedWidth, type
<1> HIDE DEF mk, width
<1>10. keyAt = oft + LengthEnd(n) /\ (n >= Len7Limit => ext[1] = b[3] /\ ext[2] = b[4])
  <2>1. oft + 2 \in Nat /\ (oft + 2) + width <= Len(buf) /\ (oft + 2) + width = oft + LengthEnd(n)
    BY <1>2, <1>3, <1>9
  <2>2. /\ AfterRead(buf, oft + 2, width) = (oft + 2) + width
        /\ \A i \in 1 .. width : ReadBytes(buf, oft + 2, width, [j \in 1 .. width |-> 0])[i]
                                   = buf[(oft + 2) + i]
    <3> DEFINE o == oft + 2
               old == [j \in 1 .. width |-> 0]
    <3>1. o \in Nat /\ width \in Nat /\ o + width <= Len(buf)
      BY <1>9, <2>1
    <3> HIDE DEF o, old
    <3>2. AfterRead(buf, o, width) = o + width
      BY <3>1, ReadArrived
    <3>3. ASSUME NEW i \in 1 .. width
          PROVE  ReadBytes(buf, o, width, old)[i] = buf[o + i]
      BY <3>1, ReadArrived
    <3> QED
      BY <3>2, <3>3 DEF o, old
  <2>3. ASSUME n >= Len7Limit PROVE ext[1] = b[3] /\ ext[2] = b[4]
    <3>1. /\ width = 2 /\ 1 \in 1 .. width /\ 2 \in 1 .. width
          /\ 3 \in 1 .. Len(b) /\ 4 \in 1 .. Len(b)
          /\ (oft + 2) + 1 = oft + 3 /\ (oft + 2) + 2 = oft + 4
          /\ oft + 3 <= Len(buf) /\ oft + 4 <= Len(buf)
      BY <1>2, <1>5, <1>9, <2>3, Limits
    <3>2. buf[oft + 3] = b[3] /\ buf[oft + 4] = b[4]
      BY <3>1 DEF Arrives
    <3> QED
      BY <1>7, <2>2, <3>1, <3>2
  <2> QED
    BY <1>7, <2>1, <2>2, <2>3
<1> HIDE DEF ext, keyAt
<1>11. PayloadLength(second % 128, ext, packet) = n
  <2>1. CASE n < Len7Limit
    BY <1>8, <2>1 DEF PayloadLength, type
  <2>2. CASE ~(n < Len7Limit)
    <3>1. n >= Len7Limit /\ type = Len7Limit /\ ~(Len7Limit < Len7Limit)
      BY <1>2, <2>2, Limits DEF type
    <3>2. 256 * ext[1] + ext[2] = 256 * (n \div 256) + (n % 256)
      BY <1>4, <1>10, <3>1
    <3>3. 256 * ext[1] + ext[2] = n
      BY <1>2, <3>2, TwoBytes
    <3> QED
      BY <1>8, <3>1, <3>3 DEF PayloadLength
  <2> QED
    BY <2>1, <2>2
<1>12. packet.masking_key \in Seq(Byte)
  BY DEF Packet
<1>13. CASE mask = 0
  <2>1. oft + LengthEnd(n) \in Nat /\ 4 * mk = 0 /\ (oft + LengthEnd(n)) + 0 <= Len(buf)
    BY <1>2, <1>3, <1>8, <1>13
  <2>2. AfterRead(buf, oft + LengthEnd(n), 0) = (oft + LengthEnd(n)) + 0
    BY <2>1, ReadArrived
  <2>3. AfterRead(buf, keyAt, 4 * mk) = oft + HeaderLength(mask, n)
        /\ oft + HeaderLength(mask, n) <= Len(buf)
    BY <1>2, <1>3, <1>10, <1>13, <2>1, <2>2
  <2>4. mkey \in Seq(Byte)
    BY <1>8, <1>12, <1>13
  <2> QED
    BY <1>1, <1>8, <1>11, <1>13, <2>3, <2>4
<1>14. CASE mask = 1 /\ oft + LengthEnd(n) + 4 <= Len(buf)
  <2>1. oft + LengthEnd(n) \in Nat /\ 4 * mk = 4 /\ (oft + LengthEnd(n)) + 4 <= Len(buf)
    BY <1>2, <1>3, <1>8, <1>14
  <2> DEFINE k == ReadBytes(buf, oft + LengthEnd(n), 4, packet.masking_key)
  <2>2. /\ AfterRead(buf, oft + LengthEnd(n), 4) = (oft + LengthEnd(n)) + 4
        /\ k \in Seq(Byte) /\ Len(k) = 4
        /\ \A i \in 1 .. 4 : k[i] = buf[(oft + LengthEnd(n)) + i]
    <3> DEFINE o == oft + LengthEnd(n)
    <3>1. o \in Nat /\ 4 \in Nat /\ o + 4 <= Len(buf)
      BY <2>1
    <3> HIDE DEF o
    <3>2. \A old : /\ AfterRead(buf, o, 4) = o + 4
                   /\ ReadBytes(buf, o, 4, old) \in Seq(Byte)
                   /\ Len(ReadBytes(buf, o, 4, old)) = 4
                   /\ \A i \in 1 .. 4 : ReadBytes(buf, o, 4, old)[i] = buf[o + i]
      BY <3>1, ReadArrived
    <3> QED
      BY <3>2 DEF o
  <2> HIDE DEF k
  <2>3. \A i \in 1 .. 4 : k[i] = key[i]
    <3> TAKE i \in 1 .. 4
    <3> DEFINE j == LengthEnd(n) + i
    <3>1. j \in 1 .. Len(b) /\ (oft + LengthEnd(n)) + i = oft + j /\ oft + j <= Len(buf)
      BY SMTT(30), <1>2, <1>3, <1>5, <1>14
    <3>2. b[j] = key[i]
      BY <1>4, <1>14
    <3> HIDE DEF j
    <3>3. buf[oft + j] = b[j]
      BY <3>1 DEF Arrives
    <3> QED
      BY <2>2, <3>1, <3>2, <3>3
  <2>4. k = key
    <3>1. /\ k \in Seq(Byte) /\ key \in Seq(Byte) /\ Len(k) = 4 /\ Len(key) = 4
      BY <1>2, <1>14, <2>2
    <3>2. Len(k) = Len(key) /\ \A i \in 1 .. Len(k) : k[i] = key[i]
      BY <2>3, <3>1
    <3> QED
      BY <3>1, <3>2, SeqEqual
  <2>5. mkey = key
    BY <1>8, <1>10, <1>14, <2>4 DEF k
  <2>6. AfterRead(buf, keyAt, 4 * mk) = oft + HeaderLength(mask, n)
        /\ oft + HeaderLength(mask, n) <= Len(buf)
    BY <1>2, <1>3, <1>10, <1>14, <2>1, <2>2
  <2> QED
    BY <1>1, <1>2, <1>8, <1>11, <1>14, <2>5, <2>6
<1>15. CASE mask = 1 /\ ~(oft + LengthEnd(n) + 4 <= Len(buf))
  <2>1. n >= Len7Limit /\ LengthEnd(n) = 4 /\ Len(buf) < oft + 8 /\ 4 * mk = 4
        /\ ~(4 <= Len(buf) - (oft + 4))
    BY <1>2, <1>3, <1>8, <1>15, Limits
  <2>2. AfterRead(buf, oft + 4, 4) = oft + 4
        /\ ReadBytes(buf, oft + 4, 4, packet.masking_key) = packet.masking_key
    BY <2>1 DEF AfterRead, ReadBytes
  <2>3. AfterRead(buf, keyAt, 4 * mk) = oft + 4 /\ mkey \in Seq(Byte)
    BY <1>8, <1>10, <1>12, <1>15, <2>1, <2>2
  <2> QED
    BY <1>1, <1>2, <1>8, <1>11, <1>15, <2>1, <2>3
<1> QED
  BY <1>2, <1>13, <1>14, <1>15

\* A frame is found complete when all of it has arrived, and not before; then
\* its fields and its payload are those of the frame, nothing is read beyond
\* the buffer, and the next frame begins where the payload ends.
LEMMA FrameFound ==
  ASSUME NEW fin, NEW opcode, NEW mask, NEW key, NEW payload,
         Encodable(fin, opcode, mask, key, payload),
         NEW b, IsFrame(b, fin, opcode, mask, key, payload),
         NEW buf \in Seq(Byte), NEW oft \in Nat, Len(buf) > oft + 5,
         Arrives(buf, oft, b), NEW packet \in Packet
  PROVE  LET info == FetchFrameInfo(packet, buf, oft)
         IN  /\ info.fin = fin /\ info.opcode = opcode /\ info.mask = mask
             /\ info.payload_length = Len(payload)
             /\ info.masking_key \in Seq(Byte)
             /\ FrameComplete(info, buf) <=> oft + Len(b) <= Len(buf)
             /\ FrameComplete(info, buf) =>
                  /\ info.header + info.payload_length = oft + Len(b)
                  /\ FetchPayload(info, buf) = payload
                  /\ ~FetchPayloadThrows(info, buf)
                  /\ mask = 1 => info.masking_key = key
<1> DEFINE info == FetchFrameInfo(packet, buf, oft)
           n    == Len(payload)
           h    == HeaderLength(mask, n)
<1>1. /\ info.fin = fin /\ info.opcode = opcode /\ info.mask = mask
      /\ info.payload_length = n
      /\ info.masking_key \in Seq(Byte)
      /\ \/ /\ info.header = oft + h /\ info.header <= Len(buf)
            /\ mask = 1 => info.masking_key = key
         \/ /\ info.header = oft + 4
            /\ mask = 1 /\ n >= Len7Limit /\ Len(buf) < oft + 8
  BY HeaderFound
<1> HIDE DEF info
<1>2. /\ n \in Nat /\ Len(buf) \in Nat /\ mask \in 0 .. 1
      /\ h = (IF n < Len7Limit THEN 2 ELSE 4) + 4 * mask /\ h \in Nat
      /\ Len(b) = h + n
      /\ \A i \in 1 .. n : b[h + i] = Body(mask, key, payload)[i]
  BY LenProperties DEF Encodable, HeaderLength, LengthEnd, IsFrame
<1>3. /\ Body(mask, key, payload) \in Seq(Byte)
      /\ mask = 1 => \A i \in 1 .. n :
           ByteXor(Body(mask, key, payload)[i], key[((i - 1) % 4) + 1]) = payload[i]
      /\ mask # 1 => Body(mask, key, payload) = payload
  BY BodyType DEF Encodable, Body
<1> HIDE DEF n, h
<1>4. CASE info.header = oft + 4 /\ mask = 1 /\ n >= Len7Limit /\ Len(buf) < oft + 8
  <2>1. ~FrameComplete(info, buf) /\ ~(oft + Len(b) <= Len(buf))
    BY <1>1, <1>2, <1>4, Limits DEF FrameComplete
  <2> QED
    BY <1>1, <2>1 DEF info, n
<1>5. CASE /\ info.header = oft + h /\ info.header <= Len(buf)
           /\ mask = 1 => info.masking_key = key
  <2>1. FrameComplete(info, buf) <=> oft + Len(b) <= Len(buf)
    BY <1>1, <1>2, <1>5 DEF FrameComplete
  <2>2. info.header + info.payload_length = oft + Len(b)
    BY <1>1, <1>2, <1>5
  <2>3. ~FetchPayloadThrows(info, buf)
    BY <1>1, <1>2, <1>5, Limits DEF FetchPayloadThrows, CurAtThrows
  <2>4. ASSUME oft + Len(b) <= Len(buf) PROVE FetchPayload(info, buf) = payload
    <3>1. \A i \in 1 .. n : buf[info.header + i] = Body(mask, key, payload)[i]
      <4> TAKE i \in 1 .. n
      <4> DEFINE j == h + i
      <4>1. j \in 1 .. Len(b) /\ oft + j <= Len(buf) /\ info.header + i = oft + j
        BY <1>2, <1>5, <2>4
      <4>2. b[j] = Body(mask, key, payload)[i]
        BY <1>2
      <4> HIDE DEF j
      <4>3. buf[oft + j] = b[j]
        BY <4>1 DEF Arrives
      <4> QED
        BY <4>1, <4>2, <4>3
    <3>2. payload = [i \in 1 .. n |-> payload[i]]
      BY LenProperties DEF Encodable, n
    <3>3. FetchPayload(info, buf) =
            [i \in 1 .. n |->
               IF mask = 1
               THEN ByteXor(buf[info.header + i], info.masking_key[((i - 1) % 4) + 1])
               ELSE buf[info.header + i]]
      BY <1>1 DEF FetchPayload
    <3>4. \A i \in 1 .. n :
            (IF mask = 1
             THEN ByteXor(buf[info.header + i], info.masking_key[((i - 1) % 4) + 1])
             ELSE buf[info.header + i]) = payload[i]
      BY <1>3, <1>5, <3>1
    <3> QED
      BY <3>2, <3>3, <3>4
  <2> QED
    BY <1>1, <1>5, <2>1, <2>2, <2>3, <2>4 DEF info, n
<1> QED
  BY <1>1, <1>4, <1>5

-----------------------------------------------------------------------------
(* The parser and the encoders *)

\* What the parser makes of the frame b at oft: it takes it when all of it has
\* arrived and not before; then it finds fields and payload as they were
\* encoded, reads nothing behind the buffer and ends where the frame ends.
ParsedAs(packet, buf, oft, b, fin, opcode, mask, payload) ==
  LET info == FetchFrameInfo(packet, buf, oft)
  IN  /\ info.fin = fin /\ info.opcode = opcode /\ info.mask = mask
      /\ FrameComplete(info, buf) <=> oft + Len(b) <= Len(buf)
      /\ FrameComplete(info, buf) =>
           /\ FetchPayload(info, buf) = payload
           /\ ~FetchPayloadThrows(info, buf)
           /\ info.header + info.payload_length = oft + Len(b)

\* recv_dataframe finds what pack_dataframe wrote, for every flag, opcode, key
\* and payload up to 65535 bytes, wherever the frame lies in the buffer, however
\* much of it has arrived and whatever an earlier frame left in the packet.
THEOREM ParserFindsPacked ==
  ASSUME NEW fin, NEW opcode, NEW mask, NEW key, NEW payload,
         Encodable(fin, opcode, mask, key, payload),
         NEW buf \in Seq(Byte), NEW oft \in Nat, Len(buf) > oft + 5,
         Arrives(buf, oft, PackDataframe(fin, opcode, mask, key, payload)),
         NEW packet \in Packet
  PROVE  ParsedAs(packet, buf, oft, PackDataframe(fin, opcode, mask, key, payload),
                  fin, opcode, mask, payload)
<1> DEFINE b == PackDataframe(fin, opcode, mask, key, payload)
<1>1. IsFrame(b, fin, opcode, mask, key, payload)
  BY PackIsFrame
<1>2. Arrives(buf, oft, b)
  OBVIOUS
<1> HIDE DEF b
<1>3. ParsedAs(packet, buf, oft, b, fin, opcode, mask, payload)
  BY <1>1, <1>2, FrameFound DEF ParsedAs
<1> QED
  BY <1>3 DEF b

\* recv_dataframe finds the texts that create_websocket_frame wrote too.
THEOREM ParserFindsTexts ==
  ASSUME NEW key, NEW payload, Encodable(1, WSOpcode_Text, 1, key, payload),
         NEW buf \in Seq(Byte), NEW oft \in Nat, Len(buf) > oft + 5,
         Arrives(buf, oft, CreateWebsocketFrame(payload, key)),
         NEW packet \in Packet
  PROVE  ParsedAs(packet, buf, oft, CreateWebsocketFrame(payload, key),
                  1, WSOpcode_Text, 1, payload)
<1> DEFINE b == CreateWebsocketFrame(payload, key)
<1>1. IsFrame(b, 1, WSOpcode_Text, 1, key, payload)
  BY CreateIsFrame
<1>2. Arrives(buf, oft, b)
  OBVIOUS
<1> HIDE DEF b
<1>3. ParsedAs(packet, buf, oft, b, 1, WSOpcode_Text, 1, payload)
  BY <1>1, <1>2, FrameFound DEF ParsedAs
<1> QED
  BY <1>3 DEF b

=============================================================================
