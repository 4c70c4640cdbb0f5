---------------------------- MODULE WssSessionProofs ----------------------------
(***************************************************************************)
(* Proofs about WssSession: its inductive invariant, and with it the three *)
(* invariants and the action property of its run, for messages, buffers    *)
(* and records of any length, whether a message fits a buffer or not, and  *)
(* for any number of frames.                                               *)
(***************************************************************************)
EXTENDS WssSession, SequenceTheorems, TLAPS

-----------------------------------------------------------------------------
(* The invariant *)

\* The SSL objects and the sockets that exist at each place of main, and the
\* references to the context, of which the okx client drops one when the TLS
\* handshake is done.
ObjectsHeld ==
  /\ pc \in {"context", "lookup", "open"} => ctx = 0 /\ ssl = 0 /\ socket = 0
  /\ pc \in {"resolve", "socket"} => ctx = 1 /\ ssl = 0 /\ socket = 0
  /\ pc \in {"bind", "connect"} => ctx = 1 /\ ssl = 0 /\ socket = 1
  /\ pc = "server_name" => client = "okx"
  /\ pc \in {"server_name", "tls"} => ctx = 2 /\ ssl = 1 /\ socket = 1
  /\ pc \in {"request", "response", "subscribe", "answer", "receive",
             "clean_up", "fail"} =>
       ctx = (IF client = "okx" THEN 1 ELSE 2) /\ ssl = 1 /\ socket = 1
  /\ InPlainSession => ctx = 0 /\ ssl = 0 /\ socket = 1
  /\ Returned => ctx \in 0 .. 1 /\ ssl = 0 /\ socket = 0

\* The request goes out behind the TLS handshake, the first read asks for the
\* answer to it, and what the okx client does from there on ends without a
\* context.
RequestBehindTls ==
  /\ pc \in {"lookup", "open", "dial", "greet", "greeted", "speak", "listen",
             "hang_up"} <=> client = "plain" /\ ~Returned
  /\ pc \in {"context", "resolve", "socket", "bind", "connect",
             "server_name", "tls", "request"} => ~request
  /\ pc \in {"context", "resolve", "socket", "bind", "connect",
             "server_name", "tls", "request", "response", "lookup", "open",
             "dial", "greet", "greeted"} => taken = 0
  /\ pc \in {"subscribe", "answer", "receive"} => taken > 0
  /\ Returned /\ client = "okx" /\ request => ctx = 0

\* at[i] is the place in the stream at which the i-th record of w begins, if
\* the records cover the stream between two places.
Cuts(at, w, from, to) ==
  /\ at \in [1 .. Len(w) + 1 -> 0 .. to]
  /\ at[1] = from /\ at[Len(w) + 1] = to
  /\ \A i \in 1 .. Len(w) : at[i + 1] = at[i] + w[i]

\* What is on the wire is what was sent and not read.
StreamOnWire ==
  \E at \in [1 .. Len(wire) + 1 -> Nat] : Cuts(at, wire, taken, sent)

\* The client has not come behind the first frame.
BeforeFrames ==
  pc \in {"response", "subscribe", "answer", "greeted", "speak", "listen"}

\* In front of the client is the answer or the first frame, in one piece.
MessageInFront ==
  /\ taken \in {0, response_pieces}
  /\ wire # <<>> => wire[1] = MessageLength(taken)
  /\ taken = 0 /\ Len(wire) > 1 => wire[2] = frame_pieces

\* As long as the answer and the first frame come in a record each and fit
\* their buffers, the reads before the frames return one of them.
FirstMessages ==
  framed /\ MessagesFit =>
    /\ BeforeFrames => taken < FirstFrameEnd
    /\ taken < FirstFrameEnd => MessageInFront

IInv ==
  TypeOK /\ ObjectsHeld /\ RequestBehindTls /\ StreamOnWire /\ FirstMessages

-----------------------------------------------------------------------------
(* Places in the stream *)

\* Min of two numbers is one of them and not above the other.
LEMMA MinOfTwo ==
  ASSUME NEW a \in Nat, NEW b \in Nat
  PROVE  Min({a, b}) = (IF a <= b THEN a ELSE b)
<1> DEFINE m == IF a <= b THEN a ELSE b
<1>1. m \in {a, b} /\ \A y \in {a, b} : m <= y
  OBVIOUS
<1>2. \A x \in {a, b} : (\A y \in {a, b} : x <= y) => x = m
  OBVIOUS
<1> HIDE DEF m
<1>3. Min({a, b}) = m
  BY <1>1, <1>2 DEF Min
<1> QED
  BY <1>3 DEF m

\* The lengths of the messages and of the stream are numbers.
LEMMA StreamBounds ==
  ASSUME TypeOK
  PROVE  /\ response_pieces \in Nat \ {0} /\ frame_pieces \in Nat \ {0}
         /\ response_pieces + frame_pieces * MaxFrames \in Nat
         /\ StreamLength \in 0 .. response_pieces + frame_pieces * MaxFrames
<1>1. response_pieces \in Nat \ {0} /\ frame_pieces \in Nat \ {0}
  BY PiecesAssumption DEF TypeOK
<1>2. frame_pieces * MaxFrames \in Nat
  BY <1>1, PiecesAssumption
<1> QED
  BY <1>1, <1>2 DEF StreamLength

\* A record sent behind the others.
LEMMA CutsAppend ==
  ASSUME NEW w \in Seq(Nat), NEW from \in Nat, NEW to \in Nat, NEW n \in Nat,
         NEW at \in [1 .. Len(w) + 1 -> Nat], Cuts(at, w, from, to)
  PROVE  \E b \in [1 .. Len(Append(w, n)) + 1 -> Nat] :
           Cuts(b, Append(w, n), from, to + n)
<1> DEFINE b == [i \in 1 .. Len(w) + 2 |->
                   IF i = Len(w) + 2 THEN to + n ELSE at[i]]
<1>1. /\ Len(w) \in Nat /\ Len(Append(w, n)) = Len(w) + 1
      /\ \A i \in 1 .. Len(w) : Append(w, n)[i] = w[i] /\ w[i] \in Nat
      /\ Append(w, n)[Len(w) + 1] = n
  BY AppendProperties, ElementOfSeq, LenProperties
<1>2. /\ \A i \in 1 .. Len(w) + 1 : at[i] \in 0 .. to
      /\ at[1] = from /\ at[Len(w) + 1] = to
      /\ \A i \in 1 .. Len(w) : at[i + 1] = at[i] + w[i]
  BY DEF Cuts
<1>3. /\ \A i \in 1 .. Len(w) + 1 : b[i] = at[i]
      /\ b[Len(w) + 2] = to + n
  BY <1>1
<1>4. \A i \in 1 .. Len(w) + 2 : b[i] \in 0 .. to + n
  BY <1>1, <1>2, <1>3
<1>5. b \in [1 .. Len(w) + 2 -> 0 .. to + n] /\ b \in [1 .. Len(w) + 2 -> Nat]
  BY <1>4
<1> HIDE DEF b
<1>6. \A i \in 1 .. Len(w) + 1 : b[i + 1] = b[i] + Append(w, n)[i]
  <2> TAKE i \in 1 .. Len(w) + 1
  <2>1. CASE i \in 1 .. Len(w)
    <3>1. i + 1 \in 1 .. Len(w) + 1
      BY <1>1, <2>1
    <3> QED
      BY <1>1, <1>2, <1>3, <2>1, <3>1
  <2>2. CASE i = Len(w) + 1
    BY <1>1, <1>2, <1>3, <2>2
  <2> QED
    BY <1>1, <2>1, <2>2
<1>7. Cuts(b, Append(w, n), from, to + n)
  BY <1>1, <1>2, <1>3, <1>5, <1>6 DEF Cuts
<1> QED
  BY <1>1, <1>5, <1>7

\* The oldest record read to its end.
LEMMA CutsTail ==
  ASSUME NEW w \in Seq(Nat), w # <<>>, NEW from \in Nat, NEW to \in Nat,
         NEW at \in [1 .. Len(w) + 1 -> Nat], Cuts(at, w, from, to)
  PROVE  /\ from + Head(w) \in 0 .. to
         /\ \E b \in [1 .. Len(Tail(w)) + 1 -> Nat] :
              Cuts(b, Tail(w), from + Head(w), to)
<1> DEFINE b == [i \in 1 .. Len(w) |-> at[i + 1]]
<1>1. /\ Len(w) \in Nat /\ Len(w) > 0 /\ Len(Tail(w)) = Len(w) - 1
      /\ \A i \in 1 .. Len(w) - 1 : Tail(w)[i] = w[i + 1]
      /\ Head(w) = w[1]
      /\ \A i \in 1 .. Len(w) : w[i] \in Nat
  BY HeadTailProperties, ElementOfSeq, EmptySeq, LenProperties
<1>2. /\ \A i \in 1 .. Len(w) + 1 : at[i] \in 0 .. to
      /\ at[1] = from /\ at[Len(w) + 1] = to
      /\ \A i \in 1 .. Len(w) : at[i + 1] = at[i] + w[i]
  BY DEF Cuts
<1>3. \A i \in 1 .. Len(w) : b[i] = at[i + 1]
  OBVIOUS
<1>4. b[1] = from + Head(w) /\ from + Head(w) \in 0 .. to
  BY <1>1, <1>2, <1>3
<1>5. \A i \in 1 .. Len(w) : b[i] \in 0 .. to
  BY <1>1, <1>2, <1>3
<1>6. b \in [1 .. Len(w) -> 0 .. to] /\ b \in [1 .. Len(w) -> Nat]
  BY SMTT(30), <1>5
<1>7. \A i \in 1 .. Len(w) - 1 : b[i + 1] = b[i] + Tail(w)[i]
  BY <1>1, <1>2, <1>3
<1>8. b[Len(w)] = to
  BY <1>1, <1>2, <1>3
<1> HIDE DEF b
<1>9. Cuts(b, Tail(w), from + Head(w), to)
  BY <1>1, <1>4, <1>6, <1>7, <1>8 DEF Cuts
<1> QED
  BY <1>1, <1>4, <1>6, <1>9

\* The oldest record read in part.
LEMMA CutsShorten ==
  ASSUME NEW w \in Seq(Nat), w # <<>>, NEW from \in Nat, NEW to \in Nat,
         NEW at \in [1 .. Len(w) + 1 -> Nat], Cuts(at, w, from, to),
         NEW n \in Nat, n < Head(w)
  PROVE  /\ from + n \in 0 .. to
         /\ \E b \in [1 .. Len(<<Head(w) - n>> \o Tail(w)) + 1 -> Nat] :
              Cuts(b, <<Head(w) - n>> \o Tail(w), from + n, to)
<1> DEFINE b == [i \in 1 .. Len(w) + 1 |-> IF i = 1 THEN from + n ELSE at[i]]
           v == <<Head(w) - n>> \o Tail(w)
<1>1. /\ Len(w) \in Nat /\ Len(w) > 0 /\ Len(Tail(w)) = Len(w) - 1
      /\ \A i \in 1 .. Len(w) - 1 : Tail(w)[i] = w[i + 1]
      /\ Head(w) = w[1] /\ Tail(w) \in Seq(Nat)
      /\ \A i \in 1 .. Len(w) : w[i] \in Nat
  BY HeadTailProperties, ElementOfSeq, EmptySeq, LenProperties
<1>2. <<Head(w) - n>> \in Seq(Nat) /\ Len(<<Head(w) - n>>) = 1
      /\ <<Head(w) - n>>[1] = Head(w) - n
  BY <1>1
<1>3. /\ Len(v) = Len(w)
      /\ v[1] = Head(w) - n
      /\ \A i \in 2 .. Len(w) : v[i] = w[i]
  <2>1. /\ Len(v) = 1 + Len(Tail(w))
        /\ \A i \in 1 .. Len(v) :
             v[i] = IF i <= 1 THEN <<Head(w) - n>>[i] ELSE Tail(w)[i - 1]
    BY <1>1, <1>2, ConcatProperties
  <2> HIDE DEF v
  <2> QED
    BY <1>1, <1>2, <2>1
<1>4. /\ \A i \in 1 .. Len(w) + 1 : at[i] \in 0 .. to
      /\ at[1] = from /\ at[Len(w) + 1] = to
      /\ \A i \in 1 .. Len(w) : at[i + 1] = at[i] + w[i]
  BY DEF Cuts
<1>5. /\ b[1] = from + n
      /\ \A i \in 2 .. Len(w) + 1 : b[i] = at[i]
  BY <1>1
<1>6. from + n \in 0 .. to
  <2>1. at[2] = from + Head(w) /\ at[2] \in 0 .. to
    BY <1>1, <1>4
  <2> QED
    BY <1>1, <2>1
<1>7. \A i \in 1 .. Len(w) + 1 : b[i] \in 0 .. to
  BY <1>1, <1>4, <1>5, <1>6
<1>8. b \in [1 .. Len(w) + 1 -> 0 .. to] /\ b \in [1 .. Len(w) + 1 -> Nat]
  BY <1>7
<1> HIDE DEF b, v
<1>9. \A i \in 1 .. Len(w) : b[i + 1] = b[i] + v[i]
  <2> TAKE i \in 1 .. Len(w)
  <2>1. CASE i = 1
    <3>1. 2 \in 2 .. Len(w) + 1 /\ 1 \in 1 .. Len(w) /\ 1 + 1 = 2
      BY <1>1
    <3>2. b[2] = at[2] /\ at[2] = at[1] + w[1] /\ w[1] \in Nat
      BY <1>1, <1>4, <1>5, <3>1
    <3>3. v[1] = w[1] - n /\ at[1] = from /\ b[1] = from + n
      BY <1>1, <1>3, <1>4, <1>5
    <3>4. b[2] = b[1] + v[1]
      BY <3>2, <3>3
    <3> QED
      BY <2>1, <3>1, <3>4
  <2>2. CASE i \in 2 .. Len(w)
    <3>1. i + 1 \in 2 .. Len(w) + 1 /\ i \in 2 .. Len(w) + 1
      BY <1>1, <2>2
    <3> QED
      BY <1>3, <1>4, <1>5, <2>2, <3>1
  <2> QED
    BY <1>1, <2>1, <2>2
<1>10. Cuts(b, v, from + n, to)
  BY <1>1, <1>3, <1>4, <1>5, <1>8, <1>9 DEF Cuts
<1> QED
  BY <1>3, <1>6, <1>8, <1>10 DEF v

-----------------------------------------------------------------------------
(* One step of each part of the invariant *)

\* A read leaves on the wire what it did not return, and it returns something.
LEMMA ReadStep ==
  ASSUME TypeOK, StreamOnWire,
         NEW size \in {ResponseBuffer, AnswerBuffer}, ReadRecord(size)
  PROVE  /\ wire' \in Seq(1 .. MaxRecord) /\ taken' \in 0 .. sent'
         /\ taken' > taken
         /\ StreamOnWire'
<1> DEFINE n == Min({Head(wire), size})
<1>1. /\ wire # <<>> /\ sent' = sent /\ framed' = framed
      /\ taken' = taken + n /\ wire' = RecordsAfter(n)
  BY DEF ReadRecord, ReadOnly
<1>2. /\ sent \in Nat /\ taken \in Nat
      /\ wire \in Seq(1 .. MaxRecord) /\ wire \in Seq(Nat)
  <2>1. wire \in Seq(1 .. MaxRecord) /\ MaxRecord \in Nat
    BY PiecesAssumption DEF TypeOK
  <2>2. 1 .. MaxRecord \subseteq Nat
    BY <2>1
  <2>3. response_pieces + frame_pieces * MaxFrames \in Nat
    BY StreamBounds
  <2>4. sent \in Nat /\ taken \in Nat
    BY <2>3 DEF TypeOK
  <2> QED
    BY <2>1, <2>2, <2>4, SeqMonotonic
<1>3. /\ Head(wire) \in 1 .. MaxRecord /\ Head(wire) = wire[1]
      /\ Tail(wire) \in Seq(1 .. MaxRecord)
      /\ 1 \in 1 .. Len(wire)
  <2>1. /\ Head(wire) \in 1 .. MaxRecord
        /\ Tail(wire) \in Seq(1 .. MaxRecord)
    BY <1>1, <1>2, HeadTailProperties
  <2>2. Head(wire) = wire[1]
    BY <1>2
  <2>3. Len(wire) \in Nat /\ Len(wire) # 0
    BY <1>1, <1>2, LenProperties, EmptySeq
  <2> QED
    BY <2>1, <2>2, <2>3
<1>4. Head(wire) \in Nat /\ size \in Nat /\ MaxRecord \in Nat
  BY <1>3, PiecesAssumption
<1>5. n = (IF Head(wire) <= size THEN Head(wire) ELSE size)
  BY <1>4, MinOfTwo
<1> HIDE DEF n
<1>6. PICK at \in [1 .. Len(wire) + 1 -> Nat] : Cuts(at, wire, taken, sent)
  BY DEF StreamOnWire
<1>9. n \in Nat /\ taken' > taken
  BY <1>1, <1>2, <1>3, <1>4, <1>5, PiecesAssumption
<1>7. CASE n = Head(wire)
  <2>1. wire' = Tail(wire)
    BY <1>1, <1>7 DEF RecordsAfter
  <2>2. /\ taken + Head(wire) \in 0 .. sent
        /\ \E b \in [1 .. Len(Tail(wire)) + 1 -> Nat] :
             Cuts(b, Tail(wire), taken + Head(wire), sent)
    BY <1>1, <1>2, <1>6, CutsTail
  <2>3. taken' = taken + Head(wire)
    BY <1>1, <1>7
  <2>4. StreamOnWire'
    BY <1>1, <2>1, <2>2, <2>3 DEF StreamOnWire
  <2> QED
    BY <1>1, <1>3, <1>9, <2>1, <2>2, <2>3, <2>4
<1>8. CASE n # Head(wire)
  <2>1. n = size /\ n < Head(wire) /\ n \in Nat
    BY <1>4, <1>5, <1>8
  <2>2. wire' = <<Head(wire) - n>> \o Tail(wire)
    BY <1>1, <1>8 DEF RecordsAfter
  <2>4. /\ taken + n \in 0 .. sent
        /\ \E b \in [1 .. Len(<<Head(wire) - n>> \o Tail(wire)) + 1 -> Nat] :
             Cuts(b, <<Head(wire) - n>> \o Tail(wire), taken + n, sent)
    BY <1>1, <1>2, <1>6, <2>1, CutsShorten
  <2>5. Head(wire) - n \in 1 .. MaxRecord
    BY <1>3, <1>4, <2>1
  <2>6. <<Head(wire) - n>> \in Seq(1 .. MaxRecord)
    BY <2>5
  <2>7. wire' \in Seq(1 .. MaxRecord)
    BY <1>3, <2>2, <2>6, ConcatProperties
  <2>8. StreamOnWire'
    BY <1>1, <2>2, <2>4 DEF StreamOnWire
  <2> QED
    BY <1>1, <1>9, <2>4, <2>7, <2>8
<1> QED
  BY <1>7, <1>8

\* Every record the server sends lies behind the others.
LEMMA SendStep ==
  ASSUME TypeOK, StreamOnWire, ServerSends
  PROVE  /\ wire' \in Seq(1 .. MaxRecord)
         /\ sent' \in 0 .. response_pieces + frame_pieces * MaxFrames
         /\ taken' \in 0 .. sent'
         /\ StreamOnWire'
<1>1. PICK n \in 1 .. MaxRecord :
        /\ sent + n <= StreamLength
        /\ sent' = sent + n /\ wire' = Append(wire, n)
  BY DEF ServerSends
<1>2. taken' = taken
  BY DEF ServerSends
<1>3. /\ response_pieces + frame_pieces * MaxFrames \in Nat
      /\ StreamLength \in 0 .. response_pieces + frame_pieces * MaxFrames
  BY StreamBounds
<1>4. sent \in Nat /\ taken \in 0 .. sent /\ n \in Nat /\ MaxRecord \in Nat
  BY <1>3, PiecesAssumption DEF TypeOK
<1>5. wire \in Seq(1 .. MaxRecord) /\ wire \in Seq(Nat)
  <2>1. 1 .. MaxRecord \subseteq Nat
    BY <1>4
  <2> QED
    BY <2>1, SeqMonotonic DEF TypeOK
<1>6. PICK at \in [1 .. Len(wire) + 1 -> Nat] :
        Cuts(at, wire, taken, sent)
  BY DEF StreamOnWire
<1>7. \E b \in [1 .. Len(Append(wire, n)) + 1 -> Nat] :
        Cuts(b, Append(wire, n), taken, sent + n)
  <2>1. taken \in Nat
    BY <1>4
  <2> QED
    BY <1>4, <1>5, <1>6, <2>1, CutsAppend
<1>8. StreamOnWire'
  BY <1>1, <1>2, <1>7 DEF StreamOnWire
<1>9. wire' \in Seq(1 .. MaxRecord)
  BY <1>1, <1>5, AppendProperties
<1>10. /\ sent + n \in 0 .. response_pieces + frame_pieces * MaxFrames
       /\ taken \in 0 .. sent + n
  BY <1>1, <1>3, <1>4
<1> QED
  BY <1>1, <1>2, <1>8, <1>9, <1>10

\* A read with a buffer that takes the message in front returns that message.
LEMMA ReadInFront ==
  ASSUME TypeOK, StreamOnWire, FirstMessages, framed, MessagesFit,
         NEW size \in {ResponseBuffer, AnswerBuffer}, ReadRecord(size),
         taken < FirstFrameEnd, MessageLength(taken) <= size
  PROVE  /\ taken' = taken + MessageLength(taken)
         /\ (taken < FirstFrameEnd => MessageInFront)'
<1> DEFINE length == MessageLength(taken)
<1>1. /\ wire # <<>> /\ taken' = taken + Min({Head(wire), size})
      /\ wire' = RecordsAfter(Min({Head(wire), size}))
      /\ UNCHANGED serverVars
  BY DEF ReadRecord, ReadOnly
<1>2. /\ taken \in {0, response_pieces} /\ wire[1] = length
      /\ taken = 0 /\ Len(wire) > 1 => wire[2] = frame_pieces
  BY <1>1 DEF FirstMessages, MessageInFront
<1>3. /\ response_pieces \in Nat \ {0} /\ frame_pieces \in Nat \ {0}
      /\ length \in Nat \ {0} /\ size \in Nat
  BY <1>2, StreamBounds, PiecesAssumption DEF MessageLength
<1>4. /\ Head(wire) = wire[1] /\ Len(Tail(wire)) = Len(wire) - 1
      /\ Len(wire) \in Nat
      /\ \A i \in 1 .. Len(wire) - 1 : Tail(wire)[i] = wire[i + 1]
      /\ Tail(wire) # <<>> => Len(wire) > 1
  <2>1. wire \in Seq(1 .. MaxRecord)
    BY DEF TypeOK
  <2>2. Len(wire) \in Nat /\ Tail(wire) \in Seq(1 .. MaxRecord)
        /\ Len(Tail(wire)) = Len(wire) - 1 /\ Head(wire) = wire[1]
    BY <1>1, <2>1, HeadTailProperties, LenProperties
  <2>3. \A i \in 1 .. Len(wire) - 1 : Tail(wire)[i] = wire[i + 1]
    BY <1>1, <2>1, <2>2, HeadTailProperties
  <2>4. Tail(wire) # <<>> => Len(Tail(wire)) > 0
    BY <2>2, LenProperties, EmptySeq
  <2> QED
    BY <2>2, <2>3, <2>4
<1>5. Min({Head(wire), size}) = length
  <2>1. Min({length, size}) = length
    BY <1>3, MinOfTwo
  <2> QED
    BY <1>2, <1>4, <2>1
<1>6. taken' = taken + length /\ wire' = Tail(wire)
  BY <1>1, <1>2, <1>4, <1>5 DEF RecordsAfter
<1>7. CASE taken = 0
  <2>1. length = response_pieces /\ taken' = response_pieces
    BY <1>3, <1>6, <1>7 DEF MessageLength
  <2>2. wire' # <<>> => wire'[1] = frame_pieces
    BY <1>2, <1>4, <1>6, <1>7
  <2> QED
    BY <1>1, <1>3, <1>6, <2>1, <2>2
    DEF MessageInFront, MessageLength, serverVars
<1>8. CASE taken # 0
  <2>1. taken' = response_pieces + frame_pieces
    BY <1>2, <1>6, <1>8 DEF MessageLength
  <2> QED
    BY <1>1, <1>3, <1>6, <2>1 DEF FirstFrameEnd, serverVars
<1> QED
  BY <1>7, <1>8

\* No step frees what does not exist or reads what was not sent.
LEMMA TypeStep ==
  TypeOK /\ ObjectsHeld /\ RequestBehindTls /\ StreamOnWire /\ [Next]_vars => TypeOK'
<1> SUFFICES ASSUME TypeOK, ObjectsHeld, RequestBehindTls, StreamOnWire, [Next]_vars
             PROVE  TypeOK'
  OBVIOUS
<1> USE DEF TypeOK, ObjectsHeld, RequestBehindTls, Returned, InPlainSession,
        objectVars, streamVars, serverVars
<1>1. ASSUME CreateContext PROVE TypeOK'
  BY <1>1 DEF CreateContext, ClientOnly, OrReturn1
<1>2. ASSUME Resolve PROVE TypeOK'
  BY <1>2 DEF Resolve, ClientOnly, OrReturn1
<1>3. ASSUME OpenSocket PROVE TypeOK'
  BY <1>3 DEF OpenSocket, ClientOnly, OrReturn1
<1>4. ASSUME BindLocal PROVE TypeOK'
  BY <1>4 DEF BindLocal, ClientOnly, OrReturn1
<1>5. ASSUME Connect PROVE TypeOK'
  BY <1>5 DEF Connect, ClientOnly, OrReturn1
<1>6. ASSUME SetServerName PROVE TypeOK'
  BY <1>6 DEF SetServerName, ClientOnly, OrReturn1
<1>7. ASSUME TlsConnect PROVE TypeOK'
  BY <1>7 DEF TlsConnect, ClientOnly, OrReturn1
<1>8. ASSUME SendRequest PROVE TypeOK'
  BY <1>8 DEF SendRequest, ClientOnly
<1>9. ASSUME ReadResponse PROVE TypeOK'
  <2>1. CASE ReadRecord(ResponseBuffer)
    BY <1>9, <2>1, ReadStep DEF ReadResponse, ReadRecord, ReadOnly
  <2>2. CASE EndOfStream
    BY <1>9, <2>2 DEF ReadResponse, EndOfStream, ReadOnly
  <2> QED
    BY <1>9, <2>1, <2>2 DEF ReadResponse
<1>10. ASSUME Subscribe PROVE TypeOK'
  BY <1>10 DEF Subscribe, ClientOnly
<1>11. ASSUME ReadAnswer PROVE TypeOK'
  <2>1. CASE ReadRecord(AnswerBuffer)
    BY <1>11, <2>1, ReadStep DEF ReadAnswer, ReadRecord, ReadOnly
  <2>2. CASE EndOfStream
    BY <1>11, <2>2 DEF ReadAnswer, EndOfStream, ReadOnly
  <2> QED
    BY <1>11, <2>1, <2>2 DEF ReadAnswer
<1>12. ASSUME Receive PROVE TypeOK'
  <2>1. CASE ReadRecord(AnswerBuffer)
    BY <1>12, <2>1, ReadStep DEF Receive, ReadRecord, ReadOnly
  <2>2. CASE EndOfStream
    BY <1>12, <2>2 DEF Receive, EndOfStream, ReadOnly
  <2> QED
    BY <1>12, <2>1, <2>2 DEF Receive
<1>13. ASSUME ReadFails PROVE TypeOK'
  BY <1>13 DEF ReadFails, ReadOnly
<1>14. ASSUME CleanUp PROVE TypeOK'
  BY <1>14 DEF CleanUp, ClientOnly
<1>15. ASSUME PlainResolve PROVE TypeOK'
  BY <1>15 DEF PlainResolve, ClientOnly, OrReturn1
<1>16. ASSUME PlainSocket PROVE TypeOK'
  BY <1>16 DEF PlainSocket, ClientOnly, OrReturn1
<1>17. ASSUME PlainConnect PROVE TypeOK'
  BY <1>17 DEF PlainConnect, SocketCall, ClientOnly, OrReturn1
<1>18. ASSUME PlainRequest PROVE TypeOK'
  BY <1>18 DEF PlainRequest, SocketCall, ClientOnly, OrReturn1
<1>19. ASSUME PlainResponse PROVE TypeOK'
  <2>1. CASE ReadRecord(AnswerBuffer)
    BY <1>19, <2>1, ReadStep DEF PlainResponse, ReadRecord, ReadOnly
  <2>2. CASE EndOfStream
    BY <1>19, <2>2 DEF PlainResponse, EndOfStream, ReadOnly
  <2> QED
    BY <1>19, <2>1, <2>2 DEF PlainResponse
<1>20. ASSUME PlainMessage PROVE TypeOK'
  BY <1>20 DEF PlainMessage, SocketCall, ClientOnly, OrReturn1
<1>21. ASSUME PlainAnswer PROVE TypeOK'
  <2>1. CASE ReadRecord(AnswerBuffer)
    BY <1>21, <2>1, ReadStep DEF PlainAnswer, ReadRecord, ReadOnly
  <2>2. CASE EndOfStream
    BY <1>21, <2>2 DEF PlainAnswer, EndOfStream, ReadOnly
  <2> QED
    BY <1>21, <2>1, <2>2 DEF PlainAnswer
<1>22. ASSUME PlainReadFails PROVE TypeOK'
  BY <1>22 DEF PlainReadFails, ClientOnly
<1>23. ASSUME PlainClose PROVE TypeOK'
  BY <1>23 DEF PlainClose, ClientOnly
<1>24. ASSUME ServerSends PROVE TypeOK'
  BY <1>24, SendStep DEF ServerSends
<1>25. ASSUME ServerCloses PROVE TypeOK'
  BY <1>25 DEF ServerCloses
<1>26. ASSUME UNCHANGED vars PROVE TypeOK'
  BY <1>26 DEF vars
<1> QED
  BY <1>1, <1>2, <1>3, <1>4, <1>5, <1>6, <1>7, <1>8, <1>9, <1>10, <1>11,
     <1>12, <1>13, <1>14, <1>15, <1>16, <1>17, <1>18, <1>19, <1>20,
     <1>21, <1>22, <1>23, <1>24, <1>25, <1>26
  DEF Next, Client, Plain

\* Every error path releases what exists where it is taken.
LEMMA ObjectsStep ==
  TypeOK /\ ObjectsHeld /\ RequestBehindTls /\ [Next]_vars => ObjectsHeld'
<1> SUFFICES ASSUME TypeOK, ObjectsHeld, RequestBehindTls, [Next]_vars
             PROVE  ObjectsHeld'
  OBVIOUS
<1> USE DEF TypeOK, ObjectsHeld, RequestBehindTls, Returned, InPlainSession,
        objectVars, streamVars, serverVars
<1>1. ASSUME CreateContext PROVE ObjectsHeld'
  BY <1>1 DEF CreateContext, ClientOnly, OrReturn1
<1>2. ASSUME Resolve PROVE ObjectsHeld'
  BY <1>2 DEF Resolve, ClientOnly, OrReturn1
<1>3. ASSUME OpenSocket PROVE ObjectsHeld'
  BY <1>3 DEF OpenSocket, ClientOnly, OrReturn1
<1>4. ASSUME BindLocal PROVE ObjectsHeld'
  BY <1>4 DEF BindLocal, ClientOnly, OrReturn1
<1>5. ASSUME Connect PROVE ObjectsHeld'
  BY <1>5 DEF Connect, ClientOnly, OrReturn1
<1>6. ASSUME SetServerName PROVE ObjectsHeld'
  BY <1>6 DEF SetServerName, ClientOnly, OrReturn1
<1>7. ASSUME TlsConnect PROVE ObjectsHeld'
  BY <1>7 DEF TlsConnect, ClientOnly, OrReturn1
<1>8. ASSUME SendRequest PROVE ObjectsHeld'
  BY <1>8 DEF SendRequest, ClientOnly
<1>9. ASSUME ReadResponse PROVE ObjectsHeld'
  BY <1>9 DEF ReadResponse, EndOfStream, ReadRecord, ReadOnly
<1>10. ASSUME Subscribe PROVE ObjectsHeld'
  BY <1>10 DEF Subscribe, ClientOnly
<1>11. ASSUME ReadAnswer PROVE ObjectsHeld'
  BY <1>11 DEF ReadAnswer, EndOfStream, ReadRecord, ReadOnly
<1>12. ASSUME Receive PROVE ObjectsHeld'
  BY <1>12 DEF Receive, EndOfStream, ReadRecord, ReadOnly
<1>13. ASSUME ReadFails PROVE ObjectsHeld'
  BY <1>13 DEF ReadFails, ReadOnly
<1>14. ASSUME CleanUp PROVE ObjectsHeld'
  BY <1>14 DEF CleanUp, ClientOnly
<1>15. ASSUME PlainResolve PROVE ObjectsHeld'
  BY <1>15 DEF PlainResolve, ClientOnly, OrReturn1
<1>16. ASSUME PlainSocket PROVE ObjectsHeld'
  BY <1>16 DEF PlainSocket, ClientOnly, OrReturn1
<1>17. ASSUME PlainConnect PROVE ObjectsHeld'
  BY <1>17 DEF PlainConnect, SocketCall, ClientOnly, OrReturn1
<1>18. ASSUME PlainRequest PROVE ObjectsHeld'
  BY <1>18 DEF PlainRequest, SocketCall, ClientOnly, OrReturn1
<1>19. ASSUME PlainResponse PROVE ObjectsHeld'
  BY <1>19 DEF PlainResponse, EndOfStream, ReadRecord, ReadOnly
<1>20. ASSUME PlainMessage PROVE ObjectsHeld'
  BY <1>20 DEF PlainMessage, SocketCall, ClientOnly, OrReturn1
<1>21. ASSUME PlainAnswer PROVE ObjectsHeld'
  BY <1>21 DEF PlainAnswer, EndOfStream, ReadRecord, ReadOnly
<1>22. ASSUME PlainReadFails PROVE ObjectsHeld'
  BY <1>22 DEF PlainReadFails, ClientOnly
<1>23. ASSUME PlainClose PROVE ObjectsHeld'
  BY <1>23 DEF PlainClose, ClientOnly
<1>24. ASSUME ServerSends PROVE ObjectsHeld'
  BY <1>24 DEF ServerSends
<1>25. ASSUME ServerCloses PROVE ObjectsHeld'
  BY <1>25 DEF ServerCloses
<1>26. ASSUME UNCHANGED vars PROVE ObjectsHeld'
  BY <1>26 DEF vars
<1> QED
  BY <1>1, <1>2, <1>3, <1>4, <1>5, <1>6, <1>7, <1>8, <1>9, <1>10, <1>11,
     <1>12, <1>13, <1>14, <1>15, <1>16, <1>17, <1>18, <1>19, <1>20,
     <1>21, <1>22, <1>23, <1>24, <1>25, <1>26
  DEF Next, Client, Plain

\* The request goes out behind the TLS handshake.
LEMMA RequestStep ==
  TypeOK /\ ObjectsHeld /\ RequestBehindTls /\ StreamOnWire /\ [Next]_vars
  => RequestBehindTls'
<1> SUFFICES ASSUME TypeOK, ObjectsHeld, RequestBehindTls, StreamOnWire,
                    [Next]_vars
             PROVE  RequestBehindTls'
  OBVIOUS
<1>27. ASSUME NEW size \in {ResponseBuffer, AnswerBuffer}, ReadRecord(size)
       PROVE  taken' > 0
  <2>1. taken \in 0 .. sent /\ sent \in Nat
    BY StreamBounds DEF TypeOK
  <2>2. taken' > taken /\ taken' \in 0 .. sent' /\ sent' = sent
    BY <1>27, ReadStep DEF ReadRecord, ReadOnly
  <2> QED
    BY <2>1, <2>2
<1> USE DEF TypeOK, ObjectsHeld, RequestBehindTls, Returned, InPlainSession,
        objectVars, streamVars, serverVars
<1>1. ASSUME CreateContext PROVE RequestBehindTls'
  BY <1>1 DEF CreateContext, ClientOnly, OrReturn1
<1>2. ASSUME Resolve PROVE RequestBehindTls'
  BY <1>2 DEF Resolve, ClientOnly, OrReturn1
<1>3. ASSUME OpenSocket PROVE RequestBehindTls'
  BY <1>3 DEF OpenSocket, ClientOnly, OrReturn1
<1>4. ASSUME BindLocal PROVE RequestBehindTls'
  BY <1>4 DEF BindLocal, ClientOnly, OrReturn1
<1>5. ASSUME Connect PROVE RequestBehindTls'
  BY <1>5 DEF Connect, ClientOnly, OrReturn1
<1>6. ASSUME SetServerName PROVE RequestBehindTls'
  BY <1>6 DEF SetServerName, ClientOnly, OrReturn1
<1>7. ASSUME TlsConnect PROVE RequestBehindTls'
  BY <1>7 DEF TlsConnect, ClientOnly, OrReturn1
<1>8. ASSUME SendRequest PROVE RequestBehindTls'
  BY <1>8 DEF SendRequest, ClientOnly
<1>9. ASSUME ReadResponse PROVE RequestBehindTls'
  <2>1. CASE ReadRecord(ResponseBuffer)
    BY <1>9, <1>27, <2>1 DEF ReadResponse, ReadRecord, ReadOnly
  <2>2. CASE EndOfStream
    BY <1>9, <2>2 DEF ReadResponse, EndOfStream, ReadRecord, ReadOnly
  <2> QED
    BY <1>9, <2>1, <2>2 DEF ReadResponse
<1>10. ASSUME Subscribe PROVE RequestBehindTls'
  BY <1>10 DEF Subscribe, ClientOnly
<1>11. ASSUME ReadAnswer PROVE RequestBehindTls'
  <2>1. CASE ReadRecord(AnswerBuffer)
    BY <1>11, <1>27, <2>1 DEF ReadAnswer, ReadRecord, ReadOnly
  <2>2. CASE EndOfStream
    BY <1>11, <2>2 DEF ReadAnswer, EndOfStream, ReadOnly
  <2> QED
    BY <1>11, <2>1, <2>2 DEF ReadAnswer
<1>12. ASSUME Receive PROVE RequestBehindTls'
  <2>1. CASE ReadRecord(AnswerBuffer)
    BY <1>12, <1>27, <2>1 DEF Receive, ReadRecord, ReadOnly
  <2>2. CASE EndOfStream
    BY <1>12, <2>2 DEF Receive, EndOfStream, ReadOnly
  <2> QED
    BY <1>12, <2>1, <2>2 DEF Receive
<1>13. ASSUME ReadFails PROVE RequestBehindTls'
  BY <1>13 DEF ReadFails, ReadOnly
<1>14. ASSUME CleanUp PROVE RequestBehindTls'
  BY <1>14 DEF CleanUp, ClientOnly
<1>15. ASSUME PlainResolve PROVE RequestBehindTls'
  BY <1>15 DEF PlainResolve, ClientOnly, OrReturn1
<1>16. ASSUME PlainSocket PROVE RequestBehindTls'
  BY <1>16 DEF PlainSocket, ClientOnly, OrReturn1
<1>17. ASSUME PlainConnect PROVE RequestBehindTls'
  BY <1>17 DEF PlainConnect, SocketCall, ClientOnly, OrReturn1
<1>18. ASSUME PlainRequest PROVE RequestBehindTls'
  BY <1>18 DEF PlainRequest, SocketCall, ClientOnly, OrReturn1
<1>19. ASSUME PlainResponse PROVE RequestBehindTls'
  BY <1>19 DEF PlainResponse, EndOfStream, ReadRecord, ReadOnly
<1>20. ASSUME PlainMessage PROVE RequestBehindTls'
  BY <1>20 DEF PlainMessage, SocketCall, ClientOnly, OrReturn1
<1>21. ASSUME PlainAnswer PROVE RequestBehindTls'
  BY <1>21 DEF PlainAnswer, EndOfStream, ReadRecord, ReadOnly
<1>22. ASSUME PlainReadFails PROVE RequestBehindTls'
  BY <1>22 DEF PlainReadFails, ClientOnly
<1>23. ASSUME PlainClose PROVE RequestBehindTls'
  BY <1>23 DEF PlainClose, ClientOnly
<1>24. ASSUME ServerSends PROVE RequestBehindTls'
  BY <1>24 DEF ServerSends
<1>25. ASSUME ServerCloses PROVE RequestBehindTls'
  BY <1>25 DEF ServerCloses
<1>26. ASSUME UNCHANGED vars PROVE RequestBehindTls'
  BY <1>26 DEF vars
<1> QED
  BY <1>1, <1>2, <1>3, <1>4, <1>5, <1>6, <1>7, <1>8, <1>9, <1>10, <1>11,
     <1>12, <1>13, <1>14, <1>15, <1>16, <1>17, <1>18, <1>19, <1>20,
     <1>21, <1>22, <1>23, <1>24, <1>25, <1>26
  DEF Next, Client, Plain

\* Only the server's sending and the client's reads move the stream.
LEMMA StreamStep ==
  TypeOK /\ RequestBehindTls /\ StreamOnWire /\ [Next]_vars => StreamOnWire'
<1> SUFFICES ASSUME TypeOK, RequestBehindTls, StreamOnWire, [Next]_vars
             PROVE  StreamOnWire'
  OBVIOUS
<1> USE DEF StreamOnWire, streamVars, serverVars
<1>1. ASSUME CreateContext PROVE StreamOnWire'
  BY <1>1 DEF CreateContext, ClientOnly, OrReturn1
<1>2. ASSUME Resolve PROVE StreamOnWire'
  BY <1>2 DEF Resolve, ClientOnly, OrReturn1
<1>3. ASSUME OpenSocket PROVE StreamOnWire'
  BY <1>3 DEF OpenSocket, ClientOnly, OrReturn1
<1>4. ASSUME BindLocal PROVE StreamOnWire'
  BY <1>4 DEF BindLocal, ClientOnly, OrReturn1
<1>5. ASSUME Connect PROVE StreamOnWire'
  BY <1>5 DEF Connect, ClientOnly, OrReturn1
<1>6. ASSUME SetServerName PROVE StreamOnWire'
  BY <1>6 DEF SetServerName, ClientOnly, OrReturn1
<1>7. ASSUME TlsConnect PROVE StreamOnWire'
  BY <1>7 DEF TlsConnect, ClientOnly, OrReturn1
<1>8. ASSUME SendRequest PROVE StreamOnWire'
  BY <1>8 DEF SendRequest, ClientOnly
<1>9. ASSUME ReadResponse PROVE StreamOnWire'
  <2>1. CASE ReadRecord(ResponseBuffer)
    BY <1>9, <2>1, ReadStep DEF ReadResponse
  <2>2. CASE EndOfStream
    BY <1>9, <2>2 DEF ReadResponse, EndOfStream, ReadOnly
  <2> QED
    BY <1>9, <2>1, <2>2 DEF ReadResponse
<1>10. ASSUME Subscribe PROVE StreamOnWire'
  BY <1>10 DEF Subscribe, ClientOnly
<1>11. ASSUME ReadAnswer PROVE StreamOnWire'
  <2>1. CASE ReadRecord(AnswerBuffer)
    BY <1>11, <2>1, ReadStep DEF ReadAnswer
  <2>2. CASE EndOfStream
    BY <1>11, <2>2 DEF ReadAnswer, EndOfStream, ReadOnly
  <2> QED
    BY <1>11, <2>1, <2>2 DEF ReadAnswer
<1>12. ASSUME Receive PROVE StreamOnWire'
  <2>1. CASE ReadRecord(AnswerBuffer)
    BY <1>12, <2>1, ReadStep DEF Receive
  <2>2. CASE EndOfStream
    BY <1>12, <2>2 DEF Receive, EndOfStream, ReadOnly
  <2> QED
    BY <1>12, <2>1, <2>2 DEF Receive
<1>13. ASSUME ReadFails PROVE StreamOnWire'
  BY <1>13 DEF ReadFails, ReadOnly
<1>14. ASSUME CleanUp PROVE StreamOnWire'
  BY <1>14 DEF CleanUp, ClientOnly
<1>15. ASSUME PlainResolve PROVE StreamOnWire'
  BY <1>15 DEF PlainResolve, ClientOnly, OrReturn1
<1>16. ASSUME PlainSocket PROVE StreamOnWire'
  BY <1>16 DEF PlainSocket, ClientOnly, OrReturn1
<1>17. ASSUME PlainConnect PROVE StreamOnWire'
  BY <1>17 DEF PlainConnect, SocketCall, ClientOnly, OrReturn1
<1>18. ASSUME PlainRequest PROVE StreamOnWire'
  BY <1>18 DEF PlainRequest, SocketCall, ClientOnly, OrReturn1
<1>19. ASSUME PlainResponse PROVE StreamOnWire'
  <2>1. CASE ReadRecord(AnswerBuffer)
    BY <1>19, <2>1, ReadStep DEF PlainResponse
  <2>2. CASE EndOfStream
    BY <1>19, <2>2 DEF PlainResponse, EndOfStream, ReadOnly
  <2> QED
    BY <1>19, <2>1, <2>2 DEF PlainResponse
<1>20. ASSUME PlainMessage PROVE StreamOnWire'
  BY <1>20 DEF PlainMessage, SocketCall, ClientOnly, OrReturn1
<1>21. ASSUME PlainAnswer PROVE StreamOnWire'
  <2>1. CASE ReadRecord(AnswerBuffer)
    BY <1>21, <2>1, ReadStep DEF PlainAnswer
  <2>2. CASE EndOfStream
    BY <1>21, <2>2 DEF PlainAnswer, EndOfStream, ReadOnly
  <2> QED
    BY <1>21, <2>1, <2>2 DEF PlainAnswer
<1>22. ASSUME PlainReadFails PROVE StreamOnWire'
  BY <1>22 DEF PlainReadFails, ClientOnly
<1>23. ASSUME PlainClose PROVE StreamOnWire'
  BY <1>23 DEF PlainClose, ClientOnly
<1>24. ASSUME ServerSends PROVE StreamOnWire'
  BY <1>24, SendStep
<1>25. ASSUME ServerCloses PROVE StreamOnWire'
  BY <1>25 DEF ServerCloses
<1>26. ASSUME UNCHANGED vars PROVE StreamOnWire'
  BY <1>26 DEF vars
<1> QED
  BY <1>1, <1>2, <1>3, <1>4, <1>5, <1>6, <1>7, <1>8, <1>9, <1>10, <1>11,
     <1>12, <1>13, <1>14, <1>15, <1>16, <1>17, <1>18, <1>19, <1>20,
     <1>21, <1>22, <1>23, <1>24, <1>25, <1>26
  DEF Next, Client, Plain

\* A step that reads and sends nothing leaves the message in front.
LEMMA QuietStep ==
  ASSUME FirstMessages, UNCHANGED <<client, serverVars, wire, framed, taken>>,
         BeforeFrames' => BeforeFrames \/ taken < FirstFrameEnd
  PROVE  FirstMessages'
BY DEF FirstMessages, MessageInFront, MessagesFit, FirstFrameEnd, MessageLength,
       serverVars

\* A message that is sent in a record lies behind the one in front.
LEMMA SendBehind ==
  ASSUME TypeOK, StreamOnWire, FirstMessages, ServerSends
  PROVE  FirstMessages'
<1>1. PICK n \in 1 .. MaxRecord :
        /\ wire' = Append(wire, n)
        /\ framed' = (framed /\ (sent < FirstFrameEnd => n = MessageLength(sent)))
  BY DEF ServerSends
<1>2. UNCHANGED <<client, pc, serverVars, taken>>
  BY DEF ServerSends
<1> SUFFICES ASSUME framed', MessagesFit', taken < FirstFrameEnd
             PROVE  MessageInFront'
  BY <1>1, <1>2
  DEF FirstMessages, BeforeFrames, MessagesFit, FirstFrameEnd, serverVars
<1>3. framed /\ MessagesFit /\ MessageInFront
      /\ (sent < FirstFrameEnd => n = MessageLength(sent))
  BY <1>1, <1>2 DEF FirstMessages, MessagesFit, serverVars
<1>4. /\ response_pieces \in Nat \ {0} /\ frame_pieces \in Nat \ {0}
  BY StreamBounds
<1>5. /\ Len(wire) \in Nat /\ Len(wire') = Len(wire) + 1
      /\ \A i \in 1 .. Len(wire) : wire'[i] = wire[i]
      /\ wire'[Len(wire) + 1] = n
      /\ wire = <<>> <=> Len(wire) = 0
  <2>1. wire \in Seq(1 .. MaxRecord)
    BY DEF TypeOK
  <2> QED
    BY <1>1, <2>1, AppendProperties, LenProperties, EmptySeq
<1>6. PICK at \in [1 .. Len(wire) + 1 -> Nat] : Cuts(at, wire, taken, sent)
  BY DEF StreamOnWire
<1>7. /\ at[1] = taken /\ at[Len(wire) + 1] = sent
      /\ \A i \in 1 .. Len(wire) : at[i + 1] = at[i] + wire[i]
  BY <1>6 DEF Cuts
<1>8. CASE Len(wire) = 0
  <2>1. sent = taken /\ wire'[1] = n /\ Len(wire') = 1
    BY <1>5, <1>7, <1>8
  <2> QED
    BY <1>2, <1>3, <2>1 DEF MessageInFront, MessageLength, serverVars
<1>9. CASE Len(wire) = 1
  <2>1. /\ wire'[1] = wire[1] /\ wire'[2] = n
        /\ wire[1] = MessageLength(taken) /\ sent = taken + wire[1]
    BY <1>3, <1>5, <1>7, <1>9 DEF MessageInFront
  <2>2. taken = 0 => n = frame_pieces
    BY <1>3, <1>4, <2>1 DEF MessageLength, FirstFrameEnd
  <2> QED
    BY <1>2, <1>3, <2>1, <2>2 DEF MessageInFront, MessageLength, serverVars
<1>10. CASE Len(wire) > 1
  <2>1. /\ wire'[1] = wire[1] /\ wire'[2] = wire[2]
        /\ wire # <<>>
    BY <1>5, <1>10
  <2> QED
    BY <1>2, <1>3, <1>10, <2>1 DEF MessageInFront, MessageLength, serverVars
<1>11. Len(wire) = 0 \/ Len(wire) = 1 \/ Len(wire) > 1
  <2>1. \A l \in Nat : l = 0 \/ l = 1 \/ l > 1
    OBVIOUS
  <2> QED
    BY <1>5, <2>1
<1> QED
  BY <1>8, <1>9, <1>10, <1>11

\* The first two reads take the answer and the first frame.
LEMMA FrontStep ==
  /\ TypeOK /\ RequestBehindTls /\ StreamOnWire /\ FirstMessages
  /\ [Next]_vars
  => FirstMessages'
<1> SUFFICES ASSUME TypeOK, RequestBehindTls, StreamOnWire, FirstMessages,
                    [Next]_vars
             PROVE  FirstMessages'
  OBVIOUS
<1>1. /\ response_pieces \in Nat \ {0} /\ frame_pieces \in Nat \ {0}
      /\ sent \in Nat /\ taken \in Nat
  BY StreamBounds DEF TypeOK
<1>2. taken = 0 => taken < FirstFrameEnd
  BY <1>1 DEF FirstFrameEnd
<1>3. ASSUME NEW size \in {ResponseBuffer, AnswerBuffer}, ReadRecord(size),
             MessagesFit /\ taken < FirstFrameEnd => MessageLength(taken) <= size,
             BeforeFrames' => taken = 0
      PROVE  FirstMessages'
  <2>1. UNCHANGED <<client, framed, serverVars>> /\ taken' > taken
    BY <1>3, ReadStep DEF ReadRecord, ReadOnly
  <2> SUFFICES ASSUME framed, MessagesFit
               PROVE  /\ BeforeFrames' => (taken < FirstFrameEnd)'
                      /\ (taken < FirstFrameEnd => MessageInFront)'
    BY <2>1 DEF FirstMessages, MessagesFit, serverVars
  <2>2. CASE taken < FirstFrameEnd
    <3>1. /\ taken' = taken + MessageLength(taken)
          /\ (taken < FirstFrameEnd => MessageInFront)'
      BY <1>3, <2>2, ReadInFront
    <3>2. taken = 0 => (taken < FirstFrameEnd)'
      BY <1>1, <2>1, <3>1 DEF MessageLength, FirstFrameEnd, serverVars
    <3> QED
      BY <1>3, <3>1, <3>2
  <2>3. CASE ~(taken < FirstFrameEnd)
    <3>1. ~(taken < FirstFrameEnd)'
      <4>1. taken' \in Nat
        <5>1. taken' \in 0 .. sent' /\ sent' = sent
          BY <1>3, ReadStep DEF ReadRecord, ReadOnly
        <5> QED
          BY <1>1, <5>1
      <4> QED
        BY <1>1, <2>1, <2>3, <4>1 DEF FirstFrameEnd, serverVars
    <3> QED
      BY <1>2, <1>3, <2>3, <3>1
  <2> QED
    BY <2>2, <2>3
<1>4. CASE CreateContext \/ Resolve \/ OpenSocket \/ BindLocal \/ Connect
           \/ SetServerName \/ TlsConnect \/ SendRequest
  <2>1. UNCHANGED <<client, serverVars, wire, framed, taken>> /\ taken = 0
    BY <1>4
    DEF CreateContext, Resolve, OpenSocket, BindLocal, Connect, SetServerName,
        TlsConnect, SendRequest, ClientOnly, RequestBehindTls, streamVars
  <2> QED
    BY <1>2, <2>1, QuietStep
<1>5. CASE ReadResponse
  <2>1. CASE ReadRecord(ResponseBuffer)
    <3>1. taken = 0 /\ client # "plain"
      BY <1>5 DEF ReadResponse, RequestBehindTls, Returned
    <3>2. MessagesFit => MessageLength(taken) <= ResponseBuffer
      BY <3>1 DEF MessagesFit, MessageLength
    <3> QED
      BY <1>3, <2>1, <3>1, <3>2
  <2>2. CASE EndOfStream
    BY <1>2, <1>5, <2>2, QuietStep
    DEF ReadResponse, EndOfStream, ReadOnly, RequestBehindTls
  <2> QED
    BY <1>5, <2>1, <2>2 DEF ReadResponse
<1>6. CASE Subscribe \/ ReadFails
  BY <1>6, QuietStep
  DEF Subscribe, ReadFails, BeforeFrames, ClientOnly, ReadOnly, streamVars
<1>7. CASE ReadAnswer \/ Receive
  <2>1. pc' \in {"receive", "clean_up"} /\ taken > 0
    BY <1>7 DEF ReadAnswer, Receive, RequestBehindTls
  <2>2. CASE ReadRecord(AnswerBuffer)
    <3>1. MessagesFit => MessageLength(taken) <= AnswerBuffer
      BY <1>1, <2>1 DEF MessagesFit, MessageLength
    <3> QED
      BY <1>3, <2>1, <2>2, <3>1 DEF BeforeFrames
  <2>3. CASE EndOfStream
    BY <2>1, <2>3, QuietStep DEF EndOfStream, ReadOnly, BeforeFrames
  <2> QED
    BY <1>7, <2>2, <2>3 DEF ReadAnswer, Receive
<1>8. CASE CleanUp \/ PlainResolve \/ PlainSocket \/ PlainConnect
           \/ PlainRequest \/ PlainMessage \/ PlainReadFails \/ PlainClose
  <2>1. UNCHANGED <<client, serverVars, wire, framed, taken>>
    BY <1>8
    DEF CleanUp, PlainResolve, PlainSocket, PlainConnect, PlainRequest,
        PlainMessage, PlainReadFails, PlainClose, ClientOnly, streamVars
  <2>2. BeforeFrames' => BeforeFrames \/ taken = 0
    BY <1>8
    DEF CleanUp, PlainResolve, PlainSocket, PlainConnect, PlainRequest,
        PlainMessage, PlainReadFails, PlainClose, OrReturn1, SocketCall,
        BeforeFrames, RequestBehindTls
  <2> QED
    BY <1>2, <2>1, <2>2, QuietStep
<1>9. CASE PlainResponse \/ PlainAnswer
  <2>1. /\ client = "plain"
        /\ BeforeFrames' => taken = 0
    BY <1>9
    DEF PlainResponse, PlainAnswer, RequestBehindTls, Returned, BeforeFrames
  <2>2. CASE ReadRecord(AnswerBuffer)
    <3>1. MessagesFit => MessageLength(taken) <= AnswerBuffer
      BY <2>1 DEF MessagesFit, MessageLength
    <3> QED
      BY <1>3, <2>1, <2>2, <3>1
  <2>3. CASE EndOfStream
    BY <1>2, <2>1, <2>3, QuietStep DEF EndOfStream, ReadOnly
  <2> QED
    BY <1>9, <2>2, <2>3 DEF PlainResponse, PlainAnswer
<1>10. CASE ServerSends
  BY <1>10, SendBehind
<1>11. CASE ServerCloses \/ UNCHANGED vars
  BY <1>11, QuietStep DEF ServerCloses, vars, BeforeFrames, streamVars
<1> QED
  BY <1>4, <1>5, <1>6, <1>7, <1>8, <1>9, <1>10, <1>11 DEF Next, Client, Plain

-----------------------------------------------------------------------------
(* The invariant *)

\* The invariant holds when main starts.
LEMMA InitIInv == Init => IInv
<1> SUFFICES ASSUME Init PROVE IInv
  OBVIOUS
<1>1. /\ response_pieces \in ResponseLengths /\ frame_pieces \in FrameLengths
      /\ response_pieces + frame_pieces * MaxFrames \in Nat
  <2>1. response_pieces \in Nat /\ frame_pieces \in Nat
    BY PiecesAssumption DEF Init
  <2> QED
    BY <2>1, PiecesAssumption DEF Init
<1>2. wire = <<>> /\ Len(wire) = 0 /\ wire \in Seq(1 .. MaxRecord)
  BY EmptySeq DEF Init
<1>3. TypeOK
  <2>1. sent \in 0 .. response_pieces + frame_pieces * MaxFrames
    BY <1>1 DEF Init
  <2>2. taken \in 0 .. sent /\ ctx \in 0 .. 2 /\ ssl \in 0 .. 1 /\ socket \in 0 .. 1
    BY DEF Init
  <2>3. /\ client \in {"binance", "okx", "plain"} /\ local_ip \in BOOLEAN
        /\ pc \in {"lookup", "context"}
    BY DEF Init
  <2>4. request \in BOOLEAN /\ accepts \in BOOLEAN /\ open \in BOOLEAN
        /\ framed \in BOOLEAN
    BY DEF Init
  <2> QED
    BY <1>1, <1>2, <2>1, <2>2, <2>3, <2>4 DEF TypeOK
<1>4. ObjectsHeld
  BY DEF Init, ObjectsHeld, InPlainSession, Returned
<1>5. RequestBehindTls
  BY DEF Init, RequestBehindTls, Returned
<1>6. StreamOnWire
  <2> DEFINE at == [i \in 1 .. 1 |-> 0]
  <2>1. at \in [1 .. Len(wire) + 1 -> Nat] /\ Cuts(at, wire, taken, sent)
    BY <1>2 DEF Init, Cuts
  <2> QED
    BY <2>1 DEF StreamOnWire
<1>7. FirstMessages
  <2>1. ~BeforeFrames /\ taken = 0 /\ wire = <<>>
    BY DEF Init, BeforeFrames
  <2> QED
    BY <1>2, <2>1 DEF FirstMessages, MessageInFront
<1> QED
  BY <1>3, <1>4, <1>5, <1>6, <1>7 DEF IInv

\* The inductive invariant of a session, of each of the three clients.
THEOREM SpecIInv == Spec => []IInv
<1>1. IInv /\ [Next]_vars => IInv'
  BY TypeStep, ObjectsStep, RequestStep, StreamStep, FrontStep DEF IInv
<1> QED
  BY <1>1, InitIInv, PTL DEF Spec

\* The types of a session: no object is freed twice, and no read returns more
\* than the server sent.
THEOREM SpecTypeOK == Spec => []TypeOK
<1>1. IInv => TypeOK
  BY DEF IInv
<1> QED
  BY <1>1, SpecIInv, PTL

\* Whichever call fails, main returns with the SSL freed and the socket closed,
\* and the okx client without a context behind the TLS handshake.
THEOREM SpecSessionReleased == Spec => []SessionReleased
<1>1. IInv => SessionReleased
  BY DEF IInv, ObjectsHeld, RequestBehindTls, SessionReleased, Returned
<1> QED
  BY <1>1, SpecIInv, PTL

\* The SSL, its context and the socket are there as long as they are used.
THEOREM SpecConnectionAlive == Spec => []ConnectionAlive
<1>1. IInv => ConnectionAlive
  BY DEF IInv, ObjectsHeld, ConnectionAlive, InTlsSession, InPlainSession
<1> QED
  BY <1>1, SpecIInv, PTL

\* The frames begin where the receive path begins to read, and the plain client
\* reads one frame, if the answer and the first frame come in a record each and
\* fit their buffers: for any of these lengths, and whatever the server sends
\* behind them.
THEOREM SpecBoundaryKept == Spec => BoundaryKept
<1> DEFINE Arrives == pc' # pc /\ pc' \in {"receive", "speak", "hang_up"}
<1>1. ASSUME IInv, [Next]_vars, Arrives, framed, MessagesFit
      PROVE  AtBoundary(taken')
  <2>1. /\ TypeOK /\ StreamOnWire /\ FirstMessages /\ RequestBehindTls
        /\ response_pieces \in Nat \ {0} /\ frame_pieces \in Nat \ {0}
        /\ taken \in Nat
    BY <1>1, StreamBounds DEF IInv, TypeOK
  <2>2. ReadAnswer \/ PlainResponse \/ PlainAnswer
    BY <1>1
    DEF Next, Client, Plain, CreateContext, Resolve, OpenSocket, BindLocal,
        Connect, SetServerName, TlsConnect, SendRequest, ReadResponse,
        Subscribe, Receive, CleanUp, PlainResolve, PlainSocket, PlainConnect,
        PlainRequest, PlainMessage, PlainClose, ReadFails, PlainReadFails,
        ServerSends, ServerCloses, SocketCall, OrReturn1, vars
  <2>3. taken < FirstFrameEnd /\ taken \in {0, response_pieces}
    BY <1>1, <2>1, <2>2
    DEF ReadAnswer, PlainResponse, PlainAnswer, BeforeFrames, FirstMessages,
        MessageInFront
  <2>4. \A k \in Nat : k = 0 => k % frame_pieces = 0
    BY <2>1
  <2>5. UNCHANGED serverVars
    BY <2>2
    DEF ReadAnswer, PlainResponse, PlainAnswer, ReadRecord, EndOfStream, ReadOnly
  <2>6. CASE EndOfStream
    BY <2>1, <2>3, <2>4, <2>5, <2>6 DEF EndOfStream, AtBoundary, serverVars
  <2>7. CASE ReadRecord(AnswerBuffer)
    <3>1. client = "plain" \/ taken = response_pieces
      BY <2>1, <2>2, <2>3
      DEF ReadAnswer, PlainResponse, PlainAnswer, RequestBehindTls
    <3>2. MessageLength(taken) <= AnswerBuffer
      BY <1>1, <2>1, <3>1 DEF MessagesFit, MessageLength
    <3>3. taken' = taken + MessageLength(taken)
      BY <1>1, <2>1, <2>3, <2>7, <3>2, ReadInFront
    <3>4. taken' = response_pieces \/ taken' = response_pieces + frame_pieces
      BY <2>1, <2>3, <3>3 DEF MessageLength
    <3>5. frame_pieces % frame_pieces = 0
      BY <2>1
    <3> QED
      BY <2>1, <2>4, <2>5, <3>4, <3>5 DEF AtBoundary, serverVars
  <2> QED
    BY <2>2, <2>6, <2>7 DEF ReadAnswer, PlainResponse, PlainAnswer
<1>2. IInv /\ [Next]_vars
      => [Arrives /\ framed /\ MessagesFit => AtBoundary(taken')]_vars
  BY <1>1
<1> QED
  BY <1>2, SpecIInv, PTL DEF Spec, BoundaryKept

=============================================================================
