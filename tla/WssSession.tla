----------------------------- MODULE WssSession -----------------------------
(***************************************************************************)
(* A run of one of the three WebSocket clients.  The two over TLS,         *)
(* src/src/net/wss_client.cpp ("binance") and wss_client_okx.cpp ("okx"),  *)
(* go from main up to the receive path (which is the module WsReceive) and *)
(* its clean-up; src/src/net/ws_client.cpp ("plain") sends one message and *)
(* reads one answer.  Modelled are the objects that each step creates and  *)
(* each error path releases, and how much of the server's stream the steps *)
(* before the frames consume.                                              *)
(*                                                                         *)
(* The stream is counted in pieces: the answer to the handshake begins     *)
(* with the status line and may be as long as the server likes, and so may *)
(* the WebSocket frames behind it, which all have one length.  The server  *)
(* cuts the stream into records where it likes, and one SSL_read returns   *)
(* what is left of the oldest record, up to the size of the buffer: a      *)
(* longer record is left on the wire in part.  For the plain client a      *)
(* record is what one recv finds.                                          *)
(*                                                                         *)
(* The definitions commented "Slip" are mutated forms of the definition    *)
(* that follows them; they belong to no behaviour of the specification.    *)
(***************************************************************************)
EXTENDS Integers, Sequences, FiniteSetsExt

CONSTANTS
  ResponseLengths,  \* pieces that an answer to the handshake may have
  FrameLengths,     \* pieces that the frames may have
  ResponseBuffer,   \* pieces that fit in response[4096]
  AnswerBuffer,     \* pieces that fit in 1024 bytes, the buffer of all others
  MaxRecord,        \* bound: pieces of a record
  MaxFrames         \* bound: frames the server sends

ASSUME PiecesAssumption ==
  /\ ResponseLengths \subseteq Nat \ {0} /\ FrameLengths \subseteq Nat \ {0}
  /\ ResponseBuffer \in Nat \ {0} /\ AnswerBuffer \in Nat \ {0}
  /\ MaxRecord \in Nat \ {0} /\ MaxFrames \in Nat

VARIABLES
  client,      \* which of the three programs
  local_ip,    \* the configuration names a local address
  pc,          \* where main is
  ctx,         \* references to the SSL_CTX: the creator's and the SSL's
  ssl,         \* SSL objects made and not freed
  socket,      \* sockets opened and not closed
  request,     \* the server has the handshake request
  accepts,     \* the server answers 101 Switching Protocols
  response_pieces,  \* length of its answer
  frame_pieces,     \* length of its frames
  open,        \* the server has not closed the connection
  sent,        \* pieces the server has sent
  wire,        \* records on their way: what is left of each
  framed,      \* history: the answer and the first frame behind it were sent
               \* in a record each
  taken        \* pieces the client has read

objectVars == <<ctx, ssl, socket>>
serverVars == <<accepts, response_pieces, frame_pieces>>
streamVars == <<open, sent, wire, framed>>
vars == <<client, local_ip, pc, objectVars, request, serverVars, streamVars,
          taken>>

TypeOK ==
  /\ client \in {"binance", "okx", "plain"}
  /\ local_ip \in BOOLEAN
  /\ pc \in {"context", "resolve", "socket", "bind", "connect",
             "server_name", "tls", "request", "response", "subscribe",
             "answer", "receive", "clean_up", "fail", "returned_0",
             "returned_1", "lookup", "open", "dial", "greet", "greeted",
             "speak", "listen", "hang_up"}
  /\ ctx \in 0 .. 2 /\ ssl \in 0 .. 1 /\ socket \in 0 .. 1
  /\ request \in BOOLEAN /\ accepts \in BOOLEAN /\ open \in BOOLEAN
  /\ response_pieces \in ResponseLengths /\ frame_pieces \in FrameLengths
  /\ sent \in 0 .. response_pieces + frame_pieces * MaxFrames
  /\ wire \in Seq(1 .. MaxRecord)
  /\ framed \in BOOLEAN
  /\ taken \in 0 .. sent

Init ==
  /\ client \in {"binance", "okx", "plain"}
  /\ local_ip \in (IF client = "plain" THEN {FALSE} ELSE BOOLEAN)
  /\ pc = (IF client = "plain" THEN "lookup" ELSE "context")
  /\ ctx = 0 /\ ssl = 0 /\ socket = 0
  /\ request = FALSE
  /\ accepts \in BOOLEAN
  /\ response_pieces \in ResponseLengths /\ frame_pieces \in FrameLengths
  /\ open = TRUE
  /\ sent = 0 /\ wire = <<>> /\ framed = TRUE
  /\ taken = 0

-----------------------------------------------------------------------------
(* The server *)

\* Frames follow the answer to an accepted handshake, pings even before the
\* subscription; nothing follows a refusal.
StreamLength ==
  IF ~request THEN 0
  ELSE response_pieces + (IF accepts THEN frame_pieces * MaxFrames ELSE 0)

\* A message begins behind the first n pieces of the stream.
AtBoundary(n) ==
  \/ n = 0
  \/ n >= response_pieces /\ (n - response_pieces) % frame_pieces = 0

MessageLength(n) == IF n = 0 THEN response_pieces ELSE frame_pieces

\* Where the first frame ends.
FirstFrameEnd == response_pieces + frame_pieces

ServerSends ==
  /\ open
  /\ \E n \in 1 .. MaxRecord :
       /\ sent + n <= StreamLength
       /\ sent' = sent + n
       /\ wire' = Append(wire, n)
       /\ framed' = (framed /\ (sent < FirstFrameEnd => n = MessageLength(sent)))
  /\ UNCHANGED <<client, local_ip, pc, objectVars, request, serverVars, open,
                 taken>>

ServerCloses ==
  /\ open /\ request
  /\ open' = FALSE
  /\ UNCHANGED <<client, local_ip, pc, objectVars, request, serverVars, sent,
                 wire, framed, taken>>

-----------------------------------------------------------------------------
(* create_tls_connection *)

\* What a step of the client that reads nothing leaves alone.
ClientOnly == UNCHANGED <<client, local_ip, serverVars, streamVars, taken>>

\* One call with two outcomes; a failed one makes main return 1.
OrReturn1(next) == pc' \in {next, "returned_1"}

CreateContext ==
  /\ pc = "context"
  /\ OrReturn1("resolve")
  /\ ctx' = IF pc' = "resolve" THEN 1 ELSE 0
  /\ UNCHANGED <<ssl, socket, request>>
  /\ ClientOnly

\* The name is resolved even when the configuration names a remote address.
Resolve ==
  /\ pc = "resolve"
  /\ OrReturn1("socket")
  /\ UNCHANGED <<objectVars, request>>
  /\ ClientOnly

OpenSocket ==
  /\ pc = "socket"
  /\ OrReturn1(IF local_ip THEN "bind" ELSE "connect")
  /\ socket' = IF pc' = "returned_1" THEN 0 ELSE 1
  /\ UNCHANGED <<ctx, ssl, request>>
  /\ ClientOnly

BindLocal ==
  /\ pc = "bind"
  /\ OrReturn1("connect")
  /\ socket' = IF pc' = "returned_1" THEN socket - 1 ELSE socket
  /\ UNCHANGED <<ctx, ssl, request>>
  /\ ClientOnly

\* connect; behind a successful one SSL_new, which takes a reference to the
\* context, and SSL_set_fd, which does not make the SSL own the socket.
Connect ==
  /\ pc = "connect"
  /\ OrReturn1(IF client = "okx" THEN "server_name" ELSE "tls")
  /\ IF pc' = "returned_1"
     THEN socket' = socket - 1 /\ UNCHANGED <<ctx, ssl>>
     ELSE ssl' = 1 /\ ctx' = ctx + 1 /\ UNCHANGED socket
  /\ UNCHANGED request
  /\ ClientOnly

\* Only the okx client sets the host name, and frees all three on failure.
SetServerName ==
  /\ pc = "server_name"
  /\ OrReturn1("tls")
  /\ IF pc' = "returned_1"
     THEN ssl' = ssl - 1 /\ ctx' = ctx - 2 /\ socket' = socket - 1
     ELSE UNCHANGED objectVars
  /\ UNCHANGED request
  /\ ClientOnly

\* Slip: the error path forgets the socket.
TlsConnectKeepsSocket ==
  /\ pc = "tls"
  /\ OrReturn1("request")
  /\ IF pc' = "returned_1"
     THEN ssl' = ssl - 1 /\ ctx' = ctx - 1
     ELSE ctx' = ctx - (IF client = "okx" THEN 1 ELSE 0) /\ UNCHANGED ssl
  /\ UNCHANGED <<socket, request>>
  /\ ClientOnly

\* The failing handshake frees the SSL, which drops its reference to the
\* context, and closes the socket.  After a successful one the okx client
\* gives up its own reference.
TlsConnect ==
  /\ pc = "tls"
  /\ OrReturn1("request")
  /\ IF pc' = "returned_1"
     THEN ssl' = ssl - 1 /\ ctx' = ctx - 1 /\ socket' = socket - 1
     ELSE /\ ctx' = ctx - (IF client = "okx" THEN 1 ELSE 0)
          /\ UNCHANGED <<ssl, socket>>
  /\ UNCHANGED request
  /\ ClientOnly

-----------------------------------------------------------------------------
(* perform_websocket_handshake and subscribe_ticker_book *)

\* Slip: the helper closes the socket that its caller closes again.
SendRequestCloses ==
  /\ pc = "request"
  /\ pc' \in {"response", "fail"}
  /\ request' = (pc' = "response")
  /\ socket' = IF pc' = "fail" THEN socket - 1 ELSE socket
  /\ UNCHANGED <<ctx, ssl>>
  /\ ClientOnly

SendRequest ==
  /\ pc = "request"
  /\ pc' \in {"response", "fail"}
  /\ request' = (pc' = "response")
  /\ UNCHANGED objectVars
  /\ ClientOnly

Subscribe ==
  /\ pc = "subscribe"
  /\ pc' \in {"answer", "fail"}
  /\ UNCHANGED <<objectVars, request>>
  /\ ClientOnly

\* What a reading step leaves alone.
ReadOnly == UNCHANGED <<client, local_ip, objectVars, request, serverVars,
                        open, sent, framed>>

\* The records on the wire after n pieces of the oldest one were read.
RecordsAfter(n) ==
  IF n = Head(wire) THEN Tail(wire) ELSE <<Head(wire) - n>> \o Tail(wire)

\* SSL_read with a buffer of `size' pieces, when there is something to read.
ReadRecord(size) ==
  /\ wire # <<>>
  /\ LET n == Min({Head(wire), size})
     IN  taken' = taken + n /\ wire' = RecordsAfter(n)
  /\ ReadOnly

\* SSL_read returns 0 behind the last record of a closed connection.
EndOfStream ==
  /\ wire = <<>> /\ ~open
  /\ UNCHANGED <<taken, wire>>
  /\ ReadOnly

\* One read; the status line is in the first piece.
ReadResponse ==
  /\ pc = "response"
  /\ \/ /\ ReadRecord(ResponseBuffer)
        /\ pc' = IF accepts THEN "subscribe" ELSE "fail"
     \/ EndOfStream /\ pc' = "fail"

\* Slip: only the header of the answer is read.
ReadAnswerHeader ==
  /\ pc = "answer"
  /\ pc' = "receive"
  /\ ReadRecord(1) \/ EndOfStream

\* One read that nobody looks into; the end of the stream counts as success.
ReadAnswer ==
  /\ pc = "answer"
  /\ pc' = "receive"
  /\ ReadRecord(AnswerBuffer) \/ EndOfStream

\* Slip: the end of the stream is taken for a read that may be repeated.
ReceiveForever ==
  /\ pc = "receive"
  /\ ReadRecord(AnswerBuffer)
  /\ pc' = pc

\* read_and_process_message reads on and returns false at the end.
Receive ==
  /\ pc = "receive"
  /\ \/ ReadRecord(AnswerBuffer) /\ pc' = pc
     \/ EndOfStream /\ pc' = "clean_up"

\* A negative result of SSL_read, at any time.
ReadFails ==
  /\ pc \in {"response", "answer", "receive"}
  /\ pc' = IF pc = "receive" THEN "clean_up" ELSE "fail"
  /\ UNCHANGED <<taken, wire>>
  /\ ReadOnly

\* The end of main: SSL_free, which drops a reference to the context, and
\* close, in the two error paths and in step 5.
CleanUp ==
  /\ pc \in {"fail", "clean_up"}
  /\ pc' = IF pc = "fail" THEN "returned_1" ELSE "returned_0"
  /\ ssl' = ssl - 1
  /\ ctx' = ctx - 1
  /\ socket' = socket - 1
  /\ UNCHANGED request
  /\ ClientOnly

-----------------------------------------------------------------------------
(* main of the plain client *)

\* One call on the socket; the error path closes it and returns 1.
SocketCall(from, next) ==
  /\ pc = from
  /\ OrReturn1(next)
  /\ socket' = IF pc' = "returned_1" THEN socket - 1 ELSE socket
  /\ UNCHANGED <<ctx, ssl>>

PlainResolve ==
  /\ pc = "lookup"
  /\ OrReturn1("open")
  /\ UNCHANGED <<objectVars, request>>
  /\ ClientOnly

PlainSocket ==
  /\ pc = "open"
  /\ OrReturn1("dial")
  /\ socket' = IF pc' = "dial" THEN 1 ELSE 0
  /\ UNCHANGED <<ctx, ssl, request>>
  /\ ClientOnly

PlainConnect == SocketCall("dial", "greet") /\ UNCHANGED request /\ ClientOnly

PlainRequest ==
  /\ SocketCall("greet", "greeted")
  /\ request' = (pc' = "greeted")
  /\ ClientOnly

\* Whatever recv returns passes, a refusal and the end of the stream as well.
PlainResponse ==
  /\ pc = "greeted"
  /\ pc' = "speak"
  /\ ReadRecord(AnswerBuffer) \/ EndOfStream

PlainMessage == SocketCall("speak", "listen") /\ UNCHANGED request /\ ClientOnly

PlainAnswer ==
  /\ pc = "listen"
  /\ pc' = "hang_up"
  /\ ReadRecord(AnswerBuffer) \/ EndOfStream

\* A negative result of recv.
PlainReadFails ==
  /\ pc \in {"greeted", "listen"}
  /\ pc' = "returned_1"
  /\ socket' = socket - 1
  /\ UNCHANGED <<ctx, ssl, request>>
  /\ ClientOnly

PlainClose ==
  /\ pc = "hang_up"
  /\ pc' = "returned_0"
  /\ socket' = socket - 1
  /\ UNCHANGED <<ctx, ssl, request>>
  /\ ClientOnly

Plain ==
  \/ PlainResolve
  \/ PlainSocket
  \/ PlainConnect
  \/ PlainRequest
  \/ PlainResponse
  \/ PlainMessage
  \/ PlainAnswer
  \/ PlainClose

-----------------------------------------------------------------------------
\* The steps the client takes by itself, as soon as it can.
Client ==
  \/ CreateContext
  \/ Resolve
  \/ OpenSocket
  \/ BindLocal
  \/ Connect
  \/ SetServerName
  \/ TlsConnect
  \/ SendRequest
  \/ ReadResponse
  \/ Subscribe
  \/ ReadAnswer
  \/ Receive
  \/ CleanUp
  \/ Plain

Next ==
  \/ Client
  \/ ReadFails
  \/ PlainReadFails
  \/ ServerSends
  \/ ServerCloses

\* A call of the client that can return returns.  The server owes nothing,
\* and no read has to fail.
Fairness == WF_vars(Client)

Spec == Init /\ [][Next]_vars /\ Fairness

-----------------------------------------------------------------------------
(* Properties *)

Returned == pc \in {"returned_0", "returned_1"}
InTlsSession == pc \in {"tls", "request", "response", "subscribe", "answer",
                        "receive", "clean_up", "fail"}
InPlainSession == pc \in {"dial", "greet", "greeted", "speak", "listen",
                          "hang_up"}

\* Whichever call fails, main returns with the SSL freed and the socket
\* closed, each of them once: a dozen error paths in four functions, of which
\* some leave the work to their caller.  The okx client leaves no context
\* behind either once the TLS handshake is done.
SessionReleased ==
  Returned =>
    /\ ssl = 0 /\ socket = 0
    /\ client = "okx" /\ request => ctx = 0

\* Whenever the client is about to use or to free the connection, the SSL,
\* its context and the socket are there; the okx client drops its reference
\* to the context while the SSL goes on using it.
ConnectionAlive ==
  /\ InTlsSession => ssl = 1 /\ socket = 1 /\ ctx > 0
  /\ InPlainSession => socket = 1

\* The buffers of the first two reads take the answer and a frame.
MessagesFit ==
  /\ response_pieces <= IF client = "plain" THEN AnswerBuffer ELSE ResponseBuffer
  /\ frame_pieces <= AnswerBuffer

\* The single reads before the frames bring the receive path of the TLS clients
\* to the first byte of a frame, and give the plain client one whole frame, if
\* the answer and the first frame come in a record each and fit the buffers;
\* what comes behind them may be cut in any way.  The code relies on all of
\* this and checks nothing of it.
BoundaryKept ==
  [][/\ pc' # pc /\ pc' \in {"receive", "speak", "hang_up"}
     /\ framed /\ MessagesFit
     => AtBoundary(taken')]_vars

\* A connection the server closes does not leave the client hanging.
CloseEndsSession == ~open ~> Returned

\* Not kept.  wss_client.cpp:130 says "Read the server's response": behind
\* the handshake nothing of the response is left to be taken for frames.
ResponseRead ==
  pc \in {"subscribe", "answer", "receive"} => taken >= response_pieces

\* Not kept by the binance client.  wss_client.cpp:438 says "Clean up": main
\* has released everything when it returns 0.
AllReleased == pc = "returned_0" => ctx = 0 /\ ssl = 0 /\ socket = 0
=============================================================================
