------------------------------ MODULE TcpServer ------------------------------
(***************************************************************************)
(* The server of src/src/net/tcp_server.cpp: main opens the listening      *)
(* socket and accepts clients, and every client is served by a detached    *)
(* thread that runs handle_client.  The threads share cout_mutex and the   *)
(* process's table of descriptors; a handler knows its client only by the  *)
(* number of a descriptor.                                                 *)
(*                                                                         *)
(* A client is external: it connects once, sends bytes that the kernel     *)
(* keeps until they are read, and leaves when it likes.  The connection is *)
(* a stream: a read returns any part of what was sent, up to the size of   *)
(* its buffer, so that one message may take several reads, each with a     *)
(* reply of its own, and several messages may share one.  A write to a     *)
(* client that has left still succeeds, and its kernel may answer with a   *)
(* reset, or have sent one at once; a write behind the reset may raise     *)
(* SIGPIPE, which the program does not handle.                             *)
(*                                                                         *)
(* The definitions commented "Slip" are mutated forms of the definition    *)
(* that follows them; they belong to no behaviour of the specification.    *)
(***************************************************************************)
EXTENDS Naturals, Sequences

CONSTANTS
  Clients,        \* clients, and the threads that serve them
  Descriptors,    \* numbers the process has left for client sockets
  Buffer,         \* bytes a read returns at most, 1024 in the code
  MaxBytes,       \* bound: bytes each client sends
  NoClient,       \* the entry of a free descriptor
  MainThread,     \* the thread of main
  NoThread        \* owner of a free mutex

ASSUME ThreadsAssumption ==
  /\ MainThread \notin Clients /\ NoThread \notin Clients
  /\ NoThread # MainThread /\ NoClient \notin Clients
ASSUME DescriptorsAssumption == Descriptors # {} /\ Descriptors \subseteq Nat
ASSUME BufferAssumption == Buffer \in Nat \ {0}
ASSUME BytesAssumption == MaxBytes \in [Clients -> Nat]

VARIABLES
  pc,              \* where main is
  server_socket,   \* the listening socket is open
  client_socket,   \* main's variable: what the last accept returned
  table,           \* the client whose connection a descriptor is
  backlog,         \* connections that wait for accept
  handler,         \* where the thread of each client is
  fd,              \* the argument of each thread
  cout_mutex,      \* its owner
  peer,            \* "away", "connected", "left", or "reset"
  sent,            \* bytes each client has sent
  read,            \* how many of them the server has read
  answered,        \* how many of them a reply of the server covers
  filled,          \* the last read of each thread filled its buffer
  unanswered       \* history: bytes without a reply when a client left

socketVars == <<server_socket, client_socket, table>>
threadVars == <<handler, fd>>
streamVars == <<sent, read, answered, filled>>
vars == <<pc, socketVars, backlog, threadVars, cout_mutex, peer, streamVars,
          unanswered>>

\* Where handle_client is, from its first line to the end of its session.
InSession == {"start", "greet", "read", "lock", "print", "reply"}

TypeOK ==
  /\ pc \in {"socket", "options", "bind", "listen", "accept", "lock",
             "print", "spawn", "returned", "aborted", "killed", "overrun"}
  /\ server_socket \in BOOLEAN
  /\ client_socket \in Descriptors
  /\ table \in [Descriptors -> Clients \cup {NoClient}]
  /\ backlog \in Seq(Clients)
  /\ handler \in [Clients -> InSession \cup {"none", "gone", "report", "keep"}]
  /\ fd \in [Clients -> Descriptors]
  /\ cout_mutex \in Clients \cup {MainThread, NoThread}
  /\ peer \in [Clients -> {"away", "connected", "left", "reset"}]
  /\ sent \in [Clients -> Nat]
  /\ read \in [Clients -> Nat]
  /\ answered \in [Clients -> Nat]
  /\ filled \in [Clients -> BOOLEAN]
  /\ unanswered \in [Clients -> Nat]
  /\ \A c \in Clients :
       answered[c] <= read[c] /\ read[c] <= sent[c] /\ sent[c] <= MaxBytes[c]

\* Stands for a descriptor that was not set yet; nothing uses it.
Unset == CHOOSE d \in Descriptors : TRUE

Init ==
  /\ pc = "socket"
  /\ server_socket = FALSE
  /\ client_socket = Unset
  /\ table = [d \in Descriptors |-> NoClient]
  /\ backlog = <<>>
  /\ handler = [c \in Clients |-> "none"]
  /\ fd = [c \in Clients |-> Unset]
  /\ cout_mutex = NoThread
  /\ peer = [c \in Clients |-> "away"]
  /\ sent = [c \in Clients |-> 0]
  /\ read = [c \in Clients |-> 0]
  /\ answered = [c \in Clients |-> 0]
  /\ filled = [c \in Clients |-> FALSE]
  /\ unanswered = [c \in Clients |-> 0]

Running == pc \notin {"returned", "aborted", "killed", "overrun"}

Accepting == pc \in {"accept", "lock", "print", "spawn"}

Lock(thread) == cout_mutex = NoThread /\ cout_mutex' = thread

Unlock == cout_mutex' = NoThread

-----------------------------------------------------------------------------
(* The clients *)

\* The kernel completes a connection as soon as the socket listens.
Connects(c) ==
  /\ Accepting
  /\ peer[c] = "away"
  /\ peer' = [peer EXCEPT ![c] = "connected"]
  /\ backlog' = Append(backlog, c)
  /\ UNCHANGED <<pc, socketVars, threadVars, cout_mutex, streamVars, unanswered>>

Sends(c) ==
  /\ Accepting
  /\ peer[c] = "connected" /\ sent[c] < MaxBytes[c]
  /\ sent' = [sent EXCEPT ![c] = @ + 1]
  /\ UNCHANGED <<pc, socketVars, backlog, threadVars, cout_mutex, peer, read,
                 answered, filled, unanswered>>

\* A client that leaves replies unread resets the connection as it leaves.
Leaves(c) ==
  /\ Accepting
  /\ peer[c] = "connected"
  /\ \E p \in {"left", "reset"} : peer' = [peer EXCEPT ![c] = p]
  /\ unanswered' = [unanswered EXCEPT ![c] = sent[c] - answered[c]]
  /\ UNCHANGED <<pc, socketVars, backlog, threadVars, cout_mutex, streamVars>>

-----------------------------------------------------------------------------
(* main *)

\* What main's steps leave alone.
MainOnly == UNCHANGED <<threadVars, peer, streamVars, unanswered>>

\* A call of the start-up: on failure the socket is closed, if there is one,
\* and main returns -1.
StartUp(from, next) ==
  /\ pc = from
  /\ pc' \in {next, "returned"}
  /\ server_socket' = (pc' # "returned")
  /\ UNCHANGED <<client_socket, table, backlog, cout_mutex>>
  /\ MainOnly

OpenSocket == StartUp("socket", "options")
SetReuse == StartUp("options", "bind")
BindSocket == StartUp("bind", "listen")
Listen == StartUp("listen", "accept")

\* accept takes the oldest connection and the lowest free descriptor.  Without
\* one it fails, and main tries again: a step that changes nothing.  The receive
\* timeout is set behind it; if that fails, reads just do not time out.
Accept ==
  /\ pc = "accept"
  /\ backlog # <<>>
  /\ \E d \in Descriptors :
       /\ table[d] = NoClient
       /\ \A e \in Descriptors : table[e] = NoClient => d <= e
       /\ client_socket' = d
       /\ table' = [table EXCEPT ![d] = Head(backlog)]
  /\ backlog' = Tail(backlog)
  /\ pc' = "lock"
  /\ UNCHANGED <<server_socket, cout_mutex>>
  /\ MainOnly

MainLock ==
  /\ pc = "lock"
  /\ Lock(MainThread)
  /\ pc' = "print"
  /\ UNCHANGED <<socketVars, backlog>>
  /\ MainOnly

MainPrint ==
  /\ pc = "print"
  /\ Unlock
  /\ pc' = "spawn"
  /\ UNCHANGED <<socketVars, backlog>>
  /\ MainOnly

\* The client the thread is started for: the one behind the descriptor.
Accepted == table[client_socket]

\* Slip: main closes its descriptor behind the detach, as it would after a
\* fork.
SpawnCloses ==
  /\ pc = "spawn"
  /\ handler' = [handler EXCEPT ![Accepted] = "start"]
  /\ fd' = [fd EXCEPT ![Accepted] = client_socket]
  /\ pc' = "accept"
  /\ table' = [table EXCEPT ![client_socket] = NoClient]
  /\ UNCHANGED <<server_socket, client_socket, backlog, cout_mutex>>
  /\ UNCHANGED <<peer, streamVars, unanswered>>

\* The thread gets a copy of the descriptor and is detached.
Spawn ==
  /\ pc = "spawn"
  /\ handler' = [handler EXCEPT ![Accepted] = "start"]
  /\ fd' = [fd EXCEPT ![Accepted] = client_socket]
  /\ pc' = "accept"
  /\ UNCHANGED <<socketVars, backlog, cout_mutex>>
  /\ UNCHANGED <<peer, streamVars, unanswered>>

\* std::thread throws when no thread can be started, and nobody catches.
SpawnFails ==
  /\ pc = "spawn"
  /\ pc' = "aborted"
  /\ UNCHANGED <<socketVars, backlog, cout_mutex>>
  /\ MainOnly

-----------------------------------------------------------------------------
(* handle_client *)

\* The client behind the descriptor of c's thread.
Conn(c) == table[fd[c]]

\* A step of c's thread.
At(c, here, next) ==
  /\ Running
  /\ handler[c] = here
  /\ handler' = [handler EXCEPT ![c] = next]
  /\ UNCHANGED <<socketVars, backlog, fd, unanswered>>

TakesLock(c, here, next) ==
  /\ At(c, here, next)
  /\ Lock(c)
  /\ UNCHANGED <<pc, peer, streamVars>>

\* Slip: the scope of the lock_guard is the whole function.
GreetKeepsLock(c) ==
  /\ At(c, "greet", "read")
  /\ UNCHANGED <<pc, cout_mutex, peer, streamVars>>

Greet(c) ==
  /\ At(c, "greet", "read")
  /\ Unlock
  /\ UNCHANGED <<pc, peer, streamVars>>

\* Slip: the bytes stay in the kernel (MSG_PEEK) and are counted again.
ReadBytesAgain(c) ==
  /\ At(c, "read", "lock")
  /\ \E n \in 1 .. sent[Conn(c)] - answered[Conn(c)] :
       /\ n <= Buffer
       /\ read' = [read EXCEPT ![Conn(c)] = @ + n]
       /\ filled' = [filled EXCEPT ![c] = (n = Buffer)]
  /\ UNCHANGED <<pc, cout_mutex, peer, sent, answered>>

\* read returns what has arrived of the bytes sent, up to the size of the
\* buffer, which was cleared before.
ReadBytes(c) ==
  /\ At(c, "read", "lock")
  /\ \E n \in 1 .. sent[Conn(c)] - read[Conn(c)] :
       /\ n <= Buffer
       /\ read' = [read EXCEPT ![Conn(c)] = @ + n]
       /\ filled' = [filled EXCEPT ![c] = (n = Buffer)]
  /\ UNCHANGED <<pc, cout_mutex, peer, sent, answered>>

\* Descriptors on which a read does not end at once.
HasUnread(q) == read[q] < sent[q]
Alive == {q \in Clients : peer[q] = "connected" \/ HasUnread(q)}

\* Slip: the test asks for a negative result only, so that the end of the
\* stream is taken for an empty message.
ReadEndsNegative(c) ==
  /\ At(c, "read", "lock")
  /\ Conn(c) \notin Alive
  /\ UNCHANGED <<pc, cout_mutex, peer, streamVars>>

\* read returns 0 or -1: the client has left and everything was read, or a
\* reset took what was not.
ReadEnds(c) ==
  /\ At(c, "read", "gone")
  /\ Conn(c) \notin Alive \/ peer[Conn(c)] = "reset"
  /\ UNCHANGED <<pc, cout_mutex, peer, streamVars>>

\* read returns -1 after thirty seconds without a byte.
ReadTimesOut(c) ==
  /\ At(c, "read", "gone")
  /\ Conn(c) \in Alive /\ ~HasUnread(Conn(c))
  /\ UNCHANGED <<pc, cout_mutex, peer, streamVars>>

PrintReceived(c) ==
  /\ At(c, "print", "reply")
  /\ Unlock
  /\ filled' = [filled EXCEPT ![c] = FALSE]
  /\ UNCHANGED <<pc, peer, sent, read, answered>>

\* A read that filled the buffer left no room for a terminator: the print
\* reads on behind the end of the buffer, which may end the process.
PrintOverruns(c) ==
  /\ At(c, "print", "print")
  /\ filled[c]
  /\ pc' = "overrun"
  /\ UNCHANGED <<cout_mutex, peer, streamVars>>

\* Slip: the loop ends behind the first reply.
ReplyArrivesOnce(c) ==
  /\ At(c, "reply", "gone")
  /\ peer[Conn(c)] = "connected"
  /\ answered' = [answered EXCEPT ![Conn(c)] = read[Conn(c)]]
  /\ UNCHANGED <<pc, cout_mutex, peer, sent, read, filled>>

\* The reply covers what was read; nobody looks at the result of the write.
ReplyArrives(c) ==
  /\ At(c, "reply", "read")
  /\ peer[Conn(c)] = "connected"
  /\ answered' = [answered EXCEPT ![Conn(c)] = read[Conn(c)]]
  /\ UNCHANGED <<pc, cout_mutex, peer, sent, read, filled>>

\* A write to a client that has left: it is taken, and may draw a reset, or
\* fails for the reset itself.
ReplyDiscarded(c) ==
  /\ At(c, "reply", "read")
  /\ \/ /\ peer[Conn(c)] = "left"
        /\ \E p \in {"left", "reset"} : peer' = [peer EXCEPT ![Conn(c)] = p]
     \/ peer[Conn(c)] = "reset" /\ UNCHANGED peer
  /\ UNCHANGED <<pc, cout_mutex, streamVars>>

\* A write behind the reset that raises SIGPIPE ends the process.
ReplyKills(c) ==
  /\ At(c, "reply", "read")
  /\ peer[Conn(c)] = "reset"
  /\ pc' = "killed"
  /\ UNCHANGED <<cout_mutex, peer, streamVars>>

\* The loop behind the session never ends, and close stands behind it.
Report(c) ==
  /\ At(c, "report", "keep")
  /\ Unlock
  /\ UNCHANGED <<pc, peer, streamVars>>

HandleClient(c) ==
  \/ TakesLock(c, "start", "greet")
  \/ Greet(c)
  \/ ReadBytes(c)
  \/ ReadEnds(c)
  \/ TakesLock(c, "lock", "print")
  \/ PrintReceived(c)
  \/ ReplyArrives(c)
  \/ ReplyDiscarded(c)
  \/ ReplyKills(c)
  \/ TakesLock(c, "gone", "report")
  \/ Report(c)

-----------------------------------------------------------------------------
Main ==
  \/ OpenSocket
  \/ SetReuse
  \/ BindSocket
  \/ Listen
  \/ Accept
  \/ MainLock
  \/ MainPrint
  \/ Spawn

Next ==
  \/ Main
  \/ SpawnFails
  \/ \E c \in Clients :
       \/ HandleClient(c)
       \/ ReadTimesOut(c)
       \/ PrintOverruns(c)
       \/ Connects(c)
       \/ Sends(c)
       \/ Leaves(c)

\* Threads that can run do run; a client owes nothing, and no read has to time
\* out while something may still arrive.
Fairness ==
  /\ WF_vars(Main)
  /\ \A c \in Clients : WF_vars(HandleClient(c))

Spec == Init /\ [][Next]_vars /\ Fairness

-----------------------------------------------------------------------------
(* Properties *)

\* As long as its thread lives, the descriptor that handle_client was given
\* is the connection of the client it was started for: nobody closes it under
\* the thread, and accept never gives its number to another client.
HandlersOwnSockets ==
  \A c \in Clients : handler[c] # "none" => Conn(c) = c

\* The process dies of SIGPIPE only through a client that left before all it
\* had sent was answered: the read that reports the end of the stream keeps
\* handle_client from writing to every other one, whatever the replies that
\* were lost and the pieces in which the stream was read.  One message is
\* enough, and one of which a first part was answered as well.
PoliteClientsHarmless ==
  pc = "killed" => \E c \in Clients : peer[c] = "reset" /\ unanswered[c] > 0

\* A client that waits in the backlog is greeted by a thread of its own,
\* whatever the other clients do or leave undone, unless others hold all the
\* descriptors or the process died.
WaitingClientsServed ==
  \A c \in Clients :
    (\E i \in DOMAIN backlog : backlog[i] = c) ~>
      \/ handler[c] \notin {"none", "start", "greet"}
      \/ \A d \in Descriptors : table[d] \notin {NoClient, c}
      \/ ~Running

\* A byte that is there while handle_client has not given up its client is
\* read and answered, however many reads the bytes before it take: the receive
\* timeout strikes only where nothing waits.
RequestsAnswered ==
  \A c \in Clients : \A n \in 1 .. MaxBytes[c] :
    (handler[c] \in InSession /\ read[c] < n /\ n <= sent[c]) ~>
      (answered[c] >= n \/ peer[c] # "connected" \/ ~Running)
=============================================================================
