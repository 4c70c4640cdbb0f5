---------------------------- MODULE TcpServerProofs ----------------------------
(***************************************************************************)
(* Proofs about TcpServer: its inductive invariant and the two safety      *)
(* properties of handle_client, for any clients, any number of             *)
(* descriptors, any number of bytes and any buffer.                        *)
(***************************************************************************)
EXTENDS TcpServer, SequenceTheorems, TLAPS

\* What was read is ahead of what was answered while handle_client is on its
\* way to a reply, and a client that left has its account frozen.
RepliesCounted ==
  \A c \in Clients :
    /\ handler[c] \in {"lock", "print", "reply"} => answered[c] < read[c]
    /\ peer[c] \in {"left", "reset"} => unanswered[c] = sent[c] - answered[c]

IInv == TypeOK /\ HandlersOwnSockets /\ RepliesCounted /\ PoliteClientsHarmless

-----------------------------------------------------------------------------
(* One step of each part of the invariant *)

\* The types need that a thread counts the bytes of its own client.
LEMMA TypeStep ==
  TypeOK /\ HandlersOwnSockets /\ [Next]_vars => TypeOK'
<1> SUFFICES ASSUME TypeOK, HandlersOwnSockets, [Next]_vars
             PROVE  TypeOK'
  OBVIOUS
<1> USE BytesAssumption DEF TypeOK, InSession, At, Accepted,
        socketVars, threadVars, streamVars
<1>1. ASSUME OpenSocket PROVE TypeOK'
  BY <1>1 DEF OpenSocket, StartUp, MainOnly
<1>2. ASSUME SetReuse PROVE TypeOK'
  BY <1>2 DEF SetReuse, StartUp, MainOnly
<1>3. ASSUME BindSocket PROVE TypeOK'
  BY <1>3 DEF BindSocket, StartUp, MainOnly
<1>4. ASSUME Listen PROVE TypeOK'
  BY <1>4 DEF Listen, StartUp, MainOnly
<1>5. ASSUME Accept PROVE TypeOK'
  <2>1. Head(backlog) \in Clients /\ Tail(backlog) \in Seq(Clients)
    BY <1>5, HeadTailProperties DEF Accept
  <2>2. PICK d \in Descriptors :
          client_socket' = d /\ table' = [table EXCEPT ![d] = Head(backlog)]
    BY <1>5 DEF Accept
  <2>3. table' \in [Descriptors -> Clients \cup {NoClient}]
    BY <2>1, <2>2
  <2> QED
    BY <1>5, <2>1, <2>2, <2>3 DEF Accept, MainOnly
<1>6. ASSUME MainLock PROVE TypeOK'
  BY <1>6 DEF MainLock, MainOnly, Lock
<1>7. ASSUME MainPrint PROVE TypeOK'
  BY <1>7 DEF MainPrint, MainOnly, Unlock
<1>8. ASSUME Spawn PROVE TypeOK'
  BY <1>8 DEF Spawn
<1>9. ASSUME SpawnFails PROVE TypeOK'
  BY <1>9 DEF SpawnFails, MainOnly
<1>10. ASSUME NEW c \in Clients, TakesLock(c, "start", "greet") PROVE TypeOK'
  BY <1>10 DEF TakesLock, Lock
<1>11. ASSUME NEW c \in Clients, Greet(c) PROVE TypeOK'
  BY <1>11 DEF Greet, Unlock
<1>12. ASSUME NEW c \in Clients, ReadBytes(c) PROVE TypeOK'
  <2>1. Conn(c) = c
    BY <1>12 DEF ReadBytes, HandlersOwnSockets
  <2>2. PICK n \in 1 .. sent[c] - read[c] :
          /\ read' = [read EXCEPT ![c] = @ + n]
          /\ filled' = [filled EXCEPT ![c] = (n = Buffer)]
    BY <1>12, <2>1 DEF ReadBytes
  <2>3. /\ answered[c] \in Nat /\ read[c] \in Nat /\ sent[c] \in Nat
        /\ answered[c] <= read[c] /\ n \in 1 .. sent[c] - read[c]
    BY <2>2
  <2> HIDE DEF TypeOK
  <2>4. n \in Nat /\ read[c] + n \in Nat /\ read[c] + n <= sent[c]
        /\ answered[c] <= read[c] + n
    BY <2>3
  <2> USE DEF TypeOK
  <2>5. read' \in [Clients -> Nat]
    BY <2>2, <2>4
  <2>6. sent' = sent /\ answered' = answered
    BY <1>12 DEF ReadBytes
  <2>7. \A q \in Clients : answered'[q] <= read'[q] /\ read'[q] <= sent'[q]
                         /\ sent'[q] <= MaxBytes[q]
    BY <2>2, <2>4, <2>6
  <2>8. filled' \in [Clients -> BOOLEAN]
    BY <2>2
  <2> QED
    BY <1>12, <2>5, <2>6, <2>7, <2>8 DEF ReadBytes
<1>13. ASSUME NEW c \in Clients, ReadEnds(c) PROVE TypeOK'
  BY <1>13 DEF ReadEnds
<1>14. ASSUME NEW c \in Clients, TakesLock(c, "lock", "print") PROVE TypeOK'
  BY <1>14 DEF TakesLock, Lock
<1>15. ASSUME NEW c \in Clients, PrintReceived(c) PROVE TypeOK'
  BY <1>15 DEF PrintReceived, Unlock
<1>16. ASSUME NEW c \in Clients, ReplyArrives(c) PROVE TypeOK'
  <2>1. Conn(c) = c
    BY <1>16 DEF ReplyArrives, HandlersOwnSockets
  <2> QED
    BY <1>16, <2>1 DEF ReplyArrives
<1>17. ASSUME NEW c \in Clients, ReplyDiscarded(c) PROVE TypeOK'
  BY <1>17 DEF ReplyDiscarded
<1>18. ASSUME NEW c \in Clients, ReplyKills(c) PROVE TypeOK'
  BY <1>18 DEF ReplyKills
<1>19. ASSUME NEW c \in Clients, TakesLock(c, "gone", "report") PROVE TypeOK'
  BY <1>19 DEF TakesLock, Lock
<1>20. ASSUME NEW c \in Clients, Report(c) PROVE TypeOK'
  BY <1>20 DEF Report, Unlock
<1>21. ASSUME NEW c \in Clients, ReadTimesOut(c) PROVE TypeOK'
  BY <1>21 DEF ReadTimesOut
<1>22. ASSUME NEW c \in Clients, Connects(c) PROVE TypeOK'
  BY <1>22, AppendProperties DEF Connects
<1>23. ASSUME NEW c \in Clients, Sends(c) PROVE TypeOK'
  <2>1. sent[c] < MaxBytes[c] /\ sent' = [sent EXCEPT ![c] = @ + 1]
    BY <1>23 DEF Sends
  <2>2. sent' \in [Clients -> Nat]
    BY <2>1
  <2>3. read' = read /\ answered' = answered
    BY <1>23 DEF Sends
  <2>4. \A q \in Clients : answered'[q] <= read'[q] /\ read'[q] <= sent'[q]
                         /\ sent'[q] <= MaxBytes[q]
    BY <2>1, <2>3
  <2> QED
    BY <1>23, <2>2, <2>3, <2>4 DEF Sends
<1>24. ASSUME NEW c \in Clients, Leaves(c) PROVE TypeOK'
  <2>1. sent[c] - answered[c] \in Nat
    OBVIOUS
  <2>2. unanswered' \in [Clients -> Nat]
    BY <1>24, <2>1 DEF Leaves
  <2>3. peer' \in [Clients -> {"away", "connected", "left", "reset"}]
    BY <1>24 DEF Leaves
  <2> QED
    BY <1>24, <2>2, <2>3 DEF Leaves
<1>25. ASSUME NEW c \in Clients, PrintOverruns(c) PROVE TypeOK'
  BY <1>25 DEF PrintOverruns
<1>26. ASSUME UNCHANGED vars PROVE TypeOK'
  BY <1>26 DEF vars
<1> QED
  BY <1>1, <1>2, <1>3, <1>4, <1>5, <1>6, <1>7, <1>8, <1>9, <1>10, <1>11,
     <1>12, <1>13, <1>14, <1>15, <1>16, <1>17, <1>18, <1>19, <1>20,
     <1>21, <1>22, <1>23, <1>24, <1>25, <1>26
  DEF Next, Main, HandleClient

\* accept takes free descriptors only and nobody closes one, so what a thread
\* was given at its start stays the connection of its client.
LEMMA OwnStep ==
  TypeOK /\ HandlersOwnSockets /\ [Next]_vars => HandlersOwnSockets'
<1> SUFFICES ASSUME TypeOK, HandlersOwnSockets, [Next]_vars
             PROVE  HandlersOwnSockets'
  OBVIOUS
<1> USE ThreadsAssumption DEF TypeOK, HandlersOwnSockets, Conn, At, Accepted,
        socketVars, threadVars, streamVars
<1>1. ASSUME OpenSocket PROVE HandlersOwnSockets'
  BY <1>1 DEF OpenSocket, StartUp, MainOnly
<1>2. ASSUME SetReuse PROVE HandlersOwnSockets'
  BY <1>2 DEF SetReuse, StartUp, MainOnly
<1>3. ASSUME BindSocket PROVE HandlersOwnSockets'
  BY <1>3 DEF BindSocket, StartUp, MainOnly
<1>4. ASSUME Listen PROVE HandlersOwnSockets'
  BY <1>4 DEF Listen, StartUp, MainOnly
<1>5. ASSUME Accept PROVE HandlersOwnSockets'
  BY <1>5, HeadTailProperties DEF Accept, MainOnly
<1>6. ASSUME MainLock PROVE HandlersOwnSockets'
  BY <1>6 DEF MainLock, MainOnly, Lock
<1>7. ASSUME MainPrint PROVE HandlersOwnSockets'
  BY <1>7 DEF MainPrint, MainOnly, Unlock
<1>8. ASSUME Spawn PROVE HandlersOwnSockets'
  BY <1>8 DEF Spawn
<1>9. ASSUME SpawnFails PROVE HandlersOwnSockets'
  BY <1>9 DEF SpawnFails, MainOnly
<1>10. ASSUME NEW c \in Clients, TakesLock(c, "start", "greet") PROVE HandlersOwnSockets'
  BY <1>10 DEF TakesLock, Lock
<1>11. ASSUME NEW c \in Clients, Greet(c) PROVE HandlersOwnSockets'
  BY <1>11 DEF Greet, Unlock
<1>12. ASSUME NEW c \in Clients, ReadBytes(c) PROVE HandlersOwnSockets'
  BY <1>12 DEF ReadBytes
<1>13. ASSUME NEW c \in Clients, ReadEnds(c) PROVE HandlersOwnSockets'
  BY <1>13 DEF ReadEnds
<1>14. ASSUME NEW c \in Clients, TakesLock(c, "lock", "print") PROVE HandlersOwnSockets'
  BY <1>14 DEF TakesLock, Lock
<1>15. ASSUME NEW c \in Clients, PrintReceived(c) PROVE HandlersOwnSockets'
  BY <1>15 DEF PrintReceived, Unlock
<1>16. ASSUME NEW c \in Clients, ReplyArrives(c) PROVE HandlersOwnSockets'
  BY <1>16 DEF ReplyArrives
<1>17. ASSUME NEW c \in Clients, ReplyDiscarded(c) PROVE HandlersOwnSockets'
  BY <1>17 DEF ReplyDiscarded
<1>18. ASSUME NEW c \in Clients, ReplyKills(c) PROVE HandlersOwnSockets'
  BY <1>18 DEF ReplyKills
<1>19. ASSUME NEW c \in Clients, TakesLock(c, "gone", "report") PROVE HandlersOwnSockets'
  BY <1>19 DEF TakesLock, Lock
<1>20. ASSUME NEW c \in Clients, Report(c) PROVE HandlersOwnSockets'
  BY <1>20 DEF Report, Unlock
<1>21. ASSUME NEW c \in Clients, ReadTimesOut(c) PROVE HandlersOwnSockets'
  BY <1>21 DEF ReadTimesOut
<1>22. ASSUME NEW c \in Clients, Connects(c) PROVE HandlersOwnSockets'
  BY <1>22 DEF Connects
<1>23. ASSUME NEW c \in Clients, Sends(c) PROVE HandlersOwnSockets'
  BY <1>23 DEF Sends
<1>24. ASSUME NEW c \in Clients, Leaves(c) PROVE HandlersOwnSockets'
  BY <1>24 DEF Leaves
<1>25. ASSUME NEW c \in Clients, PrintOverruns(c) PROVE HandlersOwnSockets'
  BY <1>25 DEF PrintOverruns
<1>26. ASSUME UNCHANGED vars PROVE HandlersOwnSockets'
  BY <1>26 DEF vars
<1> QED
  BY <1>1, <1>2, <1>3, <1>4, <1>5, <1>6, <1>7, <1>8, <1>9, <1>10, <1>11,
     <1>12, <1>13, <1>14, <1>15, <1>16, <1>17, <1>18, <1>19, <1>20,
     <1>21, <1>22, <1>23, <1>24, <1>25, <1>26
  DEF Next, Main, HandleClient

\* A reply goes out behind a read of at least one byte.
LEMMA RepliesStep ==
  TypeOK /\ HandlersOwnSockets /\ RepliesCounted /\ [Next]_vars => RepliesCounted'
<1> SUFFICES ASSUME TypeOK, HandlersOwnSockets, RepliesCounted, [Next]_vars
             PROVE  RepliesCounted'
  OBVIOUS
<1> USE DEF TypeOK, RepliesCounted, At, Accepted,
        socketVars, threadVars, streamVars
<1>1. ASSUME OpenSocket PROVE RepliesCounted'
  BY <1>1 DEF OpenSocket, StartUp, MainOnly
<1>2. ASSUME SetReuse PROVE RepliesCounted'
  BY <1>2 DEF SetReuse, StartUp, MainOnly
<1>3. ASSUME BindSocket PROVE RepliesCounted'
  BY <1>3 DEF BindSocket, StartUp, MainOnly
<1>4. ASSUME Listen PROVE RepliesCounted'
  BY <1>4 DEF Listen, StartUp, MainOnly
<1>5. ASSUME Accept PROVE RepliesCounted'
  BY <1>5 DEF Accept, MainOnly
<1>6. ASSUME MainLock PROVE RepliesCounted'
  BY <1>6 DEF MainLock, MainOnly, Lock
<1>7. ASSUME MainPrint PROVE RepliesCounted'
  BY <1>7 DEF MainPrint, MainOnly, Unlock
<1>8. ASSUME Spawn PROVE RepliesCounted'
  BY <1>8 DEF Spawn
<1>9. ASSUME SpawnFails PROVE RepliesCounted'
  BY <1>9 DEF SpawnFails, MainOnly
<1>10. ASSUME NEW c \in Clients, TakesLock(c, "start", "greet") PROVE RepliesCounted'
  BY <1>10 DEF TakesLock, Lock
<1>11. ASSUME NEW c \in Clients, Greet(c) PROVE RepliesCounted'
  BY <1>11 DEF Greet, Unlock
<1>12. ASSUME NEW c \in Clients, ReadBytes(c) PROVE RepliesCounted'
  <2>1. Conn(c) = c
    BY <1>12 DEF ReadBytes, HandlersOwnSockets
  <2> QED
    BY <1>12, <2>1 DEF ReadBytes
<1>13. ASSUME NEW c \in Clients, ReadEnds(c) PROVE RepliesCounted'
  BY <1>13 DEF ReadEnds
<1>14. ASSUME NEW c \in Clients, TakesLock(c, "lock", "print") PROVE RepliesCounted'
  BY <1>14 DEF TakesLock, Lock
<1>15. ASSUME NEW c \in Clients, PrintReceived(c) PROVE RepliesCounted'
  BY <1>15 DEF PrintReceived, Unlock
<1>16. ASSUME NEW c \in Clients, ReplyArrives(c) PROVE RepliesCounted'
  <2>1. Conn(c) = c
    BY <1>16 DEF ReplyArrives, HandlersOwnSockets
  <2> QED
    BY <1>16, <2>1 DEF ReplyArrives
<1>17. ASSUME NEW c \in Clients, ReplyDiscarded(c) PROVE RepliesCounted'
  <2>1. Conn(c) = c
    BY <1>17 DEF ReplyDiscarded, HandlersOwnSockets
  <2> QED
    BY <1>17, <2>1 DEF ReplyDiscarded
<1>18. ASSUME NEW c \in Clients, ReplyKills(c) PROVE RepliesCounted'
  <2>1. Conn(c) = c
    BY <1>18 DEF ReplyKills, HandlersOwnSockets
  <2> QED
    BY <1>18, <2>1 DEF ReplyKills
<1>19. ASSUME NEW c \in Clients, TakesLock(c, "gone", "report") PROVE RepliesCounted'
  BY <1>19 DEF TakesLock, Lock
<1>20. ASSUME NEW c \in Clients, Report(c) PROVE RepliesCounted'
  BY <1>20 DEF Report, Unlock
<1>21. ASSUME NEW c \in Clients, ReadTimesOut(c) PROVE RepliesCounted'
  BY <1>21 DEF ReadTimesOut
<1>22. ASSUME NEW c \in Clients, Connects(c) PROVE RepliesCounted'
  BY <1>22 DEF Connects
<1>23. ASSUME NEW c \in Clients, Sends(c) PROVE RepliesCounted'
  BY <1>23 DEF Sends
<1>24. ASSUME NEW c \in Clients, Leaves(c) PROVE RepliesCounted'
  BY <1>24 DEF Leaves
<1>25. ASSUME NEW c \in Clients, PrintOverruns(c) PROVE RepliesCounted'
  BY <1>25 DEF PrintOverruns
<1>26. ASSUME UNCHANGED vars PROVE RepliesCounted'
  BY <1>26 DEF vars
<1> QED
  BY <1>1, <1>2, <1>3, <1>4, <1>5, <1>6, <1>7, <1>8, <1>9, <1>10, <1>11,
     <1>12, <1>13, <1>14, <1>15, <1>16, <1>17, <1>18, <1>19, <1>20,
     <1>21, <1>22, <1>23, <1>24, <1>25, <1>26
  DEF Next, Main, HandleClient

\* A reply to a client that has left is one for bytes that it sent before, and
\* that no reply had covered when it left.
LEMMA PoliteStep ==
  TypeOK /\ HandlersOwnSockets /\ RepliesCounted /\ PoliteClientsHarmless /\ [Next]_vars => PoliteClientsHarmless'
<1> SUFFICES ASSUME TypeOK, HandlersOwnSockets, RepliesCounted, PoliteClientsHarmless, [Next]_vars
             PROVE  PoliteClientsHarmless'
  OBVIOUS
<1> USE DEF TypeOK, PoliteClientsHarmless, Running, Accepting, At, Accepted,
        socketVars, threadVars, streamVars
<1>1. ASSUME OpenSocket PROVE PoliteClientsHarmless'
  BY <1>1 DEF OpenSocket, StartUp, MainOnly
<1>2. ASSUME SetReuse PROVE PoliteClientsHarmless'
  BY <1>2 DEF SetReuse, StartUp, MainOnly
<1>3. ASSUME BindSocket PROVE PoliteClientsHarmless'
  BY <1>3 DEF BindSocket, StartUp, MainOnly
<1>4. ASSUME Listen PROVE PoliteClientsHarmless'
  BY <1>4 DEF Listen, StartUp, MainOnly
<1>5. ASSUME Accept PROVE PoliteClientsHarmless'
  BY <1>5 DEF Accept, MainOnly
<1>6. ASSUME MainLock PROVE PoliteClientsHarmless'
  BY <1>6 DEF MainLock, MainOnly, Lock
<1>7. ASSUME MainPrint PROVE PoliteClientsHarmless'
  BY <1>7 DEF MainPrint, MainOnly, Unlock
<1>8. ASSUME Spawn PROVE PoliteClientsHarmless'
  BY <1>8 DEF Spawn
<1>9. ASSUME SpawnFails PROVE PoliteClientsHarmless'
  BY <1>9 DEF SpawnFails, MainOnly
<1>10. ASSUME NEW c \in Clients, TakesLock(c, "start", "greet") PROVE PoliteClientsHarmless'
  BY <1>10 DEF TakesLock, Lock
<1>11. ASSUME NEW c \in Clients, Greet(c) PROVE PoliteClientsHarmless'
  BY <1>11 DEF Greet, Unlock
<1>12. ASSUME NEW c \in Clients, ReadBytes(c) PROVE PoliteClientsHarmless'
  <2>1. Conn(c) = c
    BY <1>12 DEF ReadBytes, HandlersOwnSockets
  <2> QED
    BY <1>12, <2>1 DEF ReadBytes
<1>13. ASSUME NEW c \in Clients, ReadEnds(c) PROVE PoliteClientsHarmless'
  BY <1>13 DEF ReadEnds
<1>14. ASSUME NEW c \in Clients, TakesLock(c, "lock", "print") PROVE PoliteClientsHarmless'
  BY <1>14 DEF TakesLock, Lock
<1>15. ASSUME NEW c \in Clients, PrintReceived(c) PROVE PoliteClientsHarmless'
  BY <1>15 DEF PrintReceived, Unlock
<1>16. ASSUME NEW c \in Clients, ReplyArrives(c) PROVE PoliteClientsHarmless'
  <2>1. Conn(c) = c
    BY <1>16 DEF ReplyArrives, HandlersOwnSockets
  <2> QED
    BY <1>16, <2>1 DEF ReplyArrives
<1>17. ASSUME NEW c \in Clients, ReplyDiscarded(c) PROVE PoliteClientsHarmless'
  <2>1. Conn(c) = c
    BY <1>17 DEF ReplyDiscarded, HandlersOwnSockets
  <2> QED
    BY <1>17, <2>1 DEF ReplyDiscarded
<1>18. ASSUME NEW c \in Clients, ReplyKills(c) PROVE PoliteClientsHarmless'
  <2>1. Conn(c) = c
    BY <1>18 DEF ReplyKills, HandlersOwnSockets
  <2>2. peer[c] = "reset" /\ handler[c] = "reply"
    BY <1>18, <2>1 DEF ReplyKills
  <2>3. /\ answered[c] < read[c] /\ read[c] <= sent[c]
        /\ unanswered[c] = sent[c] - answered[c]
    BY <2>2 DEF RepliesCounted
  <2>4. unanswered[c] > 0
    BY <2>3
  <2> QED
    BY <1>18, <2>2, <2>4 DEF ReplyKills
<1>19. ASSUME NEW c \in Clients, TakesLock(c, "gone", "report") PROVE PoliteClientsHarmless'
  BY <1>19 DEF TakesLock, Lock
<1>20. ASSUME NEW c \in Clients, Report(c) PROVE PoliteClientsHarmless'
  BY <1>20 DEF Report, Unlock
<1>21. ASSUME NEW c \in Clients, ReadTimesOut(c) PROVE PoliteClientsHarmless'
  BY <1>21 DEF ReadTimesOut
<1>22. ASSUME NEW c \in Clients, Connects(c) PROVE PoliteClientsHarmless'
  BY <1>22 DEF Connects
<1>23. ASSUME NEW c \in Clients, Sends(c) PROVE PoliteClientsHarmless'
  BY <1>23 DEF Sends
<1>24. ASSUME NEW c \in Clients, Leaves(c) PROVE PoliteClientsHarmless'
  BY <1>24 DEF Leaves
<1>25. ASSUME NEW c \in Clients, PrintOverruns(c) PROVE PoliteClientsHarmless'
  BY <1>25 DEF PrintOverruns
<1>26. ASSUME UNCHANGED vars PROVE PoliteClientsHarmless'
  BY <1>26 DEF vars
<1> QED
  BY <1>1, <1>2, <1>3, <1>4, <1>5, <1>6, <1>7, <1>8, <1>9, <1>10, <1>11,
     <1>12, <1>13, <1>14, <1>15, <1>16, <1>17, <1>18, <1>19, <1>20,
     <1>21, <1>22, <1>23, <1>24, <1>25, <1>26
  DEF Next, Main, HandleClient

-----------------------------------------------------------------------------
(* The invariant *)

\* The invariant holds when main starts.
LEMMA InitIInv == Init => IInv
<1> SUFFICES ASSUME Init PROVE IInv
  OBVIOUS
<1>1. Unset \in Descriptors
  BY DescriptorsAssumption DEF Unset
<1>2. <<>> \in Seq(Clients)
  BY EmptySeq
<1>3. \A c \in Clients : MaxBytes[c] \in Nat
  BY BytesAssumption
<1>4. /\ sent \in [Clients -> Nat] /\ read \in [Clients -> Nat]
      /\ answered \in [Clients -> Nat] /\ unanswered \in [Clients -> Nat]
      /\ filled \in [Clients -> BOOLEAN]
  BY DEF Init
<1>5. \A c \in Clients : answered[c] <= read[c] /\ read[c] <= sent[c]
                       /\ sent[c] <= MaxBytes[c]
  <2> TAKE c \in Clients
  <2>1. answered[c] = 0 /\ read[c] = 0 /\ sent[c] = 0
    BY DEF Init
  <2> QED
    BY <1>3, <2>1
<1>6. /\ table \in [Descriptors -> Clients \cup {NoClient}]
      /\ fd \in [Clients -> Descriptors]
  BY <1>1 DEF Init
<1>7. /\ handler \in [Clients -> InSession \cup {"none", "gone", "report", "keep"}]
      /\ peer \in [Clients -> {"away", "connected", "left", "reset"}]
  BY DEF Init
<1>8. TypeOK
  BY <1>1, <1>2, <1>4, <1>5, <1>6, <1>7 DEF Init, TypeOK
<1>9. HandlersOwnSockets /\ RepliesCounted /\ PoliteClientsHarmless
  BY DEF Init, HandlersOwnSockets, RepliesCounted, PoliteClientsHarmless
<1> QED
  BY <1>8, <1>9 DEF IInv

\* The inductive invariant of the server, whatever the clients do.
THEOREM SpecIInv == Spec => []IInv
<1>1. IInv /\ [Next]_vars => IInv'
  BY TypeStep, OwnStep, RepliesStep, PoliteStep DEF IInv
<1> QED
  BY <1>1, InitIInv, PTL DEF Spec

\* The types of the server's state; no reply covers more than was read, and no
\* read returns more than was sent.
THEOREM SpecTypeOK == Spec => []TypeOK
<1>1. IInv => TypeOK
  BY DEF IInv
<1> QED
  BY <1>1, SpecIInv, PTL

\* A thread serves the client it was started for, as long as it lives, for any
\* number of clients and descriptors.
THEOREM SpecHandlersOwnSockets == Spec => []HandlersOwnSockets
<1>1. IInv => HandlersOwnSockets
  BY DEF IInv
<1> QED
  BY <1>1, SpecIInv, PTL

\* SIGPIPE takes a client that left before all it had sent was answered, in
\* whatever pieces the stream is read.
THEOREM SpecPoliteClientsHarmless == Spec => []PoliteClientsHarmless
<1>1. IInv => PoliteClientsHarmless
  BY DEF IInv
<1> QED
  BY <1>1, SpecIInv, PTL

=============================================================================
