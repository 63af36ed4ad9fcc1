------------------------- MODULE WebSocketHubProofs -------------------------
(***************************************************************************)
(* Proofs about WebSocketHub: its types, that no goroutine uses a closed    *)
(* channel, that PAUSE lets at most one gated message through, and that the *)
(* first message of a connection finds room, for any number of browsers and *)
(* any channel capacities.                                                  *)
(***************************************************************************)
EXTENDS WebSocketHub, SequenceTheorems, TLAPS

USE HubAssumption

\* A message added to a channel with room keeps it within its capacity.
LEMMA SendTypes ==
  ASSUME TypeOK, NEW c \in Client, NEW kind \in Kind, ~Full(c), Enqueue(c, kind)
  PROVE  /\ send' \in [Client -> Seq(Kind)]
         /\ \A d \in Client : Len(send'[d]) <= SendCap
         /\ panic' \in BOOLEAN
  <1>1. Append(send[c], kind) \in Seq(Kind) /\ Len(Append(send[c], kind)) = Len(send[c]) + 1
    BY DEF TypeOK
  <1>2. Len(send[c]) < SendCap
    BY DEF Full, TypeOK
  <1>3. send' = [send EXCEPT ![c] = Append(send[c], kind)]
    BY DEF Enqueue
  <1>4. \A d \in Client : Len(send'[d]) <= SendCap
    BY <1>1, <1>2, <1>3 DEF TypeOK
  <1>5. send' \in [Client -> Seq(Kind)]
    BY <1>1, <1>3 DEF TypeOK
  <1>6. panic' \in BOOLEAN
    BY DEF Enqueue, TypeOK
  <1> QED
    BY <1>4, <1>5, <1>6

\* Reporting an error never overfills the channel.
LEMMA ErrorTypes ==
  ASSUME TypeOK, NEW c \in Client, SendError(c)
  PROVE  /\ send' \in [Client -> Seq(Kind)]
         /\ \A d \in Client : Len(send'[d]) <= SendCap
         /\ panic' \in BOOLEAN
  <1>1. CASE Full(c)
    BY <1>1 DEF SendError, TypeOK
  <1>2. CASE ~Full(c)
    BY <1>2, SendTypes DEF SendError, Kind
  <1> QED
    BY <1>1, <1>2

\* Every variable of the hub keeps its type, and no channel ever holds more
\* than its capacity (hub.go, client.go).
THEOREM HubTypes == Spec => []TypeOK
  <1>1. Init => TypeOK
    <2>1. << >> \in Seq(Client) /\ << >> \in Seq(Kind) /\ Len(<< >>) = 0
      OBVIOUS
    <2> SUFFICES ASSUME Init PROVE TypeOK
      OBVIOUS
    <2>2. broadcast \in Seq(Client) /\ Len(broadcast) <= BroadcastCap
      BY <2>1 DEF Init
    <2>3. send \in [Client -> Seq(Kind)] /\ \A c \in Client : Len(send[c]) <= SendCap
      BY <2>1 DEF Init
    <2> QED
      BY <2>2, <2>3 DEF Init, TypeOK, Kind
  <1>2. TypeOK /\ [Next]_vars => TypeOK'
    <2> SUFFICES ASSUME TypeOK, [Next]_vars PROVE TypeOK'
      OBVIOUS
    <2>1. ASSUME NEW c \in Client, Connect(c) PROVE TypeOK'
      BY <2>1 DEF Connect, TypeOK, Kind
    <2>2. ASSUME NEW c \in Client, StartPumps(c) PROVE TypeOK'
      BY <2>2 DEF StartPumps, Enqueue, Full, TypeOK, Kind
    <2>3. ASSUME NEW c \in Client, CallReturns(c) PROVE TypeOK'
      <3>1. CASE SendError(c)
        BY <2>3, <3>1, ErrorTypes DEF CallReturns, TypeOK
      <3>2. CASE UNCHANGED <<send, panic>>
        BY <2>3, <3>2 DEF CallReturns, TypeOK
      <3> QED
        BY <2>3, <3>1, <3>2 DEF CallReturns
    <2>4. ASSUME NEW c \in Client, QueryReturns(c) PROVE TypeOK'
      <3>1. CASE SendError(c)
        BY <2>4, <3>1, ErrorTypes DEF QueryReturns, TypeOK
      <3>2. CASE UNCHANGED <<send, panic>>
        BY <2>4, <3>2 DEF QueryReturns, TypeOK
      <3> QED
        BY <2>4, <3>1, <3>2 DEF QueryReturns
    <2>5. ASSUME NEW c \in Client, Reply(c) PROVE TypeOK'
      BY <2>5 DEF Reply, Enqueue, Full, TypeOK, Kind
    <2>6. ASSUME NEW c \in Client, ReadFails(c) PROVE TypeOK'
      BY <2>6 DEF ReadFails, AfterReadError, TypeOK, Kind
    <2>7. ASSUME NEW c \in Client, ReaderCloses(c) PROVE TypeOK'
      BY <2>7 DEF ReaderCloses, TypeOK, Kind
    <2>8. ASSUME NEW c \in Client, ReadPlay(c) PROVE TypeOK'
      BY <2>8 DEF ReadPlay, TypeOK, Kind
    <2>9. ASSUME NEW c \in Client, ReadPause(c) PROVE TypeOK'
      BY <2>9 DEF ReadPause, TypeOK, Kind
    <2>10. ASSUME NEW c \in Client, ReadInvalid(c) PROVE TypeOK'
      <3>1. CASE SendError(c)
        BY <2>10, <3>1, ErrorTypes DEF ReadInvalid, TypeOK
      <3>2. CASE UNCHANGED <<send, panic>>
        BY <2>10, <3>2 DEF ReadInvalid, TypeOK
      <3> QED
        BY <2>10, <3>1, <3>2 DEF ReadInvalid
    <2>11. ASSUME NEW c \in Client, ReadQuery(c) PROVE TypeOK'
      BY <2>11 DEF ReadQuery, TypeOK, Kind
    <2>12. ASSUME NEW c \in Client, Take(c) PROVE TypeOK'
      BY <2>12 DEF Take, TypeOK, Kind
    <2>13. ASSUME NEW c \in Client, Gate(c) PROVE TypeOK'
      BY <2>13 DEF Gate, TypeOK, Kind
    <2>14. ASSUME NEW c \in Client, Write(c) PROVE TypeOK'
      BY <2>14 DEF Write, TypeOK, Kind
    <2>15. ASSUME NEW c \in Client, WriteFails(c) PROVE TypeOK'
      BY <2>15 DEF WriteFails, WriterReturns, TypeOK, Kind
    <2>16. ASSUME NEW c \in Client, PingFails(c) PROVE TypeOK'
      BY <2>16 DEF PingFails, WriterReturns, TypeOK, Kind
    <2>17. ASSUME NEW c \in Client, SendIsClosed(c) PROVE TypeOK'
      BY <2>17 DEF SendIsClosed, WriterReturns, TypeOK, Kind
    <2>18. ASSUME NEW c \in Client, HubRegisters(c) PROVE TypeOK'
      BY <2>18 DEF HubRegisters, TypeOK, Kind
    <2>19. ASSUME NEW c \in Client, HubUnregisters(c) PROVE TypeOK'
      BY <2>19 DEF HubUnregisters, TypeOK, Kind
    <2>20. ASSUME NEW c \in Client, ConnectionLost(c) PROVE TypeOK'
      BY <2>20 DEF ConnectionLost, TypeOK, Kind
    <2>21. CASE HubDispatches
      BY <2>21 DEF HubDispatches, Receivers, Evicted, Full, HubReady, TypeOK, Kind
    <2>22. CASE StreamRecv
      BY <2>22 DEF StreamRecv, TypeOK, Kind
    <2>23. CASE StreamBroadcast
      BY <2>23 DEF StreamBroadcast, TypeOK, Kind
    <2>24. CASE UNCHANGED vars
      BY <2>24 DEF vars, TypeOK
    <2> QED
      BY <2>1, <2>2, <2>3, <2>4, <2>5, <2>6, <2>7, <2>8, <2>9, <2>10, <2>11, <2>12, <2>13, <2>14, <2>15, <2>16, <2>17, <2>18, <2>19, <2>20, <2>21, <2>22, <2>23, <2>24
      DEF Next, ReaderNext, Command, WriterNext
  <1> QED
    BY <1>1, <1>2, PTL DEF Spec

-----------------------------------------------------------------------------
(* The life of a Send channel: it is closed by the hub, which forgets the   *)
(* client in the same step, only once ReadPump has left its loop.           *)

ClosedIsForgotten ==
  \A c \in Client :
    sendClosed[c] => c \notin registered /\ reader[c] \in {"close", "done"}

RegisteredIsServed ==
  \A c \in Client :
    c \in registered => reader[c] \notin {"none", "register", "close", "done"}

ChannelInv == ClosedIsForgotten /\ RegisteredIsServed /\ NoPanic

\* No step sends on or closes a closed channel (hub.go:47-49, 92; client.go:91,
\* 284, 329, 430, 607).
THEOREM NothingPanics == Spec => []NoPanic
  <1>1. Init => ChannelInv
    BY DEF Init, ChannelInv, ClosedIsForgotten, RegisteredIsServed, NoPanic, TypeOK, Kind
  <1>2. TypeOK /\ ChannelInv /\ [Next]_vars => ChannelInv'
    <2> SUFFICES ASSUME TypeOK /\ ChannelInv, [Next]_vars PROVE ChannelInv'
      OBVIOUS
    <2>1. ASSUME NEW c \in Client, Connect(c) PROVE ChannelInv'
      BY <2>1 DEF Connect, ChannelInv, ClosedIsForgotten, RegisteredIsServed, NoPanic, TypeOK, Kind
    <2>2. ASSUME NEW c \in Client, StartPumps(c) PROVE ChannelInv'
      BY <2>2 DEF StartPumps, Enqueue, Full, ChannelInv, ClosedIsForgotten, RegisteredIsServed, NoPanic, TypeOK, Kind
    <2>3. ASSUME NEW c \in Client, CallReturns(c) PROVE ChannelInv'
      <3>1. ~sendClosed[c]
        BY <2>3 DEF CallReturns, ChannelInv, ClosedIsForgotten
      <3>2. ~panic'
        BY <2>3, <3>1 DEF CallReturns, SendError, Enqueue, ChannelInv, NoPanic
      <3> QED
        BY <2>3, <3>2 DEF CallReturns, ChannelInv, ClosedIsForgotten, RegisteredIsServed, NoPanic, TypeOK
    <2>4. ASSUME NEW c \in Client, QueryReturns(c) PROVE ChannelInv'
      <3>1. ~sendClosed[c]
        BY <2>4 DEF QueryReturns, ChannelInv, ClosedIsForgotten
      <3>2. ~panic'
        BY <2>4, <3>1 DEF QueryReturns, SendError, Enqueue, ChannelInv, NoPanic
      <3> QED
        BY <2>4, <3>2 DEF QueryReturns, ChannelInv, ClosedIsForgotten, RegisteredIsServed, NoPanic, TypeOK
    <2>5. ASSUME NEW c \in Client, Reply(c) PROVE ChannelInv'
      BY <2>5 DEF Reply, Enqueue, Full, ChannelInv, ClosedIsForgotten, RegisteredIsServed, NoPanic, TypeOK, Kind
    <2>6. ASSUME NEW c \in Client, ReadFails(c) PROVE ChannelInv'
      BY <2>6 DEF ReadFails, AfterReadError, ChannelInv, ClosedIsForgotten, RegisteredIsServed, NoPanic, TypeOK, Kind
    <2>7. ASSUME NEW c \in Client, ReaderCloses(c) PROVE ChannelInv'
      BY <2>7 DEF ReaderCloses, ChannelInv, ClosedIsForgotten, RegisteredIsServed, NoPanic, TypeOK, Kind
    <2>8. ASSUME NEW c \in Client, ReadPlay(c) PROVE ChannelInv'
      BY <2>8 DEF ReadPlay, ChannelInv, ClosedIsForgotten, RegisteredIsServed, NoPanic, TypeOK, Kind
    <2>9. ASSUME NEW c \in Client, ReadPause(c) PROVE ChannelInv'
      BY <2>9 DEF ReadPause, ChannelInv, ClosedIsForgotten, RegisteredIsServed, NoPanic, TypeOK, Kind
    <2>10. ASSUME NEW c \in Client, ReadInvalid(c) PROVE ChannelInv'
      <3>1. ~sendClosed[c]
        BY <2>10 DEF ReadInvalid, ChannelInv, ClosedIsForgotten
      <3>2. ~panic'
        BY <2>10, <3>1 DEF ReadInvalid, SendError, Enqueue, ChannelInv, NoPanic
      <3> QED
        BY <2>10, <3>2 DEF ReadInvalid, ChannelInv, ClosedIsForgotten, RegisteredIsServed, NoPanic, TypeOK
    <2>11. ASSUME NEW c \in Client, ReadQuery(c) PROVE ChannelInv'
      BY <2>11 DEF ReadQuery, ChannelInv, ClosedIsForgotten, RegisteredIsServed, NoPanic, TypeOK, Kind
    <2>12. ASSUME NEW c \in Client, Take(c) PROVE ChannelInv'
      BY <2>12 DEF Take, ChannelInv, ClosedIsForgotten, RegisteredIsServed, NoPanic, TypeOK, Kind
    <2>13. ASSUME NEW c \in Client, Gate(c) PROVE ChannelInv'
      BY <2>13 DEF Gate, ChannelInv, ClosedIsForgotten, RegisteredIsServed, NoPanic, TypeOK, Kind
    <2>14. ASSUME NEW c \in Client, Write(c) PROVE ChannelInv'
      BY <2>14 DEF Write, ChannelInv, ClosedIsForgotten, RegisteredIsServed, NoPanic, TypeOK, Kind
    <2>15. ASSUME NEW c \in Client, WriteFails(c) PROVE ChannelInv'
      BY <2>15 DEF WriteFails, WriterReturns, ChannelInv, ClosedIsForgotten, RegisteredIsServed, NoPanic, TypeOK, Kind
    <2>16. ASSUME NEW c \in Client, PingFails(c) PROVE ChannelInv'
      BY <2>16 DEF PingFails, WriterReturns, ChannelInv, ClosedIsForgotten, RegisteredIsServed, NoPanic, TypeOK, Kind
    <2>17. ASSUME NEW c \in Client, SendIsClosed(c) PROVE ChannelInv'
      BY <2>17 DEF SendIsClosed, WriterReturns, ChannelInv, ClosedIsForgotten, RegisteredIsServed, NoPanic, TypeOK, Kind
    <2>18. ASSUME NEW c \in Client, HubRegisters(c) PROVE ChannelInv'
      BY <2>18 DEF HubRegisters, ChannelInv, ClosedIsForgotten, RegisteredIsServed, NoPanic, TypeOK, Kind
    <2>19. ASSUME NEW c \in Client, HubUnregisters(c) PROVE ChannelInv'
      BY <2>19 DEF HubUnregisters, ChannelInv, ClosedIsForgotten, RegisteredIsServed, NoPanic, TypeOK, Kind
    <2>20. ASSUME NEW c \in Client, ConnectionLost(c) PROVE ChannelInv'
      BY <2>20 DEF ConnectionLost, ChannelInv, ClosedIsForgotten, RegisteredIsServed, NoPanic, TypeOK, Kind
    <2>21. CASE HubDispatches
      BY <2>21 DEF HubDispatches, Receivers, Evicted, Full, HubReady, ChannelInv, ClosedIsForgotten, RegisteredIsServed, NoPanic, TypeOK, Kind
    <2>22. CASE StreamRecv
      BY <2>22 DEF StreamRecv, ChannelInv, ClosedIsForgotten, RegisteredIsServed, NoPanic, TypeOK, Kind
    <2>23. CASE StreamBroadcast
      BY <2>23 DEF StreamBroadcast, ChannelInv, ClosedIsForgotten, RegisteredIsServed, NoPanic, TypeOK, Kind
    <2>24. CASE UNCHANGED vars
      BY <2>24 DEF vars, ChannelInv, ClosedIsForgotten, RegisteredIsServed, NoPanic, TypeOK
    <2> QED
      BY <2>1, <2>2, <2>3, <2>4, <2>5, <2>6, <2>7, <2>8, <2>9, <2>10, <2>11, <2>12, <2>13, <2>14, <2>15, <2>16, <2>17, <2>18, <2>19, <2>20, <2>21, <2>22, <2>23, <2>24
      DEF Next, ReaderNext, Command, WriterNext
  <1>3. ChannelInv => NoPanic
    BY DEF ChannelInv
  <1> QED
    BY <1>1, <1>2, <1>3, HubTypes, PTL DEF Spec

-----------------------------------------------------------------------------
(* The pause gate: nothing has gone out since before the pause, and the     *)
(* message WritePump may still write is the only one.                       *)

GateInv ==
  \A c \in Client :
    /\ ~isPaused[c] => pastGate[c] = 0
    /\ pastGate[c] <= 1
    /\ isPaused[c] /\ writer[c] = "write" /\ message[c] = "GATED" => pastGate[c] = 0

\* At most one gated message follows a PAUSE (client.go:100, 523-540).
THEOREM PauseGate == Spec => []OneMessagePastGate
  <1>1. Init => GateInv
    <2>1. Init => \A c \in Client : pastGate[c] = 0
      BY DEF Init
    <2>2. 0 <= 1
      OBVIOUS
    <2>3. (\A c \in Client : pastGate[c] = 0) => GateInv
      BY <2>2, Zenon DEF GateInv
    <2> QED
      BY <2>1, <2>3
  <1>2. TypeOK /\ GateInv /\ [Next]_vars => GateInv'
    <2> SUFFICES ASSUME TypeOK /\ GateInv, [Next]_vars PROVE GateInv'
      OBVIOUS
    <2>1. ASSUME NEW c \in Client, Connect(c) PROVE GateInv'
      BY <2>1 DEF Connect, GateInv, TypeOK, Kind
    <2>2. ASSUME NEW c \in Client, StartPumps(c) PROVE GateInv'
      BY <2>2 DEF StartPumps, Enqueue, Full, GateInv, TypeOK, Kind
    <2>3. ASSUME NEW c \in Client, CallReturns(c) PROVE GateInv'
      BY <2>3 DEF CallReturns, SendError, Enqueue, Full, GateInv, TypeOK, Kind
    <2>4. ASSUME NEW c \in Client, QueryReturns(c) PROVE GateInv'
      BY <2>4 DEF QueryReturns, SendError, Enqueue, Full, GateInv, TypeOK, Kind
    <2>5. ASSUME NEW c \in Client, Reply(c) PROVE GateInv'
      BY <2>5 DEF Reply, Enqueue, Full, GateInv, TypeOK, Kind
    <2>6. ASSUME NEW c \in Client, ReadFails(c) PROVE GateInv'
      BY <2>6 DEF ReadFails, AfterReadError, GateInv, TypeOK, Kind
    <2>7. ASSUME NEW c \in Client, ReaderCloses(c) PROVE GateInv'
      BY <2>7 DEF ReaderCloses, GateInv, TypeOK, Kind
    <2>8. ASSUME NEW c \in Client, ReadPlay(c) PROVE GateInv'
      BY <2>8 DEF ReadPlay, GateInv, TypeOK, Kind
    <2>9. ASSUME NEW c \in Client, ReadPause(c) PROVE GateInv'
      BY <2>9 DEF ReadPause, GateInv, TypeOK, Kind
    <2>10. ASSUME NEW c \in Client, ReadInvalid(c) PROVE GateInv'
      BY <2>10 DEF ReadInvalid, SendError, Enqueue, Full, GateInv, TypeOK, Kind
    <2>11. ASSUME NEW c \in Client, ReadQuery(c) PROVE GateInv'
      BY <2>11 DEF ReadQuery, GateInv, TypeOK, Kind
    <2>12. ASSUME NEW c \in Client, Take(c) PROVE GateInv'
      BY <2>12 DEF Take, GateInv, TypeOK, Kind
    <2>13. ASSUME NEW c \in Client, Gate(c) PROVE GateInv'
      BY <2>13 DEF Gate, Passes, GateInv, TypeOK, Kind
    <2>14. ASSUME NEW c \in Client, Write(c) PROVE GateInv'
      BY <2>14 DEF Write, GateInv, TypeOK, Kind
    <2>15. ASSUME NEW c \in Client, WriteFails(c) PROVE GateInv'
      BY <2>15 DEF WriteFails, WriterReturns, GateInv, TypeOK, Kind
    <2>16. ASSUME NEW c \in Client, PingFails(c) PROVE GateInv'
      BY <2>16 DEF PingFails, WriterReturns, GateInv, TypeOK, Kind
    <2>17. ASSUME NEW c \in Client, SendIsClosed(c) PROVE GateInv'
      BY <2>17 DEF SendIsClosed, WriterReturns, GateInv, TypeOK, Kind
    <2>18. ASSUME NEW c \in Client, HubRegisters(c) PROVE GateInv'
      BY <2>18 DEF HubRegisters, GateInv, TypeOK, Kind
    <2>19. ASSUME NEW c \in Client, HubUnregisters(c) PROVE GateInv'
      BY <2>19 DEF HubUnregisters, GateInv, TypeOK, Kind
    <2>20. ASSUME NEW c \in Client, ConnectionLost(c) PROVE GateInv'
      BY <2>20 DEF ConnectionLost, GateInv, TypeOK, Kind
    <2>21. CASE HubDispatches
      BY <2>21 DEF HubDispatches, Receivers, Evicted, Full, HubReady, GateInv, TypeOK, Kind
    <2>22. CASE StreamRecv
      BY <2>22 DEF StreamRecv, GateInv, TypeOK, Kind
    <2>23. CASE StreamBroadcast
      BY <2>23 DEF StreamBroadcast, GateInv, TypeOK, Kind
    <2>24. CASE UNCHANGED vars
      BY <2>24 DEF vars, GateInv, TypeOK
    <2> QED
      BY <2>1, <2>2, <2>3, <2>4, <2>5, <2>6, <2>7, <2>8, <2>9, <2>10, <2>11, <2>12, <2>13, <2>14, <2>15, <2>16, <2>17, <2>18, <2>19, <2>20, <2>21, <2>22, <2>23, <2>24
      DEF Next, ReaderNext, Command, WriterNext
  <1>3. GateInv => OneMessagePastGate
    BY DEF GateInv, OneMessagePastGate
  <1> QED
    BY <1>1, <1>2, <1>3, HubTypes, PTL DEF Spec
-----------------------------------------------------------------------------
(* Frames exist only for clients that were played, and a client is played   *)
(* by a ReadPump that runs, after the first message.                        *)

NoFrameOf(c) ==
  /\ ~played[c]
  /\ inHand # c
  /\ \A i \in 1 .. Len(broadcast) : broadcast[i] # c

FirstInv ==
  \A c \in Client :
    /\ reader[c] \in {"none", "register", "init"} => send[c] = << >> /\ NoFrameOf(c)
    /\ \A i \in 1 .. Len(broadcast) : broadcast[i] = c => played[c]
    /\ inHand = c => played[c]

\* The first message of a connection finds an empty channel (client.go:601-607),
\* so ServeWs never waits for room in it.
THEOREM FirstMessage == Spec => []FirstMessageHasRoom
  <1>1. Init => FirstInv
    <2> SUFFICES ASSUME Init, NEW c \in Client
                 PROVE  send[c] = << >> /\ ~played[c] /\ inHand # c /\ 1 .. Len(broadcast) = {}
      BY DEF FirstInv, NoFrameOf
    <2>1. Len(<< >>) = 0 /\ 1 .. 0 = {}
      OBVIOUS
    <2> QED
      BY <2>1 DEF Init
  <1>2. TypeOK /\ FirstInv /\ [Next]_vars => FirstInv'
    <2> SUFFICES ASSUME TypeOK /\ FirstInv, [Next]_vars PROVE FirstInv'
      OBVIOUS
    <2>1. ASSUME NEW c \in Client, Connect(c) PROVE FirstInv'
      BY <2>1 DEF Connect, FirstInv, NoFrameOf, TypeOK
    <2>2. ASSUME NEW c \in Client, StartPumps(c) PROVE FirstInv'
      BY <2>2 DEF StartPumps, Enqueue, FirstInv, NoFrameOf, TypeOK
    <2>3. ASSUME NEW c \in Client, CallReturns(c) PROVE FirstInv'
      BY <2>3 DEF CallReturns, SendError, Enqueue, FirstInv, NoFrameOf, TypeOK
    <2>4. ASSUME NEW c \in Client, QueryReturns(c) PROVE FirstInv'
      BY <2>4 DEF QueryReturns, SendError, Enqueue, FirstInv, NoFrameOf, TypeOK
    <2>5. ASSUME NEW c \in Client, Reply(c) PROVE FirstInv'
      BY <2>5 DEF Reply, Enqueue, FirstInv, NoFrameOf, TypeOK
    <2>6. ASSUME NEW c \in Client, ReadFails(c) PROVE FirstInv'
      BY <2>6 DEF ReadFails, AfterReadError, FirstInv, NoFrameOf, TypeOK
    <2>7. ASSUME NEW c \in Client, ReaderCloses(c) PROVE FirstInv'
      BY <2>7 DEF ReaderCloses, FirstInv, NoFrameOf, TypeOK
    <2>8. ASSUME NEW c \in Client, ReadPlay(c) PROVE FirstInv'
      BY <2>8 DEF ReadPlay, FirstInv, NoFrameOf, TypeOK
    <2>9. ASSUME NEW c \in Client, ReadPause(c) PROVE FirstInv'
      BY <2>9 DEF ReadPause, FirstInv, NoFrameOf, TypeOK
    <2>10. ASSUME NEW c \in Client, ReadInvalid(c) PROVE FirstInv'
      BY <2>10 DEF ReadInvalid, SendError, Enqueue, FirstInv, NoFrameOf, TypeOK
    <2>11. ASSUME NEW c \in Client, ReadQuery(c) PROVE FirstInv'
      BY <2>11 DEF ReadQuery, FirstInv, NoFrameOf, TypeOK
    <2>12. ASSUME NEW c \in Client, Take(c) PROVE FirstInv'
      BY <2>12 DEF Take, FirstInv, NoFrameOf, TypeOK
    <2>13. ASSUME NEW c \in Client, Gate(c) PROVE FirstInv'
      BY <2>13 DEF Gate, FirstInv, NoFrameOf, TypeOK
    <2>14. ASSUME NEW c \in Client, Write(c) PROVE FirstInv'
      BY <2>14 DEF Write, FirstInv, NoFrameOf, TypeOK
    <2>15. ASSUME NEW c \in Client, WriteFails(c) PROVE FirstInv'
      BY <2>15 DEF WriteFails, WriterReturns, FirstInv, NoFrameOf, TypeOK
    <2>16. ASSUME NEW c \in Client, PingFails(c) PROVE FirstInv'
      BY <2>16 DEF PingFails, WriterReturns, FirstInv, NoFrameOf, TypeOK
    <2>17. ASSUME NEW c \in Client, SendIsClosed(c) PROVE FirstInv'
      BY <2>17 DEF SendIsClosed, WriterReturns, FirstInv, NoFrameOf, TypeOK
    <2>18. ASSUME NEW c \in Client, HubRegisters(c) PROVE FirstInv'
      BY <2>18 DEF HubRegisters, FirstInv, NoFrameOf, TypeOK
    <2>19. ASSUME NEW c \in Client, HubUnregisters(c) PROVE FirstInv'
      BY <2>19 DEF HubUnregisters, FirstInv, NoFrameOf, TypeOK
    <2>20. ASSUME NEW c \in Client, ConnectionLost(c) PROVE FirstInv'
      BY <2>20 DEF ConnectionLost, FirstInv, NoFrameOf, TypeOK
    <2>21. CASE HubDispatches
      <3>1. \A i \in 1 .. Len(broadcast') : i + 1 \in 1 .. Len(broadcast)
                                           /\ broadcast'[i] = broadcast[i + 1]
        BY <2>21 DEF HubDispatches, TypeOK
      <3>2. 1 \in 1 .. Len(broadcast) /\ Head(broadcast) = broadcast[1]
        BY <2>21 DEF HubDispatches, TypeOK
      <3>3. \A c \in Client : NoFrameOf(c) => send'[c] = send[c]
        BY <2>21, <3>2 DEF HubDispatches, Receivers, NoFrameOf
      <3>4. UNCHANGED <<reader, played, inHand>>
        BY <2>21 DEF HubDispatches
      <3>5. \A c \in Client : NoFrameOf(c) => NoFrameOf(c)'
        BY <3>1, <3>4 DEF NoFrameOf
      <3>6. \A c \in Client : \A i \in 1 .. Len(broadcast') :
              broadcast'[i] = c => played'[c]
        BY <3>1, <3>4 DEF FirstInv
      <3>7. \A c \in Client : reader'[c] \in {"none", "register", "init"} =>
              send'[c] = << >> /\ NoFrameOf(c)'
        BY <3>3, <3>4, <3>5 DEF FirstInv
      <3>8. \A c \in Client : inHand' = c => played'[c]
        BY <3>4 DEF FirstInv
      <3> QED
        BY <3>6, <3>7, <3>8 DEF FirstInv, NoFrameOf
    <2>22. CASE StreamRecv
      BY <2>22 DEF StreamRecv, FirstInv, NoFrameOf, TypeOK
    <2>23. CASE StreamBroadcast
      <3>1. \A i \in 1 .. Len(broadcast') :
              \/ broadcast'[i] = inHand
              \/ i \in 1 .. Len(broadcast) /\ broadcast'[i] = broadcast[i]
        BY <2>23 DEF StreamBroadcast, TypeOK
      <3>2. inHand' \notin Client /\ UNCHANGED <<reader, played, send>>
        BY <2>23 DEF StreamBroadcast
      <3>3. \A c \in Client : NoFrameOf(c) => NoFrameOf(c)'
        BY <3>1, <3>2 DEF NoFrameOf
      <3> QED
        BY <3>1, <3>2, <3>3 DEF FirstInv, NoFrameOf
    <2>24. CASE UNCHANGED vars
      BY <2>24 DEF vars, FirstInv, NoFrameOf, TypeOK
    <2> QED
      BY <2>1, <2>2, <2>3, <2>4, <2>5, <2>6, <2>7, <2>8, <2>9, <2>10, <2>11, <2>12, <2>13, <2>14, <2>15, <2>16, <2>17, <2>18, <2>19, <2>20, <2>21, <2>22, <2>23, <2>24
      DEF Next, ReaderNext, Command, WriterNext
  <1>3. FirstInv => FirstMessageHasRoom
    BY DEF FirstInv, FirstMessageHasRoom
  <1> QED
    BY <1>1, <1>2, <1>3, HubTypes, PTL DEF Spec
=============================================================================
