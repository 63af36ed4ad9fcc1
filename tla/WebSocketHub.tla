---------------------------- MODULE WebSocketHub ----------------------------
(***************************************************************************)
(* The goroutines behind a browser connection in the Go server             *)
(* (server/internal/websocket): the hub's event loop (hub.go Run), and per *)
(* client its ReadPump and WritePump (client.go), together with the gRPC   *)
(* goroutine that feeds the hub (cmd/server/main.go StreamTelemetry).      *)
(*                                                                         *)
(* Every connection has a session of its own (ServeWs generates it), so a  *)
(* client is its session.  A message is "GATED" (LIVE, ERROR,              *)
(* SESSION_ESTABLISHED: dropped while paused) or a "REPLY" (HISTORY,       *)
(* LOADED_SCENE, SCENE_LIST).  Unbuffered channels are rendezvous: the     *)
(* step of the receiver.                                                   *)
(***************************************************************************)
EXTENDS Naturals, Sequences

CONSTANTS
  Client,        \* browser connections; each is made at most once
  NoClient,      \* "no frame in hand"
  SendCap,       \* capacity of Client.Send (1024)
  BroadcastCap,  \* capacity of Hub.Broadcast (100)
  Requests       \* what each browser sends: "QUERY" is a request that is answered
                 \* (LIST_SCENES, LOAD_SCENE, DELETE_SCENE, UPDATE_SCENE,
                 \* FETCH_HISTORY), "INVALID" one that is refused

ASSUME HubAssumption ==
  /\ NoClient \notin Client
  /\ SendCap \in Nat \ {0}
  /\ BroadcastCap \in Nat \ {0}

ASSUME RequestsAssumption ==
  Requests \in [Client -> SUBSET {"PLAY", "PAUSE", "INVALID", "QUERY"}]

VARIABLES
  conn,        \* the socket: "none", "open", "closed"
  registered,  \* h.clients
  broadcast,   \* h.Broadcast: the sessions of the frames waiting
  inHand,      \* the session of the frame the gRPC goroutine is sending to it
  send,        \* c.Send
  sendClosed,  \* whether c.Send has been closed
  reader,      \* program counter of ServeWs and then ReadPump
  writer,      \* program counter of WritePump
  message,     \* the message WritePump has in hand ("GATED" when it has none)
  isPaused,    \* c.isPaused
  played,      \* whether PLAY was ever sent to the engine for the session
  panic,       \* a send on, or a close of, a closed channel has happened
  pastGate     \* history: gated messages written since the client was paused

vars == <<conn, registered, broadcast, inHand, send, sendClosed, reader, writer,
          message, isPaused, played, panic, pastGate>>

Kind == {"GATED", "REPLY"}

TypeOK ==
  /\ conn \in [Client -> {"none", "open", "closed"}]
  /\ registered \subseteq Client
  /\ broadcast \in Seq(Client) /\ Len(broadcast) <= BroadcastCap
  /\ inHand \in Client \cup {NoClient}
  /\ send \in [Client -> Seq(Kind)]
  /\ \A c \in Client : Len(send[c]) <= SendCap
  /\ sendClosed \in [Client -> BOOLEAN]
  /\ reader \in [Client -> {"none", "register", "init", "read", "call", "query",
                            "reply", "unregister", "close", "done"}]
  /\ writer \in [Client -> {"none", "select", "gate", "write", "done"}]
  /\ message \in [Client -> Kind]
  /\ isPaused \in [Client -> BOOLEAN]
  /\ played \in [Client -> BOOLEAN]
  /\ panic \in BOOLEAN
  /\ pastGate \in [Client -> Nat]

Init ==
  /\ conn = [c \in Client |-> "none"]
  /\ registered = {}
  /\ broadcast = << >>
  /\ inHand = NoClient
  /\ send = [c \in Client |-> << >>]
  /\ sendClosed = [c \in Client |-> FALSE]
  /\ reader = [c \in Client |-> "none"]
  /\ writer = [c \in Client |-> "none"]
  /\ message = [c \in Client |-> "GATED"]
  /\ isPaused = [c \in Client |-> FALSE]
  /\ played = [c \in Client |-> FALSE]
  /\ panic = FALSE
  /\ pastGate = [c \in Client |-> 0]

-----------------------------------------------------------------------------
(* Sending on c.Send; a send on a closed channel panics. *)

\* Mutant of Full: one message too many.
FullLate(c) == Len(send[c]) > SendCap

Full(c) == Len(send[c]) >= SendCap

Enqueue(c, kind) ==
  /\ send' = [send EXCEPT ![c] = Append(@, kind)]
  /\ panic' = (panic \/ sendClosed[c])

\* SendError: dropped when the channel is full.
SendError(c) ==
  IF Full(c) THEN panic' = (panic \/ sendClosed[c]) /\ UNCHANGED send
             ELSE Enqueue(c, "GATED")

-----------------------------------------------------------------------------
(* ServeWs *)

Connect(c) ==
  /\ reader[c] = "none"
  /\ conn' = [conn EXCEPT ![c] = "open"]
  /\ reader' = [reader EXCEPT ![c] = "register"]
  /\ UNCHANGED <<registered, broadcast, inHand, send, sendClosed, writer, message,
                 isPaused, played, panic, pastGate>>

\* SESSION_ESTABLISHED is queued, then both pumps start.
StartPumps(c) ==
  /\ reader[c] = "init"
  /\ ~Full(c)
  /\ Enqueue(c, "GATED")
  /\ reader' = [reader EXCEPT ![c] = "read"]
  /\ writer' = [writer EXCEPT ![c] = "select"]
  /\ UNCHANGED <<conn, registered, broadcast, inHand, sendClosed, message,
                 isPaused, played, pastGate>>

-----------------------------------------------------------------------------
(* ReadPump *)

ReadPlay(c) ==
  /\ "PLAY" \in Requests[c]
  /\ reader[c] = "read" /\ conn[c] = "open"
  /\ isPaused' = [isPaused EXCEPT ![c] = FALSE]
  /\ played' = [played EXCEPT ![c] = TRUE]
  /\ pastGate' = [pastGate EXCEPT ![c] = 0]
  /\ reader' = [reader EXCEPT ![c] = "call"]
  /\ UNCHANGED <<conn, registered, broadcast, inHand, send, sendClosed, writer,
                 message, panic>>

ReadPause(c) ==
  /\ "PAUSE" \in Requests[c]
  /\ reader[c] = "read" /\ conn[c] = "open"
  /\ isPaused' = [isPaused EXCEPT ![c] = TRUE]
  /\ reader' = [reader EXCEPT ![c] = "call"]
  /\ UNCHANGED <<conn, registered, broadcast, inHand, send, sendClosed, writer,
                 message, played, panic, pastGate>>

\* The engine call, or the upload, ends: well, or with an error to report.
CallReturns(c) ==
  /\ reader[c] = "call"
  /\ UNCHANGED <<send, panic>> \/ SendError(c)
  /\ reader' = [reader EXCEPT ![c] = "read"]
  /\ UNCHANGED <<conn, registered, broadcast, inHand, sendClosed, writer, message,
                 isPaused, played, pastGate>>

\* Malformed or unknown messages, refused requests.
ReadInvalid(c) ==
  /\ "INVALID" \in Requests[c]
  /\ reader[c] = "read" /\ conn[c] = "open"
  /\ SendError(c)
  /\ UNCHANGED <<conn, registered, broadcast, inHand, sendClosed, reader, writer,
                 message, isPaused, played, pastGate>>

ReadQuery(c) ==
  /\ "QUERY" \in Requests[c]
  /\ reader[c] = "read" /\ conn[c] = "open"
  /\ reader' = [reader EXCEPT ![c] = "query"]
  /\ UNCHANGED <<conn, registered, broadcast, inHand, send, sendClosed, writer,
                 message, isPaused, played, panic, pastGate>>

\* The database or the cache answers; a failure is reported as an error.
QueryReturns(c) ==
  /\ reader[c] = "query"
  /\ \/ /\ reader' = [reader EXCEPT ![c] = "reply"]
        /\ UNCHANGED <<send, panic>>
     \/ /\ reader' = [reader EXCEPT ![c] = "read"]
        /\ SendError(c)
  /\ UNCHANGED <<conn, registered, broadcast, inHand, sendClosed, writer, message,
                 isPaused, played, pastGate>>

\* c.Send <- bytes: blocks while the channel is full.
Reply(c) ==
  /\ reader[c] = "reply"
  /\ ~Full(c)
  /\ Enqueue(c, "REPLY")
  /\ reader' = [reader EXCEPT ![c] = "read"]
  /\ UNCHANGED <<conn, registered, broadcast, inHand, sendClosed, writer, message,
                 isPaused, played, pastGate>>

\* Mutant of AfterReadError: the deferred function only closes the socket.
AfterReadErrorForgets == "close"

AfterReadError == "unregister"

\* ReadMessage fails: the loop breaks and the deferred function runs.
ReadFails(c) ==
  /\ reader[c] = "read" /\ conn[c] = "closed"
  /\ reader' = [reader EXCEPT ![c] = AfterReadError]
  /\ UNCHANGED <<conn, registered, broadcast, inHand, send, sendClosed, writer,
                 message, isPaused, played, panic, pastGate>>

ReaderCloses(c) ==
  /\ reader[c] = "close"
  /\ conn' = [conn EXCEPT ![c] = "closed"]
  /\ reader' = [reader EXCEPT ![c] = "done"]
  /\ UNCHANGED <<registered, broadcast, inHand, send, sendClosed, writer, message,
                 isPaused, played, panic, pastGate>>

-----------------------------------------------------------------------------
(* WritePump *)

Take(c) ==
  /\ writer[c] = "select"
  /\ send[c] # << >>
  /\ message' = [message EXCEPT ![c] = Head(send[c])]
  /\ send' = [send EXCEPT ![c] = Tail(@)]
  /\ writer' = [writer EXCEPT ![c] = "gate"]
  /\ UNCHANGED <<conn, registered, broadcast, inHand, sendClosed, reader, isPaused,
                 played, panic, pastGate>>

\* Mutant of Passes: the pause gate is always open.
PassesAlways(c) == TRUE

Passes(c) == isPaused[c] => message[c] = "REPLY"

Gate(c) ==
  /\ writer[c] = "gate"
  /\ writer' = [writer EXCEPT ![c] = IF Passes(c) THEN "write" ELSE "select"]
  /\ message' = [message EXCEPT ![c] = IF Passes(c) THEN @ ELSE "GATED"]
  /\ UNCHANGED <<conn, registered, broadcast, inHand, send, sendClosed, reader,
                 isPaused, played, panic, pastGate>>

Write(c) ==
  /\ writer[c] = "write"
  /\ conn[c] = "open"
  /\ writer' = [writer EXCEPT ![c] = "select"]
  /\ pastGate' = [pastGate EXCEPT
                    ![c] = IF isPaused[c] /\ message[c] = "GATED" THEN @ + 1 ELSE @]
  /\ message' = [message EXCEPT ![c] = "GATED"]
  /\ UNCHANGED <<conn, registered, broadcast, inHand, send, sendClosed, reader,
                 isPaused, played, panic>>

\* Returning from WritePump closes the socket.
WriterReturns(c) ==
  /\ writer' = [writer EXCEPT ![c] = "done"]
  /\ conn' = [conn EXCEPT ![c] = "closed"]
  /\ message' = [message EXCEPT ![c] = "GATED"]
  /\ UNCHANGED <<registered, broadcast, inHand, send, sendClosed, reader, isPaused,
                 played, panic, pastGate>>

\* The socket is closed, or the peer takes nothing for writeWait.
WriteFails(c) == writer[c] = "write" /\ WriterReturns(c)

\* The ping of an idle connection fails the same way.
PingFails(c) == writer[c] = "select" /\ WriterReturns(c)

SendIsClosed(c) ==
  /\ writer[c] = "select"
  /\ send[c] = << >>
  /\ sendClosed[c]
  /\ WriterReturns(c)

-----------------------------------------------------------------------------
(* The hub's event loop *)

HubRegisters(c) ==
  /\ reader[c] = "register"
  /\ registered' = registered \cup {c}
  /\ reader' = [reader EXCEPT ![c] = "init"]
  /\ UNCHANGED <<conn, broadcast, inHand, send, sendClosed, writer, message,
                 isPaused, played, panic, pastGate>>

HubUnregisters(c) ==
  /\ reader[c] = "unregister"
  /\ IF c \in registered
       THEN /\ registered' = registered \ {c}
            /\ sendClosed' = [sendClosed EXCEPT ![c] = TRUE]
            /\ panic' = (panic \/ sendClosed[c])
       ELSE UNCHANGED <<registered, sendClosed, panic>>
  /\ reader' = [reader EXCEPT ![c] = "close"]
  /\ UNCHANGED <<conn, broadcast, inHand, send, writer, message, isPaused, played,
                 pastGate>>

\* Mutant of Receivers: the frame goes to every tab.
ReceiversAll(session) == registered

\* Multi-tenant isolation: only the tabs of the frame's session.
Receivers(session) == registered \cap {session}

\* Mutant of Evicted: the code commented out in hub.go:95-99.
EvictedSlow(slow) == slow

\* A client whose channel is full misses the frame, and stays.
Evicted(slow) == {}

\* Mutant of HubReady: the hub waits for room in the client's channel.
HubReadyBlocking(slow) == slow = {}

HubReady(slow) == TRUE

HubDispatches ==
  /\ broadcast # << >>
  /\ LET to == Receivers(Head(broadcast))
         slow == {c \in to : Full(c)}
     IN  /\ HubReady(slow)
         /\ send' = [c \in Client |-> IF c \in to \ slow THEN Append(send[c], "GATED")
                                                        ELSE send[c]]
         /\ panic' = (panic \/ \E c \in to : sendClosed[c])
         /\ registered' = registered \ Evicted(slow)
         /\ sendClosed' = [c \in Client |-> sendClosed[c] \/ c \in Evicted(slow)]
  /\ broadcast' = Tail(broadcast)
  /\ UNCHANGED <<conn, inHand, reader, writer, message, isPaused, played, pastGate>>

-----------------------------------------------------------------------------
(* StreamTelemetry: frames come only for sessions that were played. *)

StreamRecv ==
  /\ inHand = NoClient
  /\ \E c \in Client : played[c] /\ inHand' = c
  /\ UNCHANGED <<conn, registered, broadcast, send, sendClosed, reader, writer,
                 message, isPaused, played, panic, pastGate>>

\* s.wsHub.Broadcast <- frame: blocks while the channel is full.
StreamBroadcast ==
  /\ inHand # NoClient
  /\ Len(broadcast) < BroadcastCap
  /\ broadcast' = Append(broadcast, inHand)
  /\ inHand' = NoClient
  /\ UNCHANGED <<conn, registered, send, sendClosed, reader, writer, message,
                 isPaused, played, panic, pastGate>>

-----------------------------------------------------------------------------
\* The tab is closed, the network fails, or no pong arrives within pongWait.
ConnectionLost(c) ==
  /\ conn[c] = "open"
  /\ conn' = [conn EXCEPT ![c] = "closed"]
  /\ UNCHANGED <<registered, broadcast, inHand, send, sendClosed, reader, writer,
                 message, isPaused, played, panic, pastGate>>

ReaderNext(c) ==
  \/ StartPumps(c)
  \/ CallReturns(c)
  \/ QueryReturns(c)
  \/ Reply(c)
  \/ ReadFails(c)
  \/ ReaderCloses(c)

\* What the browser asks for.
Command(c) == ReadPlay(c) \/ ReadPause(c) \/ ReadInvalid(c) \/ ReadQuery(c)

WriterNext(c) ==
  Take(c) \/ Gate(c) \/ Write(c) \/ WriteFails(c) \/ PingFails(c) \/ SendIsClosed(c)

Next ==
  \/ \E c \in Client :
       \/ Connect(c)
       \/ ReaderNext(c)
       \/ Command(c)
       \/ WriterNext(c)
       \/ HubRegisters(c)
       \/ HubUnregisters(c)
       \/ ConnectionLost(c)
  \/ HubDispatches
  \/ StreamRecv
  \/ StreamBroadcast

Spec == Init /\ [][Next]_vars

\* Go runs every goroutine that can run.  A select with several ready cases picks
\* one at random, so the ping of a dead connection is not passed over for ever,
\* and a sender blocked on a full channel is served as soon as there is room.
\* Browsers, and the engine's frames, come when they like.
FairSpec ==
  /\ Spec
  /\ WF_vars(HubDispatches)
  /\ WF_vars(StreamBroadcast)
  /\ \A c \in Client :
       /\ WF_vars(HubRegisters(c))
       /\ WF_vars(HubUnregisters(c))
       /\ WF_vars(ReaderNext(c))
       /\ WF_vars(WriterNext(c))
       /\ SF_vars(Reply(c))
       /\ SF_vars(conn[c] = "closed" /\ PingFails(c))

-----------------------------------------------------------------------------
(* Properties *)

\* No goroutine ever sends on, or closes, a closed channel: a panic would take
\* the whole server down (hub.go:47-49, 92; client.go:91, 284, 329, 430, 607).
NoPanic == ~panic

\* After PAUSE has been read at most one gated message still goes out: the one
\* that had passed the gate (client.go:523-540; isPaused is read unlocked).
OneMessagePastGate == \A c \in Client : pastGate[c] <= 1

\* The gRPC stream of all sessions is never held up by one browser: a frame in
\* hand always gets into the hub's channel ("non-blocking" select, hub.go:91).
StreamNeverStalls == inHand # NoClient ~> inHand = NoClient

\* The first message of a connection is sent before anything drains its channel
\* (client.go:601-607): the channel is empty then, whatever the other tabs do.
FirstMessageHasRoom ==
  \A c \in Client : reader[c] \in {"register", "init"} => send[c] = << >>

\* The hub has forgotten the client and both its goroutines have ended.
Gone(c) == c \notin registered /\ reader[c] = "done" /\ writer[c] = "done"

\* A reply that waits for room in a channel nobody drains any more.
StuckInReply(c) == reader[c] = "reply" /\ Full(c)

\* "Unregistration requests when tabs close", hub.go:19: a tab whose connection
\* is closed leaves the hub.  Only a blocking reply (client.go:284, 329, 430)
\* can keep it there, and then does so for ever.
ClosedTabsLeave ==
  \A c \in Client :
    (<>[](conn[c] = "closed")) => (<>[]Gone(c)) \/ (<>[]StuckInReply(c))
=============================================================================
