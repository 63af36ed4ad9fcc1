------------------------------ MODULE Telemetry ------------------------------
(***************************************************************************)
(* The way of a telemetry frame from the engine to the screen, and of the  *)
(* browser's commands back: telemetry thread, gRPC stream, the Go server's *)
(* StreamTelemetry goroutine, the session's SimulationCache, the hub, the  *)
(* client's Send channel and pause gate, the browser; and ReadPump's       *)
(* synchronous engine calls with their 2 s deadline, after which the       *)
(* engine may still execute the call, or not.                              *)
(*                                                                         *)
(* Connections stay up here (see WebSocketHub for their life) and the      *)
(* engine's threads are one step per frame (see Engine).                   *)
(***************************************************************************)
EXTENDS Integers, Sequences

CONSTANTS
  Session,      \* sessions, one per browser tab
  NoSession,    \* "no session"
  NoFrame,      \* Go's nil frame
  MaxSize,      \* capacity of a cache
  SendCap,      \* capacity of Client.Send
  BroadcastCap, \* capacity of Hub.Broadcast
  WireCap,      \* frames in flight on the gRPC stream
  CallsMayTimeOut, \* whether an engine call may miss its deadline
  Commands,     \* what the tabs send: subset of UPLOAD, PLAY, PAUSE, FETCH,
                \* LOAD
  MaxCommands,  \* bound on the commands read
  MaxTicks,     \* bound on a scene's frame number
  MaxSent       \* bound on the frames sent

ASSUME TelemetryAssumption ==
  /\ NoSession \notin Session
  /\ {SendCap, BroadcastCap, WireCap} \subseteq Nat \ {0}
  /\ CallsMayTimeOut \in BOOLEAN
  /\ Commands \subseteq {"UPLOAD", "PLAY", "PAUSE", "FETCH", "LOAD"}

\* A frame names its session, the scene it shows and its number in the scene.
Frame == [session : Session, epoch : Nat, frame : Nat]

\* What SimulationCache assumes.
ASSUME FrameAssumption ==
  /\ MaxSize \in Nat \ {0}
  /\ NoFrame \notin Frame

INSTANCE SimulationCache

VARIABLES
  engine,     \* per session: loaded, running, epoch and frame of its instance
  checked,    \* session the telemetry thread has found to be playing
  sent,       \* number of frames sent
  wire,       \* frames on the gRPC stream
  task,       \* StreamTelemetry goroutine: pc and the frame in hand
  caches,     \* per session: its SimulationCache
  broadcast,  \* h.Broadcast
  send,       \* c.Send
  hand,       \* the messages WritePump is about to write: << >> or <<m>>
  isPaused,   \* c.isPaused
  reader,     \* ReadPump: pc, the awaited call, the reply to send (<< >> or <<m>>)
  calls,      \* calls the engine has not finished with, awaited or not
  commands,   \* number of commands read
  screen,     \* the last message the browser received
  \* history variables
  shown,      \* the last live frame the browser received
  plays,      \* number of PLAY commands read
  lastOp,     \* last engine call made
  timedOut    \* whether a call of the session ever missed its deadline

vars == <<engine, checked, sent, wire, task, caches, broadcast, send, hand,
          isPaused, reader, calls, commands, screen, shown, plays, lastOp, timedOut>>

engineVars == <<engine, checked, sent>>
serverVars == <<task, caches, broadcast>>
clientVars == <<send, hand, screen, shown>>
readerVars == <<isPaused, reader, commands, plays, lastOp, timedOut>>

\* plays dates a message: how many PLAYs its session had seen when it was made.
Message(type, frames, n) == [type |-> type, frames |-> frames, plays |-> n]

ErrorMessage(s) == Message("ERROR", << >>, plays[s])

NoCall == [id |-> 0, op |-> "NONE"]

Init ==
  /\ engine = [s \in Session |-> [loaded |-> FALSE, running |-> FALSE,
                                  epoch |-> 0, frame |-> 0]]
  /\ checked = NoSession
  /\ sent = 0
  /\ wire = << >>
  /\ task = [pc |-> "recv", frame |-> NoFrame]
  /\ caches = [s \in Session |-> NewSimulationCache]
  /\ broadcast = << >>
  /\ send = [s \in Session |-> << >>]
  /\ hand = [s \in Session |-> << >>]
  /\ isPaused = [s \in Session |-> FALSE]
  /\ reader = [s \in Session |-> [pc |-> "read", call |-> NoCall, reply |-> << >>]]
  /\ calls = [s \in Session |-> {}]
  /\ commands = 0
  /\ screen = [s \in Session |-> Message("NONE", << >>, 0)]
  /\ shown = [s \in Session |-> NoFrame]
  /\ plays = [s \in Session |-> 0]
  /\ lastOp = [s \in Session |-> "NONE"]
  /\ timedOut = [s \in Session |-> FALSE]

Room(queue, cap) == Len(queue) < cap

-----------------------------------------------------------------------------
(* ReadPump *)

Offer(s, m) ==
  send' = IF Room(send[s], SendCap) THEN [send EXCEPT ![s] = Append(@, m)] ELSE send

\* Mutant of WhileCalling: the call is made in a goroutine of its own.
WhileCallingReads == "read"

\* ReadPump reads nothing more until the call has returned.
WhileCalling == "call"

Reads(s, command) ==
  /\ command \in Commands
  /\ reader[s].pc = "read"
  /\ commands < MaxCommands
  /\ commands' = commands + 1

StartCall(s, op) ==
  LET call == [id |-> commands + 1, op |-> op] IN
  /\ calls' = [calls EXCEPT ![s] = @ \cup {call}]
  /\ reader' = [reader EXCEPT ![s].pc = WhileCalling, ![s].call = call]
  /\ lastOp' = [lastOp EXCEPT ![s] = op]

ResetCache(s) == caches' = [caches EXCEPT ![s] = Reset(@)]

Upload(s) ==
  /\ Reads(s, "UPLOAD")
  /\ ResetCache(s)
  /\ StartCall(s, "UPLOAD")
  /\ UNCHANGED <<engineVars, wire, task, broadcast, clientVars, isPaused, plays,
                 timedOut>>

\* "Empty scene received": refused, but only after the reset.
UploadEmpty(s) ==
  /\ Reads(s, "UPLOAD")
  /\ ResetCache(s)
  /\ Offer(s, ErrorMessage(s))
  /\ UNCHANGED <<engineVars, wire, task, broadcast, hand, screen, shown, isPaused,
                 reader, calls, plays, lastOp, timedOut>>

Play(s) ==
  /\ Reads(s, "PLAY")
  /\ isPaused' = [isPaused EXCEPT ![s] = FALSE]
  /\ plays' = [plays EXCEPT ![s] = @ + 1]
  /\ ResetCache(s)
  /\ StartCall(s, "PLAY")
  /\ UNCHANGED <<engineVars, wire, task, broadcast, clientVars, timedOut>>

Pause(s) ==
  /\ Reads(s, "PAUSE")
  /\ isPaused' = [isPaused EXCEPT ![s] = TRUE]
  /\ StartCall(s, "PAUSE")
  /\ UNCHANGED <<engineVars, wire, serverVars, clientVars, plays, timedOut>>

MayFetch(s) == isPaused[s]

HistoryMessage(s) == <<Message("HISTORY", GetHistory(caches[s]), plays[s])>>

FetchHistory(s) ==
  /\ Reads(s, "FETCH")
  /\ IF MayFetch(s)
       THEN /\ reader' = [reader EXCEPT ![s].pc = "reply",
                                        ![s].reply = HistoryMessage(s)]
            /\ UNCHANGED send
       ELSE /\ Offer(s, ErrorMessage(s))
            /\ UNCHANGED reader
  /\ UNCHANGED <<engineVars, wire, serverVars, hand, screen, shown, isPaused, calls,
                 plays, lastOp, timedOut>>

\* LOAD_SCENE: the history is gone before the scene is looked for.
Load(s) ==
  /\ Reads(s, "LOAD")
  /\ ResetCache(s)
  /\ reader' = [reader EXCEPT ![s].pc = "query"]
  /\ UNCHANGED <<engineVars, wire, task, broadcast, clientVars, isPaused, calls, plays,
                 lastOp, timedOut>>

\* The database answers, or the id is wrong, or the query fails.
QueryReturns(s) ==
  /\ reader[s].pc = "query"
  /\ \/ /\ reader' = [reader EXCEPT ![s].pc = "reply",
                        ![s].reply = <<Message("LOADED_SCENE", << >>, plays[s])>>]
        /\ UNCHANGED send
     \/ /\ reader' = [reader EXCEPT ![s].pc = "read"]
        /\ Offer(s, ErrorMessage(s))
  /\ UNCHANGED <<engineVars, wire, serverVars, hand, screen, shown, isPaused, calls,
                 commands, plays, lastOp, timedOut>>

\* c.Send <- jsonBytes: waits for room.
SendReply(s) ==
  /\ reader[s].pc = "reply"
  /\ Room(send[s], SendCap)
  /\ Offer(s, Head(reader[s].reply))
  /\ reader' = [reader EXCEPT ![s].pc = "read", ![s].reply = << >>]
  /\ UNCHANGED <<engineVars, wire, serverVars, hand, screen, shown, isPaused, calls,
                 commands, plays, lastOp, timedOut>>

CallReturns(s) ==
  /\ reader[s].pc = "call"
  /\ reader[s].call \notin calls[s]
  /\ reader' = [reader EXCEPT ![s].pc = "read", ![s].call = NoCall]
  /\ UNCHANGED <<engineVars, wire, serverVars, clientVars, isPaused, calls, commands,
                 plays, lastOp, timedOut>>

\* The deadline passes, whether or not the engine has executed the call.
CallTimesOut(s) ==
  /\ CallsMayTimeOut
  /\ reader[s].pc = "call"
  /\ reader' = [reader EXCEPT ![s].pc = "read", ![s].call = NoCall]
  /\ timedOut' = [timedOut EXCEPT ![s] = TRUE]
  /\ Offer(s, ErrorMessage(s))
  /\ UNCHANGED <<engineVars, wire, serverVars, hand, screen, shown, isPaused, calls,
                 commands, plays, lastOp>>

-----------------------------------------------------------------------------
(* The engine *)

Execute(s) ==
  \E call \in calls[s] :
    /\ calls' = [calls EXCEPT ![s] = @ \ {call}]
    /\ engine' = [engine EXCEPT ![s] =
         IF call.op = "UPLOAD"
           THEN [loaded |-> TRUE, running |-> FALSE, epoch |-> @.epoch + 1, frame |-> 0]
           ELSE [@ EXCEPT !.running = (call.op = "PLAY")]]
    /\ UNCHANGED <<checked, sent, wire, serverVars, clientVars, readerVars>>

\* A call given up on before it reached its handler is cancelled.
Cancelled(s) ==
  \E call \in calls[s] \ {reader[s].call} :
    /\ calls' = [calls EXCEPT ![s] = @ \ {call}]
    /\ UNCHANGED <<engineVars, wire, serverVars, clientVars, readerVars>>

Tick(s) ==
  /\ engine[s].loaded /\ engine[s].running
  /\ engine[s].frame < MaxTicks
  /\ engine' = [engine EXCEPT ![s].frame = @ + 1]
  /\ UNCHANGED <<checked, sent, wire, serverVars, clientVars, readerVars, calls>>

\* instance->isRunning() && instance->isSceneLoaded()
Check(s) ==
  /\ checked = NoSession
  /\ sent < MaxSent
  /\ engine[s].running /\ engine[s].loaded
  /\ checked' = s
  /\ UNCHANGED <<engine, sent, wire, serverVars, clientVars, readerVars, calls>>

\* populateTelemetry and Write: whatever the instance holds by now.
WriteFrame ==
  /\ checked # NoSession
  /\ Room(wire, WireCap)
  /\ wire' = Append(wire, [session |-> checked, epoch |-> engine[checked].epoch,
                           frame |-> engine[checked].frame])
  /\ sent' = sent + 1
  /\ checked' = NoSession
  /\ UNCHANGED <<engine, serverVars, clientVars, readerVars, calls>>

-----------------------------------------------------------------------------
(* StreamTelemetry in the Go server *)

\* Mutant of After: a frame is broadcast before it is cached.
AfterSwapped(pc) ==
  CASE pc = "recv" -> "broadcast" [] pc = "broadcast" -> "push" [] pc = "push" -> "recv"

After(pc) ==
  CASE pc = "recv" -> "push" [] pc = "push" -> "broadcast" [] pc = "broadcast" -> "recv"

RecvFrame ==
  /\ task.pc = "recv"
  /\ wire # << >>
  /\ wire' = Tail(wire)
  /\ task' = [pc |-> After("recv"), frame |-> Head(wire)]
  /\ UNCHANGED <<engineVars, caches, broadcast, clientVars, readerVars, calls>>

\* Mutant of CacheOf: one cache for all sessions.
CacheOfFirst(f) == CHOOSE s \in Session : TRUE

CacheOf(f) == f.session

PushFrame ==
  /\ task.pc = "push"
  /\ caches' = [caches EXCEPT ![CacheOf(task.frame)] = Push(@, task.frame)]
  /\ task' = [task EXCEPT !.pc = After("push")]
  /\ UNCHANGED <<engineVars, wire, broadcast, clientVars, readerVars, calls>>

BroadcastFrame ==
  /\ task.pc = "broadcast"
  /\ Room(broadcast, BroadcastCap)
  /\ broadcast' = Append(broadcast, task.frame)
  /\ task' = [task EXCEPT !.pc = After("broadcast")]
  /\ UNCHANGED <<engineVars, wire, caches, clientVars, readerVars, calls>>

-----------------------------------------------------------------------------
(* Hub and WritePump *)

Receives(s, f) == s = f.session

Dispatch ==
  /\ broadcast # << >>
  /\ LET f == Head(broadcast) IN
     send' = [s \in Session |->
                IF Receives(s, f) /\ Room(send[s], SendCap)
                  THEN Append(send[s], Message("LIVE", <<f>>, plays[s]))
                  ELSE send[s]]
  /\ broadcast' = Tail(broadcast)
  /\ UNCHANGED <<engineVars, wire, task, caches, hand, screen, shown, readerVars, calls>>

\* Mutant of PassesGate: everything passes.
PassesGateAlways(s, m) == TRUE

PassesGate(s, m) == isPaused[s] => m.type \in {"HISTORY", "LOADED_SCENE"}

TakeMessage(s) ==
  /\ hand[s] = << >>
  /\ send[s] # << >>
  /\ send' = [send EXCEPT ![s] = Tail(@)]
  /\ hand' = [hand EXCEPT ![s] = IF PassesGate(s, Head(send[s]))
                                   THEN <<Head(send[s])>> ELSE << >>]
  /\ UNCHANGED <<engineVars, wire, serverVars, screen, shown, readerVars, calls>>

WriteMessage(s) ==
  /\ hand[s] # << >>
  /\ LET m == Head(hand[s]) IN
     /\ screen' = [screen EXCEPT ![s] = m]
     /\ shown' = IF m.type = "LIVE" THEN [shown EXCEPT ![s] = m.frames[1]] ELSE shown
  /\ hand' = [hand EXCEPT ![s] = << >>]
  /\ UNCHANGED <<engineVars, wire, serverVars, send, readerVars, calls>>

Next ==
  \/ \E s \in Session :
       \/ Upload(s)
       \/ UploadEmpty(s)
       \/ Play(s)
       \/ Pause(s)
       \/ FetchHistory(s)
       \/ Load(s)
       \/ QueryReturns(s)
       \/ SendReply(s)
       \/ CallReturns(s)
       \/ CallTimesOut(s)
       \/ Execute(s)
       \/ Cancelled(s)
       \/ Tick(s)
       \/ Check(s)
       \/ TakeMessage(s)
       \/ WriteMessage(s)
  \/ WriteFrame
  \/ RecvFrame
  \/ PushFrame
  \/ BroadcastFrame
  \/ Dispatch

Spec == Init /\ [][Next]_vars

-----------------------------------------------------------------------------
(* Properties *)

\* f was made no later than g.
NoLaterThan(f, g) == f.epoch < g.epoch \/ (f.epoch = g.epoch /\ f.frame <= g.frame)

\* "GetHistory extracts all currently available frames in correct chronological
\* order" (simulation_cache.go:45), whatever uploads, plays and late calls did.
HistoryInOrder ==
  \A s \in Session :
    LET h == GetHistory(caches[s])
    IN  \A i \in 1 .. Len(h) - 1 : NoLaterThan(h[i], h[i + 1])

\* The browser shows the history of the current pause.
Scrubbing(s) == screen[s].type = "HISTORY" /\ screen[s].plays = plays[s]

\* Once the history of a pause is on screen no live frame takes its place until
\* PLAY has been read: the frame that had slipped past the gate is written first
\* (client.go:389-392, 523-540).
ScrubbingUndisturbed ==
  [][\A s \in Session : Scrubbing(s) => screen'[s].type # "LIVE"]_vars

\* The history of a pause, when there is any, reaches at least up to the live
\* frame last shown: a frame is cached before it is broadcast (main.go:73-76).
HistoryReachesScreen ==
  \A s \in Session :
    Scrubbing(s) /\ screen[s].frames # << >> /\ shown[s] # NoFrame =>
      NoLaterThan(shown[s], screen[s].frames[Len(screen[s].frames)])

\* A session's cache and its tab only ever hold frames of its own simulation
\* ("multi-tenant isolation", hub.go:86; main.go:67-74).
SessionIsolation ==
  \A s \in Session :
    \A h \in {GetHistory(caches[s]), screen[s].frames} :
      \A i \in DOMAIN h : h[i].session = s

\* Between commands the engine does what the last command said, as long as no
\* call has missed its deadline (client.go:97-136, 138-183).
EngineObeysLastCommand ==
  \A s \in Session :
    reader[s].pc = "read" /\ ~timedOut[s] =>
      engine[s].running = (lastOp[s] = "PLAY")

\* "Reset wipes the ring buffer state so a new simulation run starts with a clean
\* timeline", simulation_cache.go:79: once PLAY of a scene has returned, the
\* cache holds frames of that scene only.
CleanTimeline ==
  \A s \in Session :
    reader[s].pc = "read" /\ ~timedOut[s] /\ lastOp[s] = "PLAY" =>
      \A i \in 1 .. Len(GetHistory(caches[s])) :
        GetHistory(caches[s])[i].epoch = engine[s].epoch
=============================================================================
