--------------------------- MODULE TelemetryProofs ---------------------------
(***************************************************************************)
(* For every number of sessions, every capacity and every bound, with      *)
(* calls that miss their deadline or without: the pipeline keeps its       *)
(* types, a session's cache and tab hold only its own frames, the engine   *)
(* obeys the last command while no call is late, a history is in the order *)
(* its frames were made and reaches up to the live frame last shown,       *)
(* nothing live takes the place of the history being scrubbed, and the     *)
(* caches implement FrameHistory.                                          *)
(***************************************************************************)
EXTENDS Telemetry, SequenceTheorems, TLAPS

\* The lemmas about the ring buffer; the bound on its counter plays no part.
Ring == INSTANCE SessionCacheManagerProofs WITH MaxTotalFrames <- 0

-----------------------------------------------------------------------------
(* Sequences and their elements *)

Elems(q) == {q[i] : i \in 1 .. Len(q)}

\* What a queue holds after a message is added or taken.
LEMMA ElemsAppend ==
  ASSUME NEW S, NEW q \in Seq(S), NEW x \in S
  PROVE  Elems(Append(q, x)) = Elems(q) \cup {x}
BY DEF Elems

LEMMA ElemsTail ==
  ASSUME NEW S, NEW q \in Seq(S), q # << >>
  PROVE  /\ Elems(Tail(q)) \subseteq Elems(q)
         /\ Head(q) \in Elems(q)
BY DEF Elems

LEMMA ElemsSmall ==
  /\ Elems(<< >>) = {}
  /\ \A x : Elems(<<x>>) = {x}
BY DEF Elems

LEMMA ElemsIn ==
  ASSUME NEW S, NEW q \in Seq(S)
  PROVE  Elems(q) \subseteq S
BY DEF Elems

-----------------------------------------------------------------------------
(* One cache *)

GoodCache == {c \in Cache : Ring!RingConsistent(c)}

\* SimulationCache's assumption is Telemetry's: the ring lemmas apply.
LEMMA RingAssumption == Ring!CacheAssumption
BY FrameAssumption DEF Ring!CacheAssumption

\* Its operators are Telemetry's own.
LEMMA RingOperators ==
  ASSUME NEW c, NEW f
  PROVE  /\ Ring!Slot = Slot
         /\ Ring!Cache = Cache
         /\ Ring!NewSimulationCache = NewSimulationCache
         /\ Ring!Push(c, f) = Push(c, f)
         /\ Ring!Window(c) = Window(c)
         /\ Ring!GetHistory(c) = GetHistory(c)
<1>1. Ring!Slot = Slot
  BY DEF Ring!Slot, Slot
<1>2. Ring!Cache = Cache
  BY <1>1 DEF Ring!Cache, Cache
<1>3. Ring!NewSimulationCache = NewSimulationCache
  BY <1>1 DEF Ring!NewSimulationCache, NewSimulationCache
<1>4. Ring!Push(c, f) = Push(c, f)
  BY DEF Ring!Push, Push
<1>5. Ring!HistoryCount(c) = HistoryCount(c) /\ Ring!StartIdx(c) = StartIdx(c)
  BY DEF Ring!HistoryCount, HistoryCount, Ring!StartIdx, StartIdx
<1>6. Ring!Window(c) = Window(c)
  BY <1>5 DEF Ring!Window, Window
<1>7. Ring!GetHistory(c) = GetHistory(c)
  BY <1>5, <1>6 DEF Ring!GetHistory, GetHistory
<1>8. QED BY <1>1, <1>2, <1>3, <1>4, <1>6, <1>7

\* A wiped cache is good and its history is empty.
LEMMA WipedCache ==
  /\ NewSimulationCache \in GoodCache
  /\ GetHistory(NewSimulationCache) = << >>
  /\ \A c : Reset(c) = NewSimulationCache
<1>1. /\ NewSimulationCache \in Cache
      /\ Ring!RingConsistent(NewSimulationCache)
  BY RingAssumption, RingOperators, Ring!NewCacheGood
<1>2. GetHistory(NewSimulationCache) = << >>
  BY RingAssumption, RingOperators, Ring!HistoryOfNew
<1>3. QED BY <1>1, <1>2 DEF GoodCache, Reset

\* What a push does to a good cache and to its history.
LEMMA PushedCache ==
  ASSUME NEW c \in GoodCache, NEW f \in Frame
  PROVE  /\ Push(c, f) \in GoodCache
         /\ GetHistory(Push(c, f)) =
              IF Len(GetHistory(c)) < MaxSize
                THEN Append(GetHistory(c), f)
                ELSE Append(Tail(GetHistory(c)), f)
<1>1. c \in Ring!Cache /\ Ring!RingConsistent(c)
  BY RingOperators DEF GoodCache
<1>2. Ring!Push(c, f) \in Ring!Cache /\ Ring!RingConsistent(Ring!Push(c, f))
  BY <1>1, RingAssumption, Ring!PushKeepsType, Ring!PushKeepsConsistent
<1>3. Ring!GetHistory(Ring!Push(c, f)) =
        IF Len(Ring!GetHistory(c)) < MaxSize
          THEN Append(Ring!GetHistory(c), f)
          ELSE Append(Tail(Ring!GetHistory(c)), f)
  BY <1>1, RingAssumption, Ring!HistoryPush
<1>4. QED BY <1>2, <1>3, RingOperators DEF GoodCache

\* A history is a sequence of at most MaxSize frames.
LEMMA HistoryOfCache ==
  ASSUME NEW c \in GoodCache
  PROVE  GetHistory(c) \in Seq(Frame) /\ Len(GetHistory(c)) <= MaxSize
<1>1. c \in Ring!Cache /\ Ring!RingConsistent(c)
  BY RingOperators DEF GoodCache
<1>2. /\ Ring!GetHistory(c) = Ring!Window(c)
      /\ Ring!Window(c) \in Seq(Frame)
      /\ Len(Ring!Window(c)) = Ring!HistoryCount(c)
  BY <1>1, RingAssumption, Ring!HistoryIsWindow, Ring!WindowIsSeq
<1>3. Ring!HistoryCount(c) <= MaxSize
  BY <1>1, FrameAssumption DEF Ring!HistoryCount, Ring!Cache
<1>4. QED BY <1>2, <1>3, RingOperators

-----------------------------------------------------------------------------
(* Types *)

Ops == {"NONE", "UPLOAD", "PLAY", "PAUSE"}

Call == [id : Nat, op : Ops]

\* A live message carries a frame.
AnyMessage ==
  {m \in [type : {"NONE", "ERROR", "HISTORY", "LOADED_SCENE", "LIVE"},
          frames : Seq(Frame), plays : Nat] :
     m.type = "LIVE" => m.frames # << >>}

Instances == [loaded : BOOLEAN, running : BOOLEAN, epoch : Nat, frame : Nat]

Readers == [pc : {"read", "call", "query", "reply"}, call : Call,
            reply : Seq(AnyMessage)]

Tasks == [pc : {"recv", "push", "broadcast"}, frame : Frame \cup {NoFrame}]

EngineType ==
  /\ engine \in [Session -> Instances]
  /\ checked \in Session \cup {NoSession}
  /\ sent \in Nat
  /\ wire \in Seq(Frame)

ServerType ==
  /\ task \in Tasks
  /\ task.pc # "recv" => task.frame \in Frame
  /\ caches \in [Session -> GoodCache]
  /\ broadcast \in Seq(Frame)

ClientType ==
  /\ send \in [Session -> Seq(AnyMessage)]
  /\ hand \in [Session -> Seq(AnyMessage)]
  /\ screen \in [Session -> AnyMessage]
  /\ shown \in [Session -> Frame \cup {NoFrame}]

ReaderType ==
  /\ isPaused \in [Session -> BOOLEAN]
  /\ reader \in [Session -> Readers]
  /\ \A s \in Session : reader[s].pc = "reply" => reader[s].reply # << >>
  /\ calls \in [Session -> SUBSET Call]
  /\ commands \in Nat
  /\ plays \in [Session -> Nat]
  /\ lastOp \in [Session -> Ops]
  /\ timedOut \in [Session -> BOOLEAN]

TypeOK == EngineType /\ ServerType /\ ClientType /\ ReaderType

LEMMA TypeInit == Init => TypeOK
<1> SUFFICES ASSUME Init PROVE TypeOK
  OBVIOUS
<1> USE DEF Init
<1>1. EngineType
  BY DEF EngineType, Instances
<1>2. ServerType
  BY WipedCache DEF ServerType, Tasks
<1>3. Message("NONE", << >>, 0) \in AnyMessage
  BY DEF Message, AnyMessage
<1>4. ClientType
  BY <1>3 DEF ClientType
<1>5. NoCall \in Call
  BY DEF NoCall, Call, Ops
<1>6. ReaderType
  BY <1>5 DEF ReaderType, Readers, Ops
<1>7. QED BY <1>1, <1>2, <1>4, <1>6 DEF TypeOK

\* The messages the server makes.
LEMMA MessageTypes ==
  ASSUME TypeOK, NEW s \in Session
  PROVE  /\ ErrorMessage(s) \in AnyMessage
         /\ Message("LOADED_SCENE", << >>, plays[s]) \in AnyMessage
         /\ Message("HISTORY", GetHistory(caches[s]), plays[s]) \in AnyMessage
         /\ \A f \in Frame : Message("LIVE", <<f>>, plays[s]) \in AnyMessage
<1>1. plays[s] \in Nat /\ caches[s] \in GoodCache
  BY DEF TypeOK, ServerType, ReaderType
<1>2. GetHistory(caches[s]) \in Seq(Frame)
  BY <1>1, HistoryOfCache
<1>3. << >> \in Seq(Frame)
  OBVIOUS
<1>4. ErrorMessage(s) \in AnyMessage
  BY <1>1, <1>3 DEF ErrorMessage, Message, AnyMessage
<1>5. Message("LOADED_SCENE", << >>, plays[s]) \in AnyMessage
  BY <1>1, <1>3 DEF Message, AnyMessage
<1>6. Message("HISTORY", GetHistory(caches[s]), plays[s]) \in AnyMessage
  BY <1>1, <1>2 DEF Message, AnyMessage
<1>7. ASSUME NEW f \in Frame
      PROVE  Message("LIVE", <<f>>, plays[s]) \in AnyMessage
  <2>1. <<f>> \in Seq(Frame) /\ <<f>> # << >>
    OBVIOUS
  <2>2. QED BY <1>1, <2>1 DEF Message, AnyMessage
<1>8. QED BY <1>4, <1>5, <1>6, <1>7

LEMMA OfferType ==
  ASSUME send \in [Session -> Seq(AnyMessage)],
         NEW s \in Session, NEW m \in AnyMessage, Offer(s, m)
  PROVE  send' \in [Session -> Seq(AnyMessage)]
BY DEF Offer

\* The engine's steps touch the engine, the wire and the calls.
LEMMA TypeEngine ==
  ASSUME TypeOK, NEW s,
         \/ s \in Session /\ (Execute(s) \/ Cancelled(s) \/ Tick(s) \/ Check(s))
         \/ WriteFrame
  PROVE  TypeOK'
<1> USE DEF engineVars, serverVars, clientVars, readerVars
<1>1. ASSUME UNCHANGED <<serverVars, clientVars, readerVars>>,
             calls' \in [Session -> SUBSET Call], EngineType'
      PROVE  TypeOK'
  BY <1>1 DEF TypeOK, ServerType, ClientType, ReaderType
<1>2. calls \in [Session -> SUBSET Call] /\ EngineType
  BY DEF TypeOK, ReaderType
<1>3. CASE s \in Session /\ Execute(s)
  <2>1. PICK call \in calls[s] :
          /\ calls' = [calls EXCEPT ![s] = @ \ {call}]
          /\ engine' = [engine EXCEPT ![s] =
               IF call.op = "UPLOAD"
                 THEN [loaded |-> TRUE, running |-> FALSE,
                       epoch |-> engine[s].epoch + 1, frame |-> 0]
                 ELSE [engine[s] EXCEPT !.running = (call.op = "PLAY")]]
          /\ UNCHANGED <<checked, sent, wire, serverVars, clientVars, readerVars>>
    BY <1>3 DEF Execute
  <2>2. calls' \in [Session -> SUBSET Call]
    BY <1>2, <2>1
  <2>3. engine' \in [Session -> Instances]
    <3>1. engine[s] \in Instances
      BY <1>2, <1>3 DEF EngineType
    <3>2. /\ [loaded |-> TRUE, running |-> FALSE,
              epoch |-> engine[s].epoch + 1, frame |-> 0] \in Instances
          /\ \A b \in BOOLEAN : [engine[s] EXCEPT !.running = b] \in Instances
      BY <3>1 DEF Instances
    <3>3. (call.op = "PLAY") \in BOOLEAN
      OBVIOUS
    <3>4. [engine[s] EXCEPT !.running = (call.op = "PLAY")] \in Instances
      BY <3>2, <3>3
    <3>5. QED BY <1>2, <2>1, <3>2, <3>4 DEF EngineType
  <2>4. EngineType'
    BY <1>2, <2>1, <2>3 DEF EngineType
  <2>5. QED BY <1>1, <2>1, <2>2, <2>4
<1>4. CASE s \in Session /\ Cancelled(s)
  <2>1. PICK call \in calls[s] \ {reader[s].call} :
          /\ calls' = [calls EXCEPT ![s] = @ \ {call}]
          /\ UNCHANGED <<engineVars, wire, serverVars, clientVars, readerVars>>
    BY <1>4 DEF Cancelled
  <2>2. calls' \in [Session -> SUBSET Call]
    BY <1>2, <2>1
  <2>3. EngineType'
    BY <1>2, <2>1 DEF EngineType
  <2>4. QED BY <1>1, <2>1, <2>2, <2>3
<1>5. CASE s \in Session /\ Tick(s)
  <2>1. engine[s] \in Instances
    BY <1>2, <1>5 DEF EngineType
  <2>2. [engine[s] EXCEPT !.frame = engine[s].frame + 1] \in Instances
    BY <2>1 DEF Instances
  <2>3. engine' = [engine EXCEPT ![s] = [engine[s] EXCEPT !.frame = engine[s].frame + 1]]
    BY <1>2, <1>5 DEF Tick, EngineType
  <2>4. EngineType'
    BY <1>2, <1>5, <2>2, <2>3 DEF Tick, EngineType
  <2>5. QED BY <1>1, <1>2, <1>5, <2>4 DEF Tick
<1>6. CASE s \in Session /\ Check(s)
  BY <1>1, <1>2, <1>6 DEF Check, EngineType
<1>7. CASE WriteFrame
  <2>1. engine[checked] \in Instances /\ checked \in Session
    BY <1>2, <1>7 DEF WriteFrame, EngineType
  <2>2. [session |-> checked, epoch |-> engine[checked].epoch,
         frame |-> engine[checked].frame] \in Frame
    BY <2>1 DEF Instances, Frame
  <2>3. QED BY <1>1, <1>2, <1>7, <2>2 DEF WriteFrame, EngineType
<1>8. QED BY <1>3, <1>4, <1>5, <1>6, <1>7

\* StreamTelemetry's steps touch the wire, the caches and the broadcasts; the
\* hub's and WritePump's touch the client.
LEMMA TypeStream ==
  ASSUME TypeOK, NEW s,
         \/ s \in Session /\ (TakeMessage(s) \/ WriteMessage(s))
         \/ RecvFrame \/ PushFrame \/ BroadcastFrame \/ Dispatch
  PROVE  TypeOK'
<1> USE DEF engineVars, serverVars, clientVars, readerVars
<1>1. ASSUME UNCHANGED <<engineVars, readerVars, calls>>,
             wire' \in Seq(Frame), ServerType', ClientType'
      PROVE  TypeOK'
  BY <1>1 DEF TypeOK, EngineType, ReaderType
<1>2. wire \in Seq(Frame) /\ ServerType /\ ClientType
  BY DEF TypeOK, EngineType
<1>3. CASE RecvFrame
  BY <1>1, <1>2, <1>3 DEF RecvFrame, After, ServerType, ClientType, Tasks
<1>4. CASE PushFrame
  <2>1. task.frame \in Frame /\ task.frame.session \in Session
    BY <1>2, <1>4 DEF PushFrame, ServerType, Frame
  <2>2. Push(caches[task.frame.session], task.frame) \in GoodCache
    BY <1>2, <2>1, PushedCache DEF ServerType
  <2>3. caches' \in [Session -> GoodCache]
    BY <1>2, <1>4, <2>1, <2>2 DEF PushFrame, CacheOf, ServerType
  <2>4. ServerType'
    BY <1>2, <1>4, <2>1, <2>3 DEF PushFrame, After, ServerType, Tasks
  <2>5. QED
    BY <1>1, <1>2, <1>4, <2>4 DEF PushFrame, ClientType
<1>5. CASE BroadcastFrame
  <2>1. broadcast \in Seq(Frame) /\ task.frame \in Frame
    BY <1>2, <1>5 DEF BroadcastFrame, ServerType
  <2>2. broadcast' \in Seq(Frame)
    BY <1>5, <2>1 DEF BroadcastFrame
  <2>3. ServerType'
    BY <1>2, <1>5, <2>2 DEF BroadcastFrame, After, ServerType, Tasks
  <2>4. QED
    BY <1>1, <1>2, <1>5, <2>3 DEF BroadcastFrame, ClientType
<1>6. CASE Dispatch
  <2>1. Head(broadcast) \in Frame
    BY <1>2, <1>6 DEF Dispatch, ServerType
  <2>2. \A t \in Session : Message("LIVE", <<Head(broadcast)>>, plays[t]) \in AnyMessage
    BY <2>1, MessageTypes
  <2>3. \A t \in Session :
          /\ send[t] \in Seq(AnyMessage)
          /\ Append(send[t], Message("LIVE", <<Head(broadcast)>>, plays[t])) \in Seq(AnyMessage)
    <3> TAKE t \in Session
    <3>1. send[t] \in Seq(AnyMessage)
      BY <1>2 DEF ClientType
    <3>2. Message("LIVE", <<Head(broadcast)>>, plays[t]) \in AnyMessage
      BY <2>2
    <3>3. QED BY <3>1, <3>2, AppendProperties
  <2>4. send' \in [Session -> Seq(AnyMessage)]
    BY <1>6, <2>3 DEF Dispatch
  <2>5. broadcast' \in Seq(Frame)
    BY <1>2, <1>6 DEF Dispatch, ServerType
  <2>6. QED
    BY <1>1, <1>2, <1>6, <2>4, <2>5 DEF Dispatch, ServerType, ClientType
<1>7. CASE s \in Session /\ TakeMessage(s)
  <2>1. /\ send[s] \in Seq(AnyMessage) /\ send[s] # << >>
        /\ Head(send[s]) \in AnyMessage /\ Tail(send[s]) \in Seq(AnyMessage)
    BY <1>2, <1>7 DEF TakeMessage, ClientType
  <2>2. /\ << >> \in Seq(AnyMessage)
        /\ <<Head(send[s])>> \in Seq(AnyMessage)
    BY <2>1
  <2>3. ClientType'
    BY <1>2, <1>7, <2>1, <2>2 DEF TakeMessage, ClientType
  <2>4. ServerType'
    BY <1>2, <1>7 DEF TakeMessage, ServerType
  <2>5. QED BY <1>1, <1>2, <1>7, <2>3, <2>4 DEF TakeMessage
<1>8. CASE s \in Session /\ WriteMessage(s)
  <2>1. Head(hand[s]) \in AnyMessage
    BY <1>2, <1>8 DEF WriteMessage, ClientType
  <2>2. Head(hand[s]).type = "LIVE" => Head(hand[s]).frames[1] \in Frame
    BY <2>1 DEF AnyMessage
  <2>3. QED
    <3>1. << >> \in Seq(AnyMessage)
      OBVIOUS
    <3>2. ClientType'
      BY <1>2, <1>8, <2>1, <2>2, <3>1 DEF WriteMessage, ClientType
    <3>3. ServerType'
      BY <1>2, <1>8 DEF WriteMessage, ServerType
    <3>4. QED BY <1>1, <1>2, <1>8, <3>2, <3>3 DEF WriteMessage
<1>9. QED BY <1>3, <1>4, <1>5, <1>6, <1>7, <1>8

\* A call the reader starts.
LEMMA StartCallType ==
  ASSUME ReaderType, NEW s \in Session, NEW op \in Ops, StartCall(s, op)
  PROVE  /\ reader' \in [Session -> Readers]
         /\ \A t \in Session : reader'[t].pc = "reply" => reader'[t].reply # << >>
         /\ calls' \in [Session -> SUBSET Call]
         /\ lastOp' \in [Session -> Ops]
<1> DEFINE call == [id |-> commands + 1, op |-> op]
<1>1. call \in Call
  BY DEF ReaderType, Call
<1>2. /\ calls' = [calls EXCEPT ![s] = calls[s] \cup {call}]
      /\ reader' = [reader EXCEPT ![s] = [reader[s] EXCEPT !.pc = "call", !.call = call]]
      /\ lastOp' = [lastOp EXCEPT ![s] = op]
  BY DEF ReaderType, StartCall, WhileCalling
<1> HIDE DEF call
<1>3. reader[s] \in Readers
  BY DEF ReaderType
<1>4. /\ [reader[s] EXCEPT !.pc = "call", !.call = call] \in Readers
      /\ [reader[s] EXCEPT !.pc = "call", !.call = call].pc = "call"
  BY <1>1, <1>3 DEF Readers
<1>5. reader' \in [Session -> Readers]
  BY <1>2, <1>4 DEF ReaderType
<1>6. \A t \in Session : reader'[t].pc = "reply" => reader'[t].reply # << >>
  BY <1>2, <1>4 DEF ReaderType
<1>7. calls' \in [Session -> SUBSET Call]
  BY <1>1, <1>2 DEF ReaderType
<1>8. lastOp' \in [Session -> Ops]
  BY <1>2 DEF ReaderType
<1>9. QED BY <1>5, <1>6, <1>7, <1>8

LEMMA ResetCacheType ==
  ASSUME ServerType, NEW s \in Session, ResetCache(s)
  PROVE  caches' \in [Session -> GoodCache]
BY WipedCache DEF ServerType, ResetCache

\* The commands that start an engine call.
LEMMA TypeCommand ==
  ASSUME TypeOK, NEW s \in Session,
         Upload(s) \/ Play(s) \/ Pause(s)
  PROVE  TypeOK'
<1> USE DEF engineVars, serverVars, clientVars, readerVars
<1>1. EngineType /\ ServerType /\ ClientType /\ ReaderType
  BY DEF TypeOK
<1>2. commands + 1 \in Nat
  BY <1>1 DEF ReaderType
<1>3. {"UPLOAD", "PLAY", "PAUSE"} \subseteq Ops
  BY DEF Ops
<1>4. CASE Upload(s)
  <2>1. caches' \in [Session -> GoodCache]
    BY <1>1, <1>4, ResetCacheType DEF Upload
  <2>2. ReaderType'
    BY <1>1, <1>2, <1>3, <1>4, StartCallType DEF Upload, Reads, ReaderType
  <2>3. QED
    BY <1>1, <1>4, <2>1, <2>2 DEF Upload, TypeOK, EngineType, ServerType, ClientType
<1>5. CASE Play(s)
  <2>1. caches' \in [Session -> GoodCache]
    BY <1>1, <1>5, ResetCacheType DEF Play
  <2>2. isPaused' \in [Session -> BOOLEAN] /\ plays' \in [Session -> Nat]
    BY <1>1, <1>5 DEF Play, ReaderType
  <2>3. ReaderType'
    BY <1>1, <1>2, <1>3, <1>5, <2>2, StartCallType DEF Play, Reads, ReaderType
  <2>4. QED
    BY <1>1, <1>5, <2>1, <2>3 DEF Play, TypeOK, EngineType, ServerType, ClientType
<1>6. CASE Pause(s)
  <2>1. isPaused' \in [Session -> BOOLEAN]
    BY <1>1, <1>6 DEF Pause, ReaderType
  <2>2. ReaderType'
    BY <1>1, <1>2, <1>3, <1>6, <2>1, StartCallType DEF Pause, Reads, ReaderType
  <2>3. QED
    BY <1>1, <1>6, <2>2 DEF Pause, TypeOK, EngineType, ServerType, ClientType
<1>7. QED BY <1>4, <1>5, <1>6

\* What the other reader steps make of the reader's record.
LEMMA ReaderTypes ==
  ASSUME ReaderType, NEW s \in Session,
         NEW pc \in {"read", "query"}, NEW m \in AnyMessage
  PROVE  /\ [reader[s] EXCEPT !.pc = pc] \in Readers
         /\ [reader[s] EXCEPT !.pc = "read", !.call = NoCall] \in Readers
         /\ [reader[s] EXCEPT !.pc = "read", !.reply = << >>] \in Readers
         /\ [reader[s] EXCEPT !.pc = "reply", !.reply = <<m>>] \in Readers
<1>1. reader[s] \in Readers
  BY DEF ReaderType
<1>2. NoCall \in Call
  BY DEF NoCall, Call, Ops
<1>3. << >> \in Seq(AnyMessage) /\ <<m>> \in Seq(AnyMessage)
  OBVIOUS
<1>4. QED BY <1>1, <1>2, <1>3 DEF Readers

\* A reader step that only changes the reader's record.
LEMMA ReaderStepType ==
  ASSUME ReaderType, NEW s \in Session, NEW r \in Readers,
         r.pc = "reply" => r.reply # << >>,
         reader' = [reader EXCEPT ![s] = r],
         commands' \in Nat, timedOut' \in [Session -> BOOLEAN],
         UNCHANGED <<isPaused, calls, plays, lastOp>>
  PROVE  ReaderType'
BY DEF ReaderType

\* The commands that start no call, and what ends a command.
LEMMA TypeReader ==
  ASSUME TypeOK, NEW s \in Session,
         UploadEmpty(s) \/ FetchHistory(s) \/ Load(s) \/ QueryReturns(s)
           \/ SendReply(s) \/ CallReturns(s) \/ CallTimesOut(s)
  PROVE  TypeOK'
<1> USE DEF engineVars, serverVars, clientVars, readerVars
<1>1. EngineType /\ ServerType /\ ClientType /\ ReaderType
  BY DEF TypeOK
<1>2. /\ send \in [Session -> Seq(AnyMessage)]
      /\ commands \in Nat /\ commands + 1 \in Nat
      /\ timedOut \in [Session -> BOOLEAN]
      /\ reader \in [Session -> Readers]
  BY <1>1 DEF ClientType, ReaderType
<1>3. ASSUME EngineType', caches' \in [Session -> GoodCache], UNCHANGED <<task, broadcast>>,
             send' \in [Session -> Seq(AnyMessage)], UNCHANGED <<hand, screen, shown>>,
             ReaderType'
      PROVE  TypeOK'
  BY <1>1, <1>3 DEF TypeOK, ServerType, ClientType
<1>4. caches \in [Session -> GoodCache]
  BY <1>1 DEF ServerType
<1>5. CASE UploadEmpty(s)
  <2>1. caches' \in [Session -> GoodCache]
    BY <1>1, <1>5, ResetCacheType DEF UploadEmpty
  <2>2. send' \in [Session -> Seq(AnyMessage)]
    BY <1>2, <1>5, MessageTypes, OfferType DEF UploadEmpty
  <2>3. EngineType'
    BY <1>1, <1>5 DEF UploadEmpty, EngineType
  <2>4. ReaderType'
    BY <1>1, <1>2, <1>5 DEF UploadEmpty, Reads, ReaderType
  <2>5. QED BY <1>3, <1>5, <2>1, <2>2, <2>3, <2>4 DEF UploadEmpty
<1>6. CASE FetchHistory(s)
  <2>1. EngineType'
    BY <1>1, <1>6 DEF FetchHistory, EngineType
  <2>2. CASE MayFetch(s)
    <3> DEFINE m == Message("HISTORY", GetHistory(caches[s]), plays[s])
               r == [reader[s] EXCEPT !.pc = "reply", !.reply = <<m>>]
    <3>1. m \in AnyMessage
      BY MessageTypes
    <3>2. r \in Readers /\ r.reply # << >>
      <4>1. <<m>> # << >> /\ r.reply = <<m>>
        BY <1>2 DEF Readers
      <4>2. QED BY <1>1, <3>1, <4>1, ReaderTypes
    <3>3. reader' = [reader EXCEPT ![s] = r]
      BY <1>2, <1>6, <2>2 DEF FetchHistory, HistoryMessage
    <3> HIDE DEF m, r
    <3>4. ReaderType'
      BY <1>1, <1>2, <1>6, <3>2, <3>3, ReaderStepType DEF FetchHistory, Reads
    <3>5. QED BY <1>2, <1>3, <1>4, <1>6, <2>1, <2>2, <3>4 DEF FetchHistory
  <2>3. CASE ~MayFetch(s)
    <3>1. send' \in [Session -> Seq(AnyMessage)]
      BY <1>2, <1>6, <2>3, MessageTypes, OfferType DEF FetchHistory
    <3>2. ReaderType'
      BY <1>1, <1>2, <1>6, <2>3 DEF FetchHistory, Reads, ReaderType
    <3>3. QED BY <1>3, <1>4, <1>6, <2>1, <2>3, <3>1, <3>2 DEF FetchHistory
  <2>4. QED BY <2>2, <2>3
<1>7. CASE Load(s)
  <2> DEFINE r == [reader[s] EXCEPT !.pc = "query"]
  <2>1. caches' \in [Session -> GoodCache]
    BY <1>1, <1>7, ResetCacheType DEF Load
  <2>2. r \in Readers /\ r.pc = "query"
    BY <1>2 DEF Readers
  <2>3. reader' = [reader EXCEPT ![s] = r]
    BY <1>2, <1>7 DEF Load
  <2> HIDE DEF r
  <2>4. ReaderType'
    BY <1>1, <1>2, <1>7, <2>2, <2>3, ReaderStepType DEF Load, Reads
  <2>5. EngineType'
    BY <1>1, <1>7 DEF Load, EngineType
  <2>6. QED BY <1>2, <1>3, <1>7, <2>1, <2>4, <2>5 DEF Load
<1>8. CASE QueryReturns(s)
  <2>1. EngineType'
    BY <1>1, <1>8 DEF QueryReturns, EngineType
  <2>2. UNCHANGED <<isPaused, calls, commands, plays, lastOp, timedOut>>
        /\ UNCHANGED <<task, caches, broadcast, hand, screen, shown>>
    BY <1>8 DEF QueryReturns
  <2>3. ASSUME UNCHANGED send,
               reader' = [reader EXCEPT ![s].pc = "reply",
                            ![s].reply = <<Message("LOADED_SCENE", << >>, plays[s])>>]
        PROVE  TypeOK'
    <3> DEFINE m == Message("LOADED_SCENE", << >>, plays[s])
               r == [reader[s] EXCEPT !.pc = "reply", !.reply = <<m>>]
    <3>1. m \in AnyMessage
      BY MessageTypes
    <3>2. r \in Readers /\ r.reply # << >>
      <4>1. <<m>> # << >> /\ r.reply = <<m>>
        BY <1>2 DEF Readers
      <4>2. QED BY <1>1, <3>1, <4>1, ReaderTypes
    <3>3. reader' = [reader EXCEPT ![s] = r]
      BY <1>2, <2>3
    <3> HIDE DEF m, r
    <3>4. ReaderType'
      BY <1>1, <1>2, <2>2, <3>2, <3>3, ReaderStepType
    <3>5. QED BY <1>2, <1>3, <1>4, <2>1, <2>2, <2>3, <3>4
  <2>4. ASSUME reader' = [reader EXCEPT ![s].pc = "read"], Offer(s, ErrorMessage(s))
        PROVE  TypeOK'
    <3> DEFINE r == [reader[s] EXCEPT !.pc = "read"]
    <3>1. r \in Readers /\ r.pc = "read"
      BY <1>2 DEF Readers
    <3>2. reader' = [reader EXCEPT ![s] = r]
      BY <1>2, <2>4
    <3> HIDE DEF r
    <3>3. ReaderType'
      BY <1>1, <1>2, <2>2, <3>1, <3>2, ReaderStepType
    <3>4. send' \in [Session -> Seq(AnyMessage)]
      BY <1>2, <2>4, MessageTypes, OfferType
    <3>5. QED BY <1>3, <1>4, <2>1, <2>2, <3>3, <3>4
  <2>5. QED BY <1>8, <2>3, <2>4 DEF QueryReturns
<1>9. CASE SendReply(s)
  <2> DEFINE r == [reader[s] EXCEPT !.pc = "read", !.reply = << >>]
  <2>1. r \in Readers /\ r.pc = "read"
    <3>1. << >> \in Seq(AnyMessage)
      OBVIOUS
    <3>2. QED BY <1>2, <3>1 DEF Readers
  <2>2. reader' = [reader EXCEPT ![s] = r]
    BY <1>2, <1>9 DEF SendReply
  <2> HIDE DEF r
  <2>3. ReaderType'
    BY <1>1, <1>2, <1>9, <2>1, <2>2, ReaderStepType DEF SendReply
  <2>4. reader[s].reply \in Seq(AnyMessage) /\ reader[s].reply # << >>
    BY <1>1, <1>9 DEF SendReply, ReaderType, Readers
  <2>5. Head(reader[s].reply) \in AnyMessage
    BY <2>4
  <2>6. send' \in [Session -> Seq(AnyMessage)]
    BY <1>2, <1>9, <2>5, OfferType DEF SendReply
  <2>7. EngineType'
    BY <1>1, <1>9 DEF SendReply, EngineType
  <2>8. QED BY <1>3, <1>4, <1>9, <2>3, <2>6, <2>7 DEF SendReply
<1>10. CASE CallReturns(s)
  <2> DEFINE r == [reader[s] EXCEPT !.pc = "read", !.call = NoCall]
  <2>1. r \in Readers /\ r.pc = "read"
    <3>1. NoCall \in Call
      BY DEF NoCall, Call, Ops
    <3>2. QED BY <1>2, <3>1 DEF Readers
  <2>2. reader' = [reader EXCEPT ![s] = r]
    BY <1>2, <1>10 DEF CallReturns
  <2> HIDE DEF r
  <2>3. ReaderType'
    BY <1>1, <1>2, <1>10, <2>1, <2>2, ReaderStepType DEF CallReturns
  <2>4. EngineType'
    BY <1>1, <1>10 DEF CallReturns, EngineType
  <2>5. QED BY <1>2, <1>3, <1>4, <1>10, <2>3, <2>4 DEF CallReturns
<1>11. CASE CallTimesOut(s)
  <2> DEFINE r == [reader[s] EXCEPT !.pc = "read", !.call = NoCall]
  <2>1. r \in Readers /\ r.pc = "read"
    <3>1. NoCall \in Call
      BY DEF NoCall, Call, Ops
    <3>2. QED BY <1>2, <3>1 DEF Readers
  <2>2. reader' = [reader EXCEPT ![s] = r]
    BY <1>2, <1>11 DEF CallTimesOut
  <2> HIDE DEF r
  <2>3. timedOut' \in [Session -> BOOLEAN]
    BY <1>2, <1>11 DEF CallTimesOut
  <2>4. ReaderType'
    BY <1>1, <1>2, <1>11, <2>1, <2>2, <2>3, ReaderStepType DEF CallTimesOut
  <2>5. send' \in [Session -> Seq(AnyMessage)]
    BY <1>2, <1>11, MessageTypes, OfferType DEF CallTimesOut
  <2>6. EngineType'
    BY <1>1, <1>11 DEF CallTimesOut, EngineType
  <2>7. QED BY <1>3, <1>4, <1>11, <2>4, <2>5, <2>6 DEF CallTimesOut
<1>12. QED BY <1>5, <1>6, <1>7, <1>8, <1>9, <1>10, <1>11

LEMMA TypeNext == TypeOK /\ [Next]_vars => TypeOK'
<1> SUFFICES ASSUME TypeOK, [Next]_vars PROVE TypeOK'
  OBVIOUS
<1>1. CASE UNCHANGED vars
  BY <1>1 DEF vars, TypeOK, EngineType, ServerType, ClientType, ReaderType
<1>2. CASE Next
  BY <1>2, TypeEngine, TypeStream, TypeCommand, TypeReader DEF Next
<1>3. QED BY <1>1, <1>2

\* The pipeline keeps its types, for every number of sessions and every capacity:
\* no queue ever holds anything but frames or messages, a reply is there when it
\* is to be sent, a frame is in hand when it is to be cached, and every ring
\* stays consistent.
THEOREM TypeCorrect == Spec => []TypeOK
BY TypeInit, TypeNext, PTL DEF Spec

-----------------------------------------------------------------------------
(* The engine and the last command *)

\* While no call of the session was given up on, the only call the engine may
\* still hold is the one its reader waits for, it is the last one made, and once
\* the engine has finished with it the instance runs if and only if it was PLAY.
Awaited(s) ==
  ~timedOut[s] =>
    /\ calls[s] \subseteq {reader[s].call}
    /\ reader[s].pc # "call" => calls[s] = {}
    /\ reader[s].pc = "call" => reader[s].call.op = lastOp[s]
    /\ calls[s] = {} => (engine[s].running <=> lastOp[s] = "PLAY")

CallsAwaited == \A s \in Session : Awaited(s)

LEMMA AwaitedInit == Init => CallsAwaited
BY DEF Init, CallsAwaited, Awaited, NoCall

\* A session none of whose calls moves.
LEMMA AwaitedKept ==
  ASSUME NEW t \in Session, Awaited(t),
         timedOut'[t] = timedOut[t], calls'[t] = calls[t], lastOp'[t] = lastOp[t],
         engine'[t].running = engine[t].running,
         \/ reader'[t] = reader[t]
         \/ /\ reader[t].pc # "call"
            /\ reader'[t].pc # "call"
            /\ reader'[t].call = reader[t].call
  PROVE  Awaited(t)'
BY DEF Awaited

\* A command that starts a call finds none outstanding.
LEMMA AwaitedStart ==
  ASSUME ReaderType, CallsAwaited, NEW s \in Session, NEW op, StartCall(s, op),
         reader[s].pc = "read", UNCHANGED <<timedOut, engine>>
  PROVE  CallsAwaited'
<1> DEFINE call == [id |-> commands + 1, op |-> op]
<1>1. /\ calls' = [calls EXCEPT ![s] = calls[s] \cup {call}]
      /\ reader' = [reader EXCEPT ![s] = [reader[s] EXCEPT !.pc = "call", !.call = call]]
      /\ lastOp' = [lastOp EXCEPT ![s] = op]
      /\ call.op = op
  BY DEF ReaderType, StartCall, WhileCalling
<1> HIDE DEF call
<1>2. reader[s] \in Readers
  BY DEF ReaderType
<1>3. Awaited(s)'
  <2>1. ~timedOut[s] => calls[s] = {}
    BY DEF CallsAwaited, Awaited
  <2>2. /\ calls'[s] = calls[s] \cup {call}
        /\ reader'[s].call = call /\ reader'[s].pc = "call"
        /\ lastOp'[s] = op
    BY <1>1, <1>2 DEF ReaderType, Readers
  <2>3. QED BY <1>1, <2>1, <2>2 DEF Awaited
<1>4. ASSUME NEW t \in Session, t # s PROVE Awaited(t)'
  <2>1. calls'[t] = calls[t] /\ reader'[t] = reader[t] /\ lastOp'[t] = lastOp[t]
    BY <1>1, <1>4 DEF ReaderType
  <2>2. QED BY <2>1, AwaitedKept DEF CallsAwaited
<1>5. QED BY <1>3, <1>4 DEF CallsAwaited

\* What the engine does with a call.
LEMMA AwaitedEngine ==
  ASSUME TypeOK, CallsAwaited, NEW s \in Session,
         Execute(s) \/ Cancelled(s) \/ Tick(s)
  PROVE  CallsAwaited'
<1> USE DEF readerVars
<1>1. EngineType /\ ReaderType
  BY DEF TypeOK
<1>2. UNCHANGED <<reader, lastOp, timedOut>>
  BY DEF Execute, Cancelled, Tick
<1>3. CASE Execute(s)
  <2>1. PICK call \in calls[s] :
          /\ calls' = [calls EXCEPT ![s] = @ \ {call}]
          /\ engine' = [engine EXCEPT ![s] =
               IF call.op = "UPLOAD"
                 THEN [loaded |-> TRUE, running |-> FALSE,
                       epoch |-> engine[s].epoch + 1, frame |-> 0]
                 ELSE [engine[s] EXCEPT !.running = (call.op = "PLAY")]]
    BY <1>3 DEF Execute
  <2>2. /\ calls'[s] = calls[s] \ {call}
        /\ engine[s] \in Instances
        /\ engine'[s] = IF call.op = "UPLOAD"
                          THEN [loaded |-> TRUE, running |-> FALSE,
                                epoch |-> engine[s].epoch + 1, frame |-> 0]
                          ELSE [engine[s] EXCEPT !.running = (call.op = "PLAY")]
    BY <1>1, <2>1 DEF EngineType, ReaderType
  <2>3. engine'[s].running <=> call.op = "PLAY"
    <3>1. CASE call.op = "UPLOAD"
      BY <2>2, <3>1
    <3>2. CASE call.op # "UPLOAD"
      <4>1. \A b \in BOOLEAN : [engine[s] EXCEPT !.running = b].running = b
        BY <2>2 DEF Instances
      <4>2. (call.op = "PLAY") \in BOOLEAN
        OBVIOUS
      <4>3. engine'[s].running = (call.op = "PLAY")
        BY <2>2, <3>2, <4>1, <4>2
      <4>4. QED BY <4>3
    <3>3. QED BY <3>1, <3>2
  <2>4. Awaited(s)'
    <3>1. ~timedOut[s] =>
            /\ call = reader[s].call
            /\ reader[s].pc = "call"
            /\ call.op = lastOp[s]
            /\ calls'[s] = {}
      BY <2>2 DEF CallsAwaited, Awaited
    <3>2. QED BY <1>2, <2>3, <3>1 DEF CallsAwaited, Awaited
  <2>5. ASSUME NEW t \in Session, t # s PROVE Awaited(t)'
    <3>1. calls'[t] = calls[t] /\ engine'[t] = engine[t]
      BY <1>1, <2>1, <2>5 DEF EngineType, ReaderType
    <3>2. QED BY <1>2, <3>1, AwaitedKept DEF CallsAwaited
  <2>6. QED BY <2>4, <2>5 DEF CallsAwaited
<1>4. CASE Cancelled(s)
  <2>1. PICK call \in calls[s] \ {reader[s].call} :
          /\ calls' = [calls EXCEPT ![s] = @ \ {call}]
          /\ UNCHANGED engineVars
    BY <1>4 DEF Cancelled
  <2>2. engine' = engine
    BY <2>1 DEF engineVars
  <2>3. Awaited(s)'
    <3>1. timedOut[s]
      BY <2>1 DEF CallsAwaited, Awaited
    <3>2. QED BY <1>2, <3>1 DEF Awaited
  <2>4. ASSUME NEW t \in Session, t # s PROVE Awaited(t)'
    <3>1. calls'[t] = calls[t]
      BY <1>1, <2>1, <2>4 DEF ReaderType
    <3>2. QED BY <1>2, <2>2, <3>1, AwaitedKept DEF CallsAwaited
  <2>5. QED BY <2>3, <2>4 DEF CallsAwaited
<1>5. CASE Tick(s)
  <2>1. UNCHANGED calls
    BY <1>5 DEF Tick
  <2>2. ASSUME NEW t \in Session PROVE engine'[t].running = engine[t].running
    BY <1>1, <1>5 DEF Tick, EngineType, Instances
  <2>3. QED BY <1>2, <2>1, <2>2, AwaitedKept DEF CallsAwaited
<1>6. QED BY <1>3, <1>4, <1>5

\* A reader step that leaves the engine alone.
LEMMA AwaitedReader ==
  ASSUME TypeOK, CallsAwaited, NEW s \in Session,
         UploadEmpty(s) \/ FetchHistory(s) \/ Load(s) \/ QueryReturns(s)
           \/ SendReply(s) \/ CallReturns(s) \/ CallTimesOut(s)
  PROVE  CallsAwaited'
<1> USE DEF engineVars
<1>1. ReaderType /\ reader[s] \in Readers
  BY DEF TypeOK, ReaderType
<1>2. UNCHANGED <<engine, calls, lastOp>>
  BY DEF UploadEmpty, FetchHistory, Load, QueryReturns, SendReply, CallReturns, CallTimesOut
<1>3. ASSUME NEW t \in Session, t # s PROVE Awaited(t)'
  <2>1. reader'[t] = reader[t] /\ timedOut'[t] = timedOut[t]
    BY <1>1, <1>3 DEF UploadEmpty, FetchHistory, Load, QueryReturns, SendReply, CallReturns,
                      CallTimesOut, ReaderType
  <2>2. QED BY <1>2, <2>1, AwaitedKept DEF CallsAwaited
<1>4. Awaited(s)'
  <2>1. CASE CallReturns(s)
    <3>1. /\ reader[s].pc = "call" /\ reader[s].call \notin calls[s]
          /\ timedOut' = timedOut
          /\ reader'[s].pc = "read"
      BY <1>1, <2>1 DEF CallReturns, ReaderType, Readers
    <3>2. ~timedOut[s] => calls[s] = {}
      BY <3>1 DEF CallsAwaited, Awaited
    <3>3. QED BY <1>2, <3>1, <3>2 DEF CallsAwaited, Awaited
  <2>2. CASE CallTimesOut(s)
    <3>1. timedOut'[s]
      BY <1>1, <2>2 DEF CallTimesOut, ReaderType
    <3>2. QED BY <3>1 DEF Awaited
  <2>3. CASE UploadEmpty(s)
    BY <1>2, <2>3, AwaitedKept DEF UploadEmpty, CallsAwaited
  <2>4. CASE FetchHistory(s) \/ Load(s) \/ QueryReturns(s) \/ SendReply(s)
    <3>1. timedOut' = timedOut
      BY <2>4 DEF FetchHistory, Load, QueryReturns, SendReply
    <3>2. \/ reader'[s] = reader[s]
          \/ /\ reader[s].pc # "call"
             /\ reader'[s].pc # "call"
             /\ reader'[s].call = reader[s].call
      BY <1>1, <2>4 DEF FetchHistory, Reads, Load, QueryReturns, SendReply, ReaderType, Readers
    <3>3. QED BY <1>2, <3>1, <3>2, AwaitedKept DEF CallsAwaited
  <2>5. QED BY <2>1, <2>2, <2>3, <2>4
<1>5. QED BY <1>3, <1>4 DEF CallsAwaited

LEMMA AwaitedNext == TypeOK /\ CallsAwaited /\ [Next]_vars => CallsAwaited'
<1> SUFFICES ASSUME TypeOK, CallsAwaited, [Next]_vars PROVE CallsAwaited'
  OBVIOUS
<1>1. ReaderType
  BY DEF TypeOK
<1>2. ASSUME UNCHANGED <<engine, readerVars, calls>> PROVE CallsAwaited'
  BY <1>2, AwaitedKept DEF readerVars, CallsAwaited
<1>3. CASE UNCHANGED vars
  BY <1>2, <1>3 DEF vars, readerVars
<1>4. ASSUME NEW s \in Session, Upload(s) \/ Play(s) \/ Pause(s) PROVE CallsAwaited'
  BY <1>1, <1>4, AwaitedStart DEF Upload, Play, Pause, Reads, engineVars
<1>5. ASSUME NEW s \in Session, Check(s) \/ TakeMessage(s) \/ WriteMessage(s)
      PROVE  CallsAwaited'
  BY <1>2, <1>5 DEF Check, TakeMessage, WriteMessage, engineVars
<1>6. CASE WriteFrame \/ RecvFrame \/ PushFrame \/ BroadcastFrame \/ Dispatch
  BY <1>2, <1>6 DEF WriteFrame, RecvFrame, PushFrame, BroadcastFrame, Dispatch, engineVars
<1>7. CASE Next
  BY <1>4, <1>5, <1>6, <1>7, AwaitedEngine, AwaitedReader DEF Next
<1>8. QED BY <1>3, <1>7

\* Between commands, as long as no call of the session has missed its deadline,
\* the engine runs the session's simulation if and only if the last call made was
\* PLAY: ReadPump waits for each call before it reads the next command
\* (client.go:97-136, 138-183).
THEOREM ObeysLastCommand == Spec => []EngineObeysLastCommand
<1>1. TypeOK /\ CallsAwaited => EngineObeysLastCommand
  <2> SUFFICES ASSUME TypeOK, CallsAwaited, NEW s \in Session,
                      reader[s].pc = "read", ~timedOut[s]
               PROVE  engine[s].running = (lastOp[s] = "PLAY")
    BY DEF EngineObeysLastCommand
  <2>1. engine[s].running \in BOOLEAN
    BY DEF TypeOK, EngineType, Instances
  <2>2. engine[s].running <=> lastOp[s] = "PLAY"
    BY DEF CallsAwaited, Awaited
  <2>3. QED BY <2>1, <2>2
<1>2. QED
  BY TypeInit, TypeNext, AwaitedInit, AwaitedNext, <1>1, PTL DEF Spec

-----------------------------------------------------------------------------
(* Who writes what *)

\* The steps of a session that may change each variable, and those of the server.
LEMMA EngineWriters ==
  ASSUME [Next]_vars
  PROVE  /\ engine' = engine \/ \E t \in Session : Execute(t) \/ Tick(t)
         /\ wire' = wire \/ WriteFrame \/ RecvFrame
         /\ task' = task \/ RecvFrame \/ PushFrame \/ BroadcastFrame
         /\ broadcast' = broadcast \/ BroadcastFrame \/ Dispatch
         /\ caches' = caches \/ PushFrame \/ \E t \in Session : ResetCache(t)
<1> USE DEF engineVars, serverVars, clientVars, readerVars
<1>1. CASE UNCHANGED vars
  BY <1>1 DEF vars
<1>2. ASSUME NEW s \in Session,
             \/ Upload(s) \/ UploadEmpty(s) \/ Play(s) \/ Pause(s) \/ FetchHistory(s)
             \/ Load(s) \/ QueryReturns(s) \/ SendReply(s) \/ CallReturns(s)
             \/ CallTimesOut(s)
      PROVE  /\ UNCHANGED <<engine, wire, task, broadcast>>
             /\ caches' = caches \/ ResetCache(s)
  BY <1>2 DEF Upload, UploadEmpty, Play, Pause, FetchHistory, Load, QueryReturns, SendReply,
              CallReturns, CallTimesOut
<1>3. ASSUME NEW s \in Session, Execute(s) \/ Tick(s)
      PROVE  UNCHANGED <<wire, task, broadcast, caches>>
  BY <1>3 DEF Execute, Tick
<1>4. ASSUME NEW s \in Session,
             Cancelled(s) \/ Check(s) \/ TakeMessage(s) \/ WriteMessage(s)
      PROVE  UNCHANGED <<engine, wire, task, broadcast, caches>>
  BY <1>4 DEF Cancelled, Check, TakeMessage, WriteMessage
<1>5. CASE WriteFrame
  BY <1>5 DEF WriteFrame
<1>6. CASE RecvFrame
  BY <1>6 DEF RecvFrame
<1>7. CASE PushFrame
  BY <1>7 DEF PushFrame
<1>8. CASE BroadcastFrame
  BY <1>8 DEF BroadcastFrame
<1>9. CASE Dispatch
  BY <1>9 DEF Dispatch
<1>10. QED
  BY <1>1, <1>2, <1>3, <1>4, <1>5, <1>6, <1>7, <1>8, <1>9 DEF Next

LEMMA ClientWriters ==
  ASSUME [Next]_vars
  PROVE  /\ \/ send' = send
            \/ Dispatch
            \/ \E t \in Session :
                 \/ UploadEmpty(t) \/ FetchHistory(t) \/ QueryReturns(t)
                 \/ SendReply(t) \/ CallTimesOut(t) \/ TakeMessage(t)
         /\ hand' = hand \/ \E t \in Session : TakeMessage(t) \/ WriteMessage(t)
         /\ \/ screen' = screen /\ shown' = shown
            \/ \E t \in Session : WriteMessage(t)
         /\ \/ reader' = reader
            \/ \E t \in Session :
                 \/ Upload(t) \/ Play(t) \/ Pause(t) \/ FetchHistory(t) \/ Load(t)
                 \/ QueryReturns(t) \/ SendReply(t) \/ CallReturns(t) \/ CallTimesOut(t)
         /\ \/ isPaused' = isPaused /\ plays' = plays
            \/ \E t \in Session : Play(t) \/ Pause(t)
<1> USE DEF engineVars, serverVars, clientVars, readerVars
<1>1. CASE UNCHANGED vars
  BY <1>1 DEF vars
<1>2. ASSUME NEW s \in Session, Upload(s) \/ Load(s) \/ CallReturns(s)
      PROVE  UNCHANGED <<send, hand, screen, shown, isPaused, plays>>
  BY <1>2 DEF Upload, Load, CallReturns
<1>3. ASSUME NEW s \in Session, Play(s) \/ Pause(s)
      PROVE  UNCHANGED <<send, hand, screen, shown>>
  BY <1>3 DEF Play, Pause
<1>4. ASSUME NEW s \in Session,
             \/ UploadEmpty(s) \/ FetchHistory(s) \/ QueryReturns(s) \/ SendReply(s)
             \/ CallTimesOut(s)
      PROVE  /\ UNCHANGED <<hand, screen, shown, isPaused, plays>>
             /\ UploadEmpty(s) => reader' = reader
  BY <1>4 DEF UploadEmpty, FetchHistory, QueryReturns, SendReply, CallTimesOut
<1>5. ASSUME NEW s \in Session, Execute(s) \/ Cancelled(s) \/ Tick(s) \/ Check(s)
      PROVE  UNCHANGED <<send, hand, screen, shown, reader, isPaused, plays>>
  BY <1>5 DEF Execute, Cancelled, Tick, Check
<1>6. ASSUME NEW s \in Session, TakeMessage(s) \/ WriteMessage(s)
      PROVE  /\ UNCHANGED <<reader, isPaused, plays>>
             /\ TakeMessage(s) => UNCHANGED <<screen, shown>>
             /\ WriteMessage(s) => send' = send
  BY <1>6 DEF TakeMessage, WriteMessage
<1>7. CASE WriteFrame \/ RecvFrame \/ PushFrame \/ BroadcastFrame
  BY <1>7 DEF WriteFrame, RecvFrame, PushFrame, BroadcastFrame
<1>8. CASE Dispatch
  BY <1>8 DEF Dispatch
<1>9. QED
  BY <1>1, <1>2, <1>3, <1>4, <1>5, <1>6, <1>7, <1>8 DEF Next

-----------------------------------------------------------------------------
(* How messages and frames flow *)

Messages(s) ==
  Elems(reader[s].reply) \cup Elems(send[s]) \cup Elems(hand[s]) \cup {screen[s]}

LiveFrames(q) == {m.frames[1] : m \in {x \in Elems(q) : x.type = "LIVE"}}

\* The live frames that passed the pause gate.
Showing(s) == LiveFrames(hand[s]) \cup ({shown[s]} \ {NoFrame})

\* Frames of s that were pushed into its cache and are on their way to the
\* screen, or on it.
Downstream(s) ==
  {f \in Elems(broadcast) : f.session = s}
    \cup {f \in {task.frame} : task.pc = "broadcast" /\ f.session = s}
    \cup LiveFrames(send[s]) \cup Showing(s)

LEMMA OfferElems ==
  ASSUME send \in [Session -> Seq(AnyMessage)], NEW s \in Session,
         NEW m \in AnyMessage, Offer(s, m), NEW t \in Session
  PROVE  Elems(send'[t]) \subseteq Elems(send[t]) \cup (IF t = s THEN {m} ELSE {})
<1>1. CASE send' = send
  BY <1>1
<1>2. CASE send' = [send EXCEPT ![s] = Append(send[s], m)]
  <2>1. send[s] \in Seq(AnyMessage)
    OBVIOUS
  <2>2. Elems(Append(send[s], m)) = Elems(send[s]) \cup {m}
    BY <2>1, ElemsAppend
  <2>3. QED BY <1>2, <2>2
<1>3. QED BY <1>1, <1>2 DEF Offer

\* A message joins the client's channel as an error, as the reply ReadPump was
\* waiting to send, or as the session's own frame.
LEMMA SendFlow ==
  ASSUME TypeOK, [Next]_vars, NEW s \in Session, NEW m \in Elems(send'[s])
  PROVE  \/ m \in Elems(send[s])
         \/ m \in Elems(reader[s].reply)
         \/ m = ErrorMessage(s)
         \/ /\ Dispatch
            /\ Head(broadcast).session = s
            /\ m = Message("LIVE", <<Head(broadcast)>>, plays[s])
<1>1. send \in [Session -> Seq(AnyMessage)] /\ send[s] \in Seq(AnyMessage)
  BY DEF TypeOK, ClientType
<1>2. CASE send' = send
  BY <1>2
<1>3. CASE Dispatch
  <2>1. broadcast \in Seq(Frame) /\ broadcast # << >>
    BY <1>3 DEF Dispatch, TypeOK, ServerType
  <2>2. Head(broadcast) \in Frame
    BY <2>1
  <2>3. Message("LIVE", <<Head(broadcast)>>, plays[s]) \in AnyMessage
    BY <2>2, MessageTypes
  <2>4. Elems(Append(send[s], Message("LIVE", <<Head(broadcast)>>, plays[s]))) =
          Elems(send[s]) \cup {Message("LIVE", <<Head(broadcast)>>, plays[s])}
    BY <1>1, <2>3, ElemsAppend
  <2>5. \/ send'[s] = send[s]
        \/ /\ Head(broadcast).session = s
           /\ send'[s] = Append(send[s], Message("LIVE", <<Head(broadcast)>>, plays[s]))
    BY <1>3 DEF Dispatch, Receives
  <2>6. QED BY <1>3, <2>4, <2>5
<1>4. ASSUME NEW t \in Session,
             UploadEmpty(t) \/ FetchHistory(t) \/ QueryReturns(t) \/ CallTimesOut(t)
      PROVE  m \in Elems(send[s]) \/ m = ErrorMessage(s)
  <2>1. send' = send \/ Offer(t, ErrorMessage(t))
    BY <1>4 DEF UploadEmpty, FetchHistory, QueryReturns, CallTimesOut
  <2>2. QED BY <1>1, <2>1, OfferElems, MessageTypes
<1>5. ASSUME NEW t \in Session, SendReply(t)
      PROVE  m \in Elems(send[s]) \/ m \in Elems(reader[s].reply)
  <2>1. reader[t].reply \in Seq(AnyMessage) /\ reader[t].reply # << >>
    BY <1>5 DEF SendReply, TypeOK, ReaderType, Readers
  <2>2. Head(reader[t].reply) \in AnyMessage
        /\ Head(reader[t].reply) \in Elems(reader[t].reply)
    BY <2>1, ElemsTail
  <2>3. Offer(t, Head(reader[t].reply))
    BY <1>5 DEF SendReply
  <2>4. QED BY <1>1, <2>2, <2>3, OfferElems
<1>6. ASSUME NEW t \in Session, TakeMessage(t)
      PROVE  m \in Elems(send[s])
  <2>1. send[t] \in Seq(AnyMessage) /\ send[t] # << >>
        /\ send' = [send EXCEPT ![t] = Tail(send[t])]
    BY <1>6 DEF TakeMessage, TypeOK, ClientType
  <2>2. Elems(Tail(send[t])) \subseteq Elems(send[t])
    BY <2>1, ElemsTail
  <2>3. QED BY <1>1, <2>1, <2>2
<1>7. QED BY <1>2, <1>3, <1>4, <1>5, <1>6, ClientWriters

\* A reply is a loaded scene, or the history of the cache as it is now, when the
\* client is paused.
LEMMA ReplyFlow ==
  ASSUME TypeOK, [Next]_vars, NEW s \in Session, NEW m \in Elems(reader'[s].reply)
  PROVE  \/ m \in Elems(reader[s].reply)
         \/ m = Message("LOADED_SCENE", << >>, plays[s])
         \/ /\ FetchHistory(s) /\ isPaused[s]
            /\ m = Message("HISTORY", GetHistory(caches[s]), plays[s])
<1>1. reader \in [Session -> Readers] /\ reader[s] \in Readers
  BY DEF TypeOK, ReaderType
<1>2. CASE reader' = reader
  BY <1>2
<1>3. ASSUME NEW t \in Session,
             \/ Upload(t) \/ Play(t) \/ Pause(t) \/ Load(t) \/ CallReturns(t)
             \/ CallTimesOut(t)
      PROVE  reader'[s].reply = reader[s].reply
  <2>1. ASSUME NEW op, StartCall(t, op) PROVE reader'[s].reply = reader[s].reply
    <3>1. reader' = [reader EXCEPT ![t].pc = "call",
                                   ![t].call = [id |-> commands + 1, op |-> op]]
      BY <2>1 DEF StartCall, WhileCalling
    <3>2. QED BY <1>1, <3>1 DEF Readers
  <2>2. CASE Upload(t) \/ Play(t) \/ Pause(t)
    BY <2>1, <2>2 DEF Upload, Play, Pause
  <2>3. CASE Load(t) \/ CallReturns(t) \/ CallTimesOut(t)
    BY <1>1, <2>3 DEF Load, CallReturns, CallTimesOut, Readers
  <2>4. QED BY <1>3, <2>2, <2>3
<1>4. ASSUME NEW t \in Session, FetchHistory(t) PROVE
        \/ reader'[s].reply = reader[s].reply
        \/ /\ t = s /\ isPaused[s]
           /\ reader'[s].reply = <<Message("HISTORY", GetHistory(caches[s]), plays[s])>>
  BY <1>1, <1>4 DEF FetchHistory, MayFetch, HistoryMessage, Readers
<1>5. ASSUME NEW t \in Session, QueryReturns(t) PROVE
        \/ reader'[s].reply = reader[s].reply
        \/ reader'[s].reply = <<Message("LOADED_SCENE", << >>, plays[s])>>
  <2>1. CASE t = s
    BY <1>1, <1>5, <2>1 DEF QueryReturns, Readers
  <2>2. CASE t # s
    BY <1>1, <1>5, <2>2 DEF QueryReturns
  <2>3. QED BY <2>1, <2>2
<1>6. ASSUME NEW t \in Session, SendReply(t)
      PROVE  reader'[s].reply = reader[s].reply \/ reader'[s].reply = << >>
  BY <1>1, <1>6 DEF SendReply, Readers
<1>7. QED
  BY <1>2, <1>3, <1>4, <1>5, <1>6, ElemsSmall, ClientWriters

\* WritePump takes what the channel holds, if the gate lets it.
LEMMA HandFlow ==
  ASSUME TypeOK, [Next]_vars, NEW s \in Session, NEW m \in Elems(hand'[s])
  PROVE  \/ m \in Elems(hand[s])
         \/ m \in Elems(send[s]) /\ PassesGate(s, m)
<1>1. hand \in [Session -> Seq(AnyMessage)]
  BY DEF TypeOK, ClientType
<1>2. ASSUME NEW t \in Session, TakeMessage(t)
      PROVE  \/ m \in Elems(hand[s])
             \/ m \in Elems(send[s]) /\ PassesGate(s, m)
  <2>1. send[t] \in Seq(AnyMessage) /\ send[t] # << >>
    BY <1>2 DEF TakeMessage, TypeOK, ClientType
  <2>2. Head(send[t]) \in Elems(send[t])
    BY <2>1, ElemsTail
  <2>3. \/ hand'[s] = hand[s]
        \/ hand'[s] = << >>
        \/ t = s /\ hand'[s] = <<Head(send[s])>> /\ PassesGate(s, Head(send[s]))
    BY <1>1, <1>2 DEF TakeMessage
  <2>4. CASE t = s /\ hand'[s] = <<Head(send[s])>> /\ PassesGate(s, Head(send[s]))
    <3>1. m = Head(send[s])
      BY <2>4, ElemsSmall
    <3>2. QED BY <2>2, <2>4, <3>1
  <2>5. QED BY <2>3, <2>4, ElemsSmall
<1>3. ASSUME NEW t \in Session, WriteMessage(t) PROVE m \in Elems(hand[s])
  <2>1. hand'[s] = hand[s] \/ hand'[s] = << >>
    BY <1>1, <1>3 DEF WriteMessage
  <2>2. QED BY <2>1, ElemsSmall
<1>4. QED BY <1>2, <1>3, ClientWriters

\* The browser receives what WritePump had in hand.
LEMMA ScreenFlow ==
  ASSUME TypeOK, [Next]_vars, NEW s \in Session
  PROVE  \/ screen'[s] = screen[s] /\ shown'[s] = shown[s]
         \/ /\ WriteMessage(s)
            /\ screen'[s] \in Elems(hand[s])
            /\ shown'[s] = IF screen'[s].type = "LIVE" THEN screen'[s].frames[1]
                                                       ELSE shown[s]
            /\ hand'[s] = << >>
<1>1. /\ hand \in [Session -> Seq(AnyMessage)] /\ screen \in [Session -> AnyMessage]
      /\ shown \in [Session -> Frame \cup {NoFrame}]
  BY DEF TypeOK, ClientType
<1>2. CASE screen' = screen /\ shown' = shown
  BY <1>2
<1>3. ASSUME NEW t \in Session, t # s, WriteMessage(t)
      PROVE  screen'[s] = screen[s] /\ shown'[s] = shown[s]
  BY <1>1, <1>3 DEF WriteMessage
<1>4. CASE WriteMessage(s)
  <2>1. hand[s] \in Seq(AnyMessage) /\ hand[s] # << >>
    BY <1>1, <1>4 DEF WriteMessage
  <2>2. Head(hand[s]) \in Elems(hand[s])
    BY <2>1, ElemsTail
  <2>3. /\ screen'[s] = Head(hand[s])
        /\ shown'[s] = IF Head(hand[s]).type = "LIVE" THEN Head(hand[s]).frames[1]
                                                      ELSE shown[s]
        /\ hand'[s] = << >>
    BY <1>1, <1>4 DEF WriteMessage
  <2>4. QED BY <1>4, <2>2, <2>3
<1>5. QED BY <1>2, <1>3, <1>4, ClientWriters

History(s) == GetHistory(caches[s])

\* A history is wiped, or gains the frame StreamTelemetry has in hand.
LEMMA HistoryFlow ==
  ASSUME TypeOK, [Next]_vars, NEW s \in Session
  PROVE  /\ History(s) \in Seq(Frame) /\ Len(History(s)) <= MaxSize
         /\ PushFrame /\ task.frame.session = s =>
              /\ task.frame \in Frame
              /\ History(s)' = IF Len(History(s)) < MaxSize
                                 THEN Append(History(s), task.frame)
                                 ELSE Append(Tail(History(s)), task.frame)
         /\ ~(PushFrame /\ task.frame.session = s) =>
              History(s)' = History(s) \/ History(s)' = << >>
<1>1. caches \in [Session -> GoodCache] /\ caches[s] \in GoodCache
  BY DEF TypeOK, ServerType
<1>2. History(s) \in Seq(Frame) /\ Len(History(s)) <= MaxSize
  BY <1>1, HistoryOfCache DEF History
<1>3. ASSUME caches' = caches PROVE History(s)' = History(s)
  BY <1>3 DEF History
<1>4. ASSUME NEW t \in Session, ResetCache(t)
      PROVE  History(s)' = History(s) \/ History(s)' = << >>
  <2>1. caches'[s] = caches[s] \/ caches'[s] = NewSimulationCache
    BY <1>1, <1>4, WipedCache DEF ResetCache
  <2>2. QED BY <2>1, WipedCache DEF History
<1>5. ASSUME PushFrame
      PROVE  /\ task.frame \in Frame
             /\ task.frame.session # s => History(s)' = History(s)
             /\ task.frame.session = s =>
                  History(s)' = IF Len(History(s)) < MaxSize
                                  THEN Append(History(s), task.frame)
                                  ELSE Append(Tail(History(s)), task.frame)
  <2>1. task.frame \in Frame /\ task.frame.session \in Session
    BY <1>5 DEF PushFrame, TypeOK, ServerType, Frame
  <2>2. caches' = [caches EXCEPT ![task.frame.session] =
                     Push(caches[task.frame.session], task.frame)]
    BY <1>5 DEF PushFrame, CacheOf
  <2>3. CASE task.frame.session = s
    <3>1. caches'[s] = Push(caches[s], task.frame)
      BY <1>1, <2>2, <2>3
    <3>2. QED BY <1>1, <1>2, <1>5, <2>1, <2>3, <3>1, PushedCache DEF History
  <2>4. CASE task.frame.session # s
    <3>1. caches'[s] = caches[s]
      BY <1>1, <2>1, <2>2, <2>4
    <3>2. QED BY <1>2, <2>1, <2>4, <3>1 DEF History
  <2>5. QED BY <2>1, <2>3, <2>4
<1>6. CASE PushFrame
  BY <1>2, <1>5, <1>6
<1>7. CASE ~PushFrame
  <2>1. History(s)' = History(s) \/ History(s)' = << >>
    BY <1>3, <1>4, <1>7, EngineWriters
  <2>2. QED BY <1>2, <1>7, <2>1
<1>8. QED BY <1>6, <1>7

\* Only a frame that passes the gate, while the client is not paused, comes to
\* the hand or to the screen.
LEMMA ShowingFlow ==
  ASSUME TypeOK, [Next]_vars, NEW s \in Session, NEW f \in Showing(s)'
  PROVE  \/ f \in Showing(s)
         \/ f \in LiveFrames(send[s]) /\ ~isPaused[s]
<1>1. CASE f \in LiveFrames(hand'[s])
  <2>1. PICK m \in Elems(hand'[s]) : m.type = "LIVE" /\ f = m.frames[1]
    BY <1>1 DEF LiveFrames
  <2>2. CASE m \in Elems(hand[s])
    BY <2>1, <2>2 DEF LiveFrames, Showing
  <2>3. CASE m \in Elems(send[s]) /\ PassesGate(s, m)
    BY <2>1, <2>3 DEF LiveFrames, PassesGate
  <2>4. QED BY <2>2, <2>3, HandFlow
<1>2. CASE f = shown'[s] /\ f # NoFrame
  <2>1. CASE shown'[s] = shown[s]
    BY <1>2, <2>1 DEF Showing
  <2>2. CASE /\ screen'[s] \in Elems(hand[s])
             /\ screen'[s].type = "LIVE" /\ shown'[s] = screen'[s].frames[1]
    BY <1>2, <2>2 DEF Showing, LiveFrames
  <2>3. QED BY <2>1, <2>2, ScreenFlow
<1>3. QED BY <1>1, <1>2 DEF Showing

\* ReadPump's own replies are never live frames.
NoLiveReplies ==
  \A s \in Session : \A m \in Elems(reader[s].reply) : m.type # "LIVE"

\* Nothing comes downstream but what has just been pushed into the cache.
LEMMA DownstreamFlow ==
  ASSUME TypeOK, NoLiveReplies, [Next]_vars, NEW s \in Session, NEW f \in Downstream(s)'
  PROVE  \/ f \in Downstream(s)
         \/ PushFrame /\ f = task.frame /\ f.session = s
<1>1. broadcast \in Seq(Frame) /\ task \in Tasks /\ (task.pc # "recv" => task.frame \in Frame)
  BY DEF TypeOK, ServerType
<1>2. CASE f \in Elems(broadcast') /\ f.session = s
  <2>1. CASE broadcast' = broadcast
    BY <1>2, <2>1 DEF Downstream
  <2>2. CASE BroadcastFrame
    <3>1. Elems(broadcast') = Elems(broadcast) \cup {task.frame} /\ task.pc = "broadcast"
      BY <1>1, <2>2, ElemsAppend DEF BroadcastFrame
    <3>2. QED BY <1>2, <3>1 DEF Downstream
  <2>3. CASE Dispatch
    <3>1. Elems(broadcast') \subseteq Elems(broadcast)
      BY <1>1, <2>3, ElemsTail DEF Dispatch
    <3>2. QED BY <1>2, <3>1 DEF Downstream
  <2>4. QED BY <2>1, <2>2, <2>3, EngineWriters
<1>3. CASE f = task'.frame /\ task'.pc = "broadcast" /\ f.session = s
  <2>1. CASE task' = task
    BY <1>3, <2>1 DEF Downstream
  <2>2. CASE RecvFrame \/ BroadcastFrame
    BY <1>1, <1>3, <2>2 DEF RecvFrame, BroadcastFrame, After, Tasks
  <2>3. CASE PushFrame
    <3>1. task'.frame = task.frame
      BY <1>1, <2>3 DEF PushFrame, Tasks
    <3>2. QED BY <1>3, <2>3, <3>1
  <2>4. QED BY <2>1, <2>2, <2>3, EngineWriters
<1>4. CASE f \in LiveFrames(send'[s])
  <2>1. PICK m \in Elems(send'[s]) : m.type = "LIVE" /\ f = m.frames[1]
    BY <1>4 DEF LiveFrames
  <2>2. CASE m \in Elems(send[s])
    BY <2>1, <2>2 DEF LiveFrames, Downstream
  <2>3. CASE m \in Elems(reader[s].reply)
    BY <2>1, <2>3 DEF NoLiveReplies
  <2>4. CASE m = ErrorMessage(s)
    BY <2>1, <2>4 DEF ErrorMessage, Message
  <2>5. CASE /\ Dispatch
             /\ Head(broadcast).session = s
             /\ m = Message("LIVE", <<Head(broadcast)>>, plays[s])
    <3>1. Head(broadcast) \in Elems(broadcast)
      BY <1>1, <2>5, ElemsTail DEF Dispatch
    <3>2. m.frames[1] = Head(broadcast)
      BY <2>5 DEF Message
    <3>3. QED BY <2>1, <2>5, <3>1, <3>2 DEF Downstream
  <2>6. QED BY <2>2, <2>3, <2>4, <2>5, SendFlow
<1>5. CASE f \in Showing(s)'
  BY <1>5, ShowingFlow DEF Downstream
<1>6. \/ f \in Elems(broadcast') /\ f.session = s
      \/ f = task'.frame /\ task'.pc = "broadcast" /\ f.session = s
      \/ f \in LiveFrames(send'[s])
      \/ f \in Showing(s)'
  BY DEF Downstream
<1>7. QED BY <1>2, <1>3, <1>4, <1>5, <1>6

LEMMA LiveRepliesNext ==
  ASSUME TypeOK, NoLiveReplies, [Next]_vars
  PROVE  NoLiveReplies'
<1> SUFFICES ASSUME NEW s \in Session, NEW m \in Elems(reader'[s].reply)
             PROVE  m.type # "LIVE"
  BY DEF NoLiveReplies
<1>1. CASE m \in Elems(reader[s].reply)
  BY <1>1 DEF NoLiveReplies
<1>2. CASE m = Message("LOADED_SCENE", << >>, plays[s])
  BY <1>2 DEF Message
<1>3. CASE m = Message("HISTORY", GetHistory(caches[s]), plays[s])
  BY <1>3 DEF Message
<1>4. QED BY <1>1, <1>2, <1>3, ReplyFlow

-----------------------------------------------------------------------------
(* A session's own frames *)

\* The frames of s that were pushed and are kept or on their way to the screen.
Pushed(s) == Elems(History(s)) \cup Downstream(s)

LEMMA PushedFlow ==
  ASSUME TypeOK, NoLiveReplies, [Next]_vars, NEW s \in Session, NEW f \in Pushed(s)'
  PROVE  \/ f \in Pushed(s)
         \/ PushFrame /\ f = task.frame /\ f.session = s
<1>1. CASE f \in Downstream(s)'
  BY <1>1, DownstreamFlow DEF Pushed
<1>2. CASE f \in Elems(History(s)')
  <2>1. CASE History(s)' = History(s)
    BY <1>2, <2>1 DEF Pushed
  <2>2. CASE History(s)' = << >>
    BY <1>2, <2>2, ElemsSmall
  <2>3. CASE /\ PushFrame
             /\ task.frame \in Frame /\ task.frame.session = s
             /\ History(s)' = IF Len(History(s)) < MaxSize
                                THEN Append(History(s), task.frame)
                                ELSE Append(Tail(History(s)), task.frame)
    <3>1. History(s) \in Seq(Frame)
      BY HistoryFlow
    <3>2. CASE Len(History(s)) < MaxSize
      <4>1. Elems(History(s)') = Elems(History(s)) \cup {task.frame}
        BY <2>3, <3>1, <3>2, ElemsAppend
      <4>2. QED BY <1>2, <2>3, <4>1 DEF Pushed
    <3>3. CASE ~(Len(History(s)) < MaxSize)
      <4>1. History(s) # << >>
        BY <3>1, <3>3, FrameAssumption
      <4>2. Tail(History(s)) \in Seq(Frame)
        BY <3>1, <4>1
      <4>3. Elems(History(s)') = Elems(Tail(History(s))) \cup {task.frame}
        <5> DEFINE q == Tail(History(s))
        <5>1. History(s)' = Append(q, task.frame)
          BY <2>3, <3>3
        <5>2. q \in Seq(Frame) /\ task.frame \in Frame
          BY <2>3, <4>2
        <5> HIDE DEF q
        <5>3. Elems(Append(q, task.frame)) = Elems(q) \cup {task.frame}
          BY <5>2, ElemsAppend
        <5>4. Elems(History(s)') = Elems(q) \cup {task.frame}
          BY <5>1, <5>3
        <5>5. QED BY <5>4 DEF q
      <4>4. Elems(Tail(History(s))) \subseteq Elems(History(s))
        BY <3>1, <4>1, ElemsTail
      <4>5. QED BY <1>2, <2>3, <4>3, <4>4 DEF Pushed
    <3>4. QED BY <3>2, <3>3
  <2>4. QED BY <2>1, <2>2, <2>3, HistoryFlow
<1>3. QED BY <1>1, <1>2 DEF Pushed

OwnFrames(s, q) == \A i \in 1 .. Len(q) : q[i].session = s

\* Every frame kept or shown for a session, and every frame of its messages, is
\* one of its own.
Isolated ==
  \A s \in Session :
    /\ \A f \in Pushed(s) : f.session = s
    /\ \A m \in Messages(s) : OwnFrames(s, m.frames)

LEMMA FlowInit == Init => NoLiveReplies /\ Isolated /\ \A s \in Session : Pushed(s) = {}
<1> SUFFICES ASSUME Init PROVE NoLiveReplies /\ Isolated /\ \A s \in Session : Pushed(s) = {}
  OBVIOUS
<1> USE DEF Init
<1>1. NoLiveReplies
  BY ElemsSmall DEF NoLiveReplies
<1>2. ASSUME NEW s \in Session PROVE Pushed(s) = {}
  <2>1. Elems(History(s)) = {}
    BY ElemsSmall, WipedCache DEF History
  <2>2. LiveFrames(send[s]) = {} /\ LiveFrames(hand[s]) = {}
    BY ElemsSmall DEF LiveFrames
  <2>3. {f \in Elems(broadcast) : f.session = s} = {}
    BY ElemsSmall
  <2>4. QED BY <2>1, <2>2, <2>3 DEF Pushed, Downstream, Showing
<1>3. ASSUME NEW s \in Session, NEW m \in Messages(s) PROVE OwnFrames(s, m.frames)
  <2>1. m.frames = << >>
    BY ElemsSmall DEF Messages, Message
  <2>2. QED BY <2>1 DEF OwnFrames
<1>4. QED BY <1>1, <1>2, <1>3 DEF Isolated

\* A message of a session was there before, or is an error, a loaded scene, the
\* history of a paused client, or a live frame of the session.
LEMMA MessageFlow ==
  ASSUME TypeOK, [Next]_vars, NEW s \in Session, NEW m \in Messages(s)'
  PROVE  \/ m \in Messages(s)
         \/ m = ErrorMessage(s) \/ m = Message("LOADED_SCENE", << >>, plays[s])
         \/ /\ FetchHistory(s) /\ isPaused[s]
            /\ m = Message("HISTORY", History(s), plays[s])
         \/ /\ Dispatch
            /\ Head(broadcast) \in Elems(broadcast)
            /\ Head(broadcast).session = s
            /\ m = Message("LIVE", <<Head(broadcast)>>, plays[s])
<1>1. CASE m \in Elems(reader'[s].reply)
  BY <1>1, ReplyFlow DEF Messages, History
<1>2. CASE m \in Elems(send'[s])
  <2>1. Dispatch => Head(broadcast) \in Elems(broadcast)
    BY ElemsTail DEF Dispatch, TypeOK, ServerType
  <2>2. QED BY <1>2, <2>1, SendFlow DEF Messages
<1>3. CASE m \in Elems(hand'[s])
  BY <1>3, HandFlow DEF Messages
<1>4. CASE m = screen'[s]
  BY <1>4, ScreenFlow DEF Messages
<1>5. QED BY <1>1, <1>2, <1>3, <1>4 DEF Messages

LEMMA IsolatedNext ==
  ASSUME TypeOK, NoLiveReplies, Isolated, [Next]_vars
  PROVE  Isolated'
<1> SUFFICES ASSUME NEW s \in Session
             PROVE  /\ \A f \in Pushed(s)' : f.session = s
                    /\ \A m \in Messages(s)' : OwnFrames(s, m.frames)
  BY DEF Isolated, OwnFrames
<1>1. ASSUME NEW f \in Pushed(s)' PROVE f.session = s
  BY <1>1, PushedFlow DEF Isolated
<1>2. ASSUME NEW m \in Messages(s)' PROVE OwnFrames(s, m.frames)
  <2>1. CASE m \in Messages(s)
    BY <2>1 DEF Isolated
  <2>2. CASE m = ErrorMessage(s) \/ m = Message("LOADED_SCENE", << >>, plays[s])
    <3>1. m.frames = << >>
      BY <2>2 DEF ErrorMessage, Message
    <3>2. QED BY <3>1 DEF OwnFrames
  <2>3. CASE m = Message("HISTORY", History(s), plays[s])
    <3>1. m.frames = History(s)
      BY <2>3 DEF Message
    <3>2. QED BY <3>1 DEF OwnFrames, Isolated, Pushed, Elems
  <2>4. CASE /\ Head(broadcast).session = s
             /\ m = Message("LIVE", <<Head(broadcast)>>, plays[s])
    <3>1. m.frames = <<Head(broadcast)>>
      BY <2>4 DEF Message
    <3>2. QED BY <2>4, <3>1 DEF OwnFrames
  <2>5. QED BY <2>1, <2>2, <2>3, <2>4, MessageFlow
<1>3. QED BY <1>1, <1>2

FlowInv == TypeOK /\ NoLiveReplies /\ Isolated

LEMMA FlowInvInit == Init => FlowInv
BY TypeInit, FlowInit DEF FlowInv

LEMMA FlowInvNext == FlowInv /\ [Next]_vars => FlowInv'
<1> SUFFICES ASSUME FlowInv, [Next]_vars PROVE FlowInv'
  OBVIOUS
<1>1. TypeOK /\ NoLiveReplies /\ Isolated
  BY DEF FlowInv
<1>2. TypeOK'
  BY <1>1, TypeNext
<1>3. NoLiveReplies'
  BY <1>1, LiveRepliesNext
<1>4. Isolated'
  BY <1>1, IsolatedNext
<1>5. QED BY <1>2, <1>3, <1>4 DEF FlowInv

\* A session's cache and its tab only ever hold frames of its own simulation,
\* whatever the streams of the other sessions bring ("multi-tenant isolation",
\* hub.go:86; main.go:67-74).
THEOREM SessionsIsolated == Spec => []SessionIsolation
<1>1. FlowInv => SessionIsolation
  <2> SUFFICES ASSUME FlowInv, NEW s \in Session,
                      NEW h \in {GetHistory(caches[s]), screen[s].frames}, NEW i \in DOMAIN h
               PROVE  h[i].session = s
    BY DEF SessionIsolation
  <2>1. caches[s] \in GoodCache /\ screen[s].frames \in Seq(Frame)
    BY DEF FlowInv, TypeOK, ServerType, ClientType, AnyMessage
  <2>2. h \in Seq(Frame)
    BY <2>1, HistoryOfCache
  <2>3. i \in 1 .. Len(h)
    BY <2>2
  <2>4. CASE h = GetHistory(caches[s])
    BY <2>3, <2>4 DEF FlowInv, Isolated, Pushed, History, Elems
  <2>5. CASE h = screen[s].frames
    BY <2>3, <2>5 DEF FlowInv, Isolated, Messages, OwnFrames
  <2>6. QED BY <2>4, <2>5
<1>2. QED BY FlowInvInit, FlowInvNext, <1>1, PTL DEF Spec

-----------------------------------------------------------------------------
(* The order of frames *)

LEMMA NoLaterTransitive ==
  ASSUME NEW a, NEW b, NEW c,
         a.epoch \in Nat, a.frame \in Nat, b.epoch \in Nat, b.frame \in Nat,
         c.epoch \in Nat, c.frame \in Nat,
         NoLaterThan(a, b), NoLaterThan(b, c)
  PROVE  NoLaterThan(a, c)
BY DEF NoLaterThan

LEMMA NoLaterReflexive ==
  ASSUME NEW a, a.frame \in Nat
  PROVE  NoLaterThan(a, a)
BY DEF NoLaterThan

\* An instance never goes back: a tick counts on, an upload opens a new scene.
LEMMA EngineAdvances ==
  ASSUME TypeOK, [Next]_vars, NEW s \in Session
  PROVE  /\ NoLaterThan(engine[s], engine'[s])
         /\ engine[s] \in Instances /\ engine'[s] \in Instances
<1>1. /\ engine \in [Session -> Instances] /\ engine[s] \in Instances
      /\ engine'[s] \in Instances
  BY TypeNext DEF TypeOK, EngineType
<1>2. NoLaterThan(engine[s], engine[s])
  BY <1>1, NoLaterReflexive DEF Instances
<1>3. CASE engine' = engine
  BY <1>1, <1>2, <1>3
<1>4. ASSUME NEW t \in Session, Tick(t) PROVE NoLaterThan(engine[s], engine'[s])
  <2>1. /\ engine'[s].epoch = engine[s].epoch
        /\ engine'[s].frame = engine[s].frame \/ engine'[s].frame = engine[s].frame + 1
    BY <1>1, <1>4 DEF Tick, Instances
  <2>2. QED BY <1>1, <2>1 DEF NoLaterThan, Instances
<1>5. ASSUME NEW t \in Session, Execute(t) PROVE NoLaterThan(engine[s], engine'[s])
  <2>1. PICK call \in calls[t] :
          engine' = [engine EXCEPT ![t] =
             IF call.op = "UPLOAD"
               THEN [loaded |-> TRUE, running |-> FALSE,
                     epoch |-> engine[t].epoch + 1, frame |-> 0]
               ELSE [engine[t] EXCEPT !.running = (call.op = "PLAY")]]
    BY <1>5 DEF Execute
  <2>2. CASE t # s
    BY <1>1, <1>2, <2>1, <2>2
  <2>3. CASE t = s /\ call.op = "UPLOAD"
    <3>1. engine'[s].epoch = engine[s].epoch + 1
      BY <1>1, <2>1, <2>3
    <3>2. QED BY <1>1, <3>1 DEF NoLaterThan, Instances
  <2>4. CASE t = s /\ call.op # "UPLOAD"
    <3>1. engine'[s] = [engine[s] EXCEPT !.running = (call.op = "PLAY")]
      BY <1>1, <2>1, <2>4
    <3>2. engine'[s].epoch = engine[s].epoch /\ engine'[s].frame = engine[s].frame
      BY <1>1, <3>1 DEF Instances
    <3>3. QED BY <1>1, <3>2 DEF NoLaterThan, Instances
  <2>5. QED BY <2>2, <2>3, <2>4
<1>6. QED BY <1>1, <1>3, <1>4, <1>5, EngineWriters

LEMMA PushedFrames ==
  ASSUME TypeOK, NEW s \in Session
  PROVE  /\ Pushed(s) \subseteq Frame
         /\ \A f \in Pushed(s) : f.epoch \in Nat /\ f.frame \in Nat
<1>1. /\ caches[s] \in GoodCache
      /\ task \in Tasks /\ (task.pc # "recv" => task.frame \in Frame)
      /\ broadcast \in Seq(Frame)
      /\ send[s] \in Seq(AnyMessage) /\ hand[s] \in Seq(AnyMessage)
      /\ shown[s] \in Frame \cup {NoFrame}
  BY DEF TypeOK, ServerType, ClientType
<1>2. Elems(History(s)) \subseteq Frame
  BY <1>1, HistoryOfCache, ElemsIn DEF History
<1>3. ASSUME NEW q \in Seq(AnyMessage) PROVE LiveFrames(q) \subseteq Frame
  <2>1. Elems(q) \subseteq AnyMessage
    BY ElemsIn
  <2>2. ASSUME NEW m \in AnyMessage, m.type = "LIVE" PROVE m.frames[1] \in Frame
    BY <2>2 DEF AnyMessage
  <2>3. QED BY <2>1, <2>2 DEF LiveFrames
<1>4. Elems(broadcast) \subseteq Frame
  BY <1>1, ElemsIn
<1>5. Pushed(s) \subseteq Frame
  BY <1>1, <1>2, <1>3, <1>4 DEF Pushed, Downstream, Showing
<1>6. QED BY <1>5 DEF Frame

\* What becomes of the wire.
LEMMA WireFlow ==
  ASSUME TypeOK, [Next]_vars
  PROVE  /\ wire \in Seq(Frame) /\ wire' \in Seq(Frame)
         /\ \/ wire' = wire /\ (task' = task \/ task'.pc # "push")
            \/ /\ \E f \in Frame : /\ wire' = Append(wire, f)
                                   /\ f.epoch = engine[f.session].epoch
                                   /\ f.frame = engine[f.session].frame
               /\ task' = task /\ engine' = engine /\ ~PushFrame
            \/ /\ wire # << >> /\ wire' = Tail(wire)
               /\ task'.frame = Head(wire)
               /\ ~PushFrame
<1> USE DEF engineVars, serverVars
<1>1. /\ wire \in Seq(Frame) /\ wire' \in Seq(Frame)
      /\ engine \in [Session -> Instances] /\ task \in Tasks
  BY TypeNext DEF TypeOK, EngineType, ServerType
<1>2. CASE WriteFrame
  <2>1. checked \in Session
    BY <1>2 DEF WriteFrame, TypeOK, EngineType
  <2> DEFINE f == [session |-> checked, epoch |-> engine[checked].epoch,
                   frame |-> engine[checked].frame]
  <2>2. f \in Frame /\ f.session = checked
        /\ f.epoch = engine[f.session].epoch /\ f.frame = engine[f.session].frame
    BY <1>1, <2>1 DEF Frame, Instances
  <2>3. wire' = Append(wire, f) /\ task' = task /\ engine' = engine
    BY <1>2 DEF WriteFrame
  <2>4. ~PushFrame
    <3>1. wire' # wire
      <4> HIDE DEF f
      <4>1. Len(Append(wire, f)) = Len(wire) + 1
        BY <1>1, <2>2
      <4>2. QED BY <1>1, <2>3, <4>1
    <3>2. QED BY <3>1 DEF PushFrame
  <2> HIDE DEF f
  <2>5. QED BY <1>1, <2>2, <2>3, <2>4
<1>3. CASE RecvFrame
  <2>1. wire # << >> /\ wire' = Tail(wire) /\ task'.frame = Head(wire)
    BY <1>3 DEF RecvFrame
  <2>2. ~PushFrame
    BY <1>3 DEF RecvFrame, PushFrame
  <2>3. QED BY <1>1, <2>1, <2>2
<1>4. CASE PushFrame \/ BroadcastFrame
  BY <1>1, <1>4 DEF PushFrame, BroadcastFrame, After, Tasks
<1>5. CASE wire' = wire /\ task' = task
  BY <1>1, <1>5
<1>6. QED
  BY <1>2, <1>3, <1>4, <1>5, EngineWriters DEF PushFrame, BroadcastFrame

InOrder(q) == \A i \in 1 .. Len(q) - 1 : NoLaterThan(q[i], q[i + 1])

Newest(q) == q[Len(q)]

InHand(s) == task.pc = "push" /\ task.frame.session = s

\* Frames of s leave the engine, cross the wire and pass through StreamTelemetry
\* in the order they were made, so what was pushed is never later than what is
\* still upstream.
UpstreamLater(s) ==
  /\ \A f \in Pushed(s) :
       /\ InHand(s) => NoLaterThan(f, task.frame)
       /\ \A g \in Elems(wire) : g.session = s => NoLaterThan(f, g)
       /\ NoLaterThan(f, engine[s])
  /\ InHand(s) =>
       /\ \A g \in Elems(wire) : g.session = s => NoLaterThan(task.frame, g)
       /\ NoLaterThan(task.frame, engine[s])
  /\ \A g \in Elems(wire) : g.session = s => NoLaterThan(g, engine[s])
  /\ \A i, k \in 1 .. Len(wire) :
       i <= k /\ wire[i].session = s /\ wire[k].session = s => NoLaterThan(wire[i], wire[k])

\* The history is in that order, and nothing downstream is later than its newest
\* frame: a frame is cached before it is broadcast.
HistoryAhead(s) ==
  /\ InOrder(History(s))
  /\ History(s) # << >> => \A f \in Downstream(s) : NoLaterThan(f, Newest(History(s)))

PipelineInOrder == \A s \in Session : UpstreamLater(s) /\ HistoryAhead(s)

LEMMA PipelineInit == Init => PipelineInOrder
<1> SUFFICES ASSUME Init, NEW s \in Session PROVE UpstreamLater(s) /\ HistoryAhead(s)
  BY DEF PipelineInOrder
<1>1. Pushed(s) = {}
  BY FlowInit
<1>2. wire = << >> /\ task.pc = "recv" /\ Elems(wire) = {}
  BY ElemsSmall DEF Init
<1>3. UpstreamLater(s)
  BY <1>1, <1>2 DEF UpstreamLater, InHand
<1>4. History(s) = << >>
  BY WipedCache DEF Init, History
<1>5. QED BY <1>3, <1>4 DEF HistoryAhead, InOrder

\* Frames move on in the order they came.
LEMMA UpstreamNext ==
  ASSUME FlowInv, PipelineInOrder, [Next]_vars, NEW s \in Session
  PROVE  UpstreamLater(s)'
<1>1. TypeOK /\ NoLiveReplies /\ TypeOK' /\ UpstreamLater(s)
  BY TypeNext DEF FlowInv, PipelineInOrder
<1>2. /\ wire \in Seq(Frame) /\ wire' \in Seq(Frame)
      /\ Elems(wire) \subseteq Frame
      /\ NoLaterThan(engine[s], engine'[s])
      /\ engine[s] \in Instances /\ engine'[s] \in Instances
  BY <1>1, WireFlow, EngineAdvances, ElemsIn
<1>3. ASSUME NEW f, f.epoch \in Nat, f.frame \in Nat, NoLaterThan(f, engine[s])
      PROVE  NoLaterThan(f, engine'[s])
  BY <1>2, <1>3, NoLaterTransitive DEF Instances
<1>4. \A g \in Elems(wire) : g.epoch \in Nat /\ g.frame \in Nat
  BY <1>2 DEF Frame
\* What the wire gains is what the engine has made.
<1>5. ASSUME NEW g \in Elems(wire'), g.session = s
      PROVE  \/ g \in Elems(wire)
             \/ /\ g.epoch = engine[s].epoch /\ g.frame = engine[s].frame
                /\ task' = task /\ ~PushFrame
  <2>1. CASE wire' = wire
    BY <2>1
  <2>2. ASSUME NEW f \in Frame, wire' = Append(wire, f),
               f.epoch = engine[f.session].epoch, f.frame = engine[f.session].frame,
               task' = task, ~PushFrame
        PROVE  \/ g \in Elems(wire)
               \/ /\ g.epoch = engine[s].epoch /\ g.frame = engine[s].frame
                  /\ task' = task /\ ~PushFrame
    <3>1. Elems(wire') = Elems(wire) \cup {f}
      BY <1>2, <2>2, ElemsAppend
    <3>2. QED BY <1>5, <2>2, <3>1
  <2>3. CASE wire # << >> /\ wire' = Tail(wire)
    BY <1>2, <2>3, ElemsTail
  <2>4. QED BY <1>1, <2>1, <2>2, <2>3, WireFlow
\* The frame in hand was there before, or was the first on the wire.
<1>6. ASSUME InHand(s)'
      PROVE  \/ InHand(s) /\ task' = task
             \/ /\ wire # << >> /\ wire' = Tail(wire)
                /\ task'.frame = Head(wire) /\ Head(wire).session = s
  BY <1>1, <1>6, WireFlow DEF InHand
<1>7. ASSUME NEW f \in Pushed(s)'
      PROVE  /\ f.epoch \in Nat /\ f.frame \in Nat
             /\ \/ f \in Pushed(s)
                \/ PushFrame /\ InHand(s) /\ f = task.frame
             /\ NoLaterThan(f, engine[s])
             /\ \A g \in Elems(wire) : g.session = s => NoLaterThan(f, g)
  <2>1. f \in Pushed(s) \/ (PushFrame /\ InHand(s) /\ f = task.frame)
    BY <1>1, PushedFlow DEF InHand, PushFrame
  <2>2. CASE f \in Pushed(s)
    BY <1>1, <2>2, PushedFrames DEF UpstreamLater
  <2>3. CASE PushFrame /\ InHand(s) /\ f = task.frame
    <3>1. f \in Frame
      BY <1>1, <2>3 DEF InHand, TypeOK, ServerType
    <3>2. QED BY <1>1, <2>3, <3>1 DEF UpstreamLater, Frame
  <2>4. QED BY <2>1, <2>2, <2>3
<1>8. ASSUME NEW f \in Pushed(s)'
      PROVE  /\ InHand(s)' => NoLaterThan(f, task'.frame)
             /\ \A g \in Elems(wire') : g.session = s => NoLaterThan(f, g)
             /\ NoLaterThan(f, engine'[s])
  <2>1. ASSUME InHand(s)' PROVE NoLaterThan(f, task'.frame)
    <3>1. CASE InHand(s) /\ task' = task
      <4>1. ~PushFrame
        BY <1>1, <3>1 DEF PushFrame, InHand, After, TypeOK, ServerType, Tasks
      <4>2. f \in Pushed(s)
        BY <1>7, <4>1
      <4>3. QED BY <1>1, <3>1, <4>2 DEF UpstreamLater
    <3>2. CASE wire # << >> /\ task'.frame = Head(wire) /\ Head(wire).session = s
      BY <1>2, <1>7, <3>2, ElemsTail
    <3>3. QED BY <1>6, <2>1, <3>1, <3>2
  <2>2. ASSUME NEW g \in Elems(wire'), g.session = s PROVE NoLaterThan(f, g)
    <3>1. CASE g \in Elems(wire)
      BY <1>7, <2>2, <3>1
    <3>2. CASE g.epoch = engine[s].epoch /\ g.frame = engine[s].frame
      BY <1>7, <3>2 DEF NoLaterThan
    <3>3. QED BY <1>5, <2>2, <3>1, <3>2
  <2>3. NoLaterThan(f, engine'[s])
    BY <1>3, <1>7
  <2>4. QED BY <2>1, <2>2, <2>3
<1>9. ASSUME InHand(s)'
      PROVE  /\ \A g \in Elems(wire') : g.session = s => NoLaterThan(task'.frame, g)
             /\ NoLaterThan(task'.frame, engine'[s])
  <2>1. CASE InHand(s) /\ task' = task
    <3>1. task.frame.epoch \in Nat /\ task.frame.frame \in Nat
      BY <1>1, <2>1 DEF InHand, TypeOK, ServerType, Frame
    <3>2. ASSUME NEW g \in Elems(wire'), g.session = s PROVE NoLaterThan(task.frame, g)
      <4>1. CASE g \in Elems(wire)
        BY <1>1, <2>1, <3>2, <4>1 DEF UpstreamLater
      <4>2. CASE g.epoch = engine[s].epoch /\ g.frame = engine[s].frame
        BY <1>1, <2>1, <4>2 DEF UpstreamLater, NoLaterThan
      <4>3. QED BY <1>5, <3>2, <4>1, <4>2
    <3>3. NoLaterThan(task.frame, engine'[s])
      BY <1>1, <1>3, <2>1, <3>1 DEF UpstreamLater
    <3>4. QED BY <2>1, <3>2, <3>3
  <2>2. CASE /\ wire # << >> /\ wire' = Tail(wire)
             /\ task'.frame = Head(wire) /\ Head(wire).session = s
    <3>1. Head(wire) = wire[1] /\ Head(wire) \in Elems(wire)
      BY <1>2, <2>2, ElemsTail
    <3>2. ASSUME NEW g \in Elems(wire'), g.session = s PROVE NoLaterThan(wire[1], g)
      <4>1. PICK j \in 1 .. Len(wire') : g = wire'[j]
        BY DEF Elems
      <4>2. j + 1 \in 1 .. Len(wire) /\ g = wire[j + 1] /\ 1 \in 1 .. Len(wire) /\ 1 <= j + 1
        BY <1>2, <2>2, <4>1
      <4>3. QED BY <1>1, <2>2, <3>1, <3>2, <4>2 DEF UpstreamLater
    <3>3. NoLaterThan(Head(wire), engine'[s])
      BY <1>1, <1>3, <1>4, <2>2, <3>1 DEF UpstreamLater
    <3>4. QED BY <2>2, <3>1, <3>2, <3>3
  <2>3. QED BY <1>6, <1>9, <2>1, <2>2
<1>10. ASSUME NEW g \in Elems(wire'), g.session = s PROVE NoLaterThan(g, engine'[s])
  <2>1. CASE g \in Elems(wire)
    BY <1>1, <1>3, <1>4, <1>10, <2>1 DEF UpstreamLater
  <2>2. CASE g.epoch = engine[s].epoch /\ g.frame = engine[s].frame
    BY <1>2, <2>2 DEF NoLaterThan
  <2>3. QED BY <1>5, <1>10, <2>1, <2>2
<1>11. ASSUME NEW i \in 1 .. Len(wire'), NEW k \in 1 .. Len(wire'), i <= k,
              wire'[i].session = s, wire'[k].session = s
       PROVE  NoLaterThan(wire'[i], wire'[k])
  <2>1. CASE wire' = wire
    BY <1>1, <1>11, <2>1 DEF UpstreamLater
  <2>2. ASSUME NEW f \in Frame, wire' = Append(wire, f),
               f.epoch = engine[f.session].epoch, f.frame = engine[f.session].frame
        PROVE  NoLaterThan(wire'[i], wire'[k])
    <3>1. CASE k <= Len(wire)
      <4>1. i \in 1 .. Len(wire) /\ k \in 1 .. Len(wire)
            /\ wire'[i] = wire[i] /\ wire'[k] = wire[k]
        BY <1>2, <1>11, <2>2, <3>1
      <4>2. QED BY <1>1, <1>11, <4>1 DEF UpstreamLater
    <3>2. CASE k = Len(wire) + 1 /\ i <= Len(wire)
      <4>1. wire'[k] = f /\ wire'[i] = wire[i] /\ wire[i] \in Elems(wire)
        BY <1>2, <1>11, <2>2, <3>2 DEF Elems
      <4>2. NoLaterThan(wire[i], engine[s])
        BY <1>1, <1>11, <4>1 DEF UpstreamLater
      <4>3. f.epoch = engine[s].epoch /\ f.frame = engine[s].frame
        BY <1>11, <2>2, <4>1
      <4>4. QED BY <4>1, <4>2, <4>3 DEF NoLaterThan
    <3>3. CASE k = Len(wire) + 1 /\ i = k
      <4>1. wire'[k] = f
        BY <1>2, <2>2, <3>3
      <4>2. QED BY <3>3, <4>1, NoLaterReflexive DEF Frame
    <3>4. QED BY <1>2, <1>11, <2>2, <3>1, <3>2, <3>3
  <2>3. CASE wire # << >> /\ wire' = Tail(wire)
    <3>1. i + 1 \in 1 .. Len(wire) /\ k + 1 \in 1 .. Len(wire) /\ i + 1 <= k + 1
          /\ wire'[i] = wire[i + 1] /\ wire'[k] = wire[k + 1]
      BY <1>2, <1>11, <2>3
    <3>2. QED BY <1>1, <1>11, <3>1 DEF UpstreamLater
  <2>4. QED BY <1>1, <2>1, <2>2, <2>3, WireFlow
<1>12. QED BY <1>8, <1>9, <1>10, <1>11 DEF UpstreamLater

\* A history to whose end a frame no earlier than the rest is added.
LEMMA InOrderAppend ==
  ASSUME NEW q \in Seq(Frame), NEW f \in Frame, InOrder(q),
         q # << >> => NoLaterThan(Newest(q), f)
  PROVE  /\ InOrder(Append(q, f))
         /\ Append(q, f) # << >>
         /\ Newest(Append(q, f)) = f
<1>1. /\ Append(q, f) # << >> /\ Len(Append(q, f)) = Len(q) + 1
      /\ \A i \in 1 .. Len(q) : Append(q, f)[i] = q[i]
      /\ Append(q, f)[Len(q) + 1] = f
      /\ Len(q) \in Nat
  BY AppendProperties
<1>2. Newest(Append(q, f)) = f
  BY <1>1 DEF Newest
<1>3. ASSUME NEW i \in 1 .. Len(Append(q, f)) - 1
      PROVE  NoLaterThan(Append(q, f)[i], Append(q, f)[i + 1])
  <2>1. CASE i < Len(q)
    <3>1. i \in 1 .. Len(q) - 1 /\ Append(q, f)[i] = q[i] /\ Append(q, f)[i + 1] = q[i + 1]
      BY <1>1, <2>1
    <3>2. NoLaterThan(q[i], q[i + 1])
      BY <3>1 DEF InOrder
    <3>3. QED BY <3>1, <3>2
  <2>2. CASE i = Len(q)
    <3>1. Append(q, f)[i] = Newest(q) /\ Append(q, f)[i + 1] = f /\ q # << >>
      BY <1>1, <2>2 DEF Newest
    <3>2. QED BY <3>1
  <2>3. QED BY <1>1, <2>1, <2>2
<1>4. QED BY <1>1, <1>2, <1>3 DEF InOrder

LEMMA InOrderTail ==
  ASSUME NEW q \in Seq(Frame), q # << >>, InOrder(q)
  PROVE  /\ Tail(q) \in Seq(Frame)
         /\ InOrder(Tail(q))
         /\ Tail(q) # << >> => Newest(Tail(q)) = Newest(q)
<1>1. /\ Tail(q) \in Seq(Frame) /\ Len(Tail(q)) = Len(q) - 1 /\ Len(q) \in Nat \ {0}
      /\ \A i \in 1 .. Len(q) - 1 : Tail(q)[i] = q[i + 1]
  OBVIOUS
<1>2. InOrder(Tail(q))
  BY <1>1 DEF InOrder
<1>3. Tail(q) # << >> => Newest(Tail(q)) = Newest(q)
  BY <1>1 DEF Newest
<1>4. QED BY <1>1, <1>2, <1>3

LEMMA NewestIn ==
  ASSUME NEW q \in Seq(Frame), q # << >>
  PROVE  Newest(q) \in Elems(q)
BY DEF Newest, Elems

LEMMA HistoryAheadNext ==
  ASSUME FlowInv, PipelineInOrder, [Next]_vars, NEW s \in Session
  PROVE  HistoryAhead(s)'
<1>1. TypeOK /\ NoLiveReplies /\ TypeOK' /\ UpstreamLater(s) /\ HistoryAhead(s)
  BY TypeNext DEF FlowInv, PipelineInOrder
<1>2. History(s) \in Seq(Frame) /\ InOrder(History(s))
  BY <1>1, HistoryFlow DEF HistoryAhead
<1>3. CASE PushFrame /\ InHand(s)
  <2> DEFINE p == task.frame
             older == IF Len(History(s)) < MaxSize THEN History(s) ELSE Tail(History(s))
  <2>1. p \in Frame /\ History(s)' = Append(older, p)
    BY <1>1, <1>3, HistoryFlow DEF InHand
  <2>2. older \in Seq(Frame) /\ InOrder(older)
        /\ (older # << >> => History(s) # << >> /\ Newest(older) = Newest(History(s)))
    <3>1. CASE Len(History(s)) < MaxSize
      BY <1>2, <3>1
    <3>2. CASE ~(Len(History(s)) < MaxSize)
      <4>1. History(s) # << >>
        BY <1>2, <3>2, FrameAssumption
      <4>2. QED BY <1>2, <3>2, <4>1, InOrderTail
    <3>3. QED BY <3>1, <3>2
  <2>3. ASSUME NEW f \in Pushed(s) PROVE NoLaterThan(f, p)
    BY <1>1, <1>3 DEF UpstreamLater
  <2>4. older # << >> => NoLaterThan(Newest(older), p)
    BY <1>2, <2>2, <2>3, NewestIn DEF Pushed
  <2>5. ASSUME NEW f \in Downstream(s)' PROVE NoLaterThan(f, p)
    <3>1. CASE f \in Downstream(s)
      BY <2>3, <3>1 DEF Pushed
    <3>2. CASE f = p
      BY <2>1, <3>2, NoLaterReflexive DEF Frame
    <3>3. QED BY <1>1, <3>1, <3>2, DownstreamFlow
  <2> HIDE DEF p, older
  <2>6. InOrder(History(s)') /\ Newest(History(s)') = p
    BY <2>1, <2>2, <2>4, InOrderAppend
  <2>7. QED BY <2>5, <2>6 DEF HistoryAhead, InOrder, Newest
<1>4. CASE ~(PushFrame /\ InHand(s))
  <2>1. ~(PushFrame /\ task.frame.session = s)
    BY <1>4 DEF InHand, PushFrame
  <2>2. CASE History(s)' = << >>
    BY <2>2 DEF HistoryAhead, InOrder
  <2>3. CASE History(s)' = History(s)
    <3>1. Downstream(s)' \subseteq Downstream(s)
      BY <1>1, <2>1, DownstreamFlow
    <3>2. QED BY <1>1, <2>3, <3>1 DEF HistoryAhead, InOrder, Newest
  <2>4. QED BY <1>1, <2>1, <2>2, <2>3, HistoryFlow
<1>5. QED BY <1>3, <1>4

OrderInv == FlowInv /\ PipelineInOrder

LEMMA OrderInvInit == Init => OrderInv
BY FlowInvInit, PipelineInit DEF OrderInv

LEMMA OrderInvNext == OrderInv /\ [Next]_vars => OrderInv'
<1> SUFFICES ASSUME OrderInv, [Next]_vars PROVE OrderInv'
  OBVIOUS
<1>1. FlowInv'
  BY FlowInvNext DEF OrderInv
<1>2. ASSUME NEW s \in Session PROVE UpstreamLater(s)' /\ HistoryAhead(s)'
  BY UpstreamNext, HistoryAheadNext DEF OrderInv
<1>3. QED BY <1>1, <1>2 DEF OrderInv, PipelineInOrder

\* A history request answers with the frames in the order the engine made them,
\* across uploads, plays, wipes and calls the engine executes late
\* (simulation_cache.go:45).
THEOREM HistoriesInOrder == Spec => []HistoryInOrder
<1>1. OrderInv => HistoryInOrder
  BY DEF OrderInv, PipelineInOrder, HistoryAhead, History, InOrder, HistoryInOrder
<1>2. QED BY OrderInvInit, OrderInvNext, <1>1, PTL DEF Spec

-----------------------------------------------------------------------------
(* The history on the screen *)

CurrentHistory(s, m) == m.type = "HISTORY" /\ m.plays = plays[s]

\* A history made since the last PLAY reaches every live frame that is past the
\* gate, and the gate has been closed since.
Reaches(s, m) ==
  /\ m.plays <= plays[s]
  /\ CurrentHistory(s, m) =>
       /\ isPaused[s]
       /\ m.frames # << >> => \A f \in Showing(s) : NoLaterThan(f, Newest(m.frames))

\* Once such a history is on the screen WritePump has nothing live in hand.
HistoriesReach ==
  \A s \in Session :
    /\ \A m \in Messages(s) : Reaches(s, m)
    /\ Scrubbing(s) => \A m \in Elems(hand[s]) : m.type # "LIVE"

LEMMA ReachInit == Init => HistoriesReach
<1> SUFFICES ASSUME Init, NEW s \in Session
             PROVE  /\ \A m \in Messages(s) : Reaches(s, m)
                    /\ Scrubbing(s) => \A m \in Elems(hand[s]) : m.type # "LIVE"
  BY DEF HistoriesReach
<1>1. ASSUME NEW m \in Messages(s) PROVE m = Message("NONE", << >>, 0)
  BY <1>1, ElemsSmall DEF Init, Messages
<1>2. ASSUME NEW m \in Messages(s) PROVE Reaches(s, m)
  BY <1>1 DEF Init, Message, Reaches, CurrentHistory
<1>3. ~Scrubbing(s)
  BY DEF Init, Message, Scrubbing
<1>4. QED BY <1>2, <1>3

\* Only PLAY opens the gate, and it outdates every history made before.
LEMMA PlaysFlow ==
  ASSUME TypeOK, [Next]_vars, NEW s \in Session
  PROVE  /\ plays[s] \in Nat
         /\ \/ plays'[s] = plays[s] /\ (isPaused[s] => isPaused'[s])
            \/ plays'[s] = plays[s] + 1
<1>1. plays \in [Session -> Nat] /\ isPaused \in [Session -> BOOLEAN] /\ plays[s] \in Nat
  BY DEF TypeOK, ReaderType
<1>2. CASE isPaused' = isPaused /\ plays' = plays
  BY <1>1, <1>2
<1>3. ASSUME NEW t \in Session, Play(t)
      PROVE  \/ plays'[s] = plays[s] /\ isPaused'[s] = isPaused[s]
             \/ plays'[s] = plays[s] + 1
  BY <1>1, <1>3 DEF Play
<1>4. ASSUME NEW t \in Session, Pause(t)
      PROVE  plays'[s] = plays[s] /\ (isPaused[s] => isPaused'[s])
  BY <1>1, <1>4 DEF Pause
<1>5. QED BY <1>1, <1>2, <1>3, <1>4, ClientWriters

LEMMA ReachNext ==
  ASSUME OrderInv, HistoriesReach, [Next]_vars
  PROVE  HistoriesReach'
<1> SUFFICES ASSUME NEW s \in Session
             PROVE  /\ \A m \in Messages(s)' : Reaches(s, m)'
                    /\ Scrubbing(s)' => \A m \in Elems(hand'[s]) : m.type # "LIVE"
  BY DEF HistoriesReach, Reaches, CurrentHistory, Newest
<1>1. TypeOK /\ HistoryAhead(s)
  BY DEF OrderInv, FlowInv, PipelineInOrder
\* While the gate is closed nothing new passes it.
<1>2. ASSUME isPaused[s], NEW f \in Showing(s)' PROVE f \in Showing(s)
  BY <1>1, <1>2, ShowingFlow
<1>3. ASSUME NEW m \in Messages(s)'
      PROVE  m.plays <= plays[s] /\ m.plays \in Int
  <2>1. m \in AnyMessage
    <3>1. /\ reader'[s].reply \in Seq(AnyMessage) /\ send'[s] \in Seq(AnyMessage)
          /\ hand'[s] \in Seq(AnyMessage) /\ screen'[s] \in AnyMessage
      BY <1>1, TypeNext DEF TypeOK, ReaderType, Readers, ClientType
    <3>2. QED BY <3>1, ElemsIn DEF Messages
  <2>2. CASE m \in Messages(s)
    BY <2>1, <2>2 DEF HistoriesReach, Reaches, AnyMessage
  <2>3. CASE m.plays = plays[s]
    BY <1>1, <2>3, PlaysFlow
  <2>4. QED
    BY <1>1, <2>1, <2>2, <2>3, MessageFlow DEF ErrorMessage, Message, AnyMessage
<1>4. CASE plays'[s] = plays[s] + 1
  <2>1. ASSUME NEW m \in Messages(s)'
        PROVE  m.plays <= plays'[s] /\ m.plays # plays'[s]
    BY <1>1, <1>3, <1>4, <2>1, PlaysFlow
  <2>2. ASSUME NEW m \in Messages(s)' PROVE Reaches(s, m)'
    BY <2>1, <2>2 DEF Reaches, CurrentHistory
  <2>3. ~Scrubbing(s)'
    BY <2>1 DEF Scrubbing, Messages
  <2>4. QED BY <2>2, <2>3
<1>5. CASE plays'[s] = plays[s] /\ (isPaused[s] => isPaused'[s])
  <2>1. ASSUME NEW m \in Messages(s)', m.type = "HISTORY", m.plays = plays[s]
        PROVE  /\ isPaused[s]
               /\ m.frames # << >> => \A f \in Showing(s) : NoLaterThan(f, Newest(m.frames))
    <3>1. CASE m \in Messages(s)
      BY <2>1, <3>1 DEF HistoriesReach, Reaches, CurrentHistory
    <3>2. CASE isPaused[s] /\ m = Message("HISTORY", History(s), plays[s])
      <4>1. m.frames = History(s)
        BY <3>2 DEF Message
      <4>2. QED BY <1>1, <3>2, <4>1 DEF HistoryAhead, Downstream
    <3>3. CASE \/ m = ErrorMessage(s) \/ m = Message("LOADED_SCENE", << >>, plays[s])
               \/ m = Message("LIVE", <<Head(broadcast)>>, plays[s])
      BY <2>1, <3>3 DEF ErrorMessage, Message
    <3>4. QED BY <1>1, <3>1, <3>2, <3>3, MessageFlow
  <2>2. ASSUME NEW m \in Messages(s)' PROVE Reaches(s, m)'
    <3>1. ASSUME m.type = "HISTORY", m.plays = plays'[s]
          PROVE  /\ isPaused'[s]
                 /\ m.frames # << >> => \A f \in Showing(s)' : NoLaterThan(f, Newest(m.frames))
      BY <1>2, <1>5, <2>1, <2>2, <3>1
    <3>2. m.plays <= plays'[s]
      BY <1>3, <1>5, <2>2
    <3>3. QED BY <3>1, <3>2 DEF Reaches, CurrentHistory
  <2>3. ASSUME Scrubbing(s)', NEW m \in Elems(hand'[s]) PROVE m.type # "LIVE"
    <3>1. CASE hand'[s] = << >>
      BY <2>3, <3>1, ElemsSmall
    <3>2. CASE screen'[s] = screen[s]
      <4>1. Scrubbing(s)
        BY <1>5, <2>3, <3>2 DEF Scrubbing
      <4>2. isPaused[s]
        BY <4>1 DEF Scrubbing, HistoriesReach, Messages, Reaches, CurrentHistory
      <4>3. CASE m \in Elems(hand[s])
        BY <4>1, <4>3 DEF HistoriesReach
      <4>4. CASE PassesGate(s, m)
        BY <4>2, <4>4 DEF PassesGate
      <4>5. QED BY <1>1, <2>3, <4>3, <4>4, HandFlow
    <3>3. QED BY <1>1, <3>1, <3>2, ScreenFlow
  <2>4. QED BY <2>2, <2>3
<1>6. QED BY <1>1, <1>4, <1>5, PlaysFlow

ScrubInv == OrderInv /\ HistoriesReach

LEMMA ScrubInvInit == Init => ScrubInv
BY OrderInvInit, ReachInit DEF ScrubInv

LEMMA ScrubInvNext == ScrubInv /\ [Next]_vars => ScrubInv'
BY OrderInvNext, ReachNext DEF ScrubInv

\* The history on the screen, when there is any, reaches at least up to the live
\* frame last shown: a frame is cached before it is broadcast (main.go:73-76).
THEOREM HistoryReaches == Spec => []HistoryReachesScreen
<1>1. ScrubInv => HistoryReachesScreen
  <2> SUFFICES ASSUME ScrubInv, NEW s \in Session, Scrubbing(s),
                      screen[s].frames # << >>, shown[s] # NoFrame
               PROVE  NoLaterThan(shown[s], screen[s].frames[Len(screen[s].frames)])
    BY DEF HistoryReachesScreen
  <2>1. Reaches(s, screen[s])
    BY DEF ScrubInv, HistoriesReach, Messages
  <2>2. QED BY <2>1 DEF Reaches, CurrentHistory, Scrubbing, Showing, Newest
<1>2. QED BY ScrubInvInit, ScrubInvNext, <1>1, PTL DEF Spec

\* Once the history of a pause is on screen no live frame takes its place until
\* PLAY has been read: the frame that had slipped past the gate is written first
\* (client.go:389-392, 523-540).
THEOREM ScrubbingNotDisturbed == Spec => ScrubbingUndisturbed
<1>1. ScrubInv /\ [Next]_vars =>
        [\A s \in Session : Scrubbing(s) => screen'[s].type # "LIVE"]_vars
  <2> SUFFICES ASSUME ScrubInv, [Next]_vars, NEW s \in Session, Scrubbing(s)
               PROVE  screen'[s].type # "LIVE"
    OBVIOUS
  <2>1. TypeOK
    BY DEF ScrubInv, OrderInv, FlowInv
  <2>2. CASE screen'[s] = screen[s]
    BY <2>2 DEF Scrubbing
  <2>3. CASE screen'[s] \in Elems(hand[s])
    BY <2>3 DEF ScrubInv, HistoriesReach
  <2>4. QED BY <2>1, <2>2, <2>3, ScreenFlow
<1>2. QED
  BY ScrubInvInit, ScrubInvNext, <1>1, PTL DEF Spec, ScrubbingUndisturbed

-----------------------------------------------------------------------------
(* The cache as a history *)

\* What FETCH_HISTORY would find, session by session.
CachedHistories == [s \in Session |-> GetHistory(caches[s])]

Timeline == INSTANCE FrameHistory WITH history <- CachedHistories

\* A step records one frame in its session's history, wipes one history or
\* leaves all of them alone.
LEMMA TimelineStep ==
  ASSUME TypeOK, [Next]_vars
  PROVE  [Timeline!Next]_CachedHistories
<1>1. caches \in [Session -> GoodCache]
  BY DEF TypeOK, ServerType
<1>2. CASE caches' = caches
  BY <1>2 DEF CachedHistories
<1>3. ASSUME NEW t \in Session, ResetCache(t)
      PROVE  Timeline!Next
  <2>1. \A s \in Session :
          GetHistory(caches'[s]) = IF s = t THEN << >> ELSE GetHistory(caches[s])
    BY <1>1, <1>3, WipedCache DEF ResetCache
  <2>2. CachedHistories' = [CachedHistories EXCEPT ![t] = << >>]
    BY <2>1 DEF CachedHistories
  <2>3. QED BY <2>2 DEF Timeline!Next, Timeline!Wipe
<1>4. ASSUME PushFrame
      PROVE  Timeline!Next
  <2>1. PICK t \in Session : t = task.frame.session
    BY <1>4 DEF PushFrame, TypeOK, ServerType, Frame
  <2> DEFINE Longer(h) == IF Len(h) < MaxSize THEN Append(h, task.frame)
                                              ELSE Append(Tail(h), task.frame)
  <2>2. task.frame \in Frame
    BY <1>4, <2>1, HistoryFlow
  <2>3. GetHistory(caches'[t]) = Longer(GetHistory(caches[t]))
    BY <1>4, <2>1, HistoryFlow DEF History
  <2>4. \A s \in Session : s # t => GetHistory(caches'[s]) = GetHistory(caches[s])
    BY <1>1, <1>4, <2>1 DEF PushFrame, CacheOf
  <2>5. CachedHistories[t] = GetHistory(caches[t])
    BY DEF CachedHistories
  <2>6. CachedHistories' = [CachedHistories EXCEPT ![t] = Longer(GetHistory(caches[t]))]
    <3> HIDE DEF Longer
    <3>1. QED BY <2>3, <2>4 DEF CachedHistories
  <2>7. QED BY <2>2, <2>5, <2>6 DEF Timeline!Next, Timeline!Record
<1>5. QED BY <1>2, <1>3, <1>4, EngineWriters

\* In the whole pipeline, as for the cache by itself, a session's history is the
\* last MaxSize frames received for it since its timeline was last wiped, whatever
\* the other sessions do and however late calls are executed (main.go:67-77;
\* client.go:115-117, 139, 288).
THEOREM TimelineIsFrameHistory == Spec => Timeline!Spec
<1>1. Init => Timeline!Init
  BY WipedCache DEF Init, Timeline!Init, CachedHistories
<1>2. QED BY <1>1, TypeInit, TypeNext, TimelineStep, PTL DEF Spec, Timeline!Spec
=============================================================================
