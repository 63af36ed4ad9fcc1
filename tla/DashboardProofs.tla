--------------------------- MODULE DashboardProofs ---------------------------
(***************************************************************************)
(* For every set of saved scenes and every bound on bodies, frames, queues *)
(* and clicks, and any number of failing calls: the bodies on the canvas   *)
(* have different ids, the history button is honoured, and only a call     *)
(* that was answered with ERROR lets a paused session run, or another      *)
(* scene than the canvas play.                                             *)
(***************************************************************************)
EXTENDS Dashboard, SequenceTheorems, WellFoundedInduction, TLAPS

-----------------------------------------------------------------------------
(* The largest id *)

\* Induction over the naturals, for a set instead of a predicate.
LEMMA NatSetInduction ==
  ASSUME NEW S, 0 \in S, \A n \in Nat : n \in S => n + 1 \in S
  PROVE  Nat \subseteq S
<1> DEFINE B == Nat \ S
<1> SUFFICES ASSUME B # {} PROVE FALSE
  OBVIOUS
<1>1. PICK n \in B : \A m \in B : ~(<<m, n>> \in OpToRel(<, Nat))
  <2> HIDE DEF B
  <2>1. B \subseteq Nat
    BY DEF B
  <2>2. QED BY <2>1, NatLessThanWellFounded, WFMin
<1>2. n - 1 \in Nat /\ n \in Nat /\ n \notin S
  OBVIOUS
<1>3. <<n - 1, n>> \in OpToRel(<, Nat)
  BY <1>2 DEF OpToRel
<1>4. n - 1 \in S
  BY <1>1, <1>2, <1>3
<1>5. QED BY <1>2, <1>4

\* updateNextBodyId's maximum is one: no id of the scene is above it.
LEMMA MaxOfIds ==
  ASSUME NEW q \in Seq(Int), ToSet(q) # {}
  PROVE  Max(ToSet(q)) \in Int /\ \A i \in 1 .. Len(q) : q[i] <= Max(ToSet(q))
<1> DEFINE Top(n) == \E i \in 1 .. n : \A j \in 1 .. n : q[j] <= q[i]
           S == {n \in Nat : n \in 1 .. Len(q) => Top(n)}
<1>1. Len(q) \in Nat \ {0} /\ \A i \in 1 .. Len(q) : q[i] \in Int
  BY DEF ToSet
<1>2. 0 \in S
  BY <1>1
<1>3. ASSUME NEW n \in Nat, n \in S PROVE n + 1 \in S
  <2> SUFFICES ASSUME n + 1 \in 1 .. Len(q) PROVE Top(n + 1)
    OBVIOUS
  <2>1. CASE n = 0
    BY <1>1, <2>1
  <2>2. CASE n # 0
    <3>1. PICK i \in 1 .. n : \A j \in 1 .. n : q[j] <= q[i]
      BY <1>1, <1>3, <2>2
    <3>2. CASE q[n + 1] <= q[i]
      <4>1. i \in 1 .. n + 1 /\ \A j \in 1 .. n + 1 : q[j] <= q[i]
        BY <1>1, <3>1, <3>2
      <4>2. QED BY <4>1
    <3>3. CASE q[n + 1] > q[i]
      <4>1. n + 1 \in 1 .. n + 1 /\ \A j \in 1 .. n + 1 : q[j] <= q[n + 1]
        BY <1>1, <3>1, <3>3
      <4>2. QED BY <4>1
    <3>4. q[i] \in Int /\ q[n + 1] \in Int
      BY <1>1, <3>1
    <3>5. q[n + 1] <= q[i] \/ q[n + 1] > q[i]
      BY <3>4
    <3>6. QED BY <3>2, <3>3, <3>5
  <2>3. QED BY <2>1, <2>2
<1>4. Nat \subseteq S
  <2> HIDE DEF S
  <2>1. QED BY <1>2, <1>3, NatSetInduction
<1>5. Top(Len(q))
  <2>1. Len(q) \in S
    <3> HIDE DEF S
    <3>1. QED BY <1>1, <1>4
  <2>2. Len(q) \in 1 .. Len(q)
    BY <1>1
  <2> HIDE DEF Top
  <2>3. QED BY <2>1, <2>2
<1>6. PICK i \in 1 .. Len(q) : \A j \in 1 .. Len(q) : q[j] <= q[i]
  BY <1>1, <1>5
<1>7. \E x \in ToSet(q) : \A y \in ToSet(q) : x >= y
  BY <1>1, <1>6 DEF ToSet
<1>8. Max(ToSet(q)) \in ToSet(q) /\ \A y \in ToSet(q) : Max(ToSet(q)) >= y
  BY <1>7 DEF Max
<1>9. QED BY <1>1, <1>8 DEF ToSet

\* The id given out next is above every id of the canvas.
LEMMA NextIdAbove ==
  ASSUME NEW q \in Seq(Int), nextId \in Int
  PROVE  /\ NextBodyId(ToSet(q)) \in Int
         /\ \A i \in 1 .. Len(q) : q[i] < NextBodyId(ToSet(q))
<1>1. CASE ToSet(q) = {}
  <2>1. Len(q) = 0
    <3> SUFFICES ASSUME Len(q) # 0 PROVE FALSE
      OBVIOUS
    <3>1. 1 \in DOMAIN q
      OBVIOUS
    <3>2. q[1] \in ToSet(q)
      BY <3>1 DEF ToSet
    <3>3. QED BY <1>1, <3>2
  <2>2. QED BY <1>1, <2>1 DEF NextBodyId
<1>2. CASE ToSet(q) # {}
  <2> DEFINE m == Max(ToSet(q)) + 1
  <2>1. m \in Int /\ \A i \in 1 .. Len(q) : q[i] < m
    BY <1>2, MaxOfIds
  <2> HIDE DEF m
  <2>2. \E x \in {FirstId, m} : \A y \in {FirstId, m} : x >= y
    BY <2>1 DEF FirstId
  <2>3. /\ Max({FirstId, m}) \in {FirstId, m}
        /\ \A y \in {FirstId, m} : Max({FirstId, m}) >= y
    BY <2>2 DEF Max
  <2>4. NextBodyId(ToSet(q)) = Max({FirstId, m})
    BY <1>2 DEF NextBodyId, m
  <2>5. NextBodyId(ToSet(q)) \in Int /\ m <= NextBodyId(ToSet(q))
    BY <2>1, <2>3, <2>4 DEF FirstId
  <2>6. QED BY <2>1, <2>5
<1>3. QED BY <1>1, <1>2

-----------------------------------------------------------------------------
(* Types *)

CallTypes == {"UPLOAD", "PLAY", "PAUSE"}

Calls == [type : CallTypes, scene : Seq(Int), click : Nat]

UpMessage == Calls \cup [type : {"FETCH"}, honour : BOOLEAN] \cup [type : {"LOAD"}]

DownMessage ==
  [type : {"SESSION_ESTABLISHED", "LIVE", "ERROR"}]
    \cup [type : {"HISTORY"}, frames : Nat]
    \cup [type : {"LOADED_SCENE"}, scene : SavedScenes]

PageType ==
  /\ session \in BOOLEAN
  /\ placementMode \in BOOLEAN /\ toggle \in BOOLEAN /\ controls \in BOOLEAN
  /\ live \in BOOLEAN /\ history \in BOOLEAN
  /\ historyBtn \in BOOLEAN /\ pauseSent \in BOOLEAN

CanvasType == placed \in Seq(Int) /\ draft \in BOOLEAN /\ nextId \in Int

TimelineType ==
  /\ timeline \in Nat
  /\ index \in Int
  /\ slider \in [enabled : BOOLEAN, max : Nat]

ServerRecord == [paused : BOOLEAN, frames : Nat, pause : Nat]

EngineRecord ==
  [running : BOOLEAN, scene : Seq(Int), wanted : Seq(Int), play : Nat, upload : Nat]

ServerType ==
  /\ up \in Seq(UpMessage)
  /\ down \in Seq(DownMessage)
  /\ server \in ServerRecord
  /\ engine \in EngineRecord
  /\ late \subseteq Calls /\ failed \subseteq Nat
  /\ clicks \in Nat

TypeOK == PageType /\ CanvasType /\ TimelineType /\ ServerType

LEMMA TypeInit == Init => TypeOK
<1> SUFFICES ASSUME Init PROVE TypeOK
  OBVIOUS
<1> USE DEF Init
<1>1. PageType
  BY DEF PageType
<1>2. CanvasType
  <2>1. << >> \in Seq(Int)
    OBVIOUS
  <2>2. placed \in Seq(Int)
    BY <2>1
  <2>3. draft \in BOOLEAN
    OBVIOUS
  <2>4. nextId \in Int
    BY DEF FirstId
  <2>5. QED BY <2>2, <2>3, <2>4 DEF CanvasType
<1>3. TimelineType
  BY DEF TimelineType, NoIndex
<1>4. ServerType
  <2>1. [type |-> "SESSION_ESTABLISHED"] \in DownMessage
    BY DEF DownMessage
  <2>2. down \in Seq(DownMessage)
    BY <2>1
  <2>3. << >> \in Seq(Int)
    OBVIOUS
  <2>4. server \in ServerRecord /\ engine \in EngineRecord
    BY <2>3 DEF ServerRecord, EngineRecord
  <2>5. up \in Seq(UpMessage)
    OBVIOUS
  <2>6. QED BY <2>2, <2>4, <2>5 DEF ServerType
<1>5. QED BY <1>1, <1>2, <1>3, <1>4 DEF TypeOK

\* What a click sends: nothing before the session is known.
LEMMA Sent ==
  ASSUME ServerType, NEW messages \in Seq(UpMessage), Send(messages)
  PROVE  /\ up' \in Seq(UpMessage) /\ clicks' \in Nat
         /\ ~session => up' = up
         /\ session =>
              /\ Len(up') = Len(up) + Len(messages)
              /\ \A k \in 1 .. Len(up') :
                   up'[k] = IF k <= Len(up) THEN up[k] ELSE messages[k - Len(up)]
<1>1. up \in Seq(UpMessage) /\ clicks \in Nat
  BY DEF ServerType
<1>2. /\ clicks' = clicks + 1
      /\ up' = IF session THEN up \o messages ELSE up
  BY DEF Send
<1>3. /\ up \o messages \in Seq(UpMessage)
      /\ Len(up \o messages) = Len(up) + Len(messages)
      /\ \A k \in 1 .. Len(up) + Len(messages) :
           (up \o messages)[k] = IF k <= Len(up) THEN up[k] ELSE messages[k - Len(up)]
  BY <1>1, ConcatProperties
<1>4. QED BY <1>1, <1>2, <1>3

\* The messages of the page.
LEMMA SentTypes ==
  ASSUME CanvasType, PageType, ServerType
  PROVE  /\ PlayMessages \in Seq(UpMessage)
         /\ <<Call("PAUSE", << >>)>> \in Seq(UpMessage)
         /\ <<[type |-> "FETCH", honour |-> pauseSent]>> \in Seq(UpMessage)
         /\ <<Call("UPLOAD", placed)>> \in Seq(UpMessage)
         /\ Call("PAUSE", << >>) \in UpMessage /\ Call("UPLOAD", placed) \in UpMessage
         /\ [type |-> "LOAD"] \in UpMessage
<1>1. placed \in Seq(Int) /\ << >> \in Seq(Int) /\ pauseSent \in BOOLEAN
      /\ clicks + 1 \in Nat
  BY DEF CanvasType, PageType, ServerType
<1>2. /\ Call("PLAY", placed) \in UpMessage
      /\ Call("PAUSE", << >>) \in UpMessage
      /\ Call("UPLOAD", placed) \in UpMessage
  BY <1>1 DEF Call, UpMessage, Calls, CallTypes
<1>3. [type |-> "FETCH", honour |-> pauseSent] \in UpMessage
  BY <1>1 DEF UpMessage
<1>4. [type |-> "LOAD"] \in UpMessage
  BY DEF UpMessage
<1>5. PlayMessages \in Seq(UpMessage)
  BY <1>2 DEF PlayMessages
<1>6. QED BY <1>2, <1>3, <1>4, <1>5

\* What the server does with the message it reads.
LEMMA Served ==
  ASSUME TypeOK, ServeNext
  PROVE  /\ up # << >> /\ Head(up) \in UpMessage
         /\ up' = Tail(up) /\ up' \in Seq(UpMessage)
         /\ down' = down \/ \E d \in DownMessage : down' = Append(down, d)
         /\ server' = Noted(Head(up))
         /\ \/ /\ Head(up) \in Calls
               /\ Execute(Head(up)) /\ UNCHANGED <<late, failed>>
            \/ /\ Head(up) \in Calls
               /\ failed' = failed \cup {Head(up).click} /\ late' = late \cup {Head(up)}
               /\ UNCHANGED engine
            \/ /\ \/ Head(up).type \in {"FETCH", "LOAD"}
                  \/ Head(up).type = "UPLOAD" /\ Head(up).scene = << >>
               /\ UNCHANGED <<engine, late, failed>>
<1>1. up \in Seq(UpMessage) /\ down \in Seq(DownMessage) /\ server \in ServerRecord
  BY DEF TypeOK, ServerType
<1>2. up # << >> /\ up' = Tail(up) /\ Handle(Head(up))
  BY DEF ServeNext
<1>3. Head(up) \in UpMessage /\ up' \in Seq(UpMessage)
  BY <1>1, <1>2
<1>4. /\ Head(up).type \in {"UPLOAD", "PLAY", "PAUSE", "FETCH", "LOAD"}
      /\ Head(up).type \in CallTypes => Head(up) \in Calls
  BY <1>3 DEF UpMessage, Calls, CallTypes
<1>5. /\ [type |-> "ERROR"] \in DownMessage
      /\ [type |-> "HISTORY", frames |-> server.frames] \in DownMessage
      /\ \A scene \in SavedScenes : [type |-> "LOADED_SCENE", scene |-> scene] \in DownMessage
  BY <1>1 DEF DownMessage, ServerRecord
<1>6. server' = Noted(Head(up))
  BY <1>2 DEF Handle
<1>7. ASSUME NEW d \in DownMessage, Reply(d)
      PROVE  /\ \E e \in DownMessage : down' = Append(down, e)
             /\ UNCHANGED <<engine, late, failed>>
  BY <1>7 DEF Reply, Deliver
<1>8. CASE Head(up).type = "FETCH"
  BY <1>2, <1>3, <1>5, <1>6, <1>7, <1>8 DEF Handle
<1>9. CASE Head(up).type = "LOAD"
  BY <1>2, <1>3, <1>5, <1>6, <1>7, <1>9 DEF Handle
<1>10. CASE Head(up).type = "UPLOAD" /\ Head(up).scene = << >>
  BY <1>2, <1>3, <1>5, <1>6, <1>7, <1>10 DEF Handle
<1>11. CASE /\ Head(up).type \in CallTypes
            /\ ~(Head(up).type = "UPLOAD" /\ Head(up).scene = << >>)
  <2>1. Succeeds(Head(up)) \/ Fails(Head(up))
    BY <1>2, <1>4, <1>11 DEF Handle, CallTypes
  <2>2. CASE Succeeds(Head(up))
    BY <1>2, <1>3, <1>4, <1>6, <1>11, <2>2 DEF Succeeds
  <2>3. CASE Fails(Head(up))
    BY <1>2, <1>3, <1>4, <1>5, <1>6, <1>11, <2>3 DEF Fails, Deliver
  <2>4. QED BY <2>1, <2>2, <2>3
<1>12. QED BY <1>4, <1>8, <1>9, <1>10, <1>11 DEF CallTypes

\* What a message makes of the client.
LEMMA NotedClient ==
  ASSUME server \in ServerRecord, NEW m \in UpMessage
  PROVE  /\ Noted(m) \in ServerRecord
         /\ Noted(m).paused = IF m.type = "PLAY" THEN FALSE
                              ELSE IF m.type = "PAUSE" THEN TRUE ELSE server.paused
         /\ Noted(m).pause = IF m.type = "PAUSE" THEN m.click ELSE server.pause
<1>1. CASE m.type = "PAUSE"
  <2>1. m.click \in Nat
    BY <1>1 DEF UpMessage, Calls
  <2>2. Noted(m) = [server EXCEPT !.paused = TRUE, !.pause = m.click]
    BY <1>1 DEF Noted
  <2>3. QED BY <1>1, <2>1, <2>2 DEF ServerRecord
<1>2. CASE m.type = "PLAY"
  <2>1. Noted(m) = [server EXCEPT !.frames = 0, !.paused = FALSE]
    BY <1>2 DEF Noted
  <2> DEFINE s == [server EXCEPT !.frames = 0]
  <2>2. Noted(m) \in ServerRecord
    <3>1. s \in ServerRecord /\ Noted(m) = [s EXCEPT !.paused = FALSE]
      BY <2>1 DEF ServerRecord
    <3> HIDE DEF s
    <3>2. QED BY <3>1 DEF ServerRecord
  <2>3. Noted(m).paused = FALSE /\ Noted(m).pause = server.pause
    BY <2>1 DEF ServerRecord
  <2>4. QED BY <1>2, <2>2, <2>3
<1>3. CASE m.type = "FETCH"
  BY <1>3 DEF Noted
<1>4. CASE m.type \notin {"PAUSE", "PLAY", "FETCH"}
  <2>1. Noted(m) = [server EXCEPT !.frames = 0]
    BY <1>4 DEF Noted
  <2>2. Noted(m) \in ServerRecord
    BY <2>1 DEF ServerRecord
  <2>3. Noted(m).paused = server.paused /\ Noted(m).pause = server.pause
    BY <2>1 DEF ServerRecord
  <2>4. QED BY <1>4, <2>2, <2>3
<1>5. QED BY <1>1, <1>2, <1>3, <1>4

\* What a call makes of the engine.
LEMMA Executed ==
  ASSUME engine \in EngineRecord, NEW call \in Calls, Execute(call)
  PROVE  /\ engine' \in EngineRecord
         /\ call.type = "UPLOAD" =>
              /\ ~engine'.running
              /\ engine'.scene = call.scene /\ engine'.upload = call.click
         /\ call.type = "PLAY" =>
              /\ engine'.scene = engine.scene /\ engine'.upload = engine.upload
              /\ engine'.wanted = call.scene /\ engine'.play = call.click
         /\ call.type = "PAUSE" =>
              /\ ~engine'.running
              /\ engine'.scene = engine.scene /\ engine'.upload = engine.upload
<1>1. call.type \in CallTypes /\ call.scene \in Seq(Int) /\ call.click \in Nat
  BY DEF Calls
<1>2. CASE call.type = "UPLOAD"
  <2>1. engine' = [engine EXCEPT !.scene = call.scene, !.running = FALSE,
                                 !.upload = call.click]
    BY <1>2 DEF Execute
  <2>2. QED BY <1>1, <1>2, <2>1 DEF EngineRecord
<1>3. CASE call.type = "PLAY"
  <2>1. engine' = [engine EXCEPT !.running = TRUE, !.wanted = call.scene,
                                 !.play = call.click]
    BY <1>3 DEF Execute
  <2>2. QED BY <1>1, <1>3, <2>1 DEF EngineRecord
<1>4. CASE call.type = "PAUSE"
  <2>1. engine' = [engine EXCEPT !.running = FALSE]
    BY <1>4 DEF Execute
  <2>2. QED BY <1>1, <1>4, <2>1 DEF EngineRecord
<1>5. QED BY <1>1, <1>2, <1>3, <1>4 DEF CallTypes

\* What the page receives.
LEMMA Received ==
  ASSUME ServerType, NEW type, Receive(type)
  PROVE  /\ Head(down) \in DownMessage /\ Head(down).type = type
         /\ down' \in Seq(DownMessage)
         /\ type = "HISTORY" => Head(down).frames \in Nat
         /\ type = "LOADED_SCENE" =>
              /\ Head(down).scene \in Seq(Int)
              /\ IsInjective(Head(down).scene)
<1>1. /\ down \in Seq(DownMessage) /\ down # << >>
      /\ Head(down).type = type /\ down' = Tail(down)
  BY DEF ServerType, Receive
<1>2. Head(down) \in DownMessage /\ down' \in Seq(DownMessage)
  BY <1>1
<1>3. type = "HISTORY" => Head(down).frames \in Nat
  BY <1>1, <1>2 DEF DownMessage
<1>4. type = "LOADED_SCENE" => Head(down).scene \in SavedScenes
  BY <1>1, <1>2 DEF DownMessage
<1>5. QED BY <1>1, <1>2, <1>3, <1>4, DashboardAssumption

\* The clicks that send something.
LEMMA TypeClick ==
  ASSUME TypeOK,
         \/ ClickPlay \/ ClickPause \/ ClickHistory \/ ClickUpload \/ ClickLoad
  PROVE  TypeOK'
<1> USE DEF editor, canvas, timelineVars, ghosts, backend, SetMode
<1>1. PageType /\ CanvasType /\ TimelineType /\ ServerType
  BY DEF TypeOK
<1>2. ASSUME up' \in Seq(UpMessage), clicks' \in Nat, UNCHANGED <<down, backend>>
      PROVE  ServerType'
  BY <1>1, <1>2 DEF ServerType
<1>3. CASE ClickPlay
  <2>1. ServerType'
    BY <1>1, <1>2, <1>3, Sent, SentTypes DEF ClickPlay
  <2>2. PageType'
    BY <1>1, <1>3 DEF ClickPlay, PageType, LockHistoryBtn
  <2>3. CanvasType'
    BY <1>1, <1>3 DEF ClickPlay, CanvasType
  <2>4. TimelineType'
    <3>1. index' \in Int
      BY <1>3 DEF ClickPlay, NoIndex
    <3>2. slider' \in [enabled : BOOLEAN, max : Nat]
      BY <1>1, <1>3 DEF ClickPlay, TimelineType
    <3>3. QED BY <1>1, <1>3, <3>1, <3>2 DEF ClickPlay, TimelineType
  <2>5. QED BY <2>1, <2>2, <2>3, <2>4 DEF TypeOK
<1>4. CASE ClickPause
  <2>1. ServerType'
    BY <1>1, <1>2, <1>4, Sent, SentTypes DEF ClickPause
  <2>2. (pauseSent \/ session) \in BOOLEAN
    OBVIOUS
  <2>3. PageType'
    BY <1>1, <1>4, <2>2 DEF ClickPause, PageType
  <2>4. CanvasType' /\ TimelineType'
    BY <1>1, <1>4 DEF ClickPause, CanvasType, TimelineType
  <2>5. QED BY <2>1, <2>3, <2>4 DEF TypeOK
<1>5. CASE ClickHistory \/ ClickUpload \/ ClickLoad
  <2>1. ServerType'
    <3>1. CASE ClickHistory
      BY <1>1, <1>2, <3>1, Sent, SentTypes DEF ClickHistory
    <3>2. CASE ClickUpload
      BY <1>1, <1>2, <3>2, Sent, SentTypes DEF ClickUpload
    <3>3. CASE ClickLoad
      <4>1. up \in Seq(UpMessage) /\ clicks \in Nat
        BY <1>1 DEF ServerType
      <4>2. Append(up, [type |-> "LOAD"]) \in Seq(UpMessage) /\ clicks + 1 \in Nat
        BY <1>1, <4>1, SentTypes, AppendProperties
      <4>3. QED BY <1>2, <3>3, <4>2 DEF ClickLoad
    <3>4. QED BY <1>5, <3>1, <3>2, <3>3
  <2>2. PageType' /\ CanvasType' /\ TimelineType'
    BY <1>1, <1>5 DEF ClickHistory, ClickUpload, ClickLoad, PageType, CanvasType, TimelineType
  <2>3. QED BY <2>1, <2>2 DEF TypeOK
<1>6. QED BY <1>3, <1>4, <1>5

LEMMA LeaveHistoryType ==
  ASSUME PageType, TimelineType, LeaveHistory
  PROVE  TimelineType' /\ history' \in BOOLEAN /\ live' \in BOOLEAN
<1>1. index' \in Int
  BY DEF LeaveHistory, NoIndex
<1>2. slider' \in [enabled : BOOLEAN, max : Nat]
  BY DEF LeaveHistory, TimelineType
<1>3. QED BY <1>1, <1>2 DEF LeaveHistory, PageType, TimelineType

\* The clicks that stay on the page.
LEMMA TypeEdit ==
  ASSUME TypeOK, Slide \/ ClickToggle \/ ClickCanvas \/ Undo \/ ClickClear
  PROVE  TypeOK'
<1> USE DEF editor, canvas, ghosts, backend
<1>1. PageType /\ CanvasType /\ TimelineType /\ ServerType
  BY DEF TypeOK
<1>2. ServerType'
  BY <1>1 DEF Slide, ClickToggle, ClickCanvas, Undo, ClickClear, ServerType
<1>3. CASE Slide
  <2>1. CanvasType'
    BY <1>1, <1>3 DEF Slide, CanvasType
  <2>2. PICK i \in 0 .. slider.max : index' = i /\ history' = (i < timeline)
    BY <1>3 DEF Slide
  <2>3. (i < timeline) \in BOOLEAN
    OBVIOUS
  <2>4. PageType'
    BY <1>1, <1>3, <2>2, <2>3 DEF Slide, PageType
  <2>5. TimelineType'
    BY <1>1, <1>3, <2>2 DEF Slide, TimelineType
  <2>6. QED BY <1>2, <2>1, <2>4, <2>5 DEF TypeOK
<1>4. CASE ClickToggle
  <2>1. CanvasType'
    BY <1>1, <1>4 DEF ClickToggle, CanvasType
  <2>2. LeaveHistory \/ UNCHANGED timelineVars
    BY <1>4 DEF ClickToggle
  <2>3. TimelineType' /\ history' \in BOOLEAN /\ live' \in BOOLEAN
    BY <1>1, <2>2, LeaveHistoryType DEF timelineVars, PageType, TimelineType
  <2>4. (~toggle) \in BOOLEAN
    OBVIOUS
  <2>5. PageType'
    BY <1>1, <1>4, <2>3, <2>4 DEF ClickToggle, PageType
  <2>6. QED BY <1>2, <2>1, <2>3, <2>5 DEF TypeOK
<1>5. CASE ClickCanvas
  <2>1. LeaveHistory \/ UNCHANGED timelineVars
    BY <1>5 DEF ClickCanvas
  <2>2. TimelineType' /\ history' \in BOOLEAN /\ live' \in BOOLEAN
    BY <1>1, <2>1, LeaveHistoryType DEF timelineVars, PageType, TimelineType
  <2>3. PageType'
    BY <1>1, <1>5, <2>2 DEF ClickCanvas, SetMode, PageType
  <2>4. Append(placed, nextId) \in Seq(Int) /\ nextId + 1 \in Int
    BY <1>1, AppendProperties DEF CanvasType
  <2>5. CanvasType'
    BY <1>1, <1>5, <2>4 DEF ClickCanvas, CanvasType
  <2>6. QED BY <1>2, <2>2, <2>3, <2>5 DEF TypeOK
<1>6. CASE Undo
  <2>1. PageType' /\ TimelineType'
    BY <1>1, <1>6 DEF Undo, timelineVars, PageType, TimelineType
  <2>2. CASE draft
    BY <1>1, <1>2, <1>6, <2>1, <2>2 DEF Undo, CanvasType, TypeOK
  <2>3. CASE ~draft
    <3>1. placed \in Seq(Int) /\ placed # << >>
      BY <1>1, <1>6, <2>3 DEF Undo, CanvasType
    <3>2. SubSeq(placed, 1, Len(placed) - 1) \in Seq(Int)
      BY <3>1
    <3>3. CanvasType'
      BY <1>1, <1>6, <2>3, <3>2 DEF Undo, Front, CanvasType
    <3>4. QED BY <1>2, <2>1, <3>3 DEF TypeOK
  <2>4. QED BY <2>2, <2>3
<1>7. CASE ClickClear
  <2>1. PageType' /\ TimelineType'
    BY <1>1, <1>7 DEF ClickClear, timelineVars, PageType, TimelineType
  <2>2. << >> \in Seq(Int)
    OBVIOUS
  <2>3. CanvasType'
    BY <1>1, <1>7, <2>2 DEF ClickClear, CanvasType
  <2>4. QED BY <1>2, <2>1, <2>3 DEF TypeOK
<1>8. QED BY <1>3, <1>4, <1>5, <1>6, <1>7

\* socket.onmessage
LEMMA TypeReceive ==
  ASSUME TypeOK,
         \/ ReceiveSession \/ ReceiveLive \/ ReceiveHistory \/ ReceiveLoadedScene
         \/ ReceiveError
  PROVE  TypeOK'
<1> USE DEF editor, canvas, timelineVars, ghosts, backend, SetMode
<1>1. PageType /\ CanvasType /\ TimelineType /\ ServerType
  BY DEF TypeOK
<1>2. ASSUME NEW type, Receive(type)
      PROVE  ServerType' /\ UNCHANGED <<historyBtn, pauseSent>>
  BY <1>1, <1>2, Received DEF Receive, ServerType
<1>3. CASE ReceiveSession \/ ReceiveError
  <2>1. ServerType' /\ UNCHANGED <<historyBtn, pauseSent>>
    BY <1>2, <1>3 DEF ReceiveSession, ReceiveError
  <2>2. PageType' /\ CanvasType' /\ TimelineType'
    BY <1>1, <1>3, <2>1
       DEF ReceiveSession, ReceiveError, PageType, CanvasType, TimelineType
  <2>3. QED BY <2>1, <2>2 DEF TypeOK
<1>4. CASE ReceiveLive
  <2>1. ServerType' /\ UNCHANGED <<historyBtn, pauseSent>>
    BY <1>2, <1>4 DEF ReceiveLive
  <2>2. PageType' /\ CanvasType' /\ TimelineType'
    BY <1>1, <1>4, <2>1 DEF ReceiveLive, PageType, CanvasType, TimelineType
  <2>3. QED BY <2>1, <2>2 DEF TypeOK
<1>5. CASE ReceiveHistory
  <2>1. ServerType' /\ UNCHANGED <<historyBtn, pauseSent>>
    BY <1>2, <1>5 DEF ReceiveHistory
  <2> DEFINE n == Head(down).frames
  <2>2. n \in Nat
    BY <1>1, <1>5, Received DEF ReceiveHistory
  <2>3. /\ timeline' = n
        /\ IF n > 0
             THEN /\ slider' = [enabled |-> TRUE, max |-> n - 1]
                  /\ index' = n - 1
                  /\ history' = TRUE /\ live' = FALSE
             ELSE UNCHANGED <<slider, index, history, live>>
    BY <1>5 DEF ReceiveHistory
  <2> HIDE DEF n
  <2>4. TimelineType'
    <3>1. CASE n > 0
      <4>1. n - 1 \in Nat
        BY <2>2, <3>1
      <4>2. [enabled |-> TRUE, max |-> n - 1] \in [enabled : BOOLEAN, max : Nat]
        BY <4>1
      <4>3. index' \in Int
        BY <2>3, <3>1, <4>1
      <4>4. slider' \in [enabled : BOOLEAN, max : Nat]
        BY <2>3, <3>1, <4>2
      <4>5. QED BY <2>2, <2>3, <4>3, <4>4 DEF TimelineType
    <3>2. CASE ~(n > 0)
      BY <1>1, <2>2, <2>3, <3>2 DEF TimelineType
    <3>3. QED BY <3>1, <3>2
  <2>5. PageType' /\ CanvasType'
    BY <1>1, <1>5, <2>1, <2>3 DEF ReceiveHistory, PageType, CanvasType
  <2>6. QED BY <2>1, <2>4, <2>5 DEF TypeOK
<1>6. CASE ReceiveLoadedScene
  <2>1. ServerType' /\ UNCHANGED <<historyBtn, pauseSent>>
    BY <1>2, <1>6 DEF ReceiveLoadedScene
  <2>2. Head(down).scene \in Seq(Int)
    BY <1>1, <1>6, Received DEF ReceiveLoadedScene
  <2>3. NextBodyId(ToSet(Head(down).scene)) \in Int
    BY <1>1, <2>2, NextIdAbove DEF CanvasType
  <2>4. CanvasType'
    BY <1>1, <1>6, <2>2, <2>3 DEF ReceiveLoadedScene, CanvasType
  <2>5. TimelineType'
    <3>1. slider' \in [enabled : BOOLEAN, max : Nat]
      BY <1>1, <1>6 DEF ReceiveLoadedScene, TimelineType
    <3>2. QED BY <1>1, <1>6, <3>1 DEF ReceiveLoadedScene, TimelineType
  <2>6. PageType'
    BY <1>1, <1>6, <2>1 DEF ReceiveLoadedScene, PageType
  <2>7. QED BY <2>1, <2>4, <2>5, <2>6 DEF TypeOK
<1>7. QED BY <1>3, <1>4, <1>5, <1>6

LEMMA TypeServe ==
  ASSUME TypeOK, ServeNext \/ LateCall \/ StreamFrame
  PROVE  TypeOK'
<1> USE DEF editor, canvas, timelineVars, ghosts
<1>1. PageType /\ CanvasType /\ TimelineType /\ ServerType
  BY DEF TypeOK
<1>2. PageType' /\ CanvasType' /\ TimelineType' /\ clicks' \in Nat
  BY <1>1 DEF ServeNext, LateCall, StreamFrame, PageType, CanvasType, TimelineType, ServerType
<1>3. ASSUME NEW d \in DownMessage PROVE Append(down, d) \in Seq(DownMessage)
  BY <1>1, AppendProperties DEF ServerType
<1>4. /\ server \in ServerRecord /\ engine \in EngineRecord
      /\ late \subseteq Calls /\ failed \subseteq Nat
  BY <1>1 DEF ServerType
<1>5. CASE ServeNext
  <2>1. down' \in Seq(DownMessage) /\ up' \in Seq(UpMessage)
    BY <1>1, <1>3, <1>5, Served DEF ServerType
  <2>2. server' \in ServerRecord
    BY <1>4, <1>5, Served, NotedClient
  <2>3. engine' \in EngineRecord
    BY <1>4, <1>5, Served, Executed
  <2>4. Head(up) \in Calls => Head(up).click \in Nat
    BY DEF Calls
  <2>5. late' \subseteq Calls /\ failed' \subseteq Nat
    BY <1>4, <1>5, <2>4, Served
  <2>6. QED BY <1>2, <2>1, <2>2, <2>3, <2>5 DEF TypeOK, ServerType
<1>6. CASE LateCall
  <2>1. PICK call \in late : Execute(call) /\ late' = late \ {call}
    BY <1>6 DEF LateCall
  <2>2. engine' \in EngineRecord
    BY <1>4, <2>1, Executed
  <2>3. UNCHANGED <<up, down, server, failed>>
    BY <1>6 DEF LateCall
  <2>4. QED BY <1>1, <1>2, <1>4, <2>1, <2>2, <2>3 DEF TypeOK, ServerType
<1>7. CASE StreamFrame
  <2>1. [type |-> "LIVE"] \in DownMessage
    BY DEF DownMessage
  <2>2. down' \in Seq(DownMessage)
    BY <1>1, <1>3, <1>7, <2>1 DEF StreamFrame, Deliver, ServerType
  <2>3. server.frames \in Nat /\ MaxFrames \in Nat
    BY <1>4, DashboardAssumption DEF ServerRecord
  <2>4. PICK n \in Nat : server' = [server EXCEPT !.frames = n]
    <3>1. server' = [server EXCEPT !.frames = IF server.frames < MaxFrames
                                                THEN server.frames + 1 ELSE server.frames]
      BY <1>7 DEF StreamFrame
    <3>2. (IF server.frames < MaxFrames THEN server.frames + 1 ELSE server.frames) \in Nat
      BY <2>3
    <3>3. QED BY <3>1, <3>2
  <2>5. server' \in ServerRecord
    BY <1>4, <2>4 DEF ServerRecord
  <2>6. UNCHANGED <<up, engine, late, failed>>
    BY <1>7 DEF StreamFrame
  <2>7. QED BY <1>1, <1>2, <1>4, <2>2, <2>5, <2>6 DEF TypeOK, ServerType
<1>8. QED BY <1>5, <1>6, <1>7

LEMMA TypeNext == TypeOK /\ [Next]_vars => TypeOK'
<1> SUFFICES ASSUME TypeOK, [Next]_vars PROVE TypeOK'
  OBVIOUS
<1>1. CASE UNCHANGED vars
  BY <1>1 DEF vars, editor, canvas, timelineVars, ghosts, backend, TypeOK, PageType, CanvasType,
              TimelineType, ServerType
<1>2. CASE Next
  BY <1>2, TypeClick, TypeEdit, TypeReceive, TypeServe DEF Next
<1>3. QED BY <1>1, <1>2

\* The page and the session keep their types: ids are numbers, whatever scenes
\* are loaded, and both queues hold only messages of the protocol.
THEOREM TypeCorrect == Spec => []TypeOK
BY TypeInit, TypeNext, PTL DEF Spec

-----------------------------------------------------------------------------
(* The ids on the canvas *)

\* The id given out next is above every id of the canvas.
IdsBelow == \A i \in 1 .. Len(placed) : placed[i] < nextId

IdsInv == TypeOK /\ IdsUnique /\ IdsBelow

LEMMA IdsInit == Init => IdsInv
<1> SUFFICES ASSUME Init PROVE IdsInv
  OBVIOUS
<1>1. placed = << >> /\ Len(placed) = 0 /\ DOMAIN placed = {}
  BY DEF Init
<1>2. QED BY <1>1, TypeInit DEF IdsInv, IdsUnique, IdsBelow, IsInjective

\* The second click of a body: it takes the next id.
LEMMA IdsPlaced ==
  ASSUME IdsInv, placed' = Append(placed, nextId), nextId' = nextId + 1
  PROVE  IdsUnique' /\ IdsBelow'
<1>1. placed \in Seq(Int) /\ nextId \in Int
  BY DEF IdsInv, TypeOK, CanvasType
<1>2. /\ Len(placed') = Len(placed) + 1
      /\ placed'[Len(placed) + 1] = nextId
      /\ \A i \in 1 .. Len(placed) : placed'[i] = placed[i]
      /\ DOMAIN placed' = 1 .. Len(placed) + 1
      /\ DOMAIN placed = 1 .. Len(placed)
      /\ Len(placed) \in Nat
      /\ \A i \in 1 .. Len(placed) : placed[i] \in Int
  BY <1>1, AppendProperties
<1>3. \A i \in 1 .. Len(placed) : placed[i] < nextId
  BY DEF IdsInv, IdsBelow
<1>4. IdsBelow'
  <2> SUFFICES ASSUME NEW i \in 1 .. Len(placed) + 1 PROVE placed'[i] < nextId + 1
    BY <1>2 DEF IdsBelow
  <2>1. CASE i = Len(placed) + 1
    BY <1>1, <1>2, <2>1
  <2>2. CASE i \in 1 .. Len(placed)
    BY <1>1, <1>2, <1>3, <2>2
  <2>3. QED BY <1>2, <2>1, <2>2
<1>5. IdsUnique'
  <2>1. \A a, b \in 1 .. Len(placed) : placed[a] = placed[b] => a = b
    BY <1>2 DEF IdsInv, IdsUnique, IsInjective
  <2> SUFFICES ASSUME NEW a \in 1 .. Len(placed) + 1, NEW b \in 1 .. Len(placed) + 1,
                      placed'[a] = placed'[b]
               PROVE  a = b
    BY <1>2 DEF IdsUnique, IsInjective
  <2>2. CASE a \in 1 .. Len(placed) /\ b \in 1 .. Len(placed)
    BY <1>2, <2>1, <2>2
  <2>3. CASE a = Len(placed) + 1 /\ b \in 1 .. Len(placed)
    <3>1. placed[b] = nextId /\ placed[b] < nextId
      BY <1>2, <1>3, <2>3
    <3>2. QED BY <1>1, <3>1
  <2>4. CASE b = Len(placed) + 1 /\ a \in 1 .. Len(placed)
    <3>1. placed[a] = nextId /\ placed[a] < nextId
      BY <1>2, <1>3, <2>4
    <3>2. QED BY <1>1, <3>1
  <2>5. QED BY <1>2, <2>2, <2>3, <2>4
<1>6. QED BY <1>4, <1>5

\* Ctrl+Z takes the last body away, and its id is not given out again.
LEMMA IdsUndone ==
  ASSUME IdsInv, placed # << >>, placed' = Front(placed), nextId' = nextId
  PROVE  IdsUnique' /\ IdsBelow'
<1>1. placed \in Seq(Int) /\ placed # << >>
  BY DEF IdsInv, TypeOK, CanvasType
<1>2. /\ placed' = SubSeq(placed, 1, Len(placed) - 1)
      /\ Len(placed') = Len(placed) - 1
      /\ \A i \in 1 .. Len(placed) - 1 : placed'[i] = placed[i]
      /\ DOMAIN placed' = 1 .. Len(placed) - 1
      /\ Len(placed) \in Nat \ {0}
      /\ DOMAIN placed = 1 .. Len(placed)
  <2>1. Len(placed) \in Nat \ {0} /\ DOMAIN placed = 1 .. Len(placed)
    BY <1>1, EmptySeq, LenProperties
  <2>2. placed' = SubSeq(placed, 1, Len(placed) - 1)
    BY DEF Front
  <2>3. /\ Len(placed') = Len(placed) - 1
        /\ \A i \in 1 .. Len(placed) - 1 : placed'[i] = placed[i]
        /\ DOMAIN placed' = 1 .. Len(placed) - 1
    BY <1>1, <2>1, <2>2, SubSeqProperties
  <2>4. QED BY <2>1, <2>2, <2>3
<1>3. QED BY <1>2 DEF IdsInv, IdsUnique, IdsBelow, IsInjective

LEMMA IdsNext == IdsInv /\ [Next]_vars => IdsInv'
<1> SUFFICES ASSUME IdsInv, [Next]_vars PROVE IdsInv'
  OBVIOUS
<1>1. TypeOK /\ TypeOK'
  BY TypeNext DEF IdsInv
<1>2. CASE UNCHANGED <<placed, nextId>>
  BY <1>1, <1>2 DEF IdsInv, IdsUnique, IdsBelow
<1>3. CASE ClickCanvas /\ draft
  BY <1>1, <1>3, IdsPlaced DEF ClickCanvas, IdsInv
<1>4. CASE Undo /\ ~draft
  BY <1>1, <1>4, IdsUndone DEF Undo, IdsInv
<1>5. CASE ClickClear
  <2>1. placed' = << >> /\ Len(placed') = 0 /\ DOMAIN placed' = {}
    BY <1>5 DEF ClickClear
  <2>2. QED BY <1>1, <2>1 DEF IdsInv, IdsUnique, IdsBelow, IsInjective
<1>6. CASE ReceiveLoadedScene
  <2> DEFINE ids == Head(down).scene
  <2>1. ids \in Seq(Int) /\ IsInjective(ids) /\ nextId \in Int
    BY <1>1, <1>6, Received DEF ReceiveLoadedScene, TypeOK, CanvasType
  <2>2. placed' = ids /\ nextId' = NextBodyId(ToSet(ids))
    BY <1>6 DEF ReceiveLoadedScene
  <2> HIDE DEF ids
  <2>3. QED BY <1>1, <2>1, <2>2, NextIdAbove DEF IdsInv, IdsUnique, IdsBelow
<1>7. \/ UNCHANGED <<placed, nextId>>
      \/ ClickCanvas /\ draft
      \/ Undo /\ ~draft
      \/ ClickClear
      \/ ReceiveLoadedScene
  BY DEF Next, vars, canvas, ClickPlay, ClickPause, ClickHistory, ClickUpload, ClickLoad,
         Slide, ClickToggle, ClickCanvas, Undo, ReceiveSession, ReceiveLive,
         ReceiveHistory, ReceiveError, ServeNext, LateCall, StreamFrame
<1>8. QED BY <1>2, <1>3, <1>4, <1>5, <1>6, <1>7

\* No two bodies on the canvas ever have the same id: not after bodies were
\* placed, taken back or cleared, and not after a scene was loaded over them
\* (app.js:483, 533-538, 806-817).
THEOREM BodiesHaveOwnIds == Spec => []IdsUnique
<1>1. IdsInv => IdsUnique
  BY DEF IdsInv
<1>2. QED BY IdsInit, IdsNext, <1>1, PTL DEF Spec

-----------------------------------------------------------------------------
(* The messages under way *)

\* n messages are queued behind those under way, and the server and the engine do
\* nothing.
Queued(n) ==
  /\ Len(up') = Len(up) + n
  /\ \A k \in 1 .. Len(up) : up'[k] = up[k]
  /\ UNCHANGED backend

\* A click queues its messages in their order, or none before the session is known.
LEMMA SentQueues ==
  ASSUME TypeOK, UNCHANGED backend,
         NEW messages \in Seq(UpMessage), Send(messages)
  PROVE  /\ ~session => up' = up
         /\ session =>
              /\ Queued(Len(messages))
              /\ \A k \in 1 .. Len(messages) : up'[Len(up) + k] = messages[k]
<1>1. ServerType /\ Len(up) \in Nat /\ Len(messages) \in Nat
  BY DEF TypeOK, ServerType
<1>2. /\ ~session => up' = up
      /\ session =>
           /\ Len(up') = Len(up) + Len(messages)
           /\ \A k \in 1 .. Len(up') :
                up'[k] = IF k <= Len(up) THEN up[k] ELSE messages[k - Len(up)]
  BY <1>1, Sent
<1>3. ASSUME session, NEW k \in 1 .. Len(messages)
      PROVE  up'[Len(up) + k] = messages[k]
  <2>1. Len(up) + k \in 1 .. Len(up') /\ ~(Len(up) + k <= Len(up))
    BY <1>1, <1>2, <1>3
  <2>2. (Len(up) + k) - Len(up) = k
    BY <1>1
  <2>3. QED BY <1>2, <1>3, <2>1, <2>2
<1>4. ASSUME session, NEW k \in 1 .. Len(up) PROVE up'[k] = up[k]
  BY <1>1, <1>2, <1>4
<1>5. QED BY <1>2, <1>3, <1>4 DEF Queued

\* The same for a click that sends one message.
LEMMA OneSent ==
  ASSUME TypeOK, UNCHANGED backend, NEW m \in UpMessage, Send(<<m>>)
  PROVE  /\ ~session => up' = up
         /\ session => Queued(1) /\ up'[Len(up) + 1] = m
<1>1. <<m>> \in Seq(UpMessage) /\ Len(<<m>>) = 1 /\ <<m>>[1] = m /\ 1 \in 1 .. 1
  OBVIOUS
<1>2. QED BY <1>1, SentQueues

\* LOAD_SCENE is queued whether the session is known or not.
LEMMA LoadQueues ==
  ASSUME TypeOK, ClickLoad
  PROVE  Queued(1) /\ up'[Len(up) + 1] = [type |-> "LOAD"]
<1>1. up \in Seq(UpMessage) /\ [type |-> "LOAD"] \in UpMessage
  BY SentTypes DEF TypeOK, ServerType
<1>2. up' = Append(up, [type |-> "LOAD"]) /\ UNCHANGED backend
  BY DEF ClickLoad
<1>3. QED BY <1>1, <1>2, AppendProperties DEF Queued

\* What ClickPlay queues: the canvas, if there is anything on it, before PLAY.
LEMMA PlayQueues ==
  ASSUME TypeOK, ClickPlay, session
  PROVE  \/ /\ placed # << >> /\ Queued(2)
            /\ up'[Len(up) + 1] = Call("UPLOAD", placed)
            /\ up'[Len(up) + 2] = Call("PLAY", placed)
         \/ /\ placed = << >> /\ Queued(1)
            /\ up'[Len(up) + 1] = Call("PLAY", placed)
<1>1. Send(PlayMessages) /\ UNCHANGED backend
  BY DEF ClickPlay
<1>2. PlayMessages \in Seq(UpMessage)
  BY SentTypes DEF TypeOK
<1>3. /\ Queued(Len(PlayMessages))
      /\ \A k \in 1 .. Len(PlayMessages) : up'[Len(up) + k] = PlayMessages[k]
  BY <1>1, <1>2, SentQueues
<1>4. CASE placed # << >>
  <2>1. PlayMessages = <<Call("UPLOAD", placed), Call("PLAY", placed)>>
    BY <1>4 DEF PlayMessages
  <2>2. /\ Len(PlayMessages) = 2 /\ 1 \in 1 .. 2 /\ 2 \in 1 .. 2
        /\ PlayMessages[1] = Call("UPLOAD", placed) /\ PlayMessages[2] = Call("PLAY", placed)
    BY <2>1
  <2>3. QED BY <1>3, <1>4, <2>2
<1>5. CASE placed = << >>
  <2>1. PlayMessages = <<Call("PLAY", placed)>>
    BY <1>5 DEF PlayMessages
  <2>2. Len(PlayMessages) = 1 /\ 1 \in 1 .. 1 /\ PlayMessages[1] = Call("PLAY", placed)
    BY <2>1
  <2>3. QED BY <1>3, <1>5, <2>2
<1>6. QED BY <1>4, <1>5

\* The server takes the first message, and the others move up.
LEMMA ServeMovesUp ==
  ASSUME TypeOK, ServeNext
  PROVE  /\ Len(up) \in Nat \ {0} /\ Head(up) = up[1] /\ up[1] \in UpMessage
         /\ Len(up') = Len(up) - 1
         /\ \A k \in 1 .. Len(up) - 1 : up'[k] = up[k + 1]
<1>1. up \in Seq(UpMessage) /\ up # << >> /\ up' = Tail(up)
  BY Served DEF TypeOK, ServerType
<1>2. Len(up) \in Nat \ {0}
  BY <1>1, LenProperties, EmptySeq
<1>3. /\ Len(Tail(up)) = Len(up) - 1
      /\ \A k \in 1 .. Len(Tail(up)) : Tail(up)[k] = up[k + 1]
  BY <1>1, HeadTailProperties
<1>4. Head(up) = up[1] /\ Head(up) \in UpMessage
  BY <1>1, HeadTailProperties
<1>5. QED BY <1>1, <1>2, <1>3, <1>4

\* What becomes of the client.
LEMMA ServedSession ==
  ASSUME TypeOK, ServeNext
  PROVE  /\ server'.paused = IF up[1].type = "PLAY" THEN FALSE
                             ELSE IF up[1].type = "PAUSE" THEN TRUE ELSE server.paused
         /\ server'.pause = IF up[1].type = "PAUSE" THEN up[1].click ELSE server.pause
<1>1. server \in ServerRecord /\ Head(up) = up[1]
  BY ServeMovesUp DEF TypeOK, ServerType
<1>2. QED BY <1>1, Served, NotedClient

\* A streamed frame only fills the cache.
LEMMA StreamKeeps ==
  ASSUME TypeOK, StreamFrame
  PROVE  /\ server'.paused = server.paused /\ server'.pause = server.pause
         /\ UNCHANGED <<up, engine, late, failed>>
<1>1. server \in ServerRecord
  BY DEF TypeOK, ServerType
<1>2. PICK n : server' = [server EXCEPT !.frames = n]
  BY DEF StreamFrame
<1>3. QED BY <1>1, <1>2 DEF ServerRecord, StreamFrame

-----------------------------------------------------------------------------
(* The history button *)

\* When the server has taken the k - 1 messages before message k, it is paused.
PausedBefore(k) ==
  \/ \E j \in 1 .. k - 1 :
       up[j].type = "PAUSE" /\ \A i \in j + 1 .. k - 1 : up[i].type # "PLAY"
  \/ server.paused /\ \A i \in 1 .. k - 1 : up[i].type # "PLAY"

\* Whoever asked for the history because of a PAUSE finds the server paused.
AskedWhenPaused ==
  \A k \in 1 .. Len(up) : up[k].type = "FETCH" /\ up[k].honour => PausedBefore(k)

\* An enabled button, after a PAUSE, may be clicked.
ButtonWhenPaused == historyBtn /\ pauseSent => PausedBefore(Len(up) + 1)

HonourInv ==
  /\ TypeOK
  /\ HistoryBtnHonoured
  /\ pauseSent => session
  /\ AskedWhenPaused
  /\ ButtonWhenPaused

LEMMA HonourInit == Init => HonourInv
<1> SUFFICES ASSUME Init PROVE HonourInv
  OBVIOUS
<1>1. Len(up) = 0 /\ ~pauseSent /\ ~refused
  BY DEF Init
<1>2. QED
  BY <1>1, TypeInit DEF HonourInv, HistoryBtnHonoured, AskedWhenPaused, ButtonWhenPaused

\* Messages queued behind it do not change what a message finds.
LEMMA PausedKept ==
  ASSUME TypeOK, NEW n \in Nat, Queued(n), NEW k \in 1 .. Len(up) + 1, PausedBefore(k)
  PROVE  PausedBefore(k)'
<1>1. Len(up) \in Nat
  BY DEF TypeOK, ServerType
<1>2. \A i \in 1 .. k - 1 : up'[i] = up[i]
  BY <1>1 DEF Queued
<1>3. server'.paused = server.paused
  BY DEF Queued, backend
<1>4. CASE \E j \in 1 .. k - 1 :
             up[j].type = "PAUSE" /\ \A i \in j + 1 .. k - 1 : up[i].type # "PLAY"
  BY <1>1, <1>2, <1>4 DEF PausedBefore
<1>5. CASE server.paused /\ \A i \in 1 .. k - 1 : up[i].type # "PLAY"
  BY <1>1, <1>2, <1>3, <1>5 DEF PausedBefore
<1>6. QED BY <1>4, <1>5 DEF PausedBefore

\* Nor does a message that is no PLAY change it for the one behind it.
LEMMA PausedLonger ==
  ASSUME TypeOK, Queued(1), PausedBefore(Len(up) + 1), up'[Len(up) + 1].type # "PLAY"
  PROVE  PausedBefore(Len(up) + 1)'
<1> DEFINE n == Len(up)
<1>1. n \in Nat
  BY DEF TypeOK, ServerType
<1>2. \A i \in 1 .. n : up'[i] = up[i]
  BY DEF Queued
<1>3. server'.paused = server.paused
  BY DEF Queued, backend
<1>4. up'[n + 1].type # "PLAY"
  OBVIOUS
<1>5. \/ \E j \in 1 .. n :
           up[j].type = "PAUSE" /\ \A i \in j + 1 .. n : up[i].type # "PLAY"
      \/ server.paused /\ \A i \in 1 .. n : up[i].type # "PLAY"
  BY <1>1 DEF PausedBefore
<1>6. SUFFICES \/ \E j \in 1 .. n + 1 :
                    up'[j].type = "PAUSE" /\ \A i \in j + 1 .. n + 1 : up'[i].type # "PLAY"
               \/ server'.paused /\ \A i \in 1 .. n + 1 : up'[i].type # "PLAY"
  <2>1. (Len(up') + 1) - 1 = n + 1
    BY <1>1 DEF Queued
  <2>2. QED BY <1>6, <2>1 DEF PausedBefore
<1> HIDE DEF n
<1>7. CASE \E j \in 1 .. n :
             up[j].type = "PAUSE" /\ \A i \in j + 1 .. n : up[i].type # "PLAY"
  <2>1. PICK j \in 1 .. n :
               up[j].type = "PAUSE" /\ \A i \in j + 1 .. n : up[i].type # "PLAY"
    BY <1>7
  <2>2. j \in 1 .. n + 1 /\ up'[j].type = "PAUSE"
    BY <1>1, <1>2, <2>1
  <2>3. ASSUME NEW i \in j + 1 .. n + 1 PROVE up'[i].type # "PLAY"
    <3>1. CASE i = n + 1
      BY <1>4, <3>1
    <3>2. CASE i \in j + 1 .. n
      BY <1>1, <1>2, <2>1, <3>2
    <3>3. QED BY <1>1, <2>3, <3>1, <3>2
  <2>4. QED BY <2>2, <2>3
<1>8. CASE server.paused /\ \A i \in 1 .. n : up[i].type # "PLAY"
  <2>1. ASSUME NEW i \in 1 .. n + 1 PROVE up'[i].type # "PLAY"
    <3>1. CASE i = n + 1
      BY <1>4, <3>1
    <3>2. CASE i \in 1 .. n
      BY <1>2, <1>8, <3>2
    <3>3. QED BY <1>1, <2>1, <3>1, <3>2
  <2>2. QED BY <1>3, <1>8, <2>1
<1>9. QED BY <1>5, <1>7, <1>8

\* The server takes a message, and what the others will find is as before.
LEMMA PausedServed ==
  ASSUME TypeOK, ServeNext, NEW k \in 1 .. Len(up), PausedBefore(k + 1)
  PROVE  PausedBefore(k)'
<1> DEFINE n == Len(up)
<1>1. /\ n \in Nat \ {0} /\ Len(up') = n - 1
      /\ \A i \in 1 .. n - 1 : up'[i] = up[i + 1]
  BY ServeMovesUp
<1>2. server'.paused = IF up[1].type = "PLAY" THEN FALSE
                       ELSE IF up[1].type = "PAUSE" THEN TRUE ELSE server.paused
  BY ServedSession
<1>3. \/ \E j \in 1 .. k :
           up[j].type = "PAUSE" /\ \A i \in j + 1 .. k : up[i].type # "PLAY"
      \/ server.paused /\ \A i \in 1 .. k : up[i].type # "PLAY"
  BY <1>1 DEF PausedBefore
<1>4. SUFFICES \/ \E j \in 1 .. k - 1 :
                    up'[j].type = "PAUSE" /\ \A i \in j + 1 .. k - 1 : up'[i].type # "PLAY"
               \/ server'.paused /\ \A i \in 1 .. k - 1 : up'[i].type # "PLAY"
  BY DEF PausedBefore
<1> HIDE DEF n
<1>5. k \in 1 .. n
  BY DEF n
<1>6. CASE \E j \in 2 .. k :
             up[j].type = "PAUSE" /\ \A i \in j + 1 .. k : up[i].type # "PLAY"
  <2>1. PICK j \in 2 .. k :
               up[j].type = "PAUSE" /\ \A i \in j + 1 .. k : up[i].type # "PLAY"
    BY <1>6
  <2>2. j - 1 \in 1 .. k - 1 /\ up'[j - 1].type = "PAUSE"
    BY <1>1, <1>5, <2>1
  <2>3. ASSUME NEW i \in (j - 1) + 1 .. k - 1 PROVE up'[i].type # "PLAY"
    <3>1. i + 1 \in j + 1 .. k /\ i \in 1 .. n - 1
      BY <1>1, <1>5, <2>3
    <3>2. QED BY <1>1, <2>1, <3>1
  <2>4. QED BY <2>2, <2>3
<1>7. CASE up[1].type # "PLAY" /\ server'.paused /\ \A i \in 2 .. k : up[i].type # "PLAY"
  <2>1. ASSUME NEW i \in 1 .. k - 1 PROVE up'[i].type # "PLAY"
    <3>1. i + 1 \in 2 .. k /\ i \in 1 .. n - 1
      BY <1>1, <1>5, <2>1
    <3>2. QED BY <1>1, <1>7, <3>1
  <2>2. QED BY <1>7, <2>1
<1>8. CASE up[1].type = "PAUSE" /\ \A i \in 2 .. k : up[i].type # "PLAY"
  BY <1>2, <1>7, <1>8
<1>9. CASE server.paused /\ \A i \in 1 .. k : up[i].type # "PLAY"
  <2>1. up[1].type # "PLAY" /\ \A i \in 2 .. k : up[i].type # "PLAY"
    BY <1>1, <1>5, <1>9
  <2>2. server'.paused
    BY <1>2, <1>9, <2>1
  <2>3. QED BY <1>7, <2>1, <2>2
<1>10. (\E j \in 1 .. k :
          up[j].type = "PAUSE" /\ \A i \in j + 1 .. k : up[i].type # "PLAY")
       => \/ \E j \in 2 .. k :
               up[j].type = "PAUSE" /\ \A i \in j + 1 .. k : up[i].type # "PLAY"
          \/ up[1].type = "PAUSE" /\ \A i \in 2 .. k : up[i].type # "PLAY"
  <2> SUFFICES ASSUME NEW j \in 1 .. k, up[j].type = "PAUSE",
                      \A i \in j + 1 .. k : up[i].type # "PLAY"
               PROVE  \/ \E m \in 2 .. k :
                           up[m].type = "PAUSE" /\ \A i \in m + 1 .. k : up[i].type # "PLAY"
                      \/ up[1].type = "PAUSE" /\ \A i \in 2 .. k : up[i].type # "PLAY"
    OBVIOUS
  <2>1. CASE j = 1
    BY <2>1
  <2>2. CASE j \in 2 .. k
    BY <2>2
  <2>3. QED BY <1>1, <1>5, <2>1, <2>2
<1>11. QED BY <1>3, <1>6, <1>8, <1>9, <1>10

\* A click queues a message that is no PLAY, and enables the button only with a PAUSE.
LEMMA HonourQueued ==
  ASSUME HonourInv, Queued(1), UNCHANGED <<session, refused>>,
         LET m == up'[Len(up) + 1] IN
         \/ /\ UNCHANGED <<historyBtn, pauseSent>> /\ m.type # "PLAY"
            /\ m.type = "FETCH" /\ m.honour => historyBtn /\ pauseSent
         \/ m.type = "PAUSE" /\ session
  PROVE  /\ HistoryBtnHonoured' /\ AskedWhenPaused' /\ ButtonWhenPaused'
         /\ pauseSent' => session'
<1> DEFINE n == Len(up)
           m == up'[n + 1]
<1>1. TypeOK /\ n \in Nat /\ Len(up') = n + 1 /\ \A k \in 1 .. n : up'[k] = up[k]
  BY DEF HonourInv, TypeOK, ServerType, Queued
<1>2. \/ /\ UNCHANGED <<historyBtn, pauseSent>> /\ m.type # "PLAY"
         /\ m.type = "FETCH" /\ m.honour => historyBtn /\ pauseSent
      \/ m.type = "PAUSE" /\ session
  OBVIOUS
<1>3. HistoryBtnHonoured' /\ (pauseSent' => session')
  BY <1>2 DEF HonourInv, HistoryBtnHonoured
<1>4. \A k \in 1 .. n + 1 : PausedBefore(k) => PausedBefore(k)'
  BY <1>1, PausedKept
<1>5. AskedWhenPaused'
  <2> SUFFICES ASSUME NEW k \in 1 .. Len(up'), up'[k].type = "FETCH", up'[k].honour
               PROVE  PausedBefore(k)'
    BY DEF AskedWhenPaused
  <2>1. CASE k \in 1 .. n
    BY <1>1, <1>4, <2>1 DEF HonourInv, AskedWhenPaused
  <2>2. CASE k = n + 1
    <3>1. m.type = "FETCH" /\ m.honour
      BY <2>2
    <3>2. PausedBefore(k)
      BY <1>2, <2>2, <3>1 DEF HonourInv, ButtonWhenPaused
    <3>3. QED BY <1>1, <1>4, <2>2, <3>2
  <2>3. QED BY <1>1, <2>1, <2>2
<1>6. ButtonWhenPaused'
  <2>1. CASE UNCHANGED <<historyBtn, pauseSent>> /\ m.type # "PLAY"
    <3> SUFFICES ASSUME historyBtn, pauseSent PROVE PausedBefore(Len(up) + 1)'
      BY <2>1 DEF ButtonWhenPaused
    <3>1. PausedBefore(Len(up) + 1)
      BY DEF HonourInv, ButtonWhenPaused
    <3>2. QED BY <1>1, <2>1, <3>1, PausedLonger
  <2>2. CASE m.type = "PAUSE"
    <3>1. n + 1 \in 1 .. (Len(up') + 1) - 1
      BY <1>1
    <3>2. \A i \in (n + 1) + 1 .. (Len(up') + 1) - 1 : up'[i].type # "PLAY"
      BY <1>1
    <3>3. PausedBefore(Len(up) + 1)'
      BY <2>2, <3>1, <3>2 DEF PausedBefore
    <3>4. QED BY <3>3 DEF ButtonWhenPaused
  <2>3. QED BY <1>2, <2>1, <2>2
<1>7. QED BY <1>3, <1>5, <1>6

\* PLAY locks the button, and asks for nothing.
LEMMA HonourPlay ==
  ASSUME HonourInv, ClickPlay, session
  PROVE  /\ HistoryBtnHonoured' /\ AskedWhenPaused' /\ ButtonWhenPaused'
         /\ pauseSent' => session'
<1>1. TypeOK /\ Len(up) \in Nat
  BY DEF HonourInv, TypeOK, ServerType
<1>2. historyBtn' = FALSE /\ UNCHANGED <<session, pauseSent, refused>>
  BY DEF ClickPlay, LockHistoryBtn, ghosts, backend
<1>3. PICK n \in {1, 2} :
        /\ Queued(n)
        /\ \A k \in Len(up) + 1 .. Len(up) + n : up'[k].type # "FETCH"
  <2>1. \A t, q : Call(t, q).type = t
    BY DEF Call
  <2>2. QED BY <1>1, <2>1, PlayQueues
<1>4. AskedWhenPaused'
  <2> SUFFICES ASSUME NEW k \in 1 .. Len(up'), up'[k].type = "FETCH", up'[k].honour
               PROVE  PausedBefore(k)'
    BY DEF AskedWhenPaused
  <2>1. k \in 1 .. Len(up) /\ up'[k] = up[k]
    BY <1>1, <1>3 DEF Queued
  <2>2. PausedBefore(k)
    BY <2>1 DEF HonourInv, AskedWhenPaused
  <2>3. QED BY <1>1, <1>3, <2>1, <2>2, PausedKept
<1>5. QED BY <1>2, <1>4 DEF HonourInv, HistoryBtnHonoured, ButtonWhenPaused

\* The server takes a message; a request for the history finds it paused.
LEMMA HonourServe ==
  ASSUME HonourInv, ServeNext
  PROVE  /\ HistoryBtnHonoured' /\ AskedWhenPaused' /\ ButtonWhenPaused'
         /\ pauseSent' => session'
<1>1. /\ TypeOK /\ Len(up) \in Nat \ {0} /\ Len(up') = Len(up) - 1
      /\ Head(up) = up[1] /\ \A k \in 1 .. Len(up) - 1 : up'[k] = up[k + 1]
  BY ServeMovesUp DEF HonourInv
<1>2. /\ UNCHANGED <<session, historyBtn, pauseSent>>
      /\ refused' = (refused \/ (Head(up).type = "FETCH" /\ Head(up).honour /\ ~server.paused))
  BY DEF ServeNext
<1>3. up[1].type = "FETCH" /\ up[1].honour => server.paused
  <2> SUFFICES ASSUME up[1].type = "FETCH", up[1].honour PROVE server.paused
    OBVIOUS
  <2>1. PausedBefore(1)
    BY <1>1 DEF HonourInv, AskedWhenPaused
  <2>2. QED BY <2>1 DEF PausedBefore
<1>4. \A k \in 1 .. Len(up) : PausedBefore(k + 1) => PausedBefore(k)'
  BY <1>1, PausedServed
<1>5. AskedWhenPaused'
  <2> SUFFICES ASSUME NEW k \in 1 .. Len(up'), up'[k].type = "FETCH", up'[k].honour
               PROVE  PausedBefore(k)'
    BY DEF AskedWhenPaused
  <2>1. k + 1 \in 1 .. Len(up) /\ k \in 1 .. Len(up) /\ up'[k] = up[k + 1]
    BY <1>1
  <2>2. PausedBefore(k + 1)
    BY <2>1 DEF HonourInv, AskedWhenPaused
  <2>3. QED BY <1>4, <2>1, <2>2
<1>6. ButtonWhenPaused'
  <2> SUFFICES ASSUME historyBtn, pauseSent PROVE PausedBefore(Len(up) + 1)'
    BY <1>2 DEF ButtonWhenPaused
  <2> DEFINE n == Len(up)
  <2>1. PausedBefore(n + 1) /\ n \in 1 .. Len(up)
    BY <1>1 DEF HonourInv, ButtonWhenPaused
  <2>2. (Len(up') + 1) - 1 = n - 1
    BY <1>1
  <2>3. \/ \E j \in 1 .. n - 1 :
             up'[j].type = "PAUSE" /\ \A i \in j + 1 .. n - 1 : up'[i].type # "PLAY"
        \/ server'.paused /\ \A i \in 1 .. n - 1 : up'[i].type # "PLAY"
    <3>1. PICK k \in 1 .. Len(up) : k = n
      BY <2>1
    <3>2. PausedBefore(k)'
      BY <1>4, <2>1, <3>1
    <3>3. QED BY <3>1, <3>2 DEF PausedBefore
  <2>4. QED BY <2>2, <2>3 DEF PausedBefore
<1>7. QED BY <1>2, <1>1, <1>3, <1>5, <1>6 DEF HonourInv, HistoryBtnHonoured

LEMMA HonourNext == HonourInv /\ [Next]_vars => HonourInv'
<1> SUFFICES ASSUME HonourInv, [Next]_vars
             PROVE  /\ HistoryBtnHonoured' /\ AskedWhenPaused' /\ ButtonWhenPaused'
                    /\ pauseSent' => session'
  BY TypeNext DEF HonourInv
<1>1. TypeOK /\ PageType /\ CanvasType /\ ServerType /\ HistoryBtnHonoured /\ AskedWhenPaused
      /\ ButtonWhenPaused /\ (pauseSent => session)
  BY DEF HonourInv, TypeOK
<1>2. CASE /\ UNCHANGED <<up, historyBtn, pauseSent, refused>>
           /\ server'.paused = server.paused /\ (session => session')
  BY <1>1, <1>2 DEF HistoryBtnHonoured, AskedWhenPaused, ButtonWhenPaused, PausedBefore
<1>3. CASE /\ UNCHANGED <<up, backend, refused>> /\ ~session /\ ~pauseSent'
  BY <1>1, <1>3 DEF HistoryBtnHonoured, AskedWhenPaused, ButtonWhenPaused, PausedBefore,
                    backend
<1>4. CASE ClickPlay
  <2>1. CASE session
    BY <1>4, <2>1, HonourPlay
  <2>2. CASE ~session
    <3>1. UNCHANGED <<up, backend, refused, pauseSent>>
      BY <1>4, <2>2 DEF ClickPlay, Send, ghosts, backend
    <3>2. QED BY <1>1, <1>3, <2>2, <3>1
  <2>3. QED BY <2>1, <2>2
<1>5. CASE ClickPause
  <2>1. UNCHANGED <<session, backend, refused>>
    BY <1>5 DEF ClickPause
  <2>2. CASE session
    <3>1. Call("PAUSE", << >>) \in UpMessage /\ Call("PAUSE", << >>).type = "PAUSE"
      BY <1>1, SentTypes DEF Call
    <3>2. Queued(1) /\ up'[Len(up) + 1].type = "PAUSE"
      BY <1>1, <1>5, <2>1, <2>2, <3>1, OneSent DEF ClickPause
    <3>3. QED BY <2>1, <2>2, <3>2, HonourQueued
  <2>3. CASE ~session
    <3>1. up' = up /\ ~pauseSent'
      BY <1>1, <1>5, <2>3 DEF ClickPause, Send
    <3>2. QED BY <1>3, <2>1, <2>3, <3>1
  <2>4. QED BY <2>2, <2>3
<1>6. CASE ClickHistory
  <2>1. UNCHANGED <<session, backend, refused, historyBtn, pauseSent>> /\ historyBtn
    BY <1>6 DEF ClickHistory, ghosts, backend
  <2> DEFINE m == [type |-> "FETCH", honour |-> pauseSent]
  <2>2. m \in UpMessage /\ m.type = "FETCH" /\ m.honour = pauseSent
    BY <1>1 DEF UpMessage, PageType
  <2>3. Send(<<m>>)
    BY <1>6 DEF ClickHistory
  <2> HIDE DEF m
  <2>4. CASE session
    <3>1. Queued(1) /\ up'[Len(up) + 1] = m
      BY <1>1, <2>1, <2>2, <2>3, <2>4, OneSent
    <3>2. QED BY <2>1, <2>2, <3>1, HonourQueued
  <2>5. CASE ~session
    <3>1. up' = up
      BY <2>3, <2>5 DEF Send
    <3>2. QED BY <1>2, <2>1, <3>1 DEF backend
  <2>6. QED BY <2>4, <2>5
<1>7. CASE ClickUpload
  <2>1. UNCHANGED <<session, backend, refused, historyBtn, pauseSent>>
    BY <1>7 DEF ClickUpload, ghosts, backend
  <2>2. Call("UPLOAD", placed) \in UpMessage /\ Call("UPLOAD", placed).type = "UPLOAD"
    BY <1>1, SentTypes DEF Call
  <2>3. CASE session
    <3>1. Queued(1) /\ up'[Len(up) + 1].type = "UPLOAD"
      BY <1>1, <1>7, <2>1, <2>2, <2>3, OneSent DEF ClickUpload
    <3>2. QED BY <2>1, <3>1, HonourQueued
  <2>4. CASE ~session
    <3>1. up' = up
      BY <1>7, <2>4 DEF ClickUpload, Send
    <3>2. QED BY <1>2, <2>1, <3>1 DEF backend
  <2>5. QED BY <2>3, <2>4
<1>8. CASE ClickLoad
  <2>1. UNCHANGED <<session, backend, refused, historyBtn, pauseSent>>
    BY <1>8 DEF ClickLoad, ghosts, backend
  <2>2. Queued(1) /\ up'[Len(up) + 1].type = "LOAD"
    BY <1>1, <1>8, LoadQueues
  <2>3. QED BY <2>1, <2>2, HonourQueued
<1>9. CASE ServeNext
  BY <1>9, HonourServe
<1>10. CASE StreamFrame
  <2>1. server'.paused = server.paused /\ up' = up
    BY <1>1, <1>10, StreamKeeps
  <2>2. QED BY <1>2, <1>10, <2>1 DEF StreamFrame, ghosts, backend
<1>11. CASE Slide \/ ClickToggle \/ ClickCanvas \/ Undo \/ ClickClear \/ LateCall
  BY <1>2, <1>11 DEF Slide, ClickToggle, ClickCanvas, Undo, ClickClear, LateCall, ghosts,
                     backend
<1>12. CASE \/ ReceiveSession \/ ReceiveLive \/ ReceiveHistory \/ ReceiveLoadedScene
            \/ ReceiveError
  BY <1>2, <1>12 DEF ReceiveSession, ReceiveLive, ReceiveHistory, ReceiveLoadedScene,
                     ReceiveError, Receive, ghosts, backend
<1>13. CASE UNCHANGED vars
  BY <1>2, <1>13 DEF vars, ghosts, backend
<1>14. QED
  BY <1>4, <1>5, <1>6, <1>7, <1>8, <1>9, <1>10, <1>11, <1>12, <1>13 DEF Next

\* Once a PAUSE was sent, the server never refuses the history button: whatever
\* was queued before the click, the last PAUSE or PLAY the server will have read
\* by then is a PAUSE (app.js:1089, 1096; client.go:389-392).
THEOREM ButtonIsHonoured == Spec => []HistoryBtnHonoured
<1>1. HonourInv => HistoryBtnHonoured
  BY DEF HonourInv
<1>2. QED BY HonourInit, HonourNext, <1>1, PTL DEF Spec

-----------------------------------------------------------------------------
(* Failed calls *)

\* The engine executes no call late that was not answered with ERROR.
LateFailed == \A call \in late : call.click \in failed

LEMMA LateInit == Init => LateFailed
BY DEF Init, LateFailed

\* An ERROR is never taken back.
LEMMA LateNext ==
  ASSUME TypeOK, LateFailed, [Next]_vars
  PROVE  LateFailed' /\ failed \subseteq failed'
<1>1. CASE UNCHANGED <<late, failed>>
  BY <1>1 DEF LateFailed
<1>2. CASE ServeNext
  BY <1>2, Served DEF LateFailed
<1>3. CASE LateCall
  BY <1>3 DEF LateCall, LateFailed
<1>4. \/ UNCHANGED <<late, failed>>
      \/ ServeNext
      \/ LateCall
  BY DEF Next, vars, backend, ClickPlay, ClickPause, ClickHistory, ClickUpload, ClickLoad,
         Slide, ClickToggle, ClickCanvas, Undo, ClickClear, Receive, ReceiveSession,
         ReceiveLive, ReceiveHistory, ReceiveLoadedScene, ReceiveError, StreamFrame
<1>5. QED BY <1>1, <1>2, <1>3, <1>4

\* A late call leaves the engine standing, or running on a failed PLAY; another
\* scene is a failed UPLOAD's.
LEMMA LateExecuted ==
  ASSUME TypeOK, LateFailed, LateCall
  PROVE  /\ UNCHANGED <<up, server, failed>>
         /\ ~engine'.running \/ engine'.play \in failed
         /\ \/ engine'.upload \in failed
            \/ engine'.scene = engine.scene /\ engine'.upload = engine.upload
<1>1. PICK call \in late : Execute(call)
  BY DEF LateCall
<1>2. call \in Calls /\ engine \in EngineRecord /\ call.click \in failed
  BY <1>1 DEF TypeOK, ServerType, LateFailed
<1>3. call.type \in CallTypes
  BY <1>2 DEF Calls
<1>4. UNCHANGED <<up, server, failed>>
  BY DEF LateCall
<1>5. CASE call.type = "UPLOAD"
  BY <1>1, <1>2, <1>4, <1>5, Executed
<1>6. CASE call.type = "PLAY"
  BY <1>1, <1>2, <1>4, <1>6, Executed
<1>7. CASE call.type = "PAUSE"
  BY <1>1, <1>2, <1>4, <1>7, Executed
<1>8. QED BY <1>3, <1>5, <1>6, <1>7 DEF CallTypes

-----------------------------------------------------------------------------
(* What stands still *)

StandInv == TypeOK /\ LateFailed /\ StandsWhenPaused

LEMMA StandInit == Init => StandInv
<1> SUFFICES ASSUME Init PROVE StandInv
  OBVIOUS
<1>1. ~server.paused
  BY DEF Init
<1>2. QED BY <1>1, TypeInit, LateInit DEF StandInv, StandsWhenPaused

LEMMA StandServe ==
  ASSUME StandInv, ServeNext
  PROVE  StandsWhenPaused'
<1>1. /\ TypeOK /\ LateFailed /\ StandsWhenPaused
      /\ engine \in EngineRecord /\ Head(up) = up[1] /\ up[1] \in UpMessage
  BY ServeMovesUp DEF StandInv, TypeOK, ServerType
<1>2. /\ server'.paused = IF up[1].type = "PLAY" THEN FALSE
                          ELSE IF up[1].type = "PAUSE" THEN TRUE ELSE server.paused
      /\ server'.pause = IF up[1].type = "PAUSE" THEN up[1].click ELSE server.pause
  BY <1>1, ServedSession
<1>3. CASE up[1] \in Calls /\ Execute(up[1])
  <2>1. up[1].type \in CallTypes
    BY <1>3 DEF Calls
  <2>2. CASE up[1].type = "PLAY"
    BY <1>2, <2>2 DEF StandsWhenPaused
  <2>3. CASE up[1].type \in {"UPLOAD", "PAUSE"}
    <3>1. ~engine'.running
      BY <1>1, <1>3, <2>3, Executed
    <3>2. QED BY <3>1 DEF StandsWhenPaused
  <2>4. QED BY <2>1, <2>2, <2>3 DEF CallTypes
<1>4. CASE failed' = failed \cup {up[1].click} /\ UNCHANGED engine
  <2>1. CASE up[1].type = "PAUSE"
    BY <1>2, <1>4, <2>1 DEF StandsWhenPaused
  <2>2. CASE up[1].type # "PAUSE"
    BY <1>1, <1>2, <1>4, <2>2 DEF StandsWhenPaused
  <2>3. QED BY <2>1, <2>2
<1>5. CASE up[1].type \notin {"PLAY", "PAUSE"} /\ UNCHANGED <<engine, failed>>
  BY <1>1, <1>2, <1>5 DEF StandsWhenPaused
<1>6. QED BY <1>1, <1>3, <1>4, <1>5, Served

LEMMA StandNext == StandInv /\ [Next]_vars => StandInv'
<1> SUFFICES ASSUME StandInv, [Next]_vars PROVE StandsWhenPaused'
  BY TypeNext, LateNext DEF StandInv
<1>1. TypeOK /\ LateFailed /\ StandsWhenPaused
  BY DEF StandInv
<1>2. CASE UNCHANGED <<server, engine, failed>>
  BY <1>1, <1>2 DEF StandsWhenPaused
<1>3. CASE ServeNext
  BY <1>3, StandServe
<1>4. CASE LateCall
  <2>1. failed' = failed /\ (~engine'.running \/ engine'.play \in failed)
    BY <1>1, <1>4, LateExecuted
  <2>2. QED BY <2>1 DEF StandsWhenPaused
<1>5. CASE StreamFrame
  <2>1. /\ server'.paused = server.paused /\ server'.pause = server.pause
        /\ engine' = engine /\ failed' = failed
    BY <1>1, <1>5, StreamKeeps
  <2>2. QED BY <1>1, <2>1 DEF StandsWhenPaused
<1>6. \/ UNCHANGED <<server, engine, failed>>
      \/ ServeNext
      \/ LateCall
      \/ StreamFrame
  BY DEF Next, vars, backend, ClickPlay, ClickPause, ClickHistory, ClickUpload, ClickLoad,
         Slide, ClickToggle, ClickCanvas, Undo, ClickClear, Receive, ReceiveSession,
         ReceiveLive, ReceiveHistory, ReceiveLoadedScene, ReceiveError
<1>7. QED BY <1>2, <1>3, <1>4, <1>5, <1>6

\* A session that its client holds paused runs in the engine only behind a call
\* the browser was told has failed: its PAUSE, or a PLAY the engine executed
\* after the server had given it up (client.go:97-129).
THEOREM PausedStands == Spec => []StandsWhenPaused
<1>1. StandInv => StandsWhenPaused
  BY DEF StandInv
<1>2. QED BY StandInit, StandNext, <1>1, PTL DEF Spec

-----------------------------------------------------------------------------
(* What plays *)

\* The upload that a PLAY has before it.
UploadOf(play) == [type |-> "UPLOAD", scene |-> play.scene, click |-> play.click]

\* The scene is there that a PLAY is about, or a call has failed.
SceneThere(play) ==
  engine.scene = play.scene \/ failed \cap {play.click, engine.upload} # {}

\* A PLAY of a canvas with bodies comes right behind the upload of that canvas,
\* or the server has already taken that upload, and no other, before it.
UploadedFirst ==
  \A k \in 1 .. Len(up) : up[k].type = "PLAY" /\ up[k].scene # << >> =>
    IF k = 1 THEN SceneThere(up[k]) ELSE up[k - 1] = UploadOf(up[k])

PlayInv == TypeOK /\ LateFailed /\ PlaysWhatIsPlaced /\ UploadedFirst

LEMMA PlayInit == Init => PlayInv
<1> SUFFICES ASSUME Init PROVE PlayInv
  OBVIOUS
<1>1. Len(up) = 0 /\ ~engine.running
  BY DEF Init
<1>2. QED BY <1>1, TypeInit, LateInit DEF PlayInv, PlaysWhatIsPlaced, UploadedFirst

\* Messages queued behind the others: a PLAY among them has its upload before it.
LEMMA PlayQueued ==
  ASSUME PlayInv, NEW n \in Nat, Queued(n),
         \A k \in Len(up) + 1 .. Len(up) + n :
           up'[k].type = "PLAY" /\ up'[k].scene # << >> =>
             k # 1 /\ up'[k - 1] = UploadOf(up'[k])
  PROVE  PlaysWhatIsPlaced' /\ UploadedFirst'
<1>1. /\ Len(up) \in Nat /\ Len(up') = Len(up) + n
      /\ engine' = engine /\ failed' = failed
      /\ \A k \in 1 .. Len(up) : up'[k] = up[k]
  BY DEF PlayInv, TypeOK, ServerType, Queued, backend
<1>2. PlaysWhatIsPlaced'
  BY <1>1 DEF PlayInv, PlaysWhatIsPlaced
<1>3. UploadedFirst'
  <2> SUFFICES ASSUME NEW k \in 1 .. Len(up'),
                      up'[k].type = "PLAY", up'[k].scene # << >>
               PROVE  IF k = 1 THEN SceneThere(up[k])' ELSE up'[k - 1] = UploadOf(up'[k])
    BY DEF UploadedFirst, UploadOf
  <2>1. CASE k \in 1 .. Len(up)
    <3>1. IF k = 1 THEN SceneThere(up[k]) ELSE up[k - 1] = UploadOf(up[k])
      BY <1>1, <2>1 DEF PlayInv, UploadedFirst
    <3>2. k # 1 => up'[k - 1] = up[k - 1]
      BY <1>1, <2>1
    <3>3. up'[k] = up[k]
      BY <1>1, <2>1
    <3>4. QED BY <1>1, <3>1, <3>2, <3>3 DEF SceneThere
  <2>2. CASE k \in Len(up) + 1 .. Len(up) + n
    BY <2>2
  <2>3. QED BY <1>1, <2>1, <2>2
<1>4. QED BY <1>2, <1>3

\* The server takes a message.
LEMMA PlayServe ==
  ASSUME PlayInv, ServeNext
  PROVE  PlaysWhatIsPlaced' /\ UploadedFirst'
<1>1. /\ TypeOK /\ Len(up) \in Nat \ {0} /\ Len(up') = Len(up) - 1
      /\ Head(up) = up[1] /\ up[1] \in UpMessage /\ engine \in EngineRecord
      /\ \A k \in 1 .. Len(up) - 1 : up'[k] = up[k + 1]
      /\ PlaysWhatIsPlaced
  BY ServeMovesUp DEF PlayInv, TypeOK, ServerType
<1>2. \/ up[1] \in Calls /\ Execute(up[1]) /\ failed' = failed
      \/ failed' = failed \cup {up[1].click} /\ engine' = engine
      \/ /\ \/ up[1].type \in {"FETCH", "LOAD"}
            \/ up[1].type = "UPLOAD" /\ up[1].scene = << >>
         /\ engine' = engine /\ failed' = failed
  BY <1>1, Served
<1>3. failed \subseteq failed'
  BY <1>2
<1>4. PlaysWhatIsPlaced'
  <2>1. CASE engine' = engine
    BY <1>1, <1>3, <2>1 DEF PlaysWhatIsPlaced
  <2>2. CASE up[1] \in Calls /\ Execute(up[1]) /\ failed' = failed
    <3>1. up[1].type \in CallTypes
      BY <2>2 DEF Calls
    <3>2. CASE up[1].type = "PLAY"
      <4>1. /\ engine'.scene = engine.scene /\ engine'.upload = engine.upload
            /\ engine'.wanted = up[1].scene /\ engine'.play = up[1].click
        BY <1>1, <2>2, <3>2, Executed
      <4>2. up[1].scene # << >> => SceneThere(up[1])
        BY <1>1, <3>2 DEF PlayInv, UploadedFirst
      <4>3. QED BY <2>2, <4>1, <4>2 DEF SceneThere, PlaysWhatIsPlaced
    <3>3. CASE up[1].type \in {"UPLOAD", "PAUSE"}
      <4>1. ~engine'.running
        BY <1>1, <2>2, <3>3, Executed
      <4>2. QED BY <4>1 DEF PlaysWhatIsPlaced
    <3>4. QED BY <3>1, <3>2, <3>3 DEF CallTypes
  <2>3. QED BY <1>2, <2>1, <2>2
<1>5. UploadedFirst'
  <2> SUFFICES ASSUME NEW k \in 1 .. Len(up'),
                      up'[k].type = "PLAY", up'[k].scene # << >>
               PROVE  IF k = 1 THEN SceneThere(up[k])' ELSE up'[k - 1] = UploadOf(up'[k])
    BY DEF UploadedFirst, UploadOf
  <2>1. /\ k + 1 \in 1 .. Len(up) /\ k + 1 # 1 /\ (k + 1) - 1 = k
        /\ up'[k] = up[k + 1]
    BY <1>1
  <2>2. up[k] = UploadOf(up'[k])
    BY <2>1 DEF PlayInv, UploadedFirst
  <2>3. CASE k = 1
    <3>1. /\ up[1].type = "UPLOAD" /\ up[1].scene = up'[k].scene
          /\ up[1].click = up'[k].click
      BY <2>2, <2>3 DEF UploadOf
    <3>2. CASE up[1] \in Calls /\ Execute(up[1])
      <4>1. engine'.scene = up'[k].scene
        BY <1>1, <3>1, <3>2, Executed
      <4>2. QED BY <2>3, <4>1 DEF SceneThere
    <3>3. CASE failed' = failed \cup {up[1].click}
      BY <2>3, <3>1, <3>3 DEF SceneThere
    <3>4. QED BY <1>2, <3>1, <3>2, <3>3
  <2>4. CASE k # 1
    <3>1. k - 1 \in 1 .. Len(up) - 1 /\ (k - 1) + 1 = k
      BY <1>1, <2>4
    <3>2. up'[k - 1] = up[k]
      BY <1>1, <3>1
    <3>3. QED BY <2>2, <2>4, <3>2
  <2>5. QED BY <2>3, <2>4
<1>6. QED BY <1>4, <1>5

\* The engine gets round to a call that has failed.
LEMMA PlayLate ==
  ASSUME PlayInv, LateCall
  PROVE  PlaysWhatIsPlaced' /\ UploadedFirst'
<1>1. /\ UNCHANGED <<up, failed>>
      /\ ~engine'.running \/ engine'.play \in failed
      /\ \/ engine'.upload \in failed
         \/ engine'.scene = engine.scene /\ engine'.upload = engine.upload
  BY LateExecuted DEF PlayInv
<1>2. PlaysWhatIsPlaced'
  BY <1>1 DEF PlaysWhatIsPlaced
<1>3. ASSUME NEW play, SceneThere(play)
      PROVE  engine'.scene = play.scene \/ failed' \cap {play.click, engine'.upload} # {}
  BY <1>1, <1>3 DEF SceneThere
<1>4. UploadedFirst'
  <2> SUFFICES ASSUME NEW k \in 1 .. Len(up), up[k].type = "PLAY", up[k].scene # << >>
               PROVE  IF k = 1 THEN SceneThere(up[k])' ELSE up[k - 1] = UploadOf(up[k])
    BY <1>1 DEF UploadedFirst, UploadOf
  <2>1. IF k = 1 THEN SceneThere(up[k]) ELSE up[k - 1] = UploadOf(up[k])
    BY DEF PlayInv, UploadedFirst
  <2>2. QED BY <1>1, <1>3, <2>1 DEF SceneThere
<1>5. QED BY <1>2, <1>4

LEMMA PlayNext == PlayInv /\ [Next]_vars => PlayInv'
<1> SUFFICES ASSUME PlayInv, [Next]_vars PROVE PlaysWhatIsPlaced' /\ UploadedFirst'
  BY TypeNext, LateNext DEF PlayInv
<1>1. TypeOK /\ PageType /\ CanvasType /\ ServerType /\ Len(up) \in Nat
      /\ PlaysWhatIsPlaced /\ UploadedFirst
  BY DEF PlayInv, TypeOK, ServerType
<1>2. CASE UNCHANGED <<up, engine, failed>>
  BY <1>1, <1>2 DEF PlaysWhatIsPlaced, UploadedFirst, UploadOf, SceneThere
<1>3. ASSUME Queued(1), up'[Len(up) + 1].type # "PLAY"
      PROVE  PlaysWhatIsPlaced' /\ UploadedFirst'
  <2>1. \A k \in Len(up) + 1 .. Len(up) + 1 : up'[k].type # "PLAY"
    BY <1>1, <1>3
  <2>2. QED BY <1>3, <2>1, PlayQueued
<1>4. CASE ClickPlay
  <2>1. CASE ~session
    BY <1>2, <1>4, <2>1 DEF ClickPlay, Send, backend
  <2>2. CASE session /\ placed # << >>
    <3>1. /\ Queued(2) /\ up'[Len(up) + 1] = Call("UPLOAD", placed)
          /\ up'[Len(up) + 2] = Call("PLAY", placed)
      BY <1>1, <1>4, <2>2, PlayQueues
    <3>2. /\ Call("UPLOAD", placed).type # "PLAY"
          /\ Call("UPLOAD", placed) = UploadOf(Call("PLAY", placed))
      BY DEF Call, UploadOf
    <3>3. ASSUME NEW k \in Len(up) + 1 .. Len(up) + 2,
                 up'[k].type = "PLAY" /\ up'[k].scene # << >>
          PROVE  k # 1 /\ up'[k - 1] = UploadOf(up'[k])
      <4>1. k = Len(up) + 2
        BY <1>1, <3>1, <3>2, <3>3
      <4>2. k # 1 /\ k - 1 = Len(up) + 1
        BY <1>1, <4>1
      <4>3. QED BY <3>1, <3>2, <4>1, <4>2
    <3>4. QED BY <3>1, <3>3, PlayQueued
  <2>3. CASE session /\ placed = << >>
    <3>1. Queued(1) /\ up'[Len(up) + 1] = Call("PLAY", placed)
      BY <1>1, <1>4, <2>3, PlayQueues
    <3>2. Call("PLAY", placed).scene = << >>
      BY <2>3 DEF Call
    <3>3. \A k \in Len(up) + 1 .. Len(up) + 1 : up'[k].scene = << >>
      BY <1>1, <3>1, <3>2
    <3>4. QED BY <3>1, <3>3, PlayQueued
  <2>4. QED BY <2>1, <2>2, <2>3
<1>5. ASSUME NEW m \in UpMessage, m.type # "PLAY", Send(<<m>>), UNCHANGED backend
      PROVE  PlaysWhatIsPlaced' /\ UploadedFirst'
  <2>1. CASE session
    BY <1>1, <1>3, <1>5, <2>1, OneSent
  <2>2. CASE ~session
    <3>1. UNCHANGED <<up, engine, failed>>
      BY <1>1, <1>5, <2>2, OneSent DEF backend
    <3>2. QED BY <1>2, <3>1
  <2>3. QED BY <2>1, <2>2
<1>6. CASE ClickPause
  <2>1. Call("PAUSE", << >>) \in UpMessage /\ Call("PAUSE", << >>).type # "PLAY"
    BY <1>1, SentTypes DEF Call
  <2>2. QED BY <1>5, <1>6, <2>1 DEF ClickPause
<1>7. CASE ClickHistory
  <2> DEFINE m == [type |-> "FETCH", honour |-> pauseSent]
  <2>1. m \in UpMessage /\ m.type # "PLAY"
    BY <1>1 DEF UpMessage, PageType
  <2>2. Send(<<m>>) /\ UNCHANGED backend
    BY <1>7 DEF ClickHistory
  <2> HIDE DEF m
  <2>3. QED BY <1>5, <2>1, <2>2
<1>8. CASE ClickUpload
  <2>1. Call("UPLOAD", placed) \in UpMessage /\ Call("UPLOAD", placed).type # "PLAY"
    BY <1>1, SentTypes DEF Call
  <2>2. QED BY <1>5, <1>8, <2>1 DEF ClickUpload
<1>9. CASE ClickLoad
  <2>1. Queued(1) /\ up'[Len(up) + 1].type # "PLAY"
    BY <1>1, <1>9, LoadQueues
  <2>2. QED BY <1>3, <2>1
<1>10. CASE ServeNext
  BY <1>10, PlayServe
<1>11. CASE LateCall
  BY <1>11, PlayLate
<1>12. CASE StreamFrame
  BY <1>1, <1>2, <1>12, StreamKeeps
<1>13. CASE Slide \/ ClickToggle \/ ClickCanvas \/ Undo \/ ClickClear
  BY <1>2, <1>13 DEF Slide, ClickToggle, ClickCanvas, Undo, ClickClear, backend
<1>14. CASE \/ ReceiveSession \/ ReceiveLive \/ ReceiveHistory \/ ReceiveLoadedScene
            \/ ReceiveError
  BY <1>2, <1>14 DEF ReceiveSession, ReceiveLive, ReceiveHistory, ReceiveLoadedScene,
                     ReceiveError, Receive, backend
<1>15. CASE UNCHANGED vars
  BY <1>2, <1>15 DEF vars, backend
<1>16. QED
  BY <1>4, <1>6, <1>7, <1>8, <1>9, <1>10, <1>11, <1>12, <1>13, <1>14, <1>15 DEF Next

\* What plays is what was on the canvas when PLAY was clicked, whatever was
\* uploaded, loaded or cleared in between, and whatever calls failed: another
\* scene plays only after the browser was told that the UPLOAD or the PLAY of
\* that click, or the UPLOAD executed last, has failed (app.js:1072-1078,
\* client.go:122-129, 169-180).
THEOREM CanvasIsPlayed == Spec => []PlaysWhatIsPlaced
<1>1. PlayInv => PlaysWhatIsPlaced
  BY DEF PlayInv
<1>2. QED BY PlayInit, PlayNext, <1>1, PTL DEF Spec
=============================================================================
