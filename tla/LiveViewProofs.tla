--------------------------- MODULE LiveViewProofs ---------------------------
(***************************************************************************)
(* Proofs about LiveView, for any scene and any number of frames and       *)
(* inputs: every death explodes, and live trails end at living bodies.     *)
(***************************************************************************)
EXTENDS LiveView, SequenceTheorems, FiniteSetTheorems, TLAPS

Frame == {f \in [run : Nat, tick : Nat, scene : SUBSET Body, alive : SUBSET Body] :
            f.alive \subseteq f.scene}

Request == [type : {"UPLOAD"}, scene : SUBSET Body]
           \cup [type : {"PLAY", "PAUSE", "FETCH", "LOAD"}]

Message == [type : {"LIVE"}, frame : Frame]
           \cup [type : {"HISTORY"}, frames : Seq(Frame)]
           \cup [type : {"LOADED_SCENE"}, scene : SUBSET Body]

Engine == [scene : SUBSET Body, alive : SUBSET Body, run : Nat, tick : Nat, running : BOOLEAN]

EngineOK ==
  /\ engine \in Engine
  /\ engine.alive \subseteq engine.scene
  /\ cache \in Seq(Frame)
  /\ paused \in BOOLEAN

WiresOK == up \in Seq(Request) /\ down \in Seq(Message)

PageOK ==
  /\ placed \subseteq Body
  /\ {live, hist} \subseteq Frame \cup {NoFrame}
  /\ timeline \in Seq(Frame)
  /\ index \in Int
  /\ slider \in [enabled : BOOLEAN, max : Nat]

TypeOK == EngineOK /\ WiresOK /\ PageOK

-----------------------------------------------------------------------------
(* Types *)

\* The inputs that send something, and those that do not.
SendingInput == ClickPlay \/ ClickPause \/ ClickHistory \/ ClickUpload \/ ClickLoad

QuietInput == \/ ClickToggle \/ ClickBody \/ ClickEmpty \/ ClickClear \/ Undo \/ Hover
              \/ Slide \/ Wheel

LEMMA NextCases ==
  ASSUME [Next]_vars
  PROVE  \/ SendingInput \/ QuietInput
         \/ ReceiveLive \/ ReceiveHistory \/ ReceiveLoadedScene
         \/ ServeNext \/ StreamFrame
         \/ Render \/ UNCHANGED vars
  BY DEF Next, SendingInput, QuietInput

\* What a sending input sends.
LEMMA Sent ==
  ASSUME TypeOK, SendingInput
  PROVE  /\ \E messages \in Seq(Request) : up' = up \o messages
         /\ UNCHANGED <<server, down>>
  <1>1. \A scene \in SUBSET Body : [type |-> "UPLOAD", scene |-> scene] \in Request
    BY DEF Request
  <1>2. \A type \in {"PLAY", "PAUSE", "FETCH", "LOAD"} : [type |-> type] \in Request
    BY DEF Request
  <1>3. placed \in SUBSET Body
    BY DEF TypeOK, PageOK
  <1>4. CASE ClickPlay
    <2>1. (IF placed = {} THEN << >> ELSE <<[type |-> "UPLOAD", scene |-> placed]>>)
            \o <<[type |-> "PLAY"]>> \in Seq(Request)
      BY <1>1, <1>2, <1>3
    <2> QED
      BY <1>4, <2>1 DEF ClickPlay, Send
  <1>a. \A m \in Request : <<m>> \in Seq(Request)
    OBVIOUS
  <1>5. CASE ClickPause
    <2>1. up' = up \o <<[type |-> "PAUSE"]>> /\ UNCHANGED <<server, down>>
      BY <1>5 DEF ClickPause, Send
    <2> QED
      BY <1>2, <1>a, <2>1
  <1>6. CASE ClickHistory \/ ClickLoad
    <2>1. /\ \E type \in {"FETCH", "LOAD"} : up' = up \o <<[type |-> type]>>
          /\ UNCHANGED <<server, down>>
      BY <1>6 DEF ClickHistory, ClickLoad, Ask, Send
    <2> QED
      BY <1>2, <1>a, <2>1
  <1>7. CASE ClickUpload
    <2>1. up' = up \o <<[type |-> "UPLOAD", scene |-> placed]>> /\ UNCHANGED <<server, down>>
      BY <1>7 DEF ClickUpload, Ask, Send
    <2> QED
      BY <1>1, <1>3, <1>a, <2>1
  <1> QED
    BY <1>4, <1>5, <1>6, <1>7 DEF SendingInput

LEMMA QuietWires ==
  ASSUME QuietInput
  PROVE  UNCHANGED <<server, up, down>>
  BY DEF QuietInput, ClickToggle, ClickBody, ClickEmpty, ClickClear, Undo, Hover, Slide, Wheel

LEMMA ServerNext ==
  ASSUME TypeOK, [Next]_vars
  PROVE  EngineOK' /\ WiresOK'
  <1> USE DEF TypeOK
  <1>1. CASE SendingInput
    <2>1. PICK messages \in Seq(Request) : up' = up \o messages
      BY <1>1, Sent
    <2>2. up' \in Seq(Request)
      BY <2>1 DEF WiresOK
    <2> QED
      BY <1>1, <2>2, Sent DEF server, EngineOK, WiresOK
  <1>2. CASE UNCHANGED <<server, up, down>>
    BY <1>2 DEF server, EngineOK, WiresOK
  <1>3. CASE ReceiveLive \/ ReceiveHistory \/ ReceiveLoadedScene
    <2>1. down # << >> /\ down' = Tail(down) /\ UNCHANGED <<server, up>>
      BY <1>3 DEF ReceiveLive, ReceiveHistory, ReceiveLoadedScene, Receive
    <2>2. down' \in Seq(Message)
      BY <2>1 DEF WiresOK
    <2> QED
      BY <2>1, <2>2 DEF server, EngineOK, WiresOK
  <1>4. CASE ServeNext
    <2>1. up # << >> /\ up' = Tail(up) /\ up' \in Seq(Request) /\ Head(up) \in Request
      BY <1>4 DEF ServeNext, WiresOK
    <2>2. CASE Head(up).type = "UPLOAD"
      <3>1. Head(up).scene \in SUBSET Body
        BY <2>1, <2>2 DEF Request
      <3>2. /\ engine' = IF Head(up).scene = {} THEN engine
                         ELSE [scene |-> Head(up).scene, alive |-> Head(up).scene, tick |-> 0,
                               run |-> engine.run + 1, running |-> FALSE]
            /\ cache' = << >> /\ UNCHANGED <<paused, down>>
        BY <1>4, <2>2 DEF ServeNext
      <3>3. CASE Head(up).scene = {}
        BY <2>1, <3>2, <3>3 DEF EngineOK, WiresOK
      <3>4. CASE Head(up).scene # {}
        <4>1. engine' \in Engine /\ engine'.alive = engine'.scene
          BY <3>1, <3>2, <3>4 DEF EngineOK, Engine
        <4> QED
          BY <2>1, <3>2, <4>1 DEF EngineOK, WiresOK
      <3> QED
        BY <3>3, <3>4
    <2>3. CASE Head(up).type \in {"PLAY", "PAUSE"}
      <3>1. /\ engine' \in {[engine EXCEPT !.running = TRUE], [engine EXCEPT !.running = FALSE]}
            /\ cache' \in {cache, << >>} /\ paused' \in BOOLEAN /\ UNCHANGED down
        BY <1>4, <2>3 DEF ServeNext
      <3>2. engine' \in Engine /\ engine'.alive \subseteq engine'.scene
        BY <3>1 DEF EngineOK, Engine
      <3>3. cache' \in Seq(Frame)
        <4>1. << >> \in Seq(Frame) /\ (cache' = cache \/ cache' = << >>)
          BY <3>1
        <4> QED
          BY <4>1 DEF EngineOK
      <3> QED
        BY <2>1, <3>1, <3>2, <3>3 DEF EngineOK, WiresOK
    <2>4. CASE Head(up).type = "FETCH"
      <3>1. /\ UNCHANGED <<engine, cache, paused>>
            /\ down' \in {down, Append(down, [type |-> "HISTORY", frames |-> cache])}
        BY <1>4, <2>4 DEF ServeNext
      <3>2. [type |-> "HISTORY", frames |-> cache] \in Message
        BY DEF EngineOK, Message
      <3>3. down' \in Seq(Message)
        BY <3>1, <3>2 DEF WiresOK
      <3> QED
        BY <2>1, <3>1, <3>3 DEF EngineOK, WiresOK
    <2>5. CASE Head(up).type = "LOAD"
      <3>1. PICK scene \in SavedScenes :
              down' = Append(down, [type |-> "LOADED_SCENE", scene |-> scene])
        BY <1>4, <2>5 DEF ServeNext
      <3>2. cache' = << >> /\ UNCHANGED <<engine, paused>>
        BY <1>4, <2>5 DEF ServeNext
      <3>3. [type |-> "LOADED_SCENE", scene |-> scene] \in Message
        BY LiveViewAssumption DEF Message
      <3> QED
        BY <2>1, <3>1, <3>2, <3>3 DEF EngineOK, WiresOK
    <2> QED
      BY <2>1, <2>2, <2>3, <2>4, <2>5 DEF Request
  <1>5. CASE StreamFrame
    <2>1. PICK alive \in SUBSET engine.alive :
            LET f == [run |-> engine.run, tick |-> engine.tick + 1,
                      scene |-> engine.scene, alive |-> alive]
            IN  /\ engine' = [engine EXCEPT !.tick = @ + 1, !.alive = alive]
                /\ cache' = LET all == Append(cache, f)
                            IN  IF Len(all) > MaxTimeline THEN Tail(all) ELSE all
                /\ down' = IF paused THEN down ELSE Append(down, [type |-> "LIVE", frame |-> f])
      BY <1>5 DEF StreamFrame
    <2> DEFINE f == [run |-> engine.run, tick |-> engine.tick + 1,
                     scene |-> engine.scene, alive |-> alive]
    <2>2. f \in Frame
      <3>1. engine.run \in Nat /\ engine.tick + 1 \in Nat /\ engine.scene \in SUBSET Body
            /\ alive \in SUBSET Body /\ alive \subseteq engine.scene
        BY DEF EngineOK, Engine
      <3> QED
        BY <3>1 DEF Frame
    <2>3. Append(cache, f) \in Seq(Frame) /\ Append(cache, f) # << >>
      BY <2>2 DEF EngineOK
    <2>4. cache' \in Seq(Frame)
      <3>1. cache' \in {Append(cache, f), Tail(Append(cache, f))}
        BY <2>1
      <3> HIDE DEF f
      <3> QED
        BY <2>3, <3>1
    <2>5. [type |-> "LIVE", frame |-> f] \in Message
      BY <2>2 DEF Message
    <2>6. down' \in Seq(Message)
      BY <2>1, <2>5 DEF WiresOK
    <2>7. UNCHANGED <<up, paused>>
      BY <1>5 DEF StreamFrame
    <2>8. engine' \in Engine /\ engine'.alive \subseteq engine'.scene
      <3>1. engine' = [engine EXCEPT !.tick = @ + 1, !.alive = alive]
        BY <2>1
      <3>2. alive \in SUBSET Body /\ alive \subseteq engine.scene /\ engine.tick + 1 \in Nat
        BY DEF EngineOK, Engine
      <3>3. [engine EXCEPT !.tick = engine.tick + 1, !.alive = alive] \in Engine
        BY <3>2 DEF EngineOK, Engine
      <3>4. engine'.alive = alive /\ engine'.scene = engine.scene
        BY <3>1 DEF EngineOK, Engine
      <3> QED
        BY <3>1, <3>2, <3>3, <3>4
    <2> QED
      BY <2>4, <2>6, <2>7, <2>8 DEF EngineOK, WiresOK
  <1> QED
    BY <1>1, <1>2, <1>3, <1>4, <1>5, NextCases, QuietWires DEF Render, vars

LEMMA PageNext ==
  ASSUME TypeOK, [Next]_vars
  PROVE  PageOK'
  <1> USE DEF TypeOK
  <1>1. CASE SendingInput
    <2>1. UNCHANGED <<placed, live, hist, timeline>>
          /\ (slider' = slider \/ slider' = [slider EXCEPT !.enabled = FALSE])
          /\ (index' = index \/ index' = NoIndex)
      BY <1>1 DEF SendingInput, ClickPlay, IndexWhilePlaying, ClickPause, ClickHistory,
                  ClickUpload, ClickLoad, Ask, shown, timelineVars
    <2>2. [slider EXCEPT !.enabled = FALSE] \in [enabled : BOOLEAN, max : Nat]
      BY DEF PageOK
    <2>3. slider' \in [enabled : BOOLEAN, max : Nat]
      BY <2>1, <2>2 DEF PageOK
    <2>4. index' \in Int
      BY <2>1 DEF PageOK, NoIndex
    <2> QED
      BY <2>1, <2>3, <2>4 DEF PageOK
  <1>2. CASE Slide
    <2>1. PICK i \in 0 .. slider.max :
            index' = i /\ hist' = IF i < Len(timeline) THEN timeline[i + 1] ELSE NoFrame
      BY <1>2 DEF Slide
    <2>2. hist' \in Frame \cup {NoFrame}
      BY <2>1 DEF PageOK
    <2> QED
      BY <1>2, <2>1, <2>2 DEF Slide, PageOK
  <1>3. CASE ClickToggle \/ ClickEmpty
    <2>1. /\ UNCHANGED <<live, timeline>> /\ (hist' = hist \/ hist' = NoFrame)
          /\ (index' = index \/ index' = NoIndex)
          /\ (slider' = slider \/ slider' = [slider EXCEPT !.enabled = FALSE])
      BY <1>3 DEF ClickToggle, ClickEmpty, LeaveHistory, StayInView
    <2>2. placed' \subseteq Body
      BY <1>3 DEF ClickToggle, ClickEmpty, PageOK
    <2>3. [slider EXCEPT !.enabled = FALSE] \in [enabled : BOOLEAN, max : Nat]
      BY DEF PageOK
    <2>4. slider' \in [enabled : BOOLEAN, max : Nat]
      BY <2>1, <2>3 DEF PageOK
    <2>5. index' \in Int
      BY <2>1 DEF PageOK, NoIndex
    <2> QED
      BY <2>1, <2>2, <2>4, <2>5 DEF PageOK
  <1>4. CASE ClickBody \/ ClickClear \/ Undo \/ Hover \/ Wheel
    <2>1. UNCHANGED <<shown, timelineVars>> /\ placed' \subseteq placed
      BY <1>4 DEF ClickBody, ClickClear, Undo, Hover, Wheel
    <2> QED
      BY <2>1 DEF shown, timelineVars, PageOK
  <1>5. CASE ReceiveLive
    <2>1. Head(down) \in Message /\ Head(down).type = "LIVE"
      BY <1>5 DEF ReceiveLive, Receive, WiresOK
    <2>2. Head(down).frame \in Frame
      BY <2>1 DEF Message
    <2> QED
      BY <1>5, <2>2 DEF ReceiveLive, timelineVars, PageOK
  <1>6. CASE ReceiveHistory
    <2>1. Head(down) \in Message /\ Head(down).type = "HISTORY"
      BY <1>6 DEF ReceiveHistory, Receive, WiresOK
    <2>2. Head(down).frames \in Seq(Frame)
      BY <2>1 DEF Message
    <2>3. timeline' \in Seq(Frame) /\ UNCHANGED placed
      BY <1>6, <2>2 DEF ReceiveHistory
    <2>4. CASE Head(down).frames = << >>
      BY <1>6, <2>3, <2>4 DEF ReceiveHistory, shown, PageOK
    <2>5. CASE Head(down).frames # << >>
      <3>1. Len(Head(down).frames) - 1 \in Nat /\ Last(Head(down).frames) \in Frame
        BY <2>2, <2>5 DEF Last
      <3>2. /\ slider' = [enabled |-> TRUE, max |-> Len(Head(down).frames) - 1]
            /\ index' = Len(Head(down).frames) - 1
            /\ hist' = Last(Head(down).frames) /\ live' = NoFrame
        BY <1>6, <2>5 DEF ReceiveHistory
      <3> QED
        BY <2>3, <3>1, <3>2 DEF PageOK
    <2> QED
      BY <2>4, <2>5
  <1>7. CASE ReceiveLoadedScene
    <2>1. Head(down) \in Message /\ Head(down).type = "LOADED_SCENE"
      BY <1>7 DEF ReceiveLoadedScene, Receive, WiresOK
    <2>2. Head(down).scene \in SUBSET Body
      BY <2>1 DEF Message
    <2>3. /\ placed' = Head(down).scene /\ live' = NoFrame /\ hist' = NoFrame
          /\ timeline' = << >> /\ slider' = [slider EXCEPT !.enabled = FALSE] /\ index' = index
      BY <1>7 DEF ReceiveLoadedScene
    <2>4. slider' \in [enabled : BOOLEAN, max : Nat]
      BY <2>3 DEF PageOK
    <2> QED
      BY <2>2, <2>3, <2>4 DEF PageOK
  <1>8. CASE ServeNext \/ StreamFrame \/ Render \/ UNCHANGED vars
    BY <1>8 DEF ServeNext, StreamFrame, Render, vars, shown, timelineVars, PageOK
  <1> QED
    BY <1>1, <1>2, <1>3, <1>4, <1>5, <1>6, <1>7, <1>8, NextCases DEF QuietInput

\* Frames and messages keep their types, and no frame shows a body alive that is not
\* of its scene.
THEOREM ViewTypes == Spec => []TypeOK
  <1>1. Init => TypeOK
    <2> SUFFICES ASSUME Init PROVE TypeOK
      OBVIOUS
    <2>1. << >> \in Seq(Frame) /\ << >> \in Seq(Request) /\ << >> \in Seq(Message)
      OBVIOUS
    <2>2. engine \in Engine /\ engine.alive \subseteq engine.scene
      BY DEF Init, Engine
    <2>4. EngineOK /\ WiresOK
      BY <2>1, <2>2 DEF Init, EngineOK, WiresOK
    <2>3. PageOK
      BY <2>1 DEF Init, NoIndex, PageOK
    <2> QED
      BY <2>3, <2>4 DEF TypeOK
  <1>2. TypeOK /\ [Next]_vars => TypeOK'
    BY ServerNext, PageNext DEF TypeOK
  <1> QED
    BY <1>1, <1>2, PTL DEF Spec

-----------------------------------------------------------------------------
(* Deaths *)

\* A body seen alive has exploded or is known to have been alive.
DeathsOK == seenAlive \subseteq exploded \cup {b \in DOMAIN prev : prev[b]}

\* It has exploded in a run whose frames have come in since PLAY was clicked.
BlastsOK == \A b \in exploded : \E r \in runsSeen : <<b, r>> \in blasts

DeathInv == DeathsOK /\ BlastsOK

\* A live frame explodes the bodies it shows dead that were alive in the one before.
LEMMA DeathsReceived ==
  ASSUME TypeOK, DeathInv, ReceiveLive
  PROVE  DeathInv' /\ DeathsExplode'
  <1> DEFINE f == Head(down).frame
             new == Died(f) \ exploded
  <1>1. f.alive \subseteq f.scene
    <2>1. Head(down) \in Message /\ Head(down).type = "LIVE"
      BY DEF ReceiveLive, Receive, TypeOK, WiresOK
    <2> QED
      BY <2>1 DEF Message, Frame
  <1>2. /\ exploded' = exploded \cup new
        /\ prev' = [b \in f.scene |-> b \in f.alive]
        /\ seenAlive' = (seenAlive \cap f.scene) \cup f.alive
        /\ runsSeen' = runsSeen \cup {f.run}
        /\ blasts' = blasts \cup {<<b, f.run>> : b \in new}
        /\ live' = f
    BY DEF ReceiveLive
  <1>3. \A b \in seenAlive' : b \in f.alive \/ b \in exploded'
    BY <1>2 DEF DeathInv, DeathsOK, Died
  <1>4. ASSUME NEW b \in exploded'
        PROVE  \E r \in runsSeen' : <<b, r>> \in blasts'
    <2>1. CASE b \in new
      BY <1>2, <2>1
    <2>2. CASE b \in exploded
      <3>1. PICK r \in runsSeen : <<b, r>> \in blasts
        BY <2>2 DEF DeathInv, BlastsOK
      <3> HIDE DEF f, new
      <3> QED
        BY <1>2, <3>1
    <2> QED
      BY <1>2, <1>4, <2>1, <2>2
  <1> HIDE DEF f, new
  <1>5. DeathInv'
    BY <1>1, <1>2, <1>3, <1>4 DEF DeathInv, DeathsOK, BlastsOK
  <1>6. ASSUME runsSeen' = {f.run}, NEW b \in f.scene, b \in seenAlive', b \notin f.alive
        PROVE  <<b, f.run>> \in blasts'
    BY <1>3, <1>4, <1>6
  <1> QED
    BY <1>2, <1>5, <1>6 DEF DeathsExplode

\* Every death in the live frames of a run explodes in that run, also when the frame
\* in which the body died was never sent, as long as no frame of an earlier run comes
\* in after PLAY was clicked (app.js:630-632, 728-747, 1062-1068).
THEOREM DeathsSeen == Spec => []DeathsExplode
  <1>1. Init => DeathInv /\ DeathsExplode
    BY DEF Init, DeathInv, DeathsOK, BlastsOK, DeathsExplode
  <1>2. TypeOK /\ DeathInv /\ DeathsExplode /\ [Next]_vars => DeathInv' /\ DeathsExplode'
    <2> SUFFICES ASSUME TypeOK, DeathInv, DeathsExplode, [Next]_vars
                 PROVE  DeathInv' /\ DeathsExplode'
      OBVIOUS
    <2> USE DEF DeathInv
    <2>1. CASE ReceiveLive
      BY <2>1, DeathsReceived
    <2>2. CASE ClickPlay
      <3>1. exploded' = {} /\ seenAlive' = {} /\ UNCHANGED live
        BY <2>2 DEF ClickPlay, ForgetDeaths, ForgetGhosts, shown
      <3> QED
        BY <3>1 DEF DeathsOK, BlastsOK, DeathsExplode
    <2>3. CASE ReceiveHistory
      <3>1. seenAlive' = {} /\ UNCHANGED <<exploded, runsSeen, blasts>>
        BY <2>3 DEF ReceiveHistory, deathGhosts
      <3> QED
        BY <3>1 DEF DeathsOK, BlastsOK, DeathsExplode
    <2>4. CASE /\ UNCHANGED <<seenAlive, exploded, prev, runsSeen, blasts>>
               /\ live' \in {live, NoFrame}
      BY <2>4 DEF DeathsOK, BlastsOK, DeathsExplode
    <2>5. CASE SendingInput
      BY <2>2, <2>4, <2>5
      DEF SendingInput, ClickPause, ClickHistory, ClickUpload, ClickLoad, Ask, deaths,
          deathGhosts, shown
    <2>6. CASE QuietInput
      BY <2>4, <2>6
      DEF QuietInput, ClickToggle, ClickBody, ClickEmpty, ClickClear, Undo, Hover, Slide,
          Wheel, deaths, deathGhosts, shown
    <2> QED
      BY <2>1, <2>3, <2>4, <2>5, <2>6, NextCases
      DEF ReceiveLoadedScene, ServeNext, StreamFrame, Render, vars, deaths, deathGhosts,
          shown
  <1> QED
    BY <1>1, <1>2, ViewTypes, PTL DEF Spec

-----------------------------------------------------------------------------
(* What is under way while an earlier history is looked at *)

NoPlay(u) == \A i \in DOMAIN u : u[i].type # "PLAY"

FetchLast(u) == \A i, j \in DOMAIN u : i < j /\ u[i].type = "FETCH" => u[j].type # "PLAY"

NoLive(d) == \A i \in DOMAIN d : d[i].type # "LIVE"

HistoryIn(d) == \E i \in DOMAIN d : d[i].type = "HISTORY"

HistoryLast(d) == \A i, j \in DOMAIN d : i < j /\ d[i].type = "HISTORY" => d[j].type # "LIVE"

LookingBack == index # NoIndex \/ slider.enabled

\* A history was asked for after the last PLAY, and comes after the last live frame.
OrderOK ==
  ~lateHistory =>
    /\ FetchLast(up) /\ HistoryLast(down)
    /\ HistoryIn(down) => paused /\ NoPlay(up)
    /\ LookingBack => paused /\ NoPlay(up) /\ NoLive(down)

LEMMA RequestSent ==
  ASSUME NEW S, NEW q \in Seq(S), NEW m \in S, m.type # "PLAY"
  PROVE  /\ NoPlay(q) => NoPlay(q \o <<m>>)
         /\ FetchLast(q) => FetchLast(q \o <<m>>)
  <1>1. \A i \in DOMAIN (q \o <<m>>) :
          \/ i \in DOMAIN q /\ (q \o <<m>>)[i] = q[i]
          \/ i = Len(q) + 1 /\ (q \o <<m>>)[i] = m
    OBVIOUS
  <1>2. \A i \in DOMAIN q : i \in Nat /\ i <= Len(q)
    OBVIOUS
  <1> QED
    BY <1>1, <1>2 DEF NoPlay, FetchLast

LEMMA RequestServed ==
  ASSUME NEW S, NEW q \in Seq(S), q # << >>
  PROVE  /\ NoPlay(q) => NoPlay(Tail(q)) /\ Head(q).type # "PLAY"
         /\ FetchLast(q) => FetchLast(Tail(q))
         /\ FetchLast(q) /\ Head(q).type = "FETCH" => NoPlay(Tail(q))
  <1>1. \A i \in DOMAIN Tail(q) : i \in Nat \ {0} /\ i + 1 \in DOMAIN q /\ Tail(q)[i] = q[i + 1]
    OBVIOUS
  <1>2. Head(q) = q[1] /\ 1 \in DOMAIN q
    OBVIOUS
  <1> QED
    BY <1>1, <1>2 DEF NoPlay, FetchLast

LEMMA MessageSent ==
  ASSUME NEW S, NEW q \in Seq(S), NEW m \in S
  PROVE  /\ NoLive(q) /\ m.type # "LIVE" => NoLive(Append(q, m))
         /\ HistoryLast(q) /\ (m.type # "LIVE" \/ ~HistoryIn(q)) => HistoryLast(Append(q, m))
         /\ HistoryIn(Append(q, m)) => HistoryIn(q) \/ m.type = "HISTORY"
  <1>1. \A i \in DOMAIN Append(q, m) :
          \/ i \in DOMAIN q /\ Append(q, m)[i] = q[i]
          \/ i = Len(q) + 1 /\ Append(q, m)[i] = m
    OBVIOUS
  <1>2. \A i \in DOMAIN q : i \in Nat /\ i <= Len(q)
    OBVIOUS
  <1> QED
    BY <1>1, <1>2 DEF NoLive, HistoryLast, HistoryIn

LEMMA MessageReceived ==
  ASSUME NEW S, NEW q \in Seq(S), q # << >>
  PROVE  /\ NoLive(q) => NoLive(Tail(q)) /\ Head(q).type # "LIVE"
         /\ HistoryLast(q) => HistoryLast(Tail(q))
         /\ HistoryIn(Tail(q)) => HistoryIn(q)
         /\ Head(q).type = "HISTORY" => HistoryIn(q)
         /\ HistoryLast(q) /\ Head(q).type = "HISTORY" => NoLive(Tail(q))
  <1>1. \A i \in DOMAIN Tail(q) : i \in Nat \ {0} /\ i + 1 \in DOMAIN q /\ Tail(q)[i] = q[i + 1]
    OBVIOUS
  <1>2. Head(q) = q[1] /\ 1 \in DOMAIN q
    OBVIOUS
  <1> QED
    BY <1>1, <1>2 DEF NoLive, HistoryLast, HistoryIn

LEMMA OrderSent ==
  ASSUME TypeOK, OrderOK, SendingInput
  PROVE  OrderOK'
  <1> SUFFICES ASSUME ~lateHistory' PROVE OrderOK'
    BY DEF OrderOK
  <1>1. CASE ClickPlay
    <2>1. ~HistoryAsked /\ index' = NoIndex /\ slider'.enabled = FALSE /\ UNCHANGED down
      BY <1>1 DEF ClickPlay, IndexWhilePlaying, TypeOK, PageOK
    <2>2. \E messages \in Seq(Request) :
            up' = up \o messages /\ \A i \in DOMAIN messages : messages[i].type # "FETCH"
      <3> DEFINE first == IF placed = {} THEN << >>
                          ELSE <<[type |-> "UPLOAD", scene |-> placed]>>
                 then == <<[type |-> "PLAY"]>>
      <3>1. up' = up \o (first \o then)
        BY <1>1 DEF ClickPlay, Send
      <3>2. first \in Seq(Request) /\ \A i \in DOMAIN first : first[i].type # "FETCH"
        <4>1. [type |-> "UPLOAD", scene |-> placed] \in Request
          BY DEF Request, TypeOK, PageOK
        <4> QED
          BY <4>1
      <3>3. then \in Seq(Request) /\ \A i \in DOMAIN then : then[i].type # "FETCH"
        <4>1. [type |-> "PLAY"] \in Request
          BY DEF Request
        <4> QED
          BY <4>1
      <3> HIDE DEF first, then
      <3>4. \A i \in DOMAIN (first \o then) :
              \/ i \in DOMAIN first /\ (first \o then)[i] = first[i]
              \/ i - Len(first) \in DOMAIN then /\ (first \o then)[i] = then[i - Len(first)]
        BY <3>2, <3>3
      <3>5. first \o then \in Seq(Request)
        BY <3>2, <3>3
      <3> QED
        BY <3>1, <3>2, <3>3, <3>4, <3>5
    <2>3. \A i \in DOMAIN up' : up'[i].type # "FETCH"
      <3>1. PICK messages \in Seq(Request) :
              up' = up \o messages /\ \A i \in DOMAIN messages : messages[i].type # "FETCH"
        BY <2>2
      <3>2. \A i \in DOMAIN (up \o messages) :
              \/ i \in DOMAIN up /\ (up \o messages)[i] = up[i]
              \/ i - Len(up) \in DOMAIN messages /\ (up \o messages)[i] = messages[i - Len(up)]
        BY DEF TypeOK, WiresOK
      <3> QED
        BY <2>1, <3>1, <3>2 DEF HistoryAsked
    <2>4. ~lateHistory /\ HistoryLast(down)' /\ ~HistoryIn(down)'
      BY <1>1, <2>1 DEF ClickPlay, HistoryAsked, HistoryIn, HistoryLast
    <2> QED
      BY <2>1, <2>3, <2>4 DEF OrderOK, FetchLast, LookingBack
  <1>2. CASE ~ClickPlay
    <2>1. \E m \in Request : m.type # "PLAY" /\ up' = up \o <<m>>
      <3>1. CASE ClickUpload
        <4>1. [type |-> "UPLOAD", scene |-> placed] \in Request
          BY DEF Request, TypeOK, PageOK
        <4> QED
          BY <3>1, <4>1 DEF ClickUpload, Ask, Send
      <3>2. CASE ~ClickUpload
        <4>1. \E type \in {"PAUSE", "FETCH", "LOAD"} : up' = up \o <<[type |-> type]>>
          BY <1>2, <3>2 DEF SendingInput, ClickPause, ClickHistory, ClickLoad, Ask, Send
        <4>2. \A type \in {"PAUSE", "FETCH", "LOAD"} :
                [type |-> type] \in Request /\ [type |-> type].type # "PLAY"
          BY DEF Request
        <4> QED
          BY <4>1, <4>2
      <3> QED
        BY <3>1, <3>2
    <2>2. UNCHANGED <<paused, down, index, slider, lateHistory>>
      BY <1>2 DEF SendingInput, ClickPause, ClickHistory, ClickUpload, ClickLoad, Ask,
                  server, timelineVars, page
    <2>3. (NoPlay(up) => NoPlay(up')) /\ (FetchLast(up) => FetchLast(up'))
      BY <2>1, RequestSent DEF TypeOK, WiresOK
    <2> QED
      BY <2>2, <2>3 DEF OrderOK, LookingBack, NoPlay, FetchLast, NoLive, HistoryIn, HistoryLast
  <1> QED
    BY <1>1, <1>2

LEMMA OrderServed ==
  ASSUME TypeOK, OrderOK, ServeNext
  PROVE  OrderOK'
  <1>1. /\ up # << >> /\ up' = Tail(up) /\ UNCHANGED <<index, slider, lateHistory>>
        /\ Head(up) \in Request
    BY DEF ServeNext, timelineVars, page, TypeOK, WiresOK
  <1> SUFFICES ASSUME ~lateHistory PROVE OrderOK'
    BY <1>1 DEF OrderOK
  <1>2. /\ NoPlay(up) => NoPlay(up') /\ Head(up).type # "PLAY"
        /\ FetchLast(up')
        /\ Head(up).type = "FETCH" => NoPlay(up')
    BY <1>1, RequestServed DEF OrderOK, TypeOK, WiresOK
  <1>3. CASE Head(up).type \in {"UPLOAD", "PLAY", "PAUSE"}
    <2>1. UNCHANGED down /\ (Head(up).type # "PLAY" /\ paused => paused')
      BY <1>3 DEF ServeNext
    <2> QED
      BY <1>1, <1>2, <2>1 DEF OrderOK, LookingBack, NoPlay, FetchLast, NoLive, HistoryIn, HistoryLast
  <1>4. CASE Head(up).type = "FETCH"
    <2> DEFINE m == [type |-> "HISTORY", frames |-> cache]
    <2>1. UNCHANGED paused /\ down' = IF paused THEN Append(down, m) ELSE down
      BY <1>4 DEF ServeNext
    <2>2. CASE ~paused
      BY <1>1, <1>2, <2>1, <2>2 DEF OrderOK, LookingBack, NoPlay, FetchLast, NoLive, HistoryIn, HistoryLast
    <2>3. CASE paused
      <3>1. m \in Message /\ m.type = "HISTORY"
        BY DEF TypeOK, EngineOK, Message
      <3> HIDE DEF m
      <3>2. HistoryLast(down') /\ (NoLive(down) => NoLive(down'))
        BY <2>1, <2>3, <3>1, MessageSent DEF OrderOK, TypeOK, WiresOK
      <3> QED
        BY <1>1, <1>2, <1>4, <2>1, <2>3, <3>2 DEF OrderOK, LookingBack, NoPlay, FetchLast, NoLive, HistoryLast
    <2> QED
      BY <2>2, <2>3
  <1>5. CASE Head(up).type = "LOAD"
    <2>1. UNCHANGED paused
      BY <1>5 DEF ServeNext
    <2>2. PICK scene \in SavedScenes :
            down' = Append(down, [type |-> "LOADED_SCENE", scene |-> scene])
      BY <1>5 DEF ServeNext
    <2> DEFINE m == [type |-> "LOADED_SCENE", scene |-> scene]
    <2>3. m \in Message /\ m.type = "LOADED_SCENE"
      BY LiveViewAssumption DEF Message
    <2>4. down' = Append(down, m)
      BY <2>2
    <2> HIDE DEF m
    <2>5. /\ HistoryLast(down') /\ (NoLive(down) => NoLive(down'))
          /\ HistoryIn(down') => HistoryIn(down)
      BY <2>3, <2>4, MessageSent DEF OrderOK, TypeOK, WiresOK
    <2> QED
      BY <1>1, <1>2, <2>1, <2>5 DEF OrderOK, LookingBack, NoPlay, FetchLast, NoLive, HistoryIn, HistoryLast
  <1> QED
    BY <1>1, <1>3, <1>4, <1>5 DEF Request

LEMMA OrderStreamed ==
  ASSUME TypeOK, OrderOK, StreamFrame
  PROVE  OrderOK'
  <1>1. UNCHANGED <<up, paused, index, slider, lateHistory>>
    BY DEF StreamFrame, timelineVars, page
  <1>2. PICK alive \in SUBSET engine.alive :
          LET f == [run |-> engine.run, tick |-> engine.tick + 1,
                    scene |-> engine.scene, alive |-> alive]
          IN  down' = IF paused THEN down ELSE Append(down, [type |-> "LIVE", frame |-> f])
    BY DEF StreamFrame
  <1> DEFINE m == [type |-> "LIVE",
                   frame |-> [run |-> engine.run, tick |-> engine.tick + 1,
                              scene |-> engine.scene, alive |-> alive]]
  <1>3. down' = (IF paused THEN down ELSE Append(down, m)) /\ m.type = "LIVE"
    BY <1>2
  <1> HIDE DEF m
  <1>4. CASE paused
    BY <1>1, <1>3, <1>4 DEF OrderOK, LookingBack, NoPlay, FetchLast, NoLive, HistoryIn, HistoryLast
  <1>5. CASE ~paused
    <2>1. ~lateHistory => ~HistoryIn(down) /\ HistoryLast(down)
      BY <1>5 DEF OrderOK
    <2>2. ~lateHistory => HistoryLast(Append(down, m)) /\ ~HistoryIn(Append(down, m))
      <3>1. down \in Seq(Message \cup {m})
        BY DEF TypeOK, WiresOK
      <3> QED
        BY <1>3, <2>1, <3>1, MessageSent
    <2> QED
      BY <1>1, <1>3, <1>5, <2>2 DEF OrderOK, LookingBack, NoPlay, FetchLast, HistoryIn, HistoryLast
  <1> QED
    BY <1>4, <1>5

LEMMA OrderNext ==
  ASSUME TypeOK, OrderOK, [Next]_vars
  PROVE  OrderOK'
  <1>1. CASE QuietInput
    <2>1. UNCHANGED <<up, down, paused, lateHistory>>
      BY <1>1 DEF QuietInput, ClickToggle, ClickBody, ClickEmpty, ClickClear, Undo, Hover, Slide,
                  Wheel, server, page
    <2>2. LookingBack' => LookingBack
      <3>1. CASE UNCHANGED <<index, slider>>
        BY <3>1 DEF LookingBack
      <3>2. CASE LeaveHistory
        BY <3>2 DEF LeaveHistory, LookingBack, TypeOK, PageOK
      <3>3. CASE Slide
        BY <3>3 DEF Slide, LookingBack
      <3> QED
        BY <1>1, <3>1, <3>2, <3>3
        DEF QuietInput, ClickToggle, ClickBody, ClickEmpty, StayInView, ClickClear, Undo, Hover,
            Wheel, timelineVars
    <2> QED
      BY <2>1, <2>2 DEF OrderOK, NoPlay, FetchLast, NoLive, HistoryIn, HistoryLast
  <1>2. CASE ReceiveLive \/ ReceiveHistory \/ ReceiveLoadedScene
    <2>1. /\ down # << >> /\ down' = Tail(down) /\ UNCHANGED <<paused, up, lateHistory>>
      BY <1>2 DEF ReceiveLive, ReceiveHistory, ReceiveLoadedScene, Receive, server, page
    <2> SUFFICES ASSUME ~lateHistory PROVE OrderOK'
      BY <2>1 DEF OrderOK
    <2>2. /\ HistoryLast(down') /\ (HistoryIn(down') => HistoryIn(down))
          /\ NoLive(down) => NoLive(down')
          /\ Head(down).type = "HISTORY" => HistoryIn(down) /\ NoLive(down')
      BY <2>1, MessageReceived DEF OrderOK, TypeOK, WiresOK
    <2>3. (LookingBack' => LookingBack) \/ Head(down).type = "HISTORY"
      <3>1. CASE ReceiveLoadedScene
        BY <3>1 DEF ReceiveLoadedScene, LookingBack, TypeOK, PageOK
      <3> QED
        BY <1>2, <3>1 DEF ReceiveLive, ReceiveHistory, Receive, timelineVars, LookingBack
    <2> QED
      BY <2>1, <2>2, <2>3 DEF OrderOK, NoPlay, FetchLast, NoLive, HistoryIn, HistoryLast
  <1>3. CASE Render \/ UNCHANGED vars
    <2>1. UNCHANGED <<up, down, paused, index, slider, lateHistory>>
      BY <1>3 DEF Render, vars, server, timelineVars, page
    <2> QED
      BY <2>1 DEF OrderOK, LookingBack, NoPlay, FetchLast, NoLive, HistoryIn, HistoryLast
  <1> QED
    BY <1>1, <1>2, <1>3, NextCases, OrderSent, OrderServed, OrderStreamed

-----------------------------------------------------------------------------
(* Trails *)

IsTrail(s) == s \in Seq({s[k] : k \in DOMAIN s})

AreTrails(map) == \A b \in DOMAIN map : IsTrail(map[b])

LEMMA TrailMade ==
  ASSUME NEW n \in Nat, NEW s, s = [k \in 1 .. n |-> s[k]]
  PROVE  IsTrail(s)
  <1>1. DOMAIN s = 1 .. n
    OBVIOUS
  <1> DEFINE R == {s[k] : k \in DOMAIN s}
  <1>2. s \in [1 .. n -> R]
    BY <1>1
  <1> HIDE DEF R
  <1>3. s \in Seq(R)
    BY <1>2
  <1> QED
    BY <1>3 DEF IsTrail, R

\* A trail that grew by a point ends there, whether or not its first point fell out.
LEMMA TrailGrown ==
  ASSUME NEW q, IsTrail(q), NEW p, NEW trail,
         trail = IF Len(Append(q, p)) > TrailMax THEN Tail(Append(q, p)) ELSE Append(q, p)
  PROVE  IsTrail(trail) /\ Last(trail) = p
  <1> DEFINE R == {q[k] : k \in DOMAIN q} \cup {p}
  <1>1. q \in Seq(R)
    <2> DEFINE Q == {q[k] : k \in DOMAIN q}
    <2>1. q \in Seq(Q)
      BY DEF IsTrail
    <2>2. Q \subseteq R
      OBVIOUS
    <2> HIDE DEF Q, R
    <2> QED
      BY <2>1, <2>2
  <1>2. p \in R
    OBVIOUS
  <1> HIDE DEF R
  <1>3. /\ Append(q, p) \in Seq(R) /\ Len(Append(q, p)) = Len(q) + 1 /\ Len(q) \in Nat
        /\ Append(q, p)[Len(q) + 1] = p
    BY <1>1, <1>2
  <1>4. CASE Len(Append(q, p)) > TrailMax
    <2>1. Len(q) >= 1
      BY <1>3, <1>4, LiveViewAssumption
    <2>2. /\ trail \in Seq(R) /\ Len(trail) = Len(q)
          /\ trail[Len(q)] = Append(q, p)[Len(q) + 1]
      BY <1>3, <1>4, <2>1
    <2>3. trail = [k \in 1 .. Len(trail) |-> trail[k]]
      BY <2>2
    <2> QED
      BY <1>3, <2>2, <2>3, TrailMade DEF Last
  <1>5. CASE ~(Len(Append(q, p)) > TrailMax)
    <2>1. trail \in Seq(R)
      BY <1>3, <1>5
    <2>2. trail = [k \in 1 .. Len(trail) |-> trail[k]] /\ Len(trail) \in Nat
      BY <2>1
    <2> QED
      BY <1>3, <1>5, <2>2, TrailMade DEF Last
  <1> QED
    BY <1>4, <1>5

LEMMA LiveTrailsGrown ==
  ASSUME AreTrails(trails), NEW f, trails' = LiveTrails(f)
  PROVE  AreTrails(trails') /\ \A b \in DOMAIN trails' : b \in f.alive /\ Last(trails'[b]) = Point(f)
  <1>1. SUFFICES ASSUME NEW b \in f.alive
                 PROVE  IsTrail(trails'[b]) /\ Last(trails'[b]) = Point(f)
    BY DEF LiveTrails, AreTrails
  <1> DEFINE q == IF b \in DOMAIN trails THEN trails[b] ELSE << >>
  <1>2. IsTrail(q)
    <2>1. CASE b \in DOMAIN trails
      BY <2>1 DEF AreTrails
    <2>2. CASE b \notin DOMAIN trails
      <3>1. << >> = [k \in 1 .. 0 |-> << >>[k]]
        OBVIOUS
      <3> QED
        BY <2>2, <3>1, TrailMade
    <2> QED
      BY <2>1, <2>2
  <1>3. trails'[b] = IF Len(Append(q, Point(f))) > TrailMax
                       THEN Tail(Append(q, Point(f))) ELSE Append(q, Point(f))
    BY DEF LiveTrails
  <1> HIDE DEF q
  <1> QED
    BY <1>2, <1>3, TrailGrown

LEMMA HistoryTrailsMade ==
  ASSUME NEW i \in Int
  PROVE  AreTrails(HistoryTrails(i))
  <1> DEFINE shows(b) == {j \in Window(i) : b \in timeline[j + 1].scene}
             nth(set, k) == CHOOSE j \in set : Cardinality({h \in set : h < j}) = k - 1
  <1>1. IsFiniteSet(Window(i))
    <2>1. Max({0, i - TrailMax + 1}) \in Int
      <3>1. TrailMax \in Nat
        BY LiveViewAssumption
      <3>2. \E m \in {0, i - TrailMax + 1} : \A n \in {0, i - TrailMax + 1} : m >= n
        BY <3>1
      <3>3. Max({0, i - TrailMax + 1}) \in {0, i - TrailMax + 1}
        BY <3>2 DEF Max
      <3> QED
        BY <3>1, <3>3
    <2> QED
      BY <2>1, FS_Interval DEF Window
  <1>2. ASSUME NEW b PROVE Cardinality(shows(b)) \in Nat
    BY <1>1, FS_Subset, FS_CardinalityType
  <1>3. HistoryTrails(i) =
          [b \in UNION {timeline[j + 1].scene : j \in Window(i)} |->
             [k \in 1 .. Cardinality(shows(b)) |-> Point(timeline[nth(shows(b), k) + 1])]]
    BY DEF HistoryTrails
  <1>4. ASSUME NEW b \in DOMAIN HistoryTrails(i) PROVE IsTrail(HistoryTrails(i)[b])
    <2> DEFINE trail == [k \in 1 .. Cardinality(shows(b)) |-> Point(timeline[nth(shows(b), k) + 1])]
    <2>1. HistoryTrails(i)[b] = trail
      BY <1>3
    <2>2. trail = [k \in 1 .. Cardinality(shows(b)) |-> trail[k]]
      OBVIOUS
    <2> HIDE DEF trail
    <2> QED
      BY <1>2, <2>1, <2>2, TrailMade
  <1> QED
    BY <1>4 DEF AreTrails

\* While a live frame is shown there is no position in a history.
ViewOK ==
  /\ AreTrails(trails)
  /\ ~lateHistory /\ live # NoFrame => ~LookingBack
  /\ LiveTrailsEndAtBodies

LEMMA ViewNext ==
  ASSUME TypeOK, OrderOK, ViewOK, [Next]_vars
  PROVE  ViewOK'
  <1>a. lateHistory => lateHistory'
    <2>1. CASE ClickPlay
      BY <2>1 DEF ClickPlay
    <2> QED
      BY <2>1 DEF Next, ClickPause, ClickHistory, ClickUpload, ClickLoad, Ask, ClickToggle,
        ClickBody, ClickEmpty, ClickClear, Undo, Hover, Slide, Wheel, ReceiveLive,
        ReceiveHistory, ReceiveLoadedScene, Render, ServeNext, StreamFrame, page, vars
  <1>b. AreTrails(Empty) /\ DOMAIN Empty = {}
    BY DEF Empty, AreTrails
  <1>1. CASE UNCHANGED <<trails, live, hist>> /\ (LookingBack' => LookingBack)
    BY <1>1, <1>a DEF ViewOK, AreTrails, LiveTrailsEndAtBodies
  <1>2. CASE live' = NoFrame /\ (trails' = trails \/ trails' = Empty)
    BY <1>2, <1>b DEF ViewOK, AreTrails, LiveTrailsEndAtBodies
  <1>3. CASE Slide \/ Wheel
    <2>1. LookingBack /\ UNCHANGED <<live, lateHistory>>
      BY <1>3 DEF Slide, Wheel, LookingBack, shown, page
    <2>2. AreTrails(trails')
      <3>1. CASE trails' = trails \/ trails' = Empty
        BY <1>b, <3>1 DEF ViewOK
      <3>2. CASE \E i \in Int : trails' = HistoryTrails(i)
        BY <3>2, HistoryTrailsMade
      <3>3. slider.max \in Nat /\ index \in Int
        BY DEF TypeOK, PageOK
      <3> QED
        BY <1>3, <3>1, <3>2, <3>3 DEF Slide, Wheel
    <2>3. lateHistory \/ live = NoFrame
      BY <2>1 DEF ViewOK
    <2> QED
      BY <2>1, <2>2, <2>3 DEF ViewOK, AreTrails, LiveTrailsEndAtBodies
  <1>4. CASE LeaveHistory /\ UNCHANGED <<live, lateHistory>>
    <2>1. trails' = Empty /\ ~LookingBack'
      BY <1>4 DEF LeaveHistory, LookingBack, TypeOK, PageOK
    <2> QED
      BY <1>b, <2>1 DEF ViewOK, AreTrails, LiveTrailsEndAtBodies
  <1>5. CASE ReceiveLive
    <2> DEFINE f == Head(down).frame
    <2>1. live' = f /\ trails' = LiveTrails(f) /\ UNCHANGED <<index, slider, lateHistory>>
      BY <1>5 DEF ReceiveLive, timelineVars, page
    <2>2. lateHistory \/ ~LookingBack
      <3>1. down # << >> /\ Head(down).type = "LIVE"
        BY <1>5 DEF ReceiveLive, Receive
      <3> QED
        BY <3>1, MessageReceived DEF OrderOK, TypeOK, WiresOK
    <2> HIDE DEF f
    <2>3. AreTrails(trails') /\ \A b \in DOMAIN trails' : b \in f.alive /\ Last(trails'[b]) = Point(f)
      BY <2>1, LiveTrailsGrown DEF ViewOK
    <2> QED
      BY <2>1, <2>2, <2>3 DEF ViewOK, AreTrails, LiveTrailsEndAtBodies, LookingBack
  <1>6. CASE SendingInput
    <2>1. UNCHANGED <<trails, live, hist>>
      BY <1>6 DEF SendingInput, ClickPlay, ClickPause, ClickHistory, ClickUpload, ClickLoad, Ask,
                  shown
    <2>2. LookingBack' => LookingBack
      <3>1. CASE ClickPlay
        BY <3>1 DEF ClickPlay, IndexWhilePlaying, LookingBack, TypeOK, PageOK
      <3> QED
        BY <1>6, <3>1 DEF SendingInput, ClickPause, ClickHistory, ClickUpload, ClickLoad, Ask,
                          timelineVars, LookingBack
    <2> QED
      BY <1>1, <2>1, <2>2
  <1>7. CASE QuietInput
    <2>1. CASE UNCHANGED <<trails, shown, index, slider>>
      BY <1>1, <2>1 DEF shown, LookingBack
    <2> QED
      BY <1>3, <1>4, <1>7, <2>1
      DEF QuietInput, ClickToggle, ClickBody, ClickEmpty, StayInView, ClickClear, Undo, Hover,
          shown, timelineVars, page
  <1>8. CASE ReceiveHistory
    <2>1. CASE Head(down).frames = << >>
      BY <1>1, <1>8, <2>1 DEF ReceiveHistory, shown, LookingBack
    <2>2. CASE Head(down).frames # << >>
      BY <1>2, <1>8, <2>2 DEF ReceiveHistory
    <2> QED
      BY <2>1, <2>2
  <1>9. CASE ReceiveLoadedScene
    BY <1>2, <1>9 DEF ReceiveLoadedScene
  <1>10. CASE ServeNext \/ StreamFrame \/ Render \/ UNCHANGED vars
    <2>1. UNCHANGED <<trails, live, hist, index, slider>>
      BY <1>10 DEF ServeNext, StreamFrame, Render, vars, shown, timelineVars
    <2> QED
      BY <1>1, <2>1 DEF LookingBack
  <1> QED
    BY <1>5, <1>6, <1>7, <1>8, <1>9, <1>10, NextCases

\* The trails drawn with a live frame end at its living bodies, unless PLAY overtook a
\* history that had been asked for (app.js:556-572, 774, 1090, 1143).
THEOREM TrailsFollow == Spec => []LiveTrailsEndAtBodies
  <1>1. Init => OrderOK /\ ViewOK
    <2> SUFFICES ASSUME Init PROVE OrderOK /\ ViewOK
      OBVIOUS
    <2>1. up = << >> /\ down = << >> /\ ~LookingBack /\ trails = Empty /\ live = NoFrame
      BY DEF Init, LookingBack
    <2> QED
      BY <2>1 DEF OrderOK, FetchLast, HistoryLast, HistoryIn, ViewOK, AreTrails, Empty,
                  LiveTrailsEndAtBodies
  <1>2. TypeOK /\ OrderOK /\ ViewOK /\ [Next]_vars => OrderOK' /\ ViewOK'
    BY OrderNext, ViewNext
  <1>3. ViewOK => LiveTrailsEndAtBodies
    BY DEF ViewOK
  <1> QED
    BY <1>1, <1>2, <1>3, ViewTypes, PTL DEF Spec
=============================================================================
