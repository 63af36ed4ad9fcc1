------------------------------ MODULE Dashboard ------------------------------
(***************************************************************************)
(* The browser's dashboard (web/src/app.js): the placement editor, the     *)
(* timeline, the control buttons and the messages they exchange with the   *)
(* server, whose side is reduced to what ReadPump and the pause gate do    *)
(* with a session's messages (client.go; see Telemetry for the rest).      *)
(*                                                                         *)
(* A frame is not told from another; bodies are their ids.  What the       *)
(* canvas and the body card show is in LiveView, accounts and the dialogs  *)
(* of saved scenes are in SceneDialogs.                                    *)
(***************************************************************************)
EXTENDS Integers, Sequences, FiniteSetsExt, SequencesExt

CONSTANTS
  SavedScenes,  \* id sequences of the scenes LOAD_SCENE may return
  MaxPlaced,    \* bound on the placed bodies
  MaxId,        \* bound on the ids given out
  MaxFrames,    \* bound on the frames a cache holds
  QueueCap,     \* bound on the messages under way, each direction
  MaxClicks,    \* bound on the user's actions that send something
  MaxFailures   \* bound on the clicks a call of which fails

ASSUME DashboardAssumption ==
  /\ \A scene \in SavedScenes : scene \in Seq(Int) /\ IsInjective(scene)
  /\ {MaxPlaced, MaxFrames, QueueCap, MaxClicks, MaxFailures} \subseteq Nat

VARIABLES
  session,        \* currentSessionId is known
  placementMode,  \* placementMode
  toggle,         \* placementToggle.checked
  controls,       \* placementControls are displayed
  placed,         \* placementBodies: their ids
  draft,          \* placementPos is set
  nextId,         \* nextBodyId
  live,           \* currentLiveFrame is set
  history,        \* currentHistoryFrame is set
  timeline,       \* historicalTimelineCache.length
  index,          \* currentHistoryIndex
  slider,         \* timeSlider: enabled, max
  historyBtn,     \* the history button is enabled
  up,             \* messages to the server
  down,           \* messages to the browser
  server,         \* the session's Client: isPaused, the frames in its cache
  engine,         \* the session's SimulationInstance: it runs, its scene
  late,           \* calls given up by the server that the engine may still execute
  clicks,         \* number of sending clicks so far
  \* history variables; so are the fields pause of server, the click of the last
  \* PAUSE read, and wanted, play and upload of engine: the canvas and the click
  \* of the PLAY executed last, and the click of the UPLOAD executed last
  failed,         \* the clicks that a call was answered with ERROR for
  pauseSent,      \* PAUSE was sent at some time
  refused         \* a FETCH_HISTORY sent after that was refused

editor == <<placementMode, toggle, controls>>
canvas == <<placed, draft, nextId>>
timelineVars == <<live, history, timeline, index, slider>>
ghosts == <<pauseSent, refused>>

\* What the clicks and the messages to the browser leave alone.
backend == <<server, engine, late, failed>>

vars == <<session, editor, canvas, timelineVars, historyBtn, up, down, backend,
          clicks, ghosts>>

FirstId == 1000
NoIndex == -1

Init ==
  /\ session = FALSE
  /\ placementMode = TRUE /\ toggle = TRUE /\ controls = TRUE
  /\ placed = << >> /\ draft = FALSE /\ nextId = FirstId
  /\ live = FALSE /\ history = FALSE /\ timeline = 0 /\ index = NoIndex
  /\ slider = [enabled |-> FALSE, max |-> 0]
  /\ historyBtn = TRUE
  /\ up = << >>
  /\ down = <<[type |-> "SESSION_ESTABLISHED"]>>
  /\ server = [paused |-> FALSE, frames |-> 0, pause |-> 0]
  /\ engine = [running |-> FALSE, scene |-> << >>, wanted |-> << >>, play |-> 0,
               upload |-> 0]
  /\ late = {} /\ failed = {}
  /\ clicks = 0
  /\ pauseSent = FALSE /\ refused = FALSE

-----------------------------------------------------------------------------
(* Sending *)

\* sendSimulationMessage: nothing is sent before the session id is known.
Send(messages) ==
  /\ Len(up) < QueueCap
  /\ clicks < MaxClicks
  /\ clicks' = clicks + 1
  /\ up' = IF session THEN up \o messages ELSE up

\* The messages the server passes on to the engine remember their click, and a
\* PLAY what was on the canvas.
Call(type, scene) == [type |-> type, scene |-> scene, click |-> clicks + 1]

\* Mutant of PlayMessages: PLAY does not wait for the upload.
PlayMessagesSwapped ==
  IF placed # << >> THEN <<Call("PLAY", placed), Call("UPLOAD", placed)>>
                    ELSE <<Call("PLAY", placed)>>

\* The canvas, when there is anything on it, is uploaded before every PLAY.
PlayMessages ==
  IF placed # << >> THEN <<Call("UPLOAD", placed), Call("PLAY", placed)>>
                    ELSE <<Call("PLAY", placed)>>

-----------------------------------------------------------------------------
(* The user's actions *)

\* Mutant of LockHistoryBtn: the button stays as it is.
LeaveHistoryBtn == UNCHANGED historyBtn

LockHistoryBtn == historyBtn' = FALSE

\* Code that sets the mode also sets the checkbox.
SetMode(on) == placementMode' = on /\ toggle' = on

ClickPlay ==
  /\ Send(PlayMessages)
  /\ SetMode(FALSE)
  /\ slider' = [slider EXCEPT !.enabled = FALSE]
  /\ LockHistoryBtn
  /\ index' = NoIndex
  /\ UNCHANGED <<session, controls, canvas, live, history, timeline, down, backend,
                 ghosts>>

ClickPause ==
  /\ Send(<<Call("PAUSE", << >>)>>)
  /\ historyBtn' = TRUE
  /\ SetMode(TRUE)
  /\ pauseSent' = (pauseSent \/ session)
  /\ UNCHANGED <<session, controls, canvas, timelineVars, down, backend, refused>>

ClickHistory ==
  /\ historyBtn
  /\ Send(<<[type |-> "FETCH", honour |-> pauseSent]>>)
  /\ UNCHANGED <<session, editor, canvas, timelineVars, historyBtn, down, backend, ghosts>>

ClickUpload ==
  /\ Send(<<Call("UPLOAD", placed)>>)
  /\ UNCHANGED <<session, editor, canvas, timelineVars, historyBtn, down, backend, ghosts>>

\* LOAD_SCENE is sent without a look at the session id.
ClickLoad ==
  /\ Len(up) < QueueCap
  /\ clicks < MaxClicks
  /\ clicks' = clicks + 1
  /\ up' = Append(up, [type |-> "LOAD"])
  /\ UNCHANGED <<session, editor, canvas, timelineVars, historyBtn, down, backend, ghosts>>

\* A position beyond the timeline yields no frame (and an exception).
Slide ==
  /\ slider.enabled
  /\ \E i \in 0 .. slider.max :
       /\ index' = i
       /\ history' = (i < timeline)
  /\ UNCHANGED <<session, editor, canvas, live, timeline, slider, historyBtn, up, down,
                 backend, clicks, ghosts>>

LeaveHistory ==
  /\ history' = FALSE
  /\ index' = NoIndex
  /\ slider' = [slider EXCEPT !.enabled = FALSE]
  /\ UNCHANGED <<live, timeline>>

\* placementToggle.onchange
ClickToggle ==
  /\ toggle' = ~toggle
  /\ placementMode' = ~toggle
  /\ controls' = ~toggle
  /\ IF ~toggle /\ history THEN LeaveHistory ELSE UNCHANGED timelineVars
  /\ UNCHANGED <<session, canvas, historyBtn, up, down, backend, clicks, ghosts>>

\* A click on an empty spot: the first one of a body sets its place, the second
\* its velocity.  Without the checkbox it pans, which changes nothing here.
ClickCanvas ==
  /\ toggle
  /\ IF history
       THEN LeaveHistory /\ SetMode(TRUE) /\ controls' = TRUE
       ELSE UNCHANGED <<timelineVars, editor>>
  /\ IF draft
       THEN /\ Len(placed) < MaxPlaced /\ nextId <= MaxId
            /\ placed' = Append(placed, nextId)
            /\ nextId' = nextId + 1
            /\ draft' = FALSE
       ELSE draft' = TRUE /\ UNCHANGED <<placed, nextId>>
  /\ UNCHANGED <<session, historyBtn, up, down, backend, clicks, ghosts>>

\* Ctrl+Z
Undo ==
  /\ placementMode /\ ~history
  /\ draft \/ placed # << >>
  /\ IF draft THEN draft' = FALSE /\ UNCHANGED placed
              ELSE placed' = Front(placed) /\ UNCHANGED draft
  /\ UNCHANGED <<session, editor, nextId, timelineVars, historyBtn, up, down, backend,
                 clicks, ghosts>>

ClickClear ==
  /\ placed' = << >> /\ draft' = FALSE
  /\ UNCHANGED <<session, editor, nextId, timelineVars, historyBtn, up, down, backend,
                 clicks, ghosts>>

-----------------------------------------------------------------------------
(* socket.onmessage *)

\* Mutant of NextBodyId: the loaded ids are not looked at.
NextBodyIdKept(ids) == nextId

\* updateNextBodyId
NextBodyId(ids) == IF ids = {} THEN nextId ELSE Max({FirstId, Max(ids) + 1})

Receive(type) ==
  /\ down # << >>
  /\ Head(down).type = type
  /\ down' = Tail(down)
  /\ UNCHANGED <<historyBtn, up, backend, clicks, ghosts>>

ReceiveSession ==
  /\ Receive("SESSION_ESTABLISHED")
  /\ session' = TRUE
  /\ UNCHANGED <<editor, canvas, timelineVars>>

ReceiveLive ==
  /\ Receive("LIVE")
  /\ live' = TRUE /\ history' = FALSE
  /\ UNCHANGED <<session, editor, canvas, timeline, index, slider>>

ReceiveHistory ==
  /\ Receive("HISTORY")
  /\ LET n == Head(down).frames IN
     /\ timeline' = n
     /\ IF n > 0
          THEN /\ slider' = [enabled |-> TRUE, max |-> n - 1]
               /\ index' = n - 1
               /\ history' = TRUE /\ live' = FALSE
          ELSE UNCHANGED <<slider, index, history, live>>
  /\ SetMode(FALSE) /\ controls' = FALSE
  /\ UNCHANGED <<session, canvas>>

ReceiveLoadedScene ==
  /\ Receive("LOADED_SCENE")
  /\ LET ids == Head(down).scene IN
     /\ placed' = ids
     /\ nextId' = NextBodyId(ToSet(ids))
  /\ SetMode(TRUE) /\ controls' = TRUE
  /\ live' = FALSE /\ history' = FALSE /\ timeline' = 0
  /\ slider' = [slider EXCEPT !.enabled = FALSE]
  /\ UNCHANGED <<session, draft, index>>

\* ERROR messages are ignored.
ReceiveError ==
  /\ Receive("ERROR")
  /\ UNCHANGED <<session, editor, canvas, timelineVars>>

-----------------------------------------------------------------------------
(* The server *)

Deliver(m) == down' = Append(down, m)

\* Mutant of Noted: PLAY leaves the client paused.
NotedPaused(m) ==
  IF m.type = "PAUSE" THEN [server EXCEPT !.paused = TRUE, !.pause = m.click]
  ELSE IF m.type = "FETCH" THEN server
  ELSE [server EXCEPT !.frames = 0]

\* What a message does to the client before any call is made: PLAY, UPLOAD and
\* LOAD_SCENE reset the cache, PAUSE and PLAY set isPaused.
Noted(m) ==
  CASE m.type = "PAUSE" -> [server EXCEPT !.paused = TRUE, !.pause = m.click]
    [] m.type = "PLAY" -> [server EXCEPT !.frames = 0, !.paused = FALSE]
    [] m.type = "FETCH" -> server
    [] OTHER -> [server EXCEPT !.frames = 0]

\* What the engine does with a call.
Execute(call) ==
  engine' = CASE call.type = "UPLOAD" ->
                   [engine EXCEPT !.scene = call.scene, !.running = FALSE,
                                  !.upload = call.click]
              [] call.type = "PLAY" ->
                   [engine EXCEPT !.running = TRUE, !.wanted = call.scene,
                                  !.play = call.click]
              [] call.type = "PAUSE" -> [engine EXCEPT !.running = FALSE]

\* An answer: the scene asked for, the frames of the cache, or an ERROR.
Reply(m) == Deliver(m) /\ UNCHANGED <<engine, late, failed>>

\* The call is answered.
Succeeds(m) == Execute(m) /\ UNCHANGED <<down, late, failed>>

\* The engine refuses the call or has not answered in 2 s.  It may execute it
\* later or never.  (The page ignores the ERROR, so it does not matter here that
\* a paused client is not sent it.)
Fails(m) ==
  /\ Cardinality(failed \cup {m.click}) <= MaxFailures
  /\ failed' = failed \cup {m.click}
  /\ late' = late \cup {m}
  /\ Deliver([type |-> "ERROR"])
  /\ UNCHANGED engine

\* ReadPump takes no other message until the call has returned or is given up.
Handle(m) ==
  /\ server' = Noted(m)
  /\ CASE m.type = "FETCH" ->
            Reply(IF server.paused THEN [type |-> "HISTORY", frames |-> server.frames]
                                   ELSE [type |-> "ERROR"])
       [] m.type = "LOAD" ->
            \/ Reply([type |-> "ERROR"])
            \/ \E scene \in SavedScenes : Reply([type |-> "LOADED_SCENE", scene |-> scene])
       [] m.type = "UPLOAD" /\ m.scene = << >> -> Reply([type |-> "ERROR"])
       [] OTHER -> Succeeds(m) \/ Fails(m)

ServeNext ==
  /\ up # << >>
  /\ Len(down) < QueueCap
  /\ Handle(Head(up))
  /\ up' = Tail(up)
  /\ refused' = (refused \/ (Head(up).type = "FETCH" /\ Head(up).honour /\ ~server.paused))
  /\ UNCHANGED <<session, editor, canvas, timelineVars, historyBtn, clicks,
                 pauseSent>>

\* The engine gets round to a call that the server has given up.
LateCall ==
  /\ \E call \in late : Execute(call) /\ late' = late \ {call}
  /\ UNCHANGED <<session, editor, canvas, timelineVars, historyBtn, up, down, server,
                 failed, clicks, ghosts>>

\* A frame reaches the cache, and the browser unless the client is paused.
StreamFrame ==
  /\ engine.running /\ engine.scene # << >>
  /\ Len(down) < QueueCap
  /\ server' = [server EXCEPT !.frames = IF @ < MaxFrames THEN @ + 1 ELSE @]
  /\ IF server.paused THEN UNCHANGED down ELSE Deliver([type |-> "LIVE"])
  /\ UNCHANGED <<session, editor, canvas, timelineVars, historyBtn, up, engine, late,
                 failed, clicks, ghosts>>

Next ==
  \/ ClickPlay
  \/ ClickPause
  \/ ClickHistory
  \/ ClickUpload
  \/ ClickLoad
  \/ Slide
  \/ ClickToggle
  \/ ClickCanvas
  \/ Undo
  \/ ClickClear
  \/ ReceiveSession
  \/ ReceiveLive
  \/ ReceiveHistory
  \/ ReceiveLoadedScene
  \/ ReceiveError
  \/ ServeNext
  \/ LateCall
  \/ StreamFrame

Spec == Init /\ [][Next]_vars

-----------------------------------------------------------------------------
(* Properties *)

\* No two bodies on the canvas have the same id, with which the engine tells a
\* body from itself (app.js:483, 533-538, 806-817; quadtree.hpp:114, 126).
IdsUnique == IsInjective(placed)

\* What plays is what was on the canvas when PLAY was clicked (app.js:1072-1078),
\* unless that click's UPLOAD or PLAY failed or a failed UPLOAD was executed
\* late: another scene comes into play only by a call that the server has
\* answered with ERROR (client.go:122-129, 169-180).
PlaysWhatIsPlaced ==
  engine.running /\ engine.wanted # << >> /\ failed \cap {engine.play, engine.upload} = {}
    => engine.scene = engine.wanted

\* Once a PAUSE has been sent the server honours the history button whenever it
\* is enabled (app.js:1089, 1096; client.go:389-392).
HistoryBtnHonoured == ~refused

\* A paused session stands still in the engine too, unless the engine failed to
\* answer the PAUSE, or runs on a PLAY that the server had given up
\* (client.go:97-129): the frames of a session that goes on regardless fill the
\* cache the user is about to look at.
StandsWhenPaused ==
  server.paused /\ engine.running => server.pause \in failed \/ engine.play \in failed
=============================================================================
