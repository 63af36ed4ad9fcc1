------------------------------ MODULE LiveView ------------------------------
(***************************************************************************)
(* What the browser's canvas shows of a simulation (web/src/app.js): live  *)
(* frames and the deaths seen in them, trails, history frames, the body    *)
(* card under the pointer, and the render loop that animates them, while   *)
(* commands and frames are under way.  The editor's own rules are in       *)
(* Dashboard; of the server only the order of its messages is kept.        *)
(*                                                                         *)
(* A point of a trail is the frame it was taken from.  hoveredBodyId and   *)
(* hiddenBodies are written but never read; the camera only decides which  *)
(* bodies the pointer can come to.                                         *)
(***************************************************************************)
EXTENDS Integers, Sequences, SequencesExt, FiniteSetsExt, Functions

CONSTANTS
  Body,           \* ids of bodies
  Pointed,        \* the bodies the pointer comes to
  SavedScenes,    \* what LOAD_SCENE may return: sets of bodies
  NoBody,         \* null
  NoFrame,        \* null
  TrailMax,       \* TRAIL_MAX_POINTS
  ExplosionSteps, \* bound on the animation frames an explosion lasts
  FadeSteps,      \* animation frames a fade lasts
  MaxTick,        \* bound on the frames of a run
  MaxTimeline,    \* frames a history holds
  QueueCap,       \* bound on the messages under way, each direction
  MaxClicks       \* bound on the inputs of the user

ASSUME LiveViewAssumption ==
  /\ NoBody \notin Body
  /\ NoFrame \notin [run : Nat, tick : Nat, scene : SUBSET Body, alive : SUBSET Body]
  /\ Pointed \subseteq Body /\ SavedScenes \subseteq SUBSET Body
  /\ {TrailMax, ExplosionSteps, FadeSteps, MaxTimeline} \subseteq Nat \ {0}

VARIABLES
  engine,      \* the session's scene, its living bodies, run, tick and running
  cache,       \* the server's history
  paused,      \* c.isPaused
  up,          \* messages to the server
  down,        \* messages to the browser
  placed,      \* placementBodies
  placing,     \* placementMode, placementToggle.checked
  live,        \* currentLiveFrame
  hist,        \* currentHistoryFrame
  timeline,    \* historicalTimelineCache
  index,       \* currentHistoryIndex
  slider,      \* timeSlider: enabled, max
  historyBtn,  \* the history button is enabled
  prev,        \* previousLiveBodiesMap: id -> alive
  exploded,    \* exploded
  explosions,  \* explosions: id -> animation frames left
  fades,       \* deathFades: id -> animation frames left
  trails,      \* trails: id -> points
  pinned,      \* pinnedBodyId
  card,        \* the inspector card: the body and the data it shows
  clicks,      \* number of inputs so far
  \* history variables
  seenAlive,   \* bodies seen alive, and in every live frame since
  runsSeen,    \* the runs of the live frames received since PLAY was clicked
  blasts,      \* the explosions since then: the body and the run of the frame
  lateHistory  \* PLAY has been clicked while a history was asked for

server == <<engine, cache, paused>>
deathGhosts == <<runsSeen, blasts>>
deaths == <<prev, exploded, explosions, fades, seenAlive, deathGhosts>>
inspector == <<pinned, card>>
timelineVars == <<timeline, index, slider>>
shown == <<live, hist>>

page == <<historyBtn, lateHistory>>

vars == <<server, up, down, placed, placing, shown, timelineVars, deaths, trails,
          inspector, clicks, page>>

NoIndex == -1
NoCard == [body |-> NoBody, at |-> << >>]
Empty == << >>  \* a map without keys

Point(f) == <<f.run, f.tick>>

Init ==
  /\ engine = [scene |-> {}, alive |-> {}, run |-> 0, tick |-> 0, running |-> FALSE]
  /\ cache = << >> /\ paused = FALSE
  /\ up = << >> /\ down = << >>
  /\ placed = {} /\ placing = TRUE
  /\ live = NoFrame /\ hist = NoFrame
  /\ timeline = << >> /\ index = NoIndex /\ slider = [enabled |-> FALSE, max |-> 0]
  /\ historyBtn = TRUE
  /\ prev = Empty /\ exploded = {} /\ explosions = Empty /\ fades = Empty
  /\ trails = Empty
  /\ pinned = NoBody /\ card = NoCard
  /\ clicks = 0
  /\ seenAlive = {} /\ runsSeen = {} /\ blasts = {} /\ lateHistory = FALSE

-----------------------------------------------------------------------------
(* Buttons *)

Act == clicks < MaxClicks /\ clicks' = clicks + 1

Send(messages) ==
  /\ Act
  /\ Len(up) < QueueCap
  /\ up' = up \o messages

ForgetGhosts == seenAlive' = {} /\ runsSeen' = {} /\ blasts' = {}

\* Mutant of ForgetDeaths: who has exploded is not forgotten.
ForgetAllButExploded ==
  /\ prev' = Empty /\ explosions' = Empty /\ fades' = Empty /\ UNCHANGED exploded
  /\ ForgetGhosts

ForgetDeaths ==
  /\ prev' = Empty /\ exploded' = {} /\ explosions' = Empty /\ fades' = Empty
  /\ ForgetGhosts

HistoryAsked == \/ \E i \in DOMAIN up : up[i].type = "FETCH"
                \/ \E i \in DOMAIN down : down[i].type = "HISTORY"

\* Mutant of IndexWhilePlaying: the position in the old history stays.
IndexWhilePlayingKept == index

IndexWhilePlaying == NoIndex

ClickPlay ==
  /\ Send((IF placed = {} THEN << >> ELSE <<[type |-> "UPLOAD", scene |-> placed]>>)
          \o <<[type |-> "PLAY"]>>)
  /\ ForgetDeaths
  /\ placing' = FALSE
  /\ slider' = [slider EXCEPT !.enabled = FALSE]
  /\ historyBtn' = FALSE
  /\ index' = IndexWhilePlaying
  /\ lateHistory' = (lateHistory \/ HistoryAsked)
  /\ UNCHANGED <<server, down, placed, shown, timeline, trails, inspector>>

ClickPause ==
  /\ Send(<<[type |-> "PAUSE"]>>)
  /\ placing' = TRUE
  /\ historyBtn' = TRUE
  /\ UNCHANGED <<server, down, placed, shown, timelineVars, deaths, trails, inspector,
                 lateHistory>>

Ask(message) ==
  /\ Send(<<message>>)
  /\ UNCHANGED <<server, down, placed, placing, shown, timelineVars, deaths, trails,
                 inspector, page>>

ClickHistory == historyBtn /\ Ask([type |-> "FETCH"])

ClickUpload == Ask([type |-> "UPLOAD", scene |-> placed])

ClickLoad == Ask([type |-> "LOAD"])

-----------------------------------------------------------------------------
(* Timeline, zoom and placement mode *)

Window(i) == Max({0, i - TrailMax + 1}) .. i

\* buildHistoryTrailsForIndex: dead bodies have trails too.  (A JavaScript index
\* counts from 0.)
HistoryTrails(i) ==
  LET shows(b) == {j \in Window(i) : b \in timeline[j + 1].scene}
      nth(set, k) == CHOOSE j \in set : Cardinality({h \in set : h < j}) = k - 1
  IN  [b \in UNION {timeline[j + 1].scene : j \in Window(i)} |->
         [k \in 1 .. Cardinality(shows(b)) |-> Point(timeline[nth(shows(b), k) + 1])]]

\* A position beyond the timeline yields no frame, and an exception.
Slide ==
  /\ Act
  /\ slider.enabled
  /\ \E i \in 0 .. slider.max :
       /\ index' = i
       /\ IF i < Len(timeline) THEN hist' = timeline[i + 1] /\ trails' = HistoryTrails(i)
                               ELSE hist' = NoFrame /\ UNCHANGED trails
  /\ UNCHANGED <<server, up, down, placed, placing, live, timeline, slider, deaths,
                 inspector, page>>

\* wheel: zooming builds the trails of the history position anew.
Wheel ==
  /\ Act
  /\ index # NoIndex
  /\ trails' = IF index < Len(timeline) THEN HistoryTrails(index) ELSE Empty
  /\ UNCHANGED <<server, up, down, placed, placing, shown, timelineVars, deaths,
                 inspector, page>>

LeaveHistory ==
  /\ hist' = NoFrame
  /\ index' = NoIndex
  /\ trails' = Empty
  /\ slider' = [slider EXCEPT !.enabled = FALSE]

StayInView == UNCHANGED <<hist, index, trails, slider>>

\* placementToggle.onchange
ClickToggle ==
  /\ Act
  /\ placing' = ~placing
  /\ IF ~placing /\ hist # NoFrame THEN LeaveHistory ELSE StayInView
  /\ UNCHANGED <<server, up, down, placed, live, timeline, deaths, inspector,
                 page>>

-----------------------------------------------------------------------------
(* The pointer *)

InFrame(f) == {[body |-> b, at |-> Point(f)] : b \in f.alive}

InEditor == {[body |-> b, at |-> << >>] : b \in placed}

\* findBodyAtScreenCord: the bodies that can be hit, and the data shown of them.
Hittable ==
  LET all == IF hist # NoFrame THEN InFrame(hist)
             ELSE IF placing /\ placed # {} THEN InEditor
             ELSE IF live # NoFrame THEN InFrame(live)
             ELSE {}
  IN  {hit \in all : hit.body \in Pointed}

\* pointermove, over a body or over none
Hover ==
  /\ Act
  /\ pinned = NoBody
  /\ card' \in Hittable \cup {NoCard}
  /\ UNCHANGED <<server, up, down, placed, placing, shown, timelineVars, deaths, trails,
                 pinned, page>>

\* pointerdown on a body pins it, or unpins it.
ClickBody ==
  /\ Act
  /\ \E hit \in Hittable :
       IF hit.body = pinned THEN pinned' = NoBody /\ card' = NoCard
                            ELSE pinned' = hit.body /\ card' = hit
  /\ UNCHANGED <<server, up, down, placed, placing, shown, timelineVars, deaths, trails,
                 page>>

\* pointerdown on an empty spot unpins; in placement mode it leaves the history
\* and, with every other click, places a body.
ClickEmpty ==
  /\ Act
  /\ pinned' = NoBody
  /\ card' = IF pinned # NoBody THEN NoCard ELSE card
  /\ IF placing
       THEN /\ IF hist # NoFrame THEN LeaveHistory ELSE StayInView
            /\ \/ UNCHANGED placed
               \/ \E b \in Body \ placed : placed' = placed \cup {b}
       ELSE StayInView /\ UNCHANGED placed
  /\ UNCHANGED <<server, up, down, placing, live, timeline, deaths, page>>

\* Ctrl+Z
Undo ==
  /\ Act
  /\ placing /\ hist = NoFrame
  /\ \E b \in placed : placed' = placed \ {b}
  /\ UNCHANGED <<server, up, down, placing, shown, timelineVars, deaths, trails,
                 inspector, page>>

\* clearPlacementBtn
ClickClear ==
  /\ Act
  /\ placed' = {}
  /\ UNCHANGED <<server, up, down, placing, shown, timelineVars, deaths, trails,
                 inspector, page>>

-----------------------------------------------------------------------------
(* socket.onmessage *)

Receive(type) ==
  /\ down # << >>
  /\ Head(down).type = type
  /\ down' = Tail(down)
  /\ UNCHANGED <<server, up, inspector, clicks>>

\* Bodies that were alive in the previous live frame and are dead in this one.
Died(f) == {b \in f.scene \cap DOMAIN prev : prev[b] /\ b \notin f.alive}

\* updateTrails: only living bodies keep a trail.
LiveTrails(f) ==
  [b \in f.alive |->
     LET trail == Append(IF b \in DOMAIN trails THEN trails[b] ELSE << >>, Point(f))
     IN  IF Len(trail) > TrailMax THEN Tail(trail) ELSE trail]

ReceiveLive ==
  /\ Receive("LIVE")
  /\ LET f == Head(down).frame
         new == Died(f) \ exploded
     IN
     /\ exploded' = exploded \cup new
     /\ \E steps \in [new -> 1 .. ExplosionSteps] : explosions' = steps @@ explosions
     /\ fades' = [b \in Died(f) |-> FadeSteps] @@ fades
     /\ prev' = [b \in f.scene |-> b \in f.alive]
     /\ seenAlive' = (seenAlive \cap f.scene) \cup f.alive
     /\ runsSeen' = runsSeen \cup {f.run}
     /\ blasts' = blasts \cup {<<b, f.run>> : b \in new}
     /\ live' = f /\ hist' = NoFrame
     /\ trails' = LiveTrails(f)
  /\ UNCHANGED <<placed, placing, timelineVars, page>>

ReceiveHistory ==
  /\ Receive("HISTORY")
  /\ LET frames == Head(down).frames IN
     /\ timeline' = frames
     /\ IF frames # << >>
          THEN /\ slider' = [enabled |-> TRUE, max |-> Len(frames) - 1]
               /\ index' = Len(frames) - 1
               /\ hist' = Last(frames) /\ live' = NoFrame
          ELSE UNCHANGED <<slider, index, shown>>
  /\ placing' = FALSE
  /\ prev' = Empty
  /\ seenAlive' = {}
  /\ UNCHANGED <<placed, exploded, explosions, fades, deathGhosts, trails, page>>

ReceiveLoadedScene ==
  /\ Receive("LOADED_SCENE")
  /\ placed' = Head(down).scene
  /\ placing' = TRUE
  /\ live' = NoFrame /\ hist' = NoFrame /\ timeline' = << >>
  /\ slider' = [slider EXCEPT !.enabled = FALSE]
  /\ UNCHANGED <<index, deaths, trails, page>>

-----------------------------------------------------------------------------
(* renderLoop *)

Counted(map) == [b \in {c \in DOMAIN map : map[c] > 1} |-> map[b] - 1]

\* Mutant of Inspected: the bodies of the editor come first.
InspectedPlaced == IF placed # {} THEN InEditor
                   ELSE IF live # NoFrame THEN InFrame(live)
                   ELSE {}

\* The bodies a pinned card may show, whatever is on the canvas.
Inspected == IF live # NoFrame THEN InFrame(live) ELSE InEditor

\* Mutant of Animated: nothing moves while the editor is open.
AnimatedOutsideEditor == hist = NoFrame /\ live # NoFrame /\ ~placing

Animated == hist = NoFrame /\ live # NoFrame

Render ==
  /\ IF Animated
       THEN explosions' = Counted(explosions) /\ fades' = Counted(fades)
       ELSE UNCHANGED <<explosions, fades>>
  /\ IF pinned = NoBody
       THEN UNCHANGED inspector
       ELSE \/ \E shows \in Inspected :
                 shows.body = pinned /\ card' = shows /\ UNCHANGED pinned
            \/ /\ \A shows \in Inspected : shows.body # pinned
               /\ pinned' = NoBody /\ card' = NoCard
  /\ UNCHANGED <<server, up, down, placed, placing, shown, timelineVars, prev, exploded,
                 seenAlive, deathGhosts, trails, clicks, page>>

-----------------------------------------------------------------------------
(* The server and the engine *)

ServeNext ==
  /\ up # << >>
  /\ Len(down) < QueueCap
  /\ up' = Tail(up)
  /\ LET m == Head(up) IN
     CASE m.type = "UPLOAD" ->
            \* an empty scene is refused with an error, which the page ignores
            /\ engine' = IF m.scene = {} THEN engine
                         ELSE [scene |-> m.scene, alive |-> m.scene, tick |-> 0,
                               run |-> engine.run + 1, running |-> FALSE]
            /\ cache' = << >>
            /\ UNCHANGED <<paused, down>>
       [] m.type = "PLAY" ->
            /\ engine' = [engine EXCEPT !.running = TRUE]
            /\ cache' = << >> /\ paused' = FALSE
            /\ UNCHANGED down
       [] m.type = "PAUSE" ->
            /\ engine' = [engine EXCEPT !.running = FALSE]
            /\ paused' = TRUE
            /\ UNCHANGED <<cache, down>>
       [] m.type = "FETCH" ->
            \* refused with an error unless paused
            /\ down' = IF paused THEN Append(down, [type |-> "HISTORY", frames |-> cache])
                                 ELSE down
            /\ UNCHANGED <<engine, cache, paused>>
       [] m.type = "LOAD" ->
            /\ cache' = << >>
            /\ \E scene \in SavedScenes :
                 down' = Append(down, [type |-> "LOADED_SCENE", scene |-> scene])
            /\ UNCHANGED <<engine, paused>>
  /\ UNCHANGED <<placed, placing, shown, timelineVars, deaths, trails, inspector,
                 clicks, page>>

\* The engine's next frame of a running scene, in which some bodies may have merged,
\* reaches the history, and the browser unless the client is paused.
StreamFrame ==
  /\ engine.running /\ engine.scene # {}
  /\ engine.tick < MaxTick
  /\ Len(down) < QueueCap
  /\ \E alive \in SUBSET engine.alive \ {{}} :
       LET f == [run |-> engine.run, tick |-> engine.tick + 1,
                 scene |-> engine.scene, alive |-> alive]
       IN  /\ engine' = [engine EXCEPT !.tick = @ + 1, !.alive = alive]
           /\ cache' = LET all == Append(cache, f)
                       IN  IF Len(all) > MaxTimeline THEN Tail(all) ELSE all
           /\ down' = IF paused THEN down ELSE Append(down, [type |-> "LIVE", frame |-> f])
  /\ UNCHANGED <<paused, up, placed, placing, shown, timelineVars, deaths, trails,
                 inspector, clicks, page>>

-----------------------------------------------------------------------------
Next ==
  \/ ClickPlay
  \/ ClickPause
  \/ ClickHistory
  \/ ClickUpload
  \/ ClickLoad
  \/ ClickToggle
  \/ ClickBody
  \/ ClickEmpty
  \/ ClickClear
  \/ Undo
  \/ Hover
  \/ Slide
  \/ Wheel
  \/ ReceiveLive
  \/ ReceiveHistory
  \/ ReceiveLoadedScene
  \/ Render
  \/ ServeNext
  \/ StreamFrame

Spec == Init /\ [][Next]_vars

\* requestAnimationFrame calls renderLoop for as long as the page is shown.
FairSpec == Spec /\ WF_vars(Render)

-----------------------------------------------------------------------------
(* Properties *)

\* A body that the live frames of a run have shown alive and the one on the canvas
\* shows dead has exploded in that run, however many frames the browser never saw
\* in between (app.js:630-632, 728-747, 1062-1068), unless a frame of an earlier
\* run came in after PLAY was clicked: it may explode the body beforehand, and no
\* body explodes twice between two clicks on PLAY.
DeathsExplode ==
  live # NoFrame /\ runsSeen = {live.run} =>
    \A b \in live.scene \cap seenAlive : b \in live.alive \/ <<b, live.run>> \in blasts

\* The trails drawn behind a live frame are those of its living bodies and end
\* where they are, also after scrubbing and zooming through an earlier history
\* (app.js:556-572, 1090, 1143-1145), unless PLAY was clicked before
\* a history that had been asked for came in.
LiveTrailsEndAtBodies ==
  hist = NoFrame /\ live # NoFrame /\ ~lateHistory =>
    \A b \in DOMAIN trails : b \in live.alive /\ Last(trails[b]) = Point(live)

\* "pinned body cards tracking live mass, coordinates": a pinned card comes to show
\* the body as the live frame has it, or is closed (app.js:1036-1053).
PinnedCardTracks ==
  \A b \in Pointed :
    (pinned = b /\ live # NoFrame) ~>
      (pinned # b \/ live = NoFrame \/ card = [body |-> b, at |-> Point(live)])

\* While live frames stay on the canvas every explosion and every fade comes to an
\* end (app.js:667-700, 1026-1028).
ExplosionsEnd ==
  <>[](live # NoFrame /\ hist = NoFrame) =>
    \A b \in Body : []<>(b \notin DOMAIN explosions \cup DOMAIN fades)
=============================================================================
