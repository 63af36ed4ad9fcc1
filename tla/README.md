# Simulastro: formal model

Simulastro is an N-body sandbox in three processes: a browser page that edits
scenes and draws them, a Go server that talks to the browsers over websockets
and keeps history and saved scenes, and a C++ engine that simulates one universe
per browser session and streams its frames back over one gRPC stream.  This
directory holds TLA+ modules that model the system, TLC configurations that
check them on small instances, and theorems about them checked by TLAPS.

## 1. Inventory

| Component | Source (under `src/`) | State it keeps | Operations |
|---|---|---|---|
| Simulation instance | `engine/include/simulation_instance.hpp` | bodies, loaded/running flags, multiplier, step accumulator, time, frame; a mutex | `uploadScene`, `setRunning`, `setSpeedMultiplier`, `tick`, `populateTelemetry` |
| Collision pass | `simulation_instance.hpp:150-184`, `body.hpp` | the bodies | `resolve_collisions` after every RK4 step |
| Barnes-Hut quadtree | `engine/include/quadtree.hpp`, `simulation_instance.hpp:34-78` | a tree of squares, rebuilt for every stage | `insert`, `subdivide`, `calculateForce` |
| RK4 integrator | `simulation_instance.hpp:80-141` | - | four force evaluations, one update |
| Simulation manager | `engine/include/simulation_manager.hpp` | map session -> instance; a shared mutex | `getOrCreateInstance`, `tickAllActiveInstances`, snapshot |
| Engine services | `control_service_impl.hpp`, `simulation_service_impl.hpp`, `engine/src/main.cpp` | - | gRPC handlers `Control`, `UpdateSpeed`, `UploadScene`; the physics loop |
| Telemetry broadcaster | `telemetry_broadcaster.hpp` | the client stream to the Go server | the telemetry loop |
| Go main | `server/cmd/server/main.go` | last multiplier, the engine connection | `StreamTelemetry`, the speed-forwarding goroutine |
| History cache | `server/internal/cache/*.go` | a ring buffer of frames per session | `Push`, `GetHistory`, `Reset`, `GetOrCreate` |
| Websocket hub | `server/internal/websocket/hub.go` | registered clients, channels | register, unregister, dispatch a frame |
| Websocket client | `server/internal/websocket/client.go` | `Send` channel, `isPaused`, session, user | `ServeWs`, `ReadPump` (11 message types), `WritePump` |
| Scene persistence | `client.go:185-386`, `server/db` | tables `scenes`, `scene_bodies` | save, list, load, delete, update |
| Authentication | `server/internal/auth`, `users.sql` | table `users`, a cookie | register, login |
| Dashboard: editor and controls | `web/src/app.js` | modes, placed bodies, timeline, slider, buttons | clicks, keys, `socket.onmessage` |
| Dashboard: live view | `web/src/app.js` | frame shown, bodies last seen alive, explosions, fades, trails, body card | `socket.onmessage`, pointer, wheel, the render loop |
| Dashboard: accounts and scene dialogs | `web/src/app.js:161-260, 1212-1420` | `currentUser`, localStorage, the listed scenes, `editingSceneId` | login, logout, register; save, list, load, edit, delete |

How they interact.  The page sends JSON commands over its websocket; `ReadPump`
handles one at a time and makes a synchronous gRPC call to the engine with a 2 s
deadline.  The engine's physics thread ticks every running instance each 16 ms
and its telemetry thread writes a frame of every running instance, also each 16 ms, to
one client stream for all sessions.  `StreamTelemetry` receives each frame,
pushes it into its session's ring buffer and puts it into the hub's `Broadcast`
channel; the hub offers it to the `Send` channel of the session's client, and
`WritePump` writes it to the browser unless the client is paused.  The cache is
wiped by UPLOAD_SCENE, PLAY and LOAD_SCENE and read by FETCH_HISTORY.  Speed
changes go through a channel of the hub to one forwarding goroutine.  Scenes are
read and written by `ReadPump` statement by statement, without transactions.
Login answers with a cookie, from which `ServeWs` takes the user of every later
connection; what account the page shows comes from localStorage instead.

What is hard in it:

- three engine threads on shared instances, with checks and actions in separate
  critical sections (`simulation_manager.hpp:58-59`, `telemetry_broadcaster.hpp:41-45`);
- four goroutines around each browser that close, fill and drain one channel;
- an unsynchronised pause flag read by another goroutine (`client.go:523`);
- calls that time out and are executed all the same, late or out of order;
- frames in flight while the cache is wiped, paused or replayed;
- a collision pass that changes the list it iterates over;
- ring-buffer index arithmetic, fractional step accumulation, boundary lines of
  the quadtree;
- a page whose buttons and slider are locked by clicks while replies travel, and
  whose picture is put together from messages, inputs and animation frames;
- an account kept twice, in a cookie and in localStorage, by several tabs.

Correctness, component by component:

| Component | Must hold | Stated as |
|---|---|---|
| History cache | a history is the last `maxSize` frames since the wipe, oldest first | `ImplementsFrameHistory`, `CachesConsistent` |
| Instance clock | simulated time is what the multipliers paid for, nothing piles up | `ClockAccounted`, `NoBacklog`, `TicksOnlyWhilePlaying` |
| Engine threads | a stopped session falls silent, a playing one goes on, requests are answered | `AtMostOneLateFrame`, `StreamInOrder`, `PlayingStreams`, `RequestsAnswered` |
| Collision pass | somebody survives, mass and momentum are conserved, no contact is missed | `SomeoneSurvives`, `ConservedWithoutGhosts`, `OverlapsAreNew` |
| Quadtree | nodes weigh their square, each body is in one leaf, forces count each other body once, and the target only through a softened node | `NodesWeighTheirSquare`, `OneLeafEach`, `EndlessOnlyIfCoincident`, `AttractedOnceByOthers` |
| Hub and pumps | no send on a closed channel, a working pause gate, no stall, no leak | `NoPanic`, `OneMessagePastGate`, `FirstMessageHasRoom`, `StreamNeverStalls`, `ClosedTabsLeave` |
| Pipeline | isolation, ordered and complete histories, undisturbed scrubbing, obedience | `SessionIsolation`, `HistoryInOrder`, `HistoryReachesScreen`, `ScrubbingUndisturbed`, `EngineObeysLastCommand` |
| Speed control | the slider reaches the simulation | `SpeedReachesEngine` (it does not) |
| Persistence | no orphans, whole saves, nobody touches another's scenes | `NoOrphanBodies`, `SavedWhole`, `OnlyOwnScenesTouched` |
| Accounts | a page is connected as the account it shows | `ConnectedAsShown` |
| Editor | unique ids, PLAY plays the canvas, the history button is honoured, a paused session stands still | `IdsUnique`, `PlaysWhatIsPlaced`, `HistoryBtnHonoured`, `StandsWhenPaused` |
| Live view | deaths explode in the run they happen in, trails and card follow the frame shown, explosions end | `DeathsExplode`, `LiveTrailsEndAtBodies`, `PinnedCardTracks`, `ExplosionsEnd` |

## 2. Modules

| Module | Models | Uses |
|---|---|---|
| `FrameHistory` | abstract: a bounded FIFO of the frames since the last wipe | - |
| `SimulationCache` | the ring buffer, as operators on a record | - |
| `SessionCacheManager` | the map of ring buffers and its callers | `SimulationCache`; implements `FrameHistory` (proved and checked) |
| `Collisions` | RK4 step (as any motion) and `resolve_collisions`, one pair per step | - |
| `QuadTree` | building the tree and summing up a force, one recursive call per step | - |
| `SimulationInstance` | play state and clock of an instance, as operators on a record | - |
| `Engine` | manager, handlers, physics and telemetry thread, stream | `SimulationInstance` |
| `WebSocketHub` | `Hub.Run`, `ServeWs`, `ReadPump`, `WritePump`, `StreamTelemetry`'s sends | - |
| `Telemetry` | commands and frames from end to end, with deadlines | `SimulationCache`; its caches implement `FrameHistory` (proved) |
| `SpeedControl` | slider, channel, forwarding goroutine, `UpdateSpeed` | - |
| `ScenePersistence` | the five scene handlers over two tables; no specification of its own | - |
| `SceneDialogs` | the tabs of a browser: accounts, cookie, scene dialogs, requests and answers | `ScenePersistence` |
| `Dashboard` | editor, buttons, timeline, messages, calls to the engine that may fail; the server reduced to its answers | - |
| `LiveView` | frames, deaths, trails, history, body card and render loop; editor and server reduced to what the picture depends on | - |
| `*Proofs` | theorems about the module of that name | the module, `TLAPS`; `TelemetryProofs` also the ring lemmas of `SessionCacheManagerProofs` |
| `PhysicsProofs` | theorems about `Collisions` and `QuadTree`, which share the lemmas about sums | both, `TLAPS` |
| `MC*` | TLC instances that need a definition (symmetry, negative numbers, sequences, masses) | the module |

Correspondence of state and actions:

- **SimulationCache / SessionCacheManager.** A ring is the record of the Go
  struct; `Push`, `Reset` and `GetHistory` hold its mutex throughout and are
  atomic.  Slots are numbered from 0 as in the code.  `FrameHistory` keeps a
  sequence; the refinement maps a ring to `GetHistory` of it.
- **Collisions.** `i`, `j` and `phase` are the loop counters of the pass, so a
  state is a point inside the double loop.  Space is a line, velocities are
  replaced by momenta (which makes the merge exact), radii are integer cube roots.
- **QuadTree.** A node is named by its path of quadrants, the C++ call stack is
  the variable `calls` (insertion) or `visits` (forces).  The centre of mass is
  kept as moments, the opening test is squared and multiplied out.  `Softening` is the
  `1e-4` added to every squared distance (`quadtree.hpp:121`): a node narrower than
  0.005 is "far" from every body, one in its own square included.  The run's value, 2000,
  puts nodes of 16 x 16, one step of the grid, on that side and those of 32 x 32 on the
  other.  The bounding box is that of the living bodies; the code's starting values of
  +-1e9 make no difference to it while all coordinates are between those.  The run gives
  the bodies powers of two as masses, so that a sum says which bodies it came from.
  Coordinates are on a grid of step `Unit`, `2^MaxDepth`, which makes every halving
  of a square exact as it is in doubles of moderate size (`GridAssumption`); rounding
  is not modelled.
- **Engine.** One action per critical section.  The physics thread's shared hold
  of the manager's lock for a sweep is `ManagerLockFree`; the telemetry thread
  works on its snapshot without it.  Multipliers and accumulator are integers in
  tenths, as the slider gives them.
- **WebSocketHub.** `reader`, `writer` are program counters of `ServeWs`/`ReadPump`
  and `WritePump`; unbuffered channels are the receiver's step.  Messages are
  "GATED" or "REPLY", which is all the pause gate looks at.  An upload or a save
  takes the same steps as a PLAY or PAUSE call that is repeated (a call, and
  perhaps an error), and is not an action of its own.
- **Telemetry.** One step per hand-over of a frame (wire, task, cache, broadcast,
  `Send`, writer, screen).  An engine call is an element of `calls` until the
  engine executes or cancels it, whether or not `ReadPump` still waits for it.
  The engine's threads are condensed to `Tick`, `Check` and `WriteFrame`.
- **SpeedControl.** `TakeUpdate`, then `CallAnswered` or `CallFails`.
- **ScenePersistence.** One step per SQL statement; any statement may fail, and a
  save's later statements fail when their common deadline is over.  A save is kept
  in `saving` by its scene, since it goes on when its connection is lost.
- **SceneDialogs.** `net` and `down` are the websocket's two directions; `pump` is
  the `ReadPump` of the tab's connection.  A login is three steps: the request
  (`ClickLogin`), the cookie (`Authenticate`) and the answer as the page takes it
  (`FetchReturns`).  `Reload` is the page loaded again and `ServeWs` for its new
  connection.  Of the requests under way on the old connection only saves go on after
  it: the others' answers reach nobody, and their statements are taken to be over or
  not to come.  `fresh` and `torn` are history variables.
- **Dashboard.** One action per event handler; `up` and `down` are the messages
  under way, so that every reply may be late.  A message that the server passes on to
  the engine carries its click.  `Handle` first does what the handler does to the client
  (`Noted`: the cache, `isPaused`) and then makes the call, which succeeds or fails
  (`client.go:105-112, 122-129, 169-180`).  One that failed is answered with ERROR, which
  the page ignores, and is executed later (`LateCall`) or never.  `failed`, and which
  click's PAUSE, PLAY and UPLOAD came last, are history variables.
- **LiveView.** One action per event handler, one for `renderLoop` and two for
  the server.  A frame is its run, its number, its scene and who is alive; a trail
  is the sequence of frames its points come from, so "ends at the body" is
  an equation.  Explosions and fades count animation frames down, any number for an
  explosion up to `ExplosionSteps` (particles live for a random time).  Which body
  is under the pointer is left open: any that `findBodyAtScreenCord` may return.
  Every call of `ServeNext` to the engine succeeds; failing ones are in `Dashboard` and
  `Telemetry`.  `runsSeen` and `blasts` are history variables: the runs of the
  live frames received since PLAY was clicked, and the explosions since then.

The variables marked as history in the modules record what happened for the
properties and decide nothing.

## 3. Runs

Ten runs pass, two show a disagreement between the code and its documentation.

| Run | Instance and bounds | Shows |
|---|---|---|
| `cache` | 2 sessions, 2 frames, ring of 3, 7 pushes between wipes | the ring wraps twice, wipes come anywhere in a lap; refinement of `FrameHistory` |
| `collisions` | every scene of 3 bodies, 3 masses, 3 places, radii given or derived, dead or alive | three bodies are enough for a ghost (absorbed in its row, merging on) and for a grown absorber; passes repeat without bound |
| `quadtree` | every placement of 3 bodies on a 3 x 3 grid, dead or alive; `MaxDepth` 4 | the grid has coincident bodies, bodies on the lines between quadrants and far ones that pass the opening test, and squares on both sides of the softening; distinct places are apart after 4 subdivisions, so only an endless recursion reaches the bound |
| `engine` | 2 sessions, 1 handler, 3 requests, `MaxFrame` 2, multipliers 2.5x and -0.5x, cap of 3 steps, a crash of the Go server | safety and liveness of the engine; 2.5x makes ticks of two steps and of the cap |
| `hub` | 2 browsers, one with all requests and one that only listens, channels of 1 | safety and liveness of the hub: no panic, no stall, no leak; channels of capacity 1 are full all the time, and the second browser is who a stall would hurt |
| `telemetry` | 1 session, 6 commands, 2 frames sent, calls in time | 6 commands are upload, play, pause, fetch and a second play and pause, with a load in the place of any |
| `telemetry_isolation` | 2 sessions (symmetric), 3 commands, 3 frames, ring of 2, calls may time out | late and cancelled calls, a wrapped ring, frames of two sessions on one stream |
| `scenes` | 2 tabs (symmetric), 2 users, 2 scenes, drafts of up to 2 bodies, 4 inputs; tabs start with any account, cookie and connection a used browser may have | a save interleaved with a delete, a rename and lists, any statement failing; a login interleaved with another tab's login, logout and reload. Four inputs are save, list, delete in one tab and anything in the other |
| `dashboard` | 2 bodies, 1 frame, 2 messages each way, 3 sending clicks, calls of 1 click failing | every order of clicks and late replies, with a failed call executed late, or never; three clicks are play, pause and a play or upload after it, any of them failing |
| `live_view` | 2 bodies, 1 of them pointed at, 2 frames a run, trails and histories of 2, 1 message each way, 6 inputs | a run with a merger, a pause, a history and a second run, with scrubbing, zooming or pinning in between; 6 inputs are load, play, pause, fetch, play and a zoom |
| `telemetry_clean_timeline` | 1 session, 4 commands, 2 frames | violated: frames of the old run, in flight while PLAY wipes the cache, land in the new timeline (`simulation_cache.go:79`) |
| `speed_reaches_engine` | 1 session, 2 changes | violated: the forwarded request carries no session id and the engine refuses it (`main.go:172`, `README.md:22`) |

Named bounds: `MaxTotalFrames`, `MaxDepth`, `MaxRequests`, `MaxFrame`,
`MaxCommands`, `MaxTicks`, `MaxSent`, `MaxChanges`, `MaxPlaced`, `MaxId`,
`MaxFrames`, `MaxFailures`, `QueueCap`, `MaxClicks`, `MaxBodies`, `MaxInputs`, `MaxTick`,
`ExplosionSteps`, `WireCap`.  They stand in guards; the capacities `SendCap`, `BroadcastCap`, `UpdatesCap`, `MaxSize` and
`MaxSubsteps` are the code's own (1024, 100, 16, 20000 frames, 100) made small, as
are `TrailMax` (60), `MaxTimeline` (the cache's 20000) and `FadeSteps` (1200 ms).

Deadlock is not checked where the model may stop: when a bound is used up
(`Telemetry`, `SpeedControl`, `SceneDialogs`, `Dashboard`, `LiveView`), when every
browser has come and gone (`WebSocketHub`; each connects once) or the forces
cannot be summed up because the recursion never ended (`QuadTree`).  The engine,
the cache and the collision pass never stop, and are checked for deadlock.

Every property has a mutant: a one-definition change of the model, kept beside
the definition it changes, that breaks it.

### Fairness

- `Engine`: weak fairness of the two loops (threads that sleep and go on) and of
  the body of a handler.  A handler waiting for the manager's exclusive lock gets
  it when the lock is free again and again (strong fairness): the physics thread
  sleeps 16 ms between sweeps, in which the waiting writer is woken.  None for
  requests and for the Go server.
- `WebSocketHub`: weak fairness of the hub, of `StreamTelemetry` and of the two
  pumps, since Go runs every goroutine that can run.  Strong fairness of a blocked
  reply, because a Go channel hands room to its longest-waiting sender, and of the
  failing ping of a closed connection, because a `select` picks among its ready
  cases at random.  None for the browser, the network or the frames.  That a call
  `ReadPump` waits for returns (`QueryReturns`) is what its deadline does, except for
  UPDATE_SCENE, whose statement runs without one (`client.go:369`): there it is an
  assumption about the database.
- `SpeedControl`: weak fairness of the forwarding goroutine, strong fairness of an
  answered call; the property fails even so.
- `LiveView`: weak fairness of `Render`, which `requestAnimationFrame` calls again
  and again while the page is shown.  None for the user, the server or the network:
  `PinnedCardTracks` and `ExplosionsEnd` hold without another message.

## 4. Proofs

| Module | Theorems | For every |
|---|---|---|
| `SessionCacheManagerProofs` | `TypeCorrect`, `RingsConsistent`, `NoHoles`, `Refinement` | ring size, set of sessions and of frames, bound |
| `PhysicsProofs` | `CollisionTypes`, `LastBodySurvives`, `NoContactMissed`, `MassAndMomentumConserved` | number of bodies, masses, places, momenta |
| | `QuadTreeInvariant`, `NodesWeigh`, `OneLeaf`, `RecursionEnds`, `AttractedOnce` | number of bodies, positive masses, dead or alive; grid of coordinates, root width and stack |
| `EngineProofs` | `EngineTypes`, `ClockIsAccounted`, `NothingDeferred`, `OneLateFrame`, `NoTickWhilePaused`, `StreamsInOrder` | sets of sessions and handlers, multipliers, unit and cap |
| `WebSocketHubProofs` | `HubTypes`, `NothingPanics`, `PauseGate`, `FirstMessage` | number of browsers, channel capacities, request sets |
| `SceneDialogsProofs` | `DialogTypes`, `NoOrphans`, `WholeScenes`, `OwnScenes`, `Connected` | sets of tabs, users, scenes and bodies, length of drafts, number of inputs |
| `LiveViewProofs` | `ViewTypes`, `DeathsSeen`, `TrailsFollow` | sets of bodies and scenes, lengths of trails and histories, number of frames and inputs |
| `TelemetryProofs` | `TypeCorrect`, `ObeysLastCommand`, `SessionsIsolated`, `HistoriesInOrder`, `HistoryReaches`, `ScrubbingNotDisturbed`, `TimelineIsFrameHistory` | set of sessions, ring size, channel capacities, commands, bounds; calls in time or not |
| `DashboardProofs` | `TypeCorrect`, `BodiesHaveOwnIds`, `CanvasIsPlayed`, `ButtonIsHonoured`, `PausedStands` | saved scenes, bounds on bodies, frames, queues, clicks and failing calls |

So every safety property the passing runs check is a theorem.  The theorems rest on the assumptions the modules state about their
constants (`CacheAssumption` and its like), which say no more than that sizes are
natural numbers, positive where the code allocates or divides by them, and that
the markers for "none" are not members of the sets they complete.  Four say more:
`CollisionsAssumption` and `QuadTreeAssumption`, that masses are positive, since the
engine divides by their sum when it merges bodies and when it weighs nodes;
`GridAssumption`, that the coordinates are on a grid coarse enough for the root to be
halved `MaxDepth` times without a rest, and close enough together for a square at that
depth to hold one line of it (in the code: any two coordinates of a scene are told apart before
the stack ends, and centres are not rounded); and `DashboardAssumption`, that a saved scene is a sequence of different
numbers: a scene is saved from a canvas, whose ids are numbers (`app.js:483`) and
different (`BodiesHaveOwnIds`), and `SavedWhole` says that it is stored as it is.

- **Cache.** `RingConsistent` says that `writeIndex = totalFrames % MaxSize` and
  that exactly the slots below `totalFrames` are filled; it is inductive.  From it
  follow that `GetHistory` visits no empty slot, and, by modular arithmetic on the
  window's start (the oldest frame is at `writeIndex` once the ring is full), that
  a push appends to the history and drops its head when there are `MaxSize`, which
  is the step of `FrameHistory`.  That the loop of `GetHistory`, which leaves out
  empty slots, returns exactly that window is `HistoryIsWindow`, by induction on
  the slots visited.
- **Collisions.** "Somebody survives" alone is not inductive: a ghost at `i` may
  absorb a living body.  `RowKeepsAlive` adds that within row `i` either `i` is
  alive or a column already passed is, because `i` can only have died to a
  heavier column `k < j`, which is not visited again in this row.
- **Collisions, contacts.** `PairsSettled`: a body that is not as it was when the
  pass began has died or grown, which is never undone, and two bodies to which
  neither has happened are apart once their pair was visited.
- **Collisions, conservation.** A merge takes one living body's mass and momentum
  off the sum and adds them to another's.  The sums are the community modules'
  folds, which take the elements in an order nobody knows; `AddsAnyOrder` shows
  that a body's share can be taken out first all the same, by looking at a smallest
  set for which it could not.
- **Quadtree, building.** `TreeInv` has three parts.  `TreeShape`: the nodes are the
  squares of a quadtree (`Squares`), and those around one body form one path from
  the root to one leaf (`OnePath`), because a body in a square is in exactly the
  quadrant `getQuadrant` says (`ChildSquares`, on the half-open squares).  `Weighs`:
  a node weighs what it was `Given` so far, the inserted bodies in its square except
  those whose pending call has not passed it yet; so `insert` may add a body to a
  node's weight before it knows where the body ends.  `Pending`: at most two calls are
  pending, each at a node around its body, and of two the first is at an empty leaf,
  for the leaf that is split gives its old body to a subtree that is new.
- **Quadtree, depth.** `WidthOK`: a square at depth d can be halved `MaxDepth` - d times
  more and is no wider than `Unit` squared over 2^d, so two bodies in one leaf at the
  bound have the same coordinates (`SameLine`).  That the root satisfies it is
  `RootHolds`, with the greatest and least coordinates of a finite set (`Extremes`).
- **Quadtree, forces.** `Traversal`: no body is under two of the nodes still to visit,
  and what was counted and what is under them are together all bodies but the target.
  Opening a node replaces its bodies by those of its four subtrees.  A node that stands
  for its bodies and holds the target is narrow (`FarIsNarrow`): the centre of mass is in
  the closed square (`Centred`), so a target inside is at most a diagonal away from it,
  and `theta` asks for two widths, which only the softening can make up for, of squares
  with `2 * width^2 < Softening` (in the code, narrower than 0.0071).  Then the target's
  own mass was counted, once, since no other node still to visit holds it.
- **Engine.** `IInv` joins the types, what the threads know of the map
  (`ThreadsKnow`: sessions in hand are in the map, since nothing is destroyed),
  `NoCreditInAdvance`, the clock equation, the bound on multipliers and
  `LateFrames`: while a frame is under way no other late frame was written.
- **Engine, order.** `TicksOnlyWhilePlaying` needs only the types: a tick reads the
  flags again under the instance's lock.  `StreamBehind` says that the last
  frame written is no later than the one in the telemetry thread's hand, which is
  no later than the instance; an upload sets the clock back but opens a new epoch.
- **Hub.** `ChannelInv`: a closed channel belongs to a client the hub has
  forgotten and whose reader is past its last send.  `GateInv`: a gated message in
  the writer's hand of a paused client is the first since the pause.  `FirstInv`: of
  a client that was not played there is no frame anywhere, neither in hand nor in
  the broadcast channel, and only a running `ReadPump` plays it; so the channel is
  empty when `ServeWs` sends.
- **Scenes.** `NoOrphans` needs no more than the foreign key and its cascade, but
  over every interleaving of statements.  `SavesOK` says that a scene without a failed
  insert holds the part of its draft the save's loop has passed (`Inserted`), and
  that no save of a reported scene goes on.
- **Ownership.** `OffersOK` follows a scene id on its way: every id a page lists,
  has in an answer under way or sends in a request is a scene that the user of the
  same connection owns, or that is gone.  Ids are never given out twice
  (`drafts` remembers them), and a reload empties list and wires together with
  the change of user.
- **Accounts.** `LoginsOK`: while no login was cut in two, at most one is under
  way; between its cookie and its account the cookie is that user's or has expired,
  and otherwise it is that of localStorage or has expired.
- **Live view, deaths.** `DeathsOK`: a body seen alive is in `exploded` or the map of
  the previous frame has it alive, which PLAY and HISTORY forget together.  `BlastsOK`
  says where the entries of `exploded` come from: a body that is in it exploded in one of
  the runs seen since PLAY was clicked.  If that was one run only, it is the one shown.
- **Live view, trails.** `OrderOK` is about the wires: unless PLAY was clicked before
  a history arrived, no PLAY follows a FETCH_HISTORY and no LIVE frame follows a HISTORY;
  and while the page looks back (`LookingBack`: a position in the timeline, or the
  slider unlocked) the client is paused and neither is under way.  `ViewOK` concludes
  that a live frame is never shown to somebody who looks back, so neither the slider
  nor zooming can put old trails behind it.
- **Telemetry, commands.** `CallsAwaited`: while no call of a session was given up
  on, the engine holds at most the call its reader waits for, which is the last
  command; once it is executed the instance runs exactly if that was PLAY.
- **Telemetry, frames.** The proofs follow a frame from buffer to buffer.
  `Downstream` are the frames of a session between the cache and the screen,
  `Pushed` those and its history; the flow lemmas (`DownstreamFlow`, `PushedFlow`,
  `MessageFlow`) say, once for all actions, that nothing enters these sets but
  the frame just pushed.  `Isolated` follows at once.  `PipelineInOrder` adds the
  order: nothing pushed is later than what is still upstream (`UpstreamLater`), the
  history is sorted, and nothing downstream is later than its newest frame
  (`HistoryAhead`), because a frame is cached before it is broadcast.
- **Telemetry, scrubbing.** `HistoriesReach`: a history answered since the last PLAY,
  wherever it is between `ReadPump` and the screen, reaches every live frame past
  the gate, and the gate has been closed since; once it is on the screen the
  writer, which has one message in hand, has nothing live.
- **Telemetry, refinement.** `TimelineIsFrameHistory`: the pipeline's caches implement
  `FrameHistory` as well, since a step wipes one ring, pushes one frame into the
  ring of its session, or leaves them all alone; the ring lemmas do the rest.
- **Dashboard, ids.** `IdsBelow`: the next id is above every id on the canvas, also
  after a scene was loaded (`NextIdAbove`) or a body was taken back.
- **Dashboard, playing.** `UploadedFirst`: a PLAY in the queue has the upload of its
  canvas right before it, or is first and the server holds that scene already;
  so nothing queued, loaded or cleared earlier or later can come between them, other
  than an upload that failed before and is executed late (`PlayLate`).
- **Dashboard, history button.** `PausedBefore(k)`: of the messages before the k-th
  the last PAUSE or PLAY is a PAUSE, or there is none and the server is paused.  It
  holds for every request sent because of a PAUSE, and for the end of the queue
  while the button is enabled.
- **Dashboard, failed calls.** `LateFailed`: what the engine may still execute late are
  calls whose click is in `failed`.  With it `StandsWhenPaused` is inductive
  (`StandInv`): only the answer to a PAUSE pauses the client, and after it only a
  late PLAY starts the engine.

Induction over data is done without a principle that takes a predicate: the values
for which a claim fails are a set, and a smallest member of it is contradictory
(`NatSetInduction` for numbers, `SmallestSet` for finite sets).

Only model-checked, and why:

- liveness under fairness (`PlayingStreams`, `RequestsAnswered`,
  `StreamNeverStalls`, `ClosedTabsLeave`, `PinnedCardTracks`, `ExplosionsEnd`):
  beyond the prover.

## 5. Known divergences

Shown by a run: the two violated runs above.  Noticed while modelling, where a
property is stated with the condition that leaves them out:

- A body absorbed in the middle of its own row goes on merging
  (`simulation_instance.hpp:157` tests only `j`), so momentum and mass are not
  conserved, against the comment at line 168: `ConservedWithoutGhosts` holds
  because it excludes passes in which that happened.
- Dead bodies are sent in the telemetry (line 260), against the comment at 178;
  the page needs them for its explosions.
- Two living bodies in the same place make `insert` recurse without end
  (`quadtree.hpp:93`); `EndlessOnlyIfCoincident` says that nothing else does.
- After a restart of the Go server nothing is streamed again: the stream is
  opened once (`telemetry_broadcaster.hpp:27`); `PlayingStreams` is stated for an
  open stream.
- A reader that blocks in a reply (`client.go:284, 329, 430`) after its writer has
  ended never unregisters; `ClosedTabsLeave` allows for exactly this.
- A save that loses bodies is reported as a success (`client.go:237-241`);
  `SavedWhole` is about saves in which no insert failed.
- LOAD_SCENE wipes the history before it looks at the scene's id (`client.go:288`), so
  a load that fails costs the timeline; `HistoryReachesScreen` is about histories
  that are not empty.
- An empty HISTORY leaves the slider as it was, over a timeline without frames
  (`app.js:760-772`), and moving it then shows none.  `Dashboard` has these steps; no
  property is about them.
- A node narrower than 0.005 passes the opening test whatever it holds, since the
  softening keeps every distance above 0.01 (`quadtree.hpp:121-122, 135`): a body that
  shares it with another (at about 0.004 from it) is attracted by its own mass too.
  `AttractedOnceByOthers` allows this for nodes around the target that are that
  narrow (`SoftenedNodes`).
- PLAY is sent whatever became of the upload before it (`app.js:1073-1074, 1203-1208`),
  so after one that failed the old scene plays, and the page shows nothing of it;
  `PlaysWhatIsPlaced` leaves out the PLAYs of which a call failed.
- A PAUSE whose call fails leaves the client paused and the engine running
  (`client.go:100-112`); `StandsWhenPaused` names this and a late PLAY as the only ways
  to that.
- Late frames of the old run that arrive after PLAY was clicked put the bodies that die in
  them into `exploded` (`app.js:631-632`), where they stay: in the new run those bodies
  vanish without an explosion.  `DeathsExplode` is stated while the live frames received
  since PLAY are of one run.
- A HISTORY that arrives after PLAY was clicked unlocks the slider while the
  simulation plays (`app.js:774`, against the comment at 1086), and zooming then
  draws the old run's trails behind live frames: `LiveTrailsEndAtBodies` leaves out
  sessions in which that happened.
- `DELETE_SCENE` does not ask whose scene it deletes (`client.go:348`,
  `scenes.sql:22`), unlike `UPDATE_SCENE`; `OnlyOwnScenesTouched` is about requests
  this page sends.
- A login whose answer is lost, or between whose cookie and answer another tab logs
  in or is loaded, leaves a page that shows one account and is connected as another;
  `ConnectedAsShown` leaves such logins out.  A logout leaves the cookie and the
  connection in place (`app.js:218-222`), so the next page is connected as a user
  it does not show.
- An engine call that timed out may be executed after a later one:
  `EngineObeysLastCommand` is stated for sessions without a timeout.

## 6. Not modelled

- The arithmetic of RK4 and of the softened forces: real numbers.
- Hashing, tokens and HTTP: library calls.  Of authentication the model has what
  they decide: whether a login succeeds, what the cookie says and when it expires.
- The page's camera (drag, zoom factor, auto-fit), all drawing, and styles: the
  camera only decides which bodies the pointer can reach, which `LiveView` leaves
  open; drawing changes no state.  `hiddenBodies` and `hoveredBodyId` are written and
  never read.
- A websocket that reconnects: the page has no code for it, a reload is in
  `SceneDialogs`.
- Generated protobuf and sqlc code; `destroyInstance`, `getInstance`, `GetStats`
  and the two services nobody calls.
- Message sizes (`maxMessageSize`), memory that is never given back.

## 7. Plan

Done so far: the modules above, in the order of the table, with their runs, and
the proofs of every safety property.

Model next:

1. `WebSocketHub`'s channels as an abstract bounded queue.
2. The size limit of a websocket message, with drafts large enough to meet it.

Prove next:

1. The enabledness facts behind the liveness properties, stated as invariants:
   who waits is waited for by nobody (`Engine`, `WebSocketHub`).

## 8. Running

    tlc -workers 2 -config MCEngine.cfg MCEngine
    tlapm EngineProofs.tla

Each configuration belongs to the module named in `PROJECT.json`, which also maps
every definition to the source lines it models.
