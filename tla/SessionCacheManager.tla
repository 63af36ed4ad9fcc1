------------------------- MODULE SessionCacheManager -------------------------
(***************************************************************************)
(* server/internal/cache/session_cache_manager.go and the callers of a     *)
(* SimulationCache: the map from session to ring buffer, the gRPC stream   *)
(* handler that pushes frames into it (cmd/server/main.go), and the        *)
(* WebSocket handlers that wipe it (internal/websocket/client.go).         *)
(* Entries are never deleted and never replaced, so a pointer obtained     *)
(* from GetOrCreate stays valid, and a push is one step on the map.        *)
(***************************************************************************)
EXTENDS SimulationCache

CONSTANTS
  Session,
  MaxTotalFrames  \* bound on totalFrames (an int64 in the code)

VARIABLE caches   \* the map m.caches: its domain is the sessions seen so far

TypeOK == \E S \in SUBSET Session : caches \in [S -> Cache]

\* GetOrCreate: the existing entries and, if s has none, a new ring for it.
GetOrCreate(s) ==
  [t \in DOMAIN caches \cup {s} |->
     IF t \in DOMAIN caches THEN caches[t] ELSE NewSimulationCache]

Init == caches = [s \in {} |-> NewSimulationCache]

\* ServeWs: a connecting browser obtains the cache of its session.
Connect(s) == caches' = GetOrCreate(s)

\* StreamTelemetry: a frame arrives for s and is pushed into s's cache.
StreamPush(s, f) ==
  /\ s \in DOMAIN caches => caches[s].totalFrames < MaxTotalFrames
  /\ caches' = [GetOrCreate(s) EXCEPT ![s] = Push(@, f)]

\* PLAY, UPLOAD_SCENE and LOAD_SCENE wipe the client's own cache.
ResetCache(s) ==
  /\ s \in DOMAIN caches
  /\ caches' = [caches EXCEPT ![s] = Reset(@)]

Next ==
  \E s \in Session :
    \/ Connect(s)
    \/ ResetCache(s)
    \/ \E f \in Frame : StreamPush(s, f)

Spec == Init /\ [][Next]_caches

-----------------------------------------------------------------------------
(* Properties *)

\* The write position and the frame counter never drift apart, and the slots
\* that hold a frame are exactly those the counter says were written since the
\* last wipe (simulation_cache.go:32-36, 85-89).
RingConsistent(c) ==
  /\ c.writeIndex = c.totalFrames % MaxSize
  /\ \A i \in Slot : c.frames[i] # NoFrame <=> i < c.totalFrames

CachesConsistent == \A s \in DOMAIN caches : RingConsistent(caches[s])

\* Every slot GetHistory visits holds a frame, whatever was pushed, wrapped and
\* wiped before: its nil check (simulation_cache.go:64) never drops one, and a
\* history is as long as the counter says.
HistoryHasNoHoles ==
  \A s \in DOMAIN caches :
    \A i \in 1 .. HistoryCount(caches[s]) : Window(caches[s])[i] \in Frame

\* What each session's history request would return.
HistoryView ==
  [s \in Session |-> IF s \in DOMAIN caches THEN GetHistory(caches[s]) ELSE <<>>]

FH == INSTANCE FrameHistory WITH history <- HistoryView

\* The rings return, for every session, the last MaxSize frames since its last
\* wipe in the order they were received ("all currently available frames in
\* correct chronological order", simulation_cache.go:39), and no operation on
\* one session touches the history of another.
ImplementsFrameHistory == FH!Spec
=============================================================================
