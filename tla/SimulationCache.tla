--------------------------- MODULE SimulationCache ---------------------------
(***************************************************************************)
(* The ring buffer of server/internal/cache/simulation_cache.go: one       *)
(* SimulationCache value per session, as operators on a record whose       *)
(* fields are those of the Go struct.  Every method holds the cache's      *)
(* mutex from its first line to its last, so each is one atomic operator.  *)
(* The state machines that own caches are SessionCacheManager and          *)
(* Telemetry.                                                              *)
(***************************************************************************)
EXTENDS Integers, Sequences

CONSTANTS
  Frame,    \* the telemetry frames that may be pushed
  NoFrame,  \* Go's nil *TelemetryFrame
  MaxSize   \* capacity of the ring (20000 in main.go:107)

ASSUME CacheAssumption ==
  /\ MaxSize \in Nat \ {0}
  /\ NoFrame \notin Frame

Slot == 0 .. MaxSize - 1

Cache == [frames : [Slot -> Frame \cup {NoFrame}],
          writeIndex : Slot,
          totalFrames : Nat]

NewSimulationCache ==
  [frames |-> [i \in Slot |-> NoFrame], writeIndex |-> 0, totalFrames |-> 0]

Push(c, f) ==
  [frames |-> [c.frames EXCEPT ![c.writeIndex] = f],
   writeIndex |-> (c.writeIndex + 1) % MaxSize,
   totalFrames |-> c.totalFrames + 1]

\* Mutant of Reset: the write position survives the wipe.
ResetKeepsIndex(c) == [NewSimulationCache EXCEPT !.writeIndex = c.writeIndex]

Reset(c) == NewSimulationCache

-----------------------------------------------------------------------------
(* GetHistory *)

HistoryCount(c) == IF c.totalFrames < MaxSize THEN c.totalFrames ELSE MaxSize

\* Mutant of StartIdx: a full ring is read from slot 0.
StartIdxZero(c) == 0

StartIdx(c) == IF c.totalFrames >= MaxSize THEN c.writeIndex ELSE 0

\* The slots GetHistory visits, in the order it visits them.
Window(c) ==
  [i \in 1 .. HistoryCount(c) |-> c.frames[(StartIdx(c) + i - 1) % MaxSize]]

\* The frames of the slots visited; nil slots are skipped, as
\* simulation_cache.go:64 does.
GetHistory(c) ==
  LET history[n \in 0 .. HistoryCount(c)] ==
        IF n = 0 THEN << >>
        ELSE IF Window(c)[n] = NoFrame THEN history[n - 1]
        ELSE Append(history[n - 1], Window(c)[n])
  IN  history[HistoryCount(c)]
=============================================================================
