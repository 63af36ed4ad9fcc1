------------------------- MODULE SimulationInstance -------------------------
(***************************************************************************)
(* One session's universe in the C++ engine                                *)
(* (engine/include/simulation_instance.hpp): its play state and its clock, *)
(* as operators on a record.  Every method locks the instance's mutex from *)
(* its first line to its last, so each is one atomic operator.  The bodies *)
(* are the subject of module Collisions and do not appear here.            *)
(*                                                                         *)
(* Multipliers and the step accumulator are doubles in the code; here they *)
(* are integers in units of 1/Unit step (the speed slider moves in tenths, *)
(* so Unit is 10 there), and addition and floor are exact.                 *)
(***************************************************************************)
EXTENDS Integers

CONSTANTS
  Unit,        \* one simulation step (dt = 1.0), in units of the multiplier
  MaxSubsteps  \* MAX_SUBSTEPS: the most steps of one tick

ASSUME InstanceAssumption ==
  /\ Unit \in Nat \ {0}
  /\ MaxSubsteps \in Nat \ {0}

Instance == [loaded : BOOLEAN, running : BOOLEAN, mult : Nat, acc : Nat,
             time : Nat, frame : Nat]

NewInstance == [loaded |-> FALSE, running |-> FALSE, mult |-> Unit,
                acc |-> 0, time |-> 0, frame |-> 0]

\* Mutant of UploadScene: the clock of the old scene runs on.
UploadSceneKeepsTime(x) ==
  [x EXCEPT !.loaded = TRUE, !.running = FALSE, !.acc = 0, !.frame = 0]

\* The new scene starts paused at time 0; the multiplier is not reset.
UploadScene(x) ==
  [loaded |-> TRUE, running |-> FALSE, mult |-> x.mult,
   acc |-> 0, time |-> 0, frame |-> 0]

\* Mutant of SetRunning: play restarts the clock.
SetRunningRestarts(x, b) == [x EXCEPT !.running = b, !.frame = 0]

SetRunning(x, b) ==
  [loaded |-> x.loaded, running |-> b, mult |-> x.mult,
   acc |-> x.acc, time |-> x.time, frame |-> x.frame]

\* Mutant of SetSpeedMultiplier: the multiplier is not clamped.
SetSpeedUnclamped(x, m) == [x EXCEPT !.mult = m]

\* Negative multipliers become 0; there is no upper limit.
SetSpeedMultiplier(x, m) ==
  [loaded |-> x.loaded, running |-> x.running, mult |-> IF m > 0 THEN m ELSE 0,
   acc |-> x.acc, time |-> x.time, frame |-> x.frame]

-----------------------------------------------------------------------------
(* tick *)

\* Mutant of Active: tick trusts its caller's check.
ActiveIfLoaded(x) == x.loaded

Active(x) == x.loaded /\ x.running

\* Steps the accumulator pays for, at most MaxSubsteps of them.
Steps(x) ==
  LET whole == (x.acc + x.mult) \div Unit
  IN  IF whole > MaxSubsteps THEN MaxSubsteps ELSE whole

\* Mutant of Tick: one step per tick, whatever the accumulator pays for.
TickStepsOnce(x) ==
  IF ~Active(x) THEN x
  ELSE [x EXCEPT !.time = @ + 1, !.acc = x.acc + x.mult - Unit, !.frame = @ + 1]

Tick(x) ==
  IF Active(x)
    THEN [loaded |-> x.loaded, running |-> x.running, mult |-> x.mult,
          acc |-> x.acc + x.mult - Steps(x) * Unit,
          time |-> x.time + Steps(x),
          frame |-> x.frame + 1]
    ELSE x
=============================================================================
