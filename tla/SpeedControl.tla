---------------------------- MODULE SpeedControl ----------------------------
(***************************************************************************)
(* The way of the speed slider's value: SET_SPEED is put into the hub's    *)
(* SpeedUpdates channel without waiting (client.go handleSpeed), one       *)
(* goroutine of the server takes the values out, keeps the last one in     *)
(* speedMultiplier and forwards each to the engine (main.go:164-179),      *)
(* whose UpdateSpeed sets the multiplier of the session the request names. *)
(***************************************************************************)
EXTENDS Naturals, Sequences

CONSTANTS
  Session,     \* browser sessions
  Speed,       \* slider values, the default one included
  Default,     \* 1.0x
  UpdatesCap,  \* capacity of Hub.SpeedUpdates (16)
  MaxChanges   \* bound on the slider movements

VARIABLES
  updates,     \* h.SpeedUpdates
  forwarder,   \* the goroutine: pc and the value it forwards
  multiplier,  \* simServer.speedMultiplier
  engineMult,  \* per session: the multiplier of its engine instance
  changes,     \* number of slider movements so far
  slider       \* history: per session, the value last chosen

vars == <<updates, forwarder, multiplier, engineMult, changes, slider>>

\* The session a request names; Go leaves the field empty when it is not set.
NoSessionId == "empty"

TypeOK ==
  /\ updates \in Seq(Speed) /\ Len(updates) <= UpdatesCap
  /\ forwarder.pc \in {"wait", "call"} /\ forwarder.value \in Speed
  /\ multiplier \in Speed
  /\ engineMult \in [Session -> Speed]
  /\ changes \in 0 .. MaxChanges
  /\ slider \in [Session -> Speed]

Init ==
  /\ updates = << >>
  /\ forwarder = [pc |-> "wait", value |-> Default]
  /\ multiplier = Default
  /\ engineMult = [s \in Session |-> Default]
  /\ changes = 0
  /\ slider = [s \in Session |-> Default]

HasRoom == Len(updates) < UpdatesCap

\* SET_SPEED: "speed update dropped (hub busy)" when the channel is full.
HandleSpeed(s) ==
  /\ changes < MaxChanges
  /\ changes' = changes + 1
  /\ \E v \in Speed :
       /\ slider' = [slider EXCEPT ![s] = v]
       /\ updates' = IF HasRoom THEN Append(updates, v) ELSE updates
  /\ UNCHANGED <<forwarder, multiplier, engineMult>>

TakeUpdate ==
  /\ forwarder.pc = "wait"
  /\ updates # << >>
  /\ updates' = Tail(updates)
  /\ multiplier' = Head(updates)
  /\ forwarder' = [pc |-> "call", value |-> Head(updates)]
  /\ UNCHANGED <<engineMult, changes, slider>>

\* pb.SpeedRequest{Multiplier: v}
RequestedSession == NoSessionId

\* UpdateSpeed refuses a request that names no session.
EngineUpdatesSpeed(v) ==
  engineMult' = [s \in Session |-> IF s = RequestedSession THEN v ELSE engineMult[s]]

\* Errors are logged; a refusal (ok = false) is not even looked at.
CallAnswered ==
  /\ forwarder.pc = "call"
  /\ EngineUpdatesSpeed(forwarder.value)
  /\ forwarder' = [forwarder EXCEPT !.pc = "wait"]
  /\ UNCHANGED <<updates, multiplier, changes, slider>>

\* The engine is down, or the 2 s deadline passes.
CallFails ==
  /\ forwarder.pc = "call"
  /\ forwarder' = [forwarder EXCEPT !.pc = "wait"]
  /\ UNCHANGED <<updates, multiplier, engineMult, changes, slider>>

Forward == TakeUpdate \/ CallAnswered \/ CallFails

Next == (\E s \in Session : HandleSpeed(s)) \/ Forward

Spec == Init /\ [][Next]_vars

\* The goroutine runs for ever, and the engine answers some calls.
FairSpec == Spec /\ WF_vars(Forward) /\ SF_vars(CallAnswered)

-----------------------------------------------------------------------------
(* Properties *)

\* "Dynamically accelerate or decelerate simulation execution speed", README.md:22:
\* a slider value that nobody changes any more becomes the multiplier of the
\* session's simulation.
SpeedReachesEngine ==
  \A s \in Session, v \in Speed :
    (<>[](slider[s] = v)) => <>(engineMult[s] = v)
=============================================================================
