------------------------------- MODULE Engine -------------------------------
(***************************************************************************)
(* The C++ engine as a whole: the session manager                          *)
(* (simulation_manager.hpp), the physics thread (main.cpp), the telemetry  *)
(* thread (telemetry_broadcaster.hpp) and the gRPC handlers                *)
(* (control_service_impl.hpp, simulation_service_impl.hpp).  A step is one *)
(* critical section: the physics thread holds the manager's lock shared    *)
(* for a whole sweep and each instance's mutex per call, a handler holds   *)
(* the manager's lock exclusively for its lookup, the telemetry thread     *)
(* copies the map under the lock and then works without it.                *)
(*                                                                         *)
(* Requests with an empty session id are refused without any change and    *)
(* are not steps here.  destroyInstance is never called.                   *)
(***************************************************************************)
EXTENDS SimulationInstance, FiniteSets

CONSTANTS
  Session,      \* session ids the Go server sends
  NoSession,    \* "no current session" of a thread
  Handler,      \* gRPC handler threads
  Speed,        \* multipliers requested, in 1/Unit; may be negative
  GoMayCrash,   \* whether the Go server may go down and come back
  MaxRequests,  \* bound on the number of requests
  MaxFrame      \* bound: no sweep starts once a frame counter is this high

ASSUME EngineAssumption ==
  /\ NoSession \notin Session
  /\ Speed \subseteq Int
  /\ GoMayCrash \in BOOLEAN

VARIABLES
  instances,  \* m_instances: session -> instance, partial
  physics,    \* physics thread: pc, sessions left in the sweep, current one
  telemetry,  \* telemetry thread: the same, and the frame it is about to write
  handlers,   \* per handler: pc, session and operation of its request
  requests,   \* number of requests received so far
  goUp,       \* the Go server is up
  stream,     \* the telemetry stream: "open" or "broken"
  \* history variables
  epoch,      \* per session: scenes uploaded so far
  credit,     \* per session: multipliers of the ticks since the last upload
  late,       \* per session: frames written since it stopped running
  lastSent    \* per session: epoch, frame and time of the last frame written

vars == <<instances, physics, telemetry, handlers, requests, goUp, stream,
          epoch, credit, late, lastSent>>

history == <<epoch, credit, late, lastSent>>

Op == [kind : {"UPLOAD", "PLAY", "PAUSE"}, mult : {0}]
        \cup [kind : {"SPEED"}, mult : Speed]

NoOp == [kind |-> "NONE", mult |-> 0]

Stamp == [epoch : Nat, frame : Nat, time : Nat]

NoStamp == [epoch |-> 0, frame |-> 0, time |-> 0]

TypeOK ==
  /\ \E S \in SUBSET Session : instances \in [S -> Instance]
  /\ physics \in [pc : {"sleep", "check", "tick"}, todo : SUBSET Session,
                  cur : Session \cup {NoSession}]
  /\ telemetry \in [pc : {"sleep", "check", "loaded", "populate", "write"},
                    todo : SUBSET Session, cur : Session \cup {NoSession},
                    msg : Stamp]
  /\ handlers \in [Handler -> [pc : {"idle", "lookup", "apply"},
                               s : Session \cup {NoSession},
                               op : Op \cup {NoOp}]]
  /\ requests \in Nat
  /\ goUp \in BOOLEAN
  /\ stream \in {"open", "broken"}
  /\ epoch \in [Session -> Nat]
  /\ credit \in [Session -> Nat]
  /\ late \in [Session -> Nat]
  /\ lastSent \in [Session -> Stamp]

\* The state of the physics thread and of the telemetry thread.
PhysicsAt(pc, todo, cur) == [pc |-> pc, todo |-> todo, cur |-> cur]

TelemetryAt(pc, todo, cur, msg) ==
  [pc |-> pc, todo |-> todo, cur |-> cur, msg |-> msg]

HandlerAt(pc, s, op) == [pc |-> pc, s |-> s, op |-> op]

IdleHandler == HandlerAt("idle", NoSession, NoOp)

Init ==
  /\ instances = [s \in {} |-> NewInstance]
  /\ physics = PhysicsAt("sleep", {}, NoSession)
  /\ telemetry = TelemetryAt("sleep", {}, NoSession, NoStamp)
  /\ handlers = [h \in Handler |-> IdleHandler]
  /\ requests = 0
  /\ goUp = TRUE
  /\ stream = "open"
  /\ epoch = [s \in Session |-> 0]
  /\ credit = [s \in Session |-> 0]
  /\ late = [s \in Session |-> 0]
  /\ lastSent = [s \in Session |-> NoStamp]

-----------------------------------------------------------------------------
(* gRPC handlers: Control, UpdateSpeed, UploadScene *)

Receive(h) ==
  /\ goUp
  /\ handlers[h].pc = "idle"
  /\ requests < MaxRequests
  /\ requests' = requests + 1
  /\ \E s \in Session, op \in Op :
       handlers' = [handlers EXCEPT ![h] = HandlerAt("lookup", s, op)]
  /\ UNCHANGED <<instances, physics, telemetry, goUp, stream, history>>

\* Mutant of ManagerLockFree: the telemetry thread, too, would hold the lock
\* for a whole sweep.
ManagerLockFreeRarely == physics.pc = "sleep" /\ telemetry.pc = "sleep"

\* The exclusive lock excludes a physics sweep in progress.
ManagerLockFree == physics.pc = "sleep"

\* getOrCreateInstance
Lookup(h) ==
  /\ handlers[h].pc = "lookup"
  /\ ManagerLockFree
  /\ LET s == handlers[h].s IN
     instances' = [t \in DOMAIN instances \cup {s} |->
                     IF t \in DOMAIN instances THEN instances[t] ELSE NewInstance]
  /\ handlers' = [handlers EXCEPT ![h] = HandlerAt("apply", @.s, @.op)]
  /\ UNCHANGED <<physics, telemetry, requests, goUp, stream, history>>

Applied(x, op) ==
  CASE op.kind = "UPLOAD" -> UploadScene(x)
    [] op.kind = "PLAY"   -> SetRunning(x, TRUE)
    [] op.kind = "PAUSE"  -> SetRunning(x, FALSE)
    [] op.kind = "SPEED"  -> SetSpeedMultiplier(x, op.mult)

\* The operation itself, under the instance's mutex, and the reply.
Apply(h) ==
  /\ handlers[h].pc = "apply"
  /\ LET s == handlers[h].s
         op == handlers[h].op
         new == Applied(instances[s], op)
     IN  /\ instances' = [instances EXCEPT ![s] = new]
         /\ IF op.kind = "UPLOAD"
              THEN /\ epoch' = [epoch EXCEPT ![s] = @ + 1]
                   /\ credit' = [credit EXCEPT ![s] = 0]
              ELSE UNCHANGED <<epoch, credit>>
         /\ late' = IF new.running # instances[s].running
                      THEN [late EXCEPT ![s] = 0] ELSE late
  /\ handlers' = [handlers EXCEPT ![h] = IdleHandler]
  /\ UNCHANGED <<physics, telemetry, requests, goUp, stream, lastSent>>

-----------------------------------------------------------------------------
(* Mutant of SkipSession: an idle session ends the sweep. *)
SkipRest(todo, s) == {}

\* Both threads pass over a session that is not playing.
SkipSession(todo, s) == todo \ {s}

-----------------------------------------------------------------------------
(* The physics thread: tickAllActiveInstances every 16 ms *)

SweepStart ==
  /\ physics.pc = "sleep"
  /\ \A s \in DOMAIN instances : instances[s].frame < MaxFrame
  /\ physics' = PhysicsAt("check", DOMAIN instances, NoSession)
  /\ UNCHANGED <<instances, telemetry, handlers, requests, goUp, stream, history>>

\* instance->isRunning(), in a critical section of its own.
SweepCheck ==
  /\ physics.pc = "check"
  /\ \E s \in physics.todo :
       physics' = IF instances[s].running
                    THEN PhysicsAt("tick", physics.todo, s)
                    ELSE PhysicsAt("check", SkipSession(physics.todo, s), NoSession)
  /\ UNCHANGED <<instances, telemetry, handlers, requests, goUp, stream, history>>

SweepTick ==
  /\ physics.pc = "tick"
  /\ LET s == physics.cur IN
     /\ instances' = [instances EXCEPT ![s] = Tick(@)]
     /\ credit' = [credit EXCEPT ![s] =
                     IF Active(instances[s]) THEN @ + instances[s].mult ELSE @]
     /\ physics' = PhysicsAt("check", physics.todo \ {s}, NoSession)
  /\ UNCHANGED <<telemetry, handlers, requests, goUp, stream, epoch, late, lastSent>>

SweepEnd ==
  /\ physics.pc = "check"
  /\ physics.todo = {}
  /\ physics' = PhysicsAt("sleep", {}, NoSession)
  /\ UNCHANGED <<instances, telemetry, handlers, requests, goUp, stream, history>>

PhysicsNext == SweepStart \/ SweepCheck \/ SweepTick \/ SweepEnd

-----------------------------------------------------------------------------
(* The telemetry thread: StartStreaming *)

\* getAllActiveInstancesSnapshot: every instance, running or not.
Snapshot ==
  /\ telemetry.pc = "sleep"
  /\ telemetry' = TelemetryAt("check", DOMAIN instances, NoSession, NoStamp)
  /\ UNCHANGED <<instances, physics, handlers, requests, goUp, stream, history>>

\* Mutant of ShouldStream: every instance of the snapshot is streamed.
ShouldStreamAlways(x) == TRUE

ShouldStream(x) == x.running

CheckRunning ==
  /\ telemetry.pc = "check"
  /\ \E s \in telemetry.todo :
       telemetry' = IF ShouldStream(instances[s])
                      THEN TelemetryAt("loaded", telemetry.todo, s, NoStamp)
                      ELSE TelemetryAt("check", SkipSession(telemetry.todo, s),
                                       NoSession, NoStamp)
  /\ UNCHANGED <<instances, physics, handlers, requests, goUp, stream, history>>

CheckLoaded ==
  /\ telemetry.pc = "loaded"
  /\ LET s == telemetry.cur IN
     telemetry' = IF instances[s].loaded
                    THEN TelemetryAt("populate", telemetry.todo, s, NoStamp)
                    ELSE TelemetryAt("check", telemetry.todo \ {s},
                                     NoSession, NoStamp)
  /\ UNCHANGED <<instances, physics, handlers, requests, goUp, stream, history>>

\* populateTelemetry: whatever the instance is by now.
Populate ==
  /\ telemetry.pc = "populate"
  /\ LET s == telemetry.cur IN
     telemetry' = TelemetryAt("write", telemetry.todo, s,
                    [epoch |-> epoch[s], frame |-> instances[s].frame,
                     time |-> instances[s].time])
  /\ UNCHANGED <<instances, physics, handlers, requests, goUp, stream, history>>

WriteOk ==
  /\ telemetry.pc = "write"
  /\ stream = "open"
  /\ LET s == telemetry.cur IN
     /\ lastSent' = [lastSent EXCEPT ![s] = telemetry.msg]
     /\ late' = [late EXCEPT ![s] = IF instances[s].running THEN @ ELSE @ + 1]
     /\ telemetry' = TelemetryAt("check", telemetry.todo \ {s}, NoSession, NoStamp)
  /\ UNCHANGED <<instances, physics, handlers, requests, goUp, stream, epoch, credit>>

\* Write fails: the rest of this sweep is skipped, the thread goes on with the
\* same writer.
WriteFails ==
  /\ telemetry.pc = "write"
  /\ stream = "broken"
  /\ telemetry' = TelemetryAt("check", {}, NoSession, NoStamp)
  /\ UNCHANGED <<instances, physics, handlers, requests, goUp, stream, history>>

StreamSweepEnd ==
  /\ telemetry.pc = "check"
  /\ telemetry.todo = {}
  /\ telemetry' = TelemetryAt("sleep", {}, NoSession, NoStamp)
  /\ UNCHANGED <<instances, physics, handlers, requests, goUp, stream, history>>

TelemetryNext ==
  \/ Snapshot
  \/ CheckRunning
  \/ CheckLoaded
  \/ Populate
  \/ WriteOk
  \/ WriteFails
  \/ StreamSweepEnd

-----------------------------------------------------------------------------
(* The Go server goes down, which ends the stream, and may come back. *)

GoCrash ==
  /\ GoMayCrash
  /\ goUp
  /\ goUp' = FALSE
  /\ stream' = "broken"
  /\ UNCHANGED <<instances, physics, telemetry, handlers, requests, history>>

GoRestart ==
  /\ ~goUp
  /\ goUp' = TRUE
  /\ UNCHANGED <<instances, physics, telemetry, handlers, requests, stream, history>>

Next ==
  \/ \E h \in Handler : Receive(h) \/ Lookup(h) \/ Apply(h)
  \/ PhysicsNext
  \/ TelemetryNext
  \/ GoCrash
  \/ GoRestart

Spec == Init /\ [][Next]_vars

\* The threads run whenever they can.  A handler that waits for the exclusive
\* lock gets it if the lock is free again and again: the physics thread sleeps
\* between sweeps.
FairSpec ==
  /\ Spec
  /\ WF_vars(PhysicsNext)
  /\ WF_vars(TelemetryNext)
  /\ \A h \in Handler : SF_vars(Lookup(h)) /\ WF_vars(Apply(h))

-----------------------------------------------------------------------------
(* Properties *)

\* Simulated time is exactly what the multipliers of the effective ticks since
\* the last upload paid for, whatever was requested in between
\* (simulation_instance.hpp:239-249, 208-210).
ClockAccounted ==
  \A s \in DOMAIN instances :
    instances[s].time * Unit + instances[s].acc = credit[s]

\* With multipliers up to MaxSubsteps steps per tick the cap of a tick never
\* defers work: less than one step is owed between ticks.
NoBacklog ==
  (\A m \in Speed : m <= MaxSubsteps * Unit) =>
    \A s \in DOMAIN instances : instances[s].acc < Unit

\* A session's clock advances only in a state in which it is playing, although
\* the sweep's check and the tick are separate critical sections and a PAUSE or
\* an upload may come between them.
TicksOnlyWhilePlaying ==
  [][\A s \in DOMAIN instances :
       instances'[s].frame > instances[s].frame => instances[s].running]_vars

\* The frames written for a session never go back: a later scene, or the same
\* scene with a frame number and a time at least as high.
StreamInOrder ==
  [][\A s \in Session :
       LET old == lastSent[s]
           new == lastSent'[s]
       IN  \/ new.epoch > old.epoch
           \/ /\ new.epoch = old.epoch
              /\ new.frame >= old.frame
              /\ new.time >= old.time]_vars

\* After a session stops running, by PAUSE or upload, at most one more frame is
\* written for it: the one whose check had already passed.
AtMostOneLateFrame == \A s \in Session : late[s] <= 1

Playing(s) ==
  s \in DOMAIN instances /\ instances[s].running /\ instances[s].loaded

AboutToWrite(s) ==
  telemetry.pc = "write" /\ telemetry.cur = s /\ stream = "open"

\* Once a session plays for good and the stream to the Go server is not broken
\* frames of it are written for ever, whatever the other sessions do
\* (telemetry_broadcaster.hpp:35-62).  A broken stream is never opened again,
\* even when the Go server comes back.
PlayingStreams ==
  \A s \in Session :
    (<>[](Playing(s) /\ stream = "open")) => []<>AboutToWrite(s)

\* Every request is answered, however often the physics thread holds the lock.
RequestsAnswered ==
  \A h \in Handler : handlers[h].pc # "idle" ~> handlers[h].pc = "idle"
=============================================================================
