---------------------------- MODULE EngineProofs ----------------------------
(***************************************************************************)
(* For every set of sessions, handlers and multipliers, every step size    *)
(* and every cap: the engine keeps its types, simulated time is exactly    *)
(* what the multipliers paid for, no work is owed from one tick to the     *)
(* next while the multipliers respect the cap, a session that stops        *)
(* running sends at most one more frame, a clock advances only while its   *)
(* session plays, and the frames of a session are streamed in order.       *)
(***************************************************************************)
EXTENDS Engine, TLAPS

-----------------------------------------------------------------------------
(* The clock of one instance *)

LEMMA DivFacts ==
  ASSUME NEW m \in Nat \ {0}, NEW a \in Nat
  PROVE  /\ a \div m \in Nat
         /\ a % m \in 0 .. m - 1
         /\ a = m * (a \div m) + (a % m)
BY SMTT(30)

LEMMA MulMono ==
  ASSUME NEW m \in Nat, NEW a \in Nat, NEW b \in Nat, a <= b
  PROVE  m * a <= m * b
BY SMTT(30)

\* The steps of a tick are never more than the accumulator pays for, and below
\* the cap they are exactly that many.
LEMMA StepsPaid ==
  ASSUME NEW x \in Instance
  PROVE  /\ Steps(x) \in Nat
         /\ Steps(x) * Unit <= x.acc + x.mult
         /\ (x.acc < Unit /\ x.mult <= MaxSubsteps * Unit) =>
               x.acc + x.mult - Steps(x) * Unit < Unit
<1> DEFINE a == x.acc + x.mult
           q == a \div Unit
           r == a % Unit
<1>1. x.acc \in Nat /\ x.mult \in Nat /\ a \in Nat
  BY DEF Instance
<1>2. Unit \in Nat \ {0} /\ MaxSubsteps \in Nat \ {0}
  BY InstanceAssumption
<1>3. q \in Nat /\ r \in 0 .. Unit - 1 /\ a = Unit * q + r
  BY <1>1, <1>2, DivFacts
<1>4. Steps(x) = IF q > MaxSubsteps THEN MaxSubsteps ELSE q
  BY DEF Steps
<1> HIDE DEF q, r
<1>5. Steps(x) \in Nat /\ Steps(x) <= q
  BY <1>2, <1>3, <1>4
<1>6. Unit * Steps(x) <= Unit * q
  BY <1>2, <1>3, <1>5, MulMono
<1>7. Steps(x) * Unit = Unit * Steps(x)
  BY <1>2, <1>5
<1>8. Steps(x) * Unit <= a
  BY <1>1, <1>2, <1>3, <1>5, <1>6, <1>7
<1>9. ASSUME x.acc < Unit, x.mult <= MaxSubsteps * Unit
      PROVE  a - Steps(x) * Unit < Unit
  <2>1. q <= MaxSubsteps
    <3> SUFFICES ASSUME q >= MaxSubsteps + 1 PROVE FALSE
      BY <1>2, <1>3
    <3>1. Unit * (MaxSubsteps + 1) <= Unit * q
      BY <1>2, <1>3, MulMono
    <3>2. Unit * (MaxSubsteps + 1) = MaxSubsteps * Unit + Unit
      BY <1>2
    <3>3. MaxSubsteps * Unit + Unit <= a
      BY <1>1, <1>2, <1>3, <3>1, <3>2
    <3>4. QED BY <1>1, <1>2, <1>9, <3>3
  <2>2. Steps(x) = q
    BY <1>2, <1>3, <1>4, <2>1
  <2>3. QED BY <1>1, <1>2, <1>3, <1>7, <2>2
<1>10. Steps(x) * Unit \in Nat
  BY <1>2, <1>5
<1>11. QED BY <1>1, <1>2, <1>5, <1>8, <1>9, <1>10

\* A tick keeps the account of the clock.
LEMMA TickClock ==
  ASSUME NEW x \in Instance
  PROVE  /\ Tick(x) \in Instance
         /\ Tick(x).running = x.running
         /\ Tick(x).mult = x.mult
         /\ Tick(x).time * Unit + Tick(x).acc =
              x.time * Unit + x.acc + (IF Active(x) THEN x.mult ELSE 0)
         /\ (x.acc < Unit /\ x.mult <= MaxSubsteps * Unit) => Tick(x).acc < Unit
<1>1. /\ x.acc \in Nat /\ x.mult \in Nat /\ x.time \in Nat /\ x.frame \in Nat
      /\ x.loaded \in BOOLEAN /\ x.running \in BOOLEAN
      /\ Unit \in Nat \ {0}
  BY InstanceAssumption DEF Instance
<1>2. CASE ~Active(x)
  BY <1>1, <1>2 DEF Tick
<1>3. CASE Active(x)
  <2> DEFINE k == Steps(x)
  <2>1. /\ k \in Nat
        /\ k * Unit <= x.acc + x.mult
        /\ (x.acc < Unit /\ x.mult <= MaxSubsteps * Unit) =>
              x.acc + x.mult - k * Unit < Unit
    BY StepsPaid
  <2>2. Tick(x) = [loaded |-> x.loaded, running |-> x.running, mult |-> x.mult,
                   acc |-> x.acc + x.mult - k * Unit,
                   time |-> x.time + k, frame |-> x.frame + 1]
    BY <1>3 DEF Tick
  <2> HIDE DEF k
  <2>3. k * Unit \in Nat
    BY <1>1, <2>1
  <2>4. x.acc + x.mult - k * Unit \in Nat
    BY <1>1, <2>1, <2>3
  <2>5. Tick(x) \in Instance
    BY <1>1, <2>1, <2>2, <2>4 DEF Instance
  <2>6. (x.time + k) * Unit + (x.acc + x.mult - k * Unit) =
           x.time * Unit + x.acc + x.mult
    BY <1>1, <2>1
  <2>7. QED BY <1>1, <1>3, <2>1, <2>2, <2>5, <2>6
<1>4. QED BY <1>2, <1>3

-----------------------------------------------------------------------------
(* The inductive invariant *)

\* Whoever works on a session works on one the manager knows.
ThreadsKnow ==
  /\ physics.todo \subseteq DOMAIN instances
  /\ physics.pc = "tick" => physics.cur \in DOMAIN instances
  /\ telemetry.todo \subseteq DOMAIN instances
  /\ telemetry.pc \in {"loaded", "populate", "write"} =>
        telemetry.cur \in DOMAIN instances
  /\ \A h \in Handler :
        /\ handlers[h].pc = "lookup" => handlers[h].s \in Session
        /\ handlers[h].pc = "apply" => handlers[h].s \in DOMAIN instances
        /\ handlers[h].pc # "idle" => handlers[h].op \in Op

\* A session without an instance has no credit.
NoCreditInAdvance == \A s \in Session \ DOMAIN instances : credit[s] = 0

\* Multipliers come from requests or are the default of one step.
MultBounded ==
  (\A m \in Speed : m <= MaxSubsteps * Unit) =>
    \A s \in DOMAIN instances : instances[s].mult <= MaxSubsteps * Unit

\* A frame on its way for a session that has stopped is the first one since.
LateFrames ==
  \A s \in Session :
    /\ late[s] <= 1
    /\ (s \in DOMAIN instances /\ instances[s].running) => late[s] = 0
    /\ (/\ telemetry.pc \in {"loaded", "populate", "write"}
        /\ telemetry.cur = s) => late[s] = 0

IInv ==
  /\ TypeOK
  /\ ThreadsKnow
  /\ NoCreditInAdvance
  /\ ClockAccounted
  /\ MultBounded
  /\ NoBacklog
  /\ LateFrames

\* The same facts about instances without the quantifier over its domain.
LEMMA InstancesType ==
  ASSUME TypeOK
  PROVE  /\ DOMAIN instances \subseteq Session
         /\ instances \in [DOMAIN instances -> Instance]
BY DEF TypeOK

LEMMA NewInstanceFacts ==
  /\ NewInstance \in Instance
  /\ NewInstance.time * Unit + NewInstance.acc = 0
  /\ NewInstance.acc < Unit
  /\ NewInstance.mult <= MaxSubsteps * Unit
  /\ ~NewInstance.running
<1>1. Unit <= MaxSubsteps * Unit
  <2>1. Unit * 1 <= Unit * MaxSubsteps
    BY InstanceAssumption, MulMono
  <2>2. QED BY <2>1, InstanceAssumption
<1>2. QED BY <1>1, InstanceAssumption DEF NewInstance, Instance

\* What an operation does to an instance.
LEMMA AppliedFacts ==
  ASSUME NEW x \in Instance, NEW op \in Op
  PROVE  /\ Applied(x, op) \in Instance
         /\ op.kind # "UPLOAD" => /\ Applied(x, op).time = x.time
                                  /\ Applied(x, op).acc = x.acc
         /\ op.kind = "UPLOAD" => /\ Applied(x, op).time = 0
                                  /\ Applied(x, op).acc = 0
         /\ \/ Applied(x, op).mult = x.mult
            \/ Applied(x, op).mult = 0
            \/ Applied(x, op).mult \in Speed
<1>1. CASE op.kind = "UPLOAD"
  BY <1>1 DEF Applied, UploadScene, Instance
<1>2. CASE op.kind = "PLAY"
  BY <1>2 DEF Applied, SetRunning, Instance
<1>3. CASE op.kind = "PAUSE"
  BY <1>3 DEF Applied, SetRunning, Instance
<1>4. CASE op.kind = "SPEED"
  <2>1. op.mult \in Speed /\ op.mult \in Int
    BY <1>4, EngineAssumption DEF Op
  <2>2. Applied(x, op) = SetSpeedMultiplier(x, op.mult)
    BY <1>4 DEF Applied
  <2>3. QED BY <1>4, <2>1, <2>2 DEF SetSpeedMultiplier, Instance
<1>5. QED BY <1>1, <1>2, <1>3, <1>4 DEF Op

-----------------------------------------------------------------------------
(* The steps *)

LEMMA IInvInit == Init => IInv
<1> SUFFICES ASSUME Init PROVE IInv
  OBVIOUS
<1>1. DOMAIN instances = {} /\ instances \in [{} -> Instance]
  BY DEF Init
<1>2. TypeOK
  BY <1>1 DEF Init, TypeOK, PhysicsAt, TelemetryAt, IdleHandler, HandlerAt,
              NoStamp, Stamp
<1>3. ThreadsKnow /\ LateFrames
  BY <1>1 DEF Init, ThreadsKnow, LateFrames, PhysicsAt, TelemetryAt,
              IdleHandler, HandlerAt
<1>4. NoCreditInAdvance /\ ClockAccounted /\ MultBounded /\ NoBacklog
  BY <1>1 DEF Init, NoCreditInAdvance, ClockAccounted, MultBounded, NoBacklog
<1>5. QED BY <1>2, <1>3, <1>4 DEF IInv

\* What a step that changes neither instances nor credits preserves.
LEMMA QuietStep ==
  ASSUME IInv, UNCHANGED <<instances, credit>>
  PROVE  (NoCreditInAdvance /\ ClockAccounted /\ MultBounded /\ NoBacklog)'
BY DEF IInv, NoCreditInAdvance, ClockAccounted, MultBounded, NoBacklog

LEMMA ReceiveStep ==
  ASSUME IInv, NEW h \in Handler, Receive(h)
  PROVE  IInv'
<1>1. PICK s \in Session, op \in Op :
        handlers' = [handlers EXCEPT ![h] = HandlerAt("lookup", s, op)]
  BY DEF Receive
<1>2. UNCHANGED <<instances, physics, telemetry, goUp, stream, epoch, credit,
                  late, lastSent>> /\ requests' = requests + 1
  BY DEF Receive, history
<1>3. TypeOK'
  BY <1>1, <1>2 DEF IInv, TypeOK, HandlerAt
<1>4. ThreadsKnow'
  BY <1>1, <1>2 DEF IInv, ThreadsKnow, HandlerAt, TypeOK
<1>5. LateFrames'
  BY <1>2 DEF IInv, LateFrames
<1>6. QED BY <1>2, <1>3, <1>4, <1>5, QuietStep DEF IInv

LEMMA LookupStep ==
  ASSUME IInv, NEW h \in Handler, Lookup(h)
  PROVE  IInv'
<1> DEFINE s == handlers[h].s
           D == DOMAIN instances
<1>1. s \in Session /\ D \subseteq Session /\ instances \in [D -> Instance]
  BY InstancesType DEF IInv, Lookup, ThreadsKnow
<1>2. /\ instances' = [t \in D \cup {s} |->
                         IF t \in D THEN instances[t] ELSE NewInstance]
      /\ handlers' = [handlers EXCEPT
                        ![h] = HandlerAt("apply", handlers[h].s, handlers[h].op)]
      /\ UNCHANGED <<physics, telemetry, requests, goUp, stream, epoch, credit,
                     late, lastSent>>
      /\ handlers[h].pc = "lookup"
  BY DEF Lookup, history
<1>3. /\ handlers[h] \in [pc : {"idle", "lookup", "apply"},
                          s : Session \cup {NoSession}, op : Op \cup {NoOp}]
      /\ handlers[h].op \in Op
  BY <1>2 DEF IInv, TypeOK, ThreadsKnow
<1> HIDE DEF D, s
<1>4. /\ DOMAIN instances' = D \cup {s}
      /\ instances' \in [D \cup {s} -> Instance]
      /\ \A t \in D : t \in DOMAIN instances' /\ instances'[t] = instances[t]
      /\ \A t \in DOMAIN instances' : t \notin D => instances'[t] = NewInstance
  BY <1>1, <1>2, NewInstanceFacts
<1>5. TypeOK'
  <2>1. D \cup {s} \in SUBSET Session
    BY <1>1
  <2>2. HandlerAt("apply", s, handlers[h].op) \in
           [pc : {"idle", "lookup", "apply"}, s : Session \cup {NoSession},
            op : Op \cup {NoOp}]
    BY <1>1, <1>3 DEF HandlerAt
  <2>3. handlers' \in [Handler -> [pc : {"idle", "lookup", "apply"},
                                   s : Session \cup {NoSession},
                                   op : Op \cup {NoOp}]]
    BY <1>2, <2>2 DEF IInv, TypeOK, s
  <2>4. QED BY <1>2, <1>4, <2>1, <2>3 DEF IInv, TypeOK
<1>6. ThreadsKnow'
  <2>1. /\ physics.todo \subseteq D
        /\ physics.pc = "tick" => physics.cur \in D
        /\ telemetry.todo \subseteq D
        /\ telemetry.pc \in {"loaded", "populate", "write"} => telemetry.cur \in D
    BY DEF IInv, ThreadsKnow, D
  <2>2. ASSUME NEW g \in Handler
        PROVE  /\ handlers'[g].pc = "lookup" => handlers'[g].s \in Session
               /\ handlers'[g].pc = "apply" => handlers'[g].s \in D \cup {s}
               /\ handlers'[g].pc # "idle" => handlers'[g].op \in Op
    <3>1. CASE g = h
      BY <3>1, <1>2, <1>3 DEF HandlerAt, s, IInv, TypeOK
    <3>2. CASE g # h
      <4>1. handlers'[g] = handlers[g]
        BY <3>2, <1>2 DEF IInv, TypeOK
      <4>2. QED BY <4>1 DEF IInv, ThreadsKnow, D
    <3>3. QED BY <3>1, <3>2
  <2>3. QED BY <1>2, <1>4, <2>1, <2>2 DEF ThreadsKnow
<1>7. NoCreditInAdvance'
  BY <1>2, <1>4 DEF IInv, NoCreditInAdvance, D
<1>8. ClockAccounted'
  <2>1. ASSUME NEW t \in DOMAIN instances'
        PROVE  instances'[t].time * Unit + instances'[t].acc = credit[t]
    <3>1. CASE t \in D
      BY <3>1, <1>4 DEF IInv, ClockAccounted, D
    <3>2. CASE t \notin D
      <4>1. t \in Session /\ credit[t] = 0
        BY <3>2, <1>1, <1>4 DEF IInv, NoCreditInAdvance, D
      <4>2. QED BY <3>2, <4>1, <1>4, NewInstanceFacts
    <3>3. QED BY <3>1, <3>2
  <2>2. QED BY <2>1, <1>2 DEF ClockAccounted
<1>9. MultBounded' /\ NoBacklog'
  BY <1>4, NewInstanceFacts DEF IInv, MultBounded, NoBacklog, D
<1>10. LateFrames'
  <2>1. ASSUME NEW t \in Session, t \in DOMAIN instances', instances'[t].running
        PROVE  t \in D /\ instances[t].running
    BY <2>1, <1>4, NewInstanceFacts
  <2>2. QED BY <2>1, <1>2 DEF IInv, LateFrames, D
<1>11. QED BY <1>5, <1>6, <1>7, <1>8, <1>9, <1>10 DEF IInv

LEMMA ApplyStep ==
  ASSUME IInv, NEW h \in Handler, Apply(h)
  PROVE  IInv'
<1> DEFINE s == handlers[h].s
           op == handlers[h].op
           new == Applied(instances[s], op)
           D == DOMAIN instances
<1>1. /\ s \in D /\ op \in Op /\ D \subseteq Session
      /\ instances \in [D -> Instance]
      /\ instances[s] \in Instance
  BY InstancesType DEF IInv, Apply, ThreadsKnow
<1>2. /\ instances' = [instances EXCEPT ![s] = new]
      /\ handlers' = [handlers EXCEPT ![h] = IdleHandler]
      /\ late' = IF new.running # instances[s].running
                   THEN [late EXCEPT ![s] = 0] ELSE late
      /\ UNCHANGED <<physics, telemetry, requests, goUp, stream, lastSent>>
  BY DEF Apply
<1>3. IF op.kind = "UPLOAD"
        THEN /\ epoch' = [epoch EXCEPT ![s] = @ + 1]
             /\ credit' = [credit EXCEPT ![s] = 0]
        ELSE UNCHANGED <<epoch, credit>>
  BY DEF Apply
<1>4. /\ new \in Instance
      /\ op.kind # "UPLOAD" => /\ new.time = instances[s].time
                               /\ new.acc = instances[s].acc
      /\ op.kind = "UPLOAD" => new.time = 0 /\ new.acc = 0
      /\ \/ new.mult = instances[s].mult
         \/ new.mult = 0
         \/ new.mult \in Speed
  BY <1>1, AppliedFacts
<1> HIDE DEF s, op, new, D
<1>5. /\ DOMAIN instances' = D
      /\ instances' \in [D -> Instance]
      /\ instances'[s] = new
      /\ \A t \in D : t # s => instances'[t] = instances[t]
  BY <1>1, <1>2, <1>4
<1>6. /\ epoch' \in [Session -> Nat]
      /\ credit' \in [Session -> Nat]
      /\ late' \in [Session -> Nat]
      /\ credit'[s] = IF op.kind = "UPLOAD" THEN 0 ELSE credit[s]
      /\ \A t \in Session : t # s => credit'[t] = credit[t] /\ late'[t] = late[t]
  <2>1. s \in Session /\ epoch \in [Session -> Nat]
        /\ credit \in [Session -> Nat] /\ late \in [Session -> Nat]
    BY <1>1 DEF IInv, TypeOK
  <2>2. CASE op.kind = "UPLOAD"
    BY <2>1, <2>2, <1>2, <1>3
  <2>3. CASE op.kind # "UPLOAD"
    BY <2>1, <2>3, <1>2, <1>3
  <2>4. QED BY <2>2, <2>3
<1>7. TypeOK'
  <2>1. IdleHandler \in [pc : {"idle", "lookup", "apply"},
                         s : Session \cup {NoSession}, op : Op \cup {NoOp}]
    BY DEF IdleHandler, HandlerAt
  <2>2. handlers' \in [Handler -> [pc : {"idle", "lookup", "apply"},
                                   s : Session \cup {NoSession},
                                   op : Op \cup {NoOp}]]
    BY <2>1, <1>2 DEF IInv, TypeOK
  <2>3. \E S \in SUBSET Session : instances' \in [S -> Instance]
    BY <1>1, <1>5
  <2>4. QED BY <1>2, <1>6, <2>2, <2>3 DEF IInv, TypeOK
<1>8. ThreadsKnow'
  <2>1. ASSUME NEW g \in Handler
        PROVE  /\ handlers'[g].pc = "lookup" => handlers'[g].s \in Session
               /\ handlers'[g].pc = "apply" => handlers'[g].s \in D
               /\ handlers'[g].pc # "idle" => handlers'[g].op \in Op
    <3>1. CASE g = h
      BY <3>1, <1>2 DEF IdleHandler, HandlerAt, IInv, TypeOK
    <3>2. CASE g # h
      <4>1. handlers'[g] = handlers[g]
        BY <3>2, <1>2 DEF IInv, TypeOK
      <4>2. QED BY <4>1 DEF IInv, ThreadsKnow, D
    <3>3. QED BY <3>1, <3>2
  <2>2. QED BY <1>2, <1>5, <2>1 DEF IInv, ThreadsKnow, D
<1>9. NoCreditInAdvance'
  BY <1>1, <1>5, <1>6 DEF IInv, NoCreditInAdvance, D
<1>10. ClockAccounted'
  <2>1. ASSUME NEW t \in D
        PROVE  instances'[t].time * Unit + instances'[t].acc = credit'[t]
    <3>1. CASE t # s
      BY <3>1, <1>1, <1>5, <1>6 DEF IInv, ClockAccounted, D
    <3>2. CASE t = s /\ op.kind = "UPLOAD"
      BY <3>2, <1>4, <1>5, <1>6, InstanceAssumption
    <3>3. CASE t = s /\ op.kind # "UPLOAD"
      BY <3>3, <1>4, <1>5, <1>6 DEF IInv, ClockAccounted, D
    <3>4. QED BY <3>1, <3>2, <3>3
  <2>2. QED BY <2>1, <1>5 DEF ClockAccounted
<1>11. MultBounded'
  <2>1. 0 <= MaxSubsteps * Unit
    BY InstanceAssumption
  <2>2. QED BY <2>1, <1>1, <1>4, <1>5 DEF IInv, MultBounded, D
<1>12. NoBacklog'
  BY <1>1, <1>4, <1>5, InstanceAssumption DEF IInv, NoBacklog, D
<1>13. LateFrames'
  <2>1. ASSUME NEW t \in Session
        PROVE  /\ late'[t] <= late[t]
               /\ (t \in D /\ instances'[t].running) => late'[t] = 0
    <3>0. late \in [Session -> Nat] /\ s \in Session
      BY <1>1 DEF IInv, TypeOK
    <3>1. CASE t # s
      BY <3>0, <3>1, <1>5, <1>6 DEF IInv, LateFrames, D
    <3>2. CASE t = s /\ new.running # instances[s].running
      BY <3>0, <3>2, <1>2
    <3>3. CASE t = s /\ new.running = instances[s].running
      BY <3>0, <3>3, <1>1, <1>2, <1>5 DEF IInv, LateFrames, D
    <3>4. QED BY <3>1, <3>2, <3>3
  <2>2. late \in [Session -> Nat] /\ late' \in [Session -> Nat]
    BY <1>6 DEF IInv, TypeOK
  <2>3. ASSUME NEW t \in Session PROVE late'[t] <= 1
    BY <2>1, <2>2 DEF IInv, LateFrames
  <2>4. ASSUME NEW t \in Session,
               telemetry'.pc \in {"loaded", "populate", "write"},
               telemetry'.cur = t
        PROVE  late'[t] = 0
    <3>1. late[t] = 0
      BY <2>4, <1>2 DEF IInv, LateFrames
    <3>2. QED BY <3>1, <2>1, <2>2
  <2>5. QED BY <2>1, <2>3, <2>4, <1>5 DEF LateFrames
<1>14. QED
  BY <1>7, <1>8, <1>9, <1>10, <1>11, <1>12, <1>13 DEF IInv

LEMMA PhysicsStep ==
  ASSUME IInv, PhysicsNext
  PROVE  IInv'
<1>1. CASE SweepStart \/ SweepCheck \/ SweepEnd
  <2>1. UNCHANGED <<instances, telemetry, handlers, requests, goUp, stream,
                    epoch, credit, late, lastSent>>
    BY <1>1 DEF SweepStart, SweepCheck, SweepEnd, history
  <2>2. /\ physics' \in [pc : {"sleep", "check", "tick"}, todo : SUBSET Session,
                         cur : Session \cup {NoSession}]
        /\ physics'.todo \subseteq DOMAIN instances
        /\ physics'.pc = "tick" => physics'.cur \in DOMAIN instances
    BY <1>1, InstancesType DEF SweepStart, SweepCheck, SweepEnd, PhysicsAt,
       SkipSession, IInv, TypeOK, ThreadsKnow
  <2>3. TypeOK' /\ ThreadsKnow' /\ LateFrames'
    BY <2>1, <2>2 DEF IInv, TypeOK, ThreadsKnow, LateFrames
  <2>4. QED BY <2>1, <2>3, QuietStep DEF IInv
<1>2. CASE SweepTick
  <2> DEFINE s == physics.cur
             D == DOMAIN instances
             x == instances[s]
  <2>1. /\ s \in D /\ D \subseteq Session
        /\ instances \in [D -> Instance]
        /\ x \in Instance
    BY <1>2, InstancesType DEF IInv, SweepTick, ThreadsKnow
  <2>2. /\ instances' = [instances EXCEPT ![s] = Tick(x)]
        /\ credit' = [credit EXCEPT
                        ![s] = IF Active(x) THEN credit[s] + x.mult ELSE credit[s]]
        /\ physics' = PhysicsAt("check", physics.todo \ {s}, NoSession)
        /\ UNCHANGED <<telemetry, handlers, requests, goUp, stream, epoch, late,
                       lastSent>>
    BY <1>2 DEF SweepTick
  <2>3. /\ Tick(x) \in Instance
        /\ Tick(x).running = x.running
        /\ Tick(x).mult = x.mult
        /\ Tick(x).time * Unit + Tick(x).acc =
             x.time * Unit + x.acc + (IF Active(x) THEN x.mult ELSE 0)
        /\ (x.acc < Unit /\ x.mult <= MaxSubsteps * Unit) => Tick(x).acc < Unit
    BY <2>1, TickClock
  <2>4. credit \in [Session -> Nat] /\ x.mult \in Nat /\ s \in Session
    BY <2>1 DEF IInv, TypeOK, Instance
  <2>x. x = instances[s]
    OBVIOUS
  <2> HIDE DEF s, D, x
  <2>5. /\ DOMAIN instances' = D
        /\ instances' \in [D -> Instance]
        /\ instances'[s] = Tick(x)
        /\ \A t \in D : t # s => instances'[t] = instances[t]
    BY <2>1, <2>2, <2>3
  <2>6. /\ credit' \in [Session -> Nat]
        /\ credit'[s] = credit[s] + (IF Active(x) THEN x.mult ELSE 0)
        /\ \A t \in Session : t # s => credit'[t] = credit[t]
    BY <2>2, <2>4
  <2>7. TypeOK'
    <3>1. \E S \in SUBSET Session : instances' \in [S -> Instance]
      BY <2>1, <2>5
    <3>2. physics' \in [pc : {"sleep", "check", "tick"}, todo : SUBSET Session,
                        cur : Session \cup {NoSession}]
      BY <2>2 DEF PhysicsAt, IInv, TypeOK
    <3>3. QED BY <2>2, <2>6, <3>1, <3>2 DEF IInv, TypeOK
  <2>8. ThreadsKnow'
    BY <2>2, <2>5 DEF IInv, ThreadsKnow, PhysicsAt, D
  <2>9. NoCreditInAdvance'
    BY <2>1, <2>5, <2>6 DEF IInv, NoCreditInAdvance, D
  <2>10. ClockAccounted'
    <3>1. ASSUME NEW t \in D
          PROVE  instances'[t].time * Unit + instances'[t].acc = credit'[t]
      <4>1. CASE t # s
        BY <4>1, <2>1, <2>5, <2>6 DEF IInv, ClockAccounted, D
      <4>2. CASE t = s
        <5>1. x.time * Unit + x.acc = credit[s]
          BY <2>1, <2>x DEF IInv, ClockAccounted, D
        <5>2. x.time \in Nat /\ x.acc \in Nat /\ Unit \in Nat
          BY <2>1, InstanceAssumption DEF Instance
        <5>3. QED BY <4>2, <5>1, <5>2, <2>3, <2>4, <2>5, <2>6
      <4>3. QED BY <4>1, <4>2
    <3>2. QED BY <3>1, <2>5 DEF ClockAccounted
  <2>11. MultBounded'
    BY <2>1, <2>3, <2>5, <2>x DEF IInv, MultBounded, D
  <2>12. NoBacklog'
    BY <2>1, <2>3, <2>5, <2>x DEF IInv, MultBounded, NoBacklog, D
  <2>13. LateFrames'
    <3>1. ASSUME NEW t \in D PROVE instances'[t].running = instances[t].running
      BY <2>1, <2>3, <2>5, <2>x
    <3>2. QED BY <3>1, <2>2, <2>5 DEF IInv, LateFrames, D
  <2>14. QED
    BY <2>7, <2>8, <2>9, <2>10, <2>11, <2>12, <2>13 DEF IInv
<1>3. QED BY <1>1, <1>2 DEF PhysicsNext

LEMMA TelemetryStep ==
  ASSUME IInv, TelemetryNext
  PROVE  IInv'
<1> DEFINE InFlight == {"loaded", "populate", "write"}
           TelemetryType == [pc : {"sleep", "check", "loaded", "populate", "write"},
                             todo : SUBSET Session,
                             cur : Session \cup {NoSession}, msg : Stamp]
<1>t. /\ telemetry \in TelemetryType
      /\ telemetry.todo \subseteq DOMAIN instances
      /\ DOMAIN instances \subseteq Session
      /\ NoStamp \in Stamp
      /\ telemetry.pc \in InFlight =>
            telemetry.cur \in DOMAIN instances /\ telemetry.cur \in Session
  BY InstancesType DEF IInv, TypeOK, ThreadsKnow, NoStamp, Stamp
<1>1. ASSUME UNCHANGED <<instances, physics, handlers, requests, goUp, stream,
                         epoch, credit, late, lastSent>>,
             telemetry' \in TelemetryType,
             telemetry'.todo \subseteq DOMAIN instances,
             telemetry'.pc \in InFlight =>
               /\ telemetry'.cur \in DOMAIN instances
               /\ \/ instances[telemetry'.cur].running
                  \/ telemetry.pc \in InFlight /\ telemetry'.cur = telemetry.cur
      PROVE  IInv'
  <2>1. TypeOK' /\ ThreadsKnow'
    BY <1>1 DEF IInv, TypeOK, ThreadsKnow
  <2>2. LateFrames'
    BY <1>1 DEF IInv, LateFrames
  <2>3. QED BY <1>1, <2>1, <2>2, QuietStep DEF IInv
<1>2. CASE Snapshot
  BY <1>2, <1>1, <1>t DEF Snapshot, TelemetryAt, history
<1>3. CASE CheckRunning
  <2>1. PICK s \in telemetry.todo :
          telemetry' = IF ShouldStream(instances[s])
                         THEN TelemetryAt("loaded", telemetry.todo, s, NoStamp)
                         ELSE TelemetryAt("check", SkipSession(telemetry.todo, s),
                                          NoSession, NoStamp)
    BY <1>3 DEF CheckRunning
  <2>2. CASE instances[s].running
    BY <2>1, <2>2, <1>3, <1>1, <1>t
       DEF CheckRunning, ShouldStream, TelemetryAt, history
  <2>3. CASE ~instances[s].running
    BY <2>1, <2>3, <1>3, <1>1, <1>t
       DEF CheckRunning, ShouldStream, SkipSession, TelemetryAt, history
  <2>4. QED BY <2>2, <2>3
<1>4. CASE CheckLoaded
  BY <1>4, <1>1, <1>t DEF CheckLoaded, TelemetryAt, history
<1>5. CASE Populate
  <2>1. [epoch |-> epoch[telemetry.cur], frame |-> instances[telemetry.cur].frame,
         time |-> instances[telemetry.cur].time] \in Stamp
    BY <1>5, <1>t, InstancesType DEF Populate, IInv, TypeOK, Stamp, Instance
  <2>2. QED BY <2>1, <1>5, <1>1, <1>t DEF Populate, TelemetryAt, history
<1>6. CASE WriteFails
  BY <1>6, <1>1, <1>t DEF WriteFails, TelemetryAt, history
<1>7. CASE StreamSweepEnd
  BY <1>7, <1>1, <1>t DEF StreamSweepEnd, TelemetryAt, history
<1>8. CASE WriteOk
  <2> DEFINE s == telemetry.cur
  <2>1. /\ s \in DOMAIN instances /\ s \in Session
        /\ late \in [Session -> Nat]
        /\ lastSent \in [Session -> Stamp]
        /\ late[s] = 0
        /\ telemetry.msg \in Stamp
    BY <1>8, <1>t DEF WriteOk, IInv, TypeOK, LateFrames
  <2>2. /\ lastSent' = [lastSent EXCEPT ![s] = telemetry.msg]
        /\ late' = [late EXCEPT ![s] = IF instances[s].running
                                         THEN late[s] ELSE late[s] + 1]
        /\ telemetry' = TelemetryAt("check", telemetry.todo \ {s}, NoSession, NoStamp)
        /\ UNCHANGED <<instances, physics, handlers, requests, goUp, stream,
                       epoch, credit>>
    BY <1>8 DEF WriteOk
  <2> HIDE DEF s
  <2>3. /\ late' \in [Session -> Nat]
        /\ late'[s] <= 1
        /\ instances[s].running => late'[s] = 0
        /\ \A t \in Session : t # s => late'[t] = late[t]
    BY <2>1, <2>2
  <2>4. lastSent' \in [Session -> Stamp]
    BY <2>1, <2>2
  <2>5. telemetry' \in TelemetryType
        /\ telemetry'.todo \subseteq DOMAIN instances
        /\ telemetry'.pc \notin InFlight
    BY <1>t, <2>2 DEF TelemetryAt
  <2>6. TypeOK' /\ ThreadsKnow'
    BY <2>2, <2>3, <2>4, <2>5 DEF IInv, TypeOK, ThreadsKnow
  <2>7. LateFrames'
    BY <2>2, <2>3, <2>5 DEF IInv, LateFrames
  <2>8. QED BY <2>2, <2>6, <2>7, QuietStep DEF IInv
<1>9. QED
  BY <1>2, <1>3, <1>4, <1>5, <1>6, <1>7, <1>8 DEF TelemetryNext

LEMMA IInvNext == IInv /\ [Next]_vars => IInv'
<1> SUFFICES ASSUME IInv, [Next]_vars PROVE IInv'
  OBVIOUS
<1>1. CASE GoCrash \/ GoRestart
  BY <1>1, QuietStep DEF GoCrash, GoRestart, history, IInv, TypeOK, ThreadsKnow,
     LateFrames
<1>2. CASE UNCHANGED vars
  BY <1>2, QuietStep DEF vars, IInv, TypeOK, ThreadsKnow, LateFrames
<1>3. QED
  BY <1>1, <1>2, ReceiveStep, LookupStep, ApplyStep, PhysicsStep, TelemetryStep
     DEF Next

-----------------------------------------------------------------------------
(* The theorems *)

\* The map of instances, the threads and the histories keep their types.
THEOREM EngineTypes == Spec => []TypeOK
BY IInvInit, IInvNext, PTL DEF Spec, IInv

\* Simulated time is exactly what the multipliers of the ticks paid for.
THEOREM ClockIsAccounted == Spec => []ClockAccounted
BY IInvInit, IInvNext, PTL DEF Spec, IInv

\* Multipliers within the cap leave less than one step owed between ticks.
THEOREM NothingDeferred == Spec => []NoBacklog
BY IInvInit, IInvNext, PTL DEF Spec, IInv

\* At most one frame of a session follows its PAUSE or upload.
THEOREM OneLateFrame == Spec => []AtMostOneLateFrame
<1>1. IInv => AtMostOneLateFrame
  BY DEF IInv, LateFrames, AtMostOneLateFrame
<1>2. QED BY <1>1, IInvInit, IInvNext, PTL DEF Spec

-----------------------------------------------------------------------------
(* The clock stands still unless the session plays *)

\* What a tick does to the clock, and that only an active instance is ticked.
LEMMA TickAdvances ==
  ASSUME NEW x \in Instance
  PROVE  /\ Tick(x).frame >= x.frame
         /\ Tick(x).time >= x.time
         /\ Tick(x).frame # x.frame => x.running
<1>1. CASE Active(x)
  <2>1. Steps(x) \in Nat
    BY StepsPaid
  <2>2. QED BY <1>1, <2>1 DEF Tick, Active, Instance
<1>2. CASE ~Active(x)
  BY <1>2 DEF Tick, Instance
<1>3. QED BY <1>1, <1>2

\* No request moves a clock forward: an upload resets it, the others keep it.
LEMMA AppliedClock ==
  ASSUME NEW x \in Instance, NEW op \in Op
  PROVE  IF op.kind = "UPLOAD"
           THEN Applied(x, op).frame = 0 /\ Applied(x, op).time = 0
           ELSE Applied(x, op).frame = x.frame /\ Applied(x, op).time = x.time
BY DEF Applied, UploadScene, SetRunning, SetSpeedMultiplier, Op, Instance

\* How each step moves the clock of an instance that exists before it: a tick
\* or an upload, or not at all.
LEMMA ClockSteps ==
  ASSUME IInv, [Next]_vars, NEW s \in DOMAIN instances
  PROVE  /\ s \in DOMAIN instances'
         /\ \/ /\ instances'[s].frame = instances[s].frame
               /\ instances'[s].time = instances[s].time
               /\ epoch'[s] = epoch[s]
            \/ /\ instances'[s] = Tick(instances[s])
               /\ epoch'[s] = epoch[s]
            \/ /\ instances'[s].frame = 0
               /\ instances'[s].time = 0
               /\ epoch'[s] = epoch[s] + 1
<1>1. /\ DOMAIN instances \subseteq Session
      /\ instances \in [DOMAIN instances -> Instance]
      /\ epoch \in [Session -> Nat]
      /\ s \in Session
  BY InstancesType DEF IInv, TypeOK
<1>2. CASE UNCHANGED <<instances, epoch>>
  BY <1>2
<1>3. ASSUME NEW h \in Handler, Lookup(h)
      PROVE  s \in DOMAIN instances' /\ instances'[s] = instances[s]
             /\ epoch' = epoch
  BY <1>3 DEF Lookup, history
<1>4. ASSUME NEW h \in Handler, Apply(h)
      PROVE  /\ s \in DOMAIN instances'
             /\ \/ /\ instances'[s].frame = instances[s].frame
                   /\ instances'[s].time = instances[s].time
                   /\ epoch'[s] = epoch[s]
                \/ /\ instances'[s].frame = 0
                   /\ instances'[s].time = 0
                   /\ epoch'[s] = epoch[s] + 1
  <2> DEFINE t == handlers[h].s
             op == handlers[h].op
             new == Applied(instances[t], op)
  <2>1. t \in DOMAIN instances /\ op \in Op
    BY <1>4 DEF Apply, IInv, ThreadsKnow
  <2>2. /\ instances' = [instances EXCEPT ![t] = new]
        /\ IF op.kind = "UPLOAD" THEN epoch' = [epoch EXCEPT ![t] = @ + 1]
                                 ELSE epoch' = epoch
    BY <1>4 DEF Apply
  <2>3. instances[t] \in Instance
    BY <1>1, <2>1
  <2>4. IF op.kind = "UPLOAD"
          THEN new.frame = 0 /\ new.time = 0
          ELSE new.frame = instances[t].frame /\ new.time = instances[t].time
    BY <2>1, <2>3, AppliedClock
  <2> HIDE DEF t, op, new
  <2>5. QED BY <1>1, <2>1, <2>2, <2>4
<1>5. CASE SweepTick
  BY <1>1, <1>5 DEF SweepTick
<1>6. QED
  BY <1>2, <1>3, <1>4, <1>5
     DEF Next, PhysicsNext, TelemetryNext, Receive, SweepStart, SweepCheck,
         SweepEnd, Snapshot, CheckRunning, CheckLoaded, Populate, WriteOk,
         WriteFails, StreamSweepEnd, GoCrash, GoRestart, history, vars

\* The clock of a session advances only while the session plays, although the
\* sweep's check and the tick are separate critical sections.
THEOREM NoTickWhilePaused == Spec => TicksOnlyWhilePlaying
<1>1. IInv /\ [Next]_vars =>
        [\A s \in DOMAIN instances :
           instances'[s].frame > instances[s].frame => instances[s].running]_vars
  <2> SUFFICES ASSUME IInv, [Next]_vars, NEW s \in DOMAIN instances,
                      instances'[s].frame > instances[s].frame
               PROVE  instances[s].running
    OBVIOUS
  <2>1. instances[s] \in Instance
    BY InstancesType DEF IInv
  <2>2. instances[s].frame \in Nat
    BY <2>1 DEF Instance
  <2>3. instances'[s] = Tick(instances[s])
    BY <2>2, ClockSteps
  <2>4. QED BY <2>1, <2>2, <2>3, TickAdvances
<1>2. QED BY <1>1, IInvInit, IInvNext, PTL DEF Spec, TicksOnlyWhilePlaying

-----------------------------------------------------------------------------
(* Frames are streamed in order *)

NotLater(a, b) ==
  \/ a.epoch < b.epoch
  \/ a.epoch = b.epoch /\ a.frame <= b.frame /\ a.time <= b.time

Now(s) == [epoch |-> epoch[s], frame |-> instances[s].frame,
           time |-> instances[s].time]

\* The last frame written is no later than the one about to be written, which
\* is no later than the instance itself.
StreamBehind ==
  \A s \in Session :
    /\ s \notin DOMAIN instances => lastSent[s] = NoStamp
    /\ s \in DOMAIN instances => NotLater(lastSent[s], Now(s))
    /\ (telemetry.pc = "write" /\ telemetry.cur = s) =>
          NotLater(lastSent[s], telemetry.msg) /\ NotLater(telemetry.msg, Now(s))

LEMMA NotLaterOrder ==
  ASSUME NEW a \in Stamp, NEW b \in Stamp, NEW c \in Stamp
  PROVE  /\ NotLater(a, a)
         /\ NotLater(a, b) /\ NotLater(b, c) => NotLater(a, c)
BY DEF NotLater, Stamp

\* What is current can only become later.
LEMMA NowAdvances ==
  ASSUME IInv, [Next]_vars, NEW s \in DOMAIN instances
  PROVE  /\ Now(s) \in Stamp
         /\ Now(s)' \in Stamp
         /\ NotLater(Now(s), Now(s)')
<1>1. instances[s] \in Instance /\ epoch[s] \in Nat /\ s \in Session
  BY InstancesType DEF IInv, TypeOK
<1>2. TypeOK' /\ s \in DOMAIN instances'
  BY IInvNext, ClockSteps DEF IInv
<1>3. instances'[s] \in Instance /\ epoch'[s] \in Nat
  BY <1>1, <1>2 DEF TypeOK
<1>4. Now(s) \in Stamp /\ Now(s)' \in Stamp
  BY <1>1, <1>3 DEF Now, Stamp, Instance
<1>5. NotLater(Now(s), Now(s)')
  <2>1. Tick(instances[s]).frame >= instances[s].frame
        /\ Tick(instances[s]).time >= instances[s].time
    BY <1>1, TickAdvances
  <2>2. QED BY <1>1, <1>3, <2>1, ClockSteps DEF Now, NotLater, Instance
<1>6. QED BY <1>4, <1>5

LEMMA StreamBehindNext ==
  ASSUME IInv, StreamBehind, [Next]_vars
  PROVE  /\ StreamBehind'
         /\ \A s \in Session : NotLater(lastSent[s], lastSent'[s])
<1> DEFINE D == DOMAIN instances
<1>1. /\ D \subseteq Session
      /\ lastSent \in [Session -> Stamp]
      /\ telemetry.msg \in Stamp
      /\ telemetry.pc = "write" => telemetry.cur \in D
      /\ NoStamp \in Stamp
  BY InstancesType DEF IInv, TypeOK, ThreadsKnow, NoStamp, Stamp
<1>2. /\ TypeOK'
      /\ ThreadsKnow'
      /\ DOMAIN instances' \subseteq Session
      /\ instances' \in [DOMAIN instances' -> Instance]
  BY IInvNext DEF IInv, TypeOK
<1>3. ASSUME NEW s \in D
      PROVE  /\ s \in DOMAIN instances'
             /\ Now(s) \in Stamp /\ Now(s)' \in Stamp
             /\ NotLater(Now(s), Now(s)')
  BY <1>3, NowAdvances, ClockSteps
\* The instance a lookup creates starts where nothing was sent yet.
<1>4. ASSUME NEW s \in DOMAIN instances' \ D, lastSent'[s] = lastSent[s]
      PROVE  NotLater(lastSent'[s], Now(s)')
  <2>1. instances'[s] \in Instance /\ epoch'[s] \in Nat /\ s \in Session
    BY <1>2, <1>4 DEF TypeOK
  <2>2. lastSent[s] = NoStamp
    BY <1>4, <2>1 DEF StreamBehind
  <2>3. QED BY <2>1, <2>2, <1>4 DEF NotLater, Now, NoStamp, Instance
<1>5. CASE UNCHANGED lastSent /\ (telemetry'.pc = "write" => UNCHANGED telemetry)
  <2>1. ASSUME NEW s \in Session PROVE NotLater(lastSent[s], lastSent'[s])
    BY <1>1, <1>5, NotLaterOrder
  <2>2. ASSUME NEW s \in Session
        PROVE  /\ s \notin DOMAIN instances' => lastSent'[s] = NoStamp
               /\ s \in DOMAIN instances' => NotLater(lastSent'[s], Now(s)')
               /\ (telemetry'.pc = "write" /\ telemetry'.cur = s) =>
                     /\ NotLater(lastSent'[s], telemetry'.msg)
                     /\ NotLater(telemetry'.msg, Now(s)')
    <3>1. CASE s \in D
      <4>1. NotLater(lastSent[s], Now(s))
        BY <3>1, <1>1 DEF StreamBehind
      <4>2. NotLater(lastSent'[s], Now(s)')
        BY <4>1, <3>1, <1>1, <1>3, <1>5, NotLaterOrder
      <4>3. ASSUME telemetry'.pc = "write", telemetry'.cur = s
            PROVE  /\ NotLater(lastSent'[s], telemetry'.msg)
                   /\ NotLater(telemetry'.msg, Now(s)')
        <5>1. NotLater(lastSent[s], telemetry.msg) /\ NotLater(telemetry.msg, Now(s))
          BY <4>3, <1>5 DEF StreamBehind
        <5>2. QED BY <5>1, <3>1, <1>1, <1>3, <1>5, <4>3, NotLaterOrder
      <4>4. QED BY <3>1, <1>3, <4>2, <4>3
    <3>2. CASE s \notin D
      <4>1. lastSent[s] = NoStamp
        BY <3>2 DEF StreamBehind
      <4>2. ~(telemetry'.pc = "write" /\ telemetry'.cur = s)
        BY <3>2, <1>1, <1>5
      <4>3. QED BY <3>2, <4>1, <4>2, <1>4, <1>5
    <3>3. QED BY <3>1, <3>2
  <2>3. QED BY <2>1, <2>2 DEF StreamBehind
<1>6. CASE Populate
  <2> DEFINE c == telemetry.cur
  <2>1. /\ UNCHANGED <<instances, epoch, lastSent>>
        /\ telemetry' = TelemetryAt("write", telemetry.todo, c, Now(c))
        /\ c \in D /\ c \in Session
    BY <1>1, <1>6 DEF Populate, history, Now, IInv, ThreadsKnow
  <2>2. NotLater(lastSent[c], Now(c)) /\ NotLater(Now(c), Now(c)) /\ Now(c) \in Stamp
    BY <1>1, <1>3, <2>1, NotLaterOrder DEF StreamBehind
  <2>3. \A s \in Session : Now(s)' = Now(s) /\ NotLater(lastSent[s], lastSent'[s])
    BY <1>1, <2>1, NotLaterOrder DEF Now
  <2> HIDE DEF c
  <2>4. telemetry'.cur = c /\ telemetry'.msg = Now(c)
    BY <2>1 DEF TelemetryAt
  <2>5. QED BY <2>1, <2>2, <2>3, <2>4 DEF StreamBehind
<1>7. CASE WriteOk
  <2> DEFINE c == telemetry.cur
  <2>1. /\ UNCHANGED <<instances, epoch>>
        /\ lastSent' = [lastSent EXCEPT ![c] = telemetry.msg]
        /\ telemetry'.pc = "check"
        /\ telemetry.pc = "write"
        /\ c \in D /\ c \in Session
    BY <1>1, <1>7 DEF WriteOk, TelemetryAt
  <2>2. NotLater(lastSent[c], telemetry.msg) /\ NotLater(telemetry.msg, Now(c))
    BY <2>1 DEF StreamBehind
  <2>3. \A s \in Session : Now(s)' = Now(s)
    BY <2>1 DEF Now
  <2> HIDE DEF c
  <2>4. lastSent'[c] = telemetry.msg
        /\ \A s \in Session : s # c => lastSent'[s] = lastSent[s]
    BY <1>1, <2>1
  <2>5. QED BY <1>1, <2>1, <2>2, <2>3, <2>4, NotLaterOrder DEF StreamBehind
<1>8. CASE SweepTick \/ (\E h \in Handler : Receive(h) \/ Lookup(h) \/ Apply(h))
  BY <1>8, <1>5 DEF SweepTick, Receive, Lookup, Apply, history
<1>9. CASE Snapshot \/ CheckRunning \/ CheckLoaded \/ WriteFails \/ StreamSweepEnd
  BY <1>9, <1>5 DEF Snapshot, CheckRunning, CheckLoaded, WriteFails,
     StreamSweepEnd, TelemetryAt, history
<1>10. CASE SweepStart \/ SweepCheck \/ SweepEnd \/ GoCrash \/ GoRestart
            \/ UNCHANGED vars
  BY <1>10, <1>5 DEF SweepStart, SweepCheck, SweepEnd, GoCrash, GoRestart,
     history, vars
<1>11. QED
  BY <1>6, <1>7, <1>8, <1>9, <1>10 DEF Next, PhysicsNext, TelemetryNext

\* Neither a PAUSE, a speed change nor an upload between the moment a frame is
\* taken from an instance and the moment it is written makes the stream of that
\* session go back.
THEOREM StreamsInOrder == Spec => StreamInOrder
<1>1. Init => StreamBehind
  BY DEF Init, StreamBehind, TelemetryAt
<1>2. IInv /\ StreamBehind /\ [Next]_vars =>
        [\A s \in Session :
           LET old == lastSent[s]
               new == lastSent'[s]
           IN  \/ new.epoch > old.epoch
               \/ /\ new.epoch = old.epoch
                  /\ new.frame >= old.frame
                  /\ new.time >= old.time]_vars
  <2> SUFFICES ASSUME IInv, StreamBehind, [Next]_vars, NEW s \in Session
               PROVE  \/ lastSent'[s].epoch > lastSent[s].epoch
                      \/ /\ lastSent'[s].epoch = lastSent[s].epoch
                         /\ lastSent'[s].frame >= lastSent[s].frame
                         /\ lastSent'[s].time >= lastSent[s].time
    OBVIOUS
  <2>1. TypeOK /\ TypeOK'
    BY IInvNext DEF IInv
  <2>2. lastSent[s] \in Stamp /\ lastSent'[s] \in Stamp
    BY <2>1 DEF TypeOK
  <2>3. NotLater(lastSent[s], lastSent'[s])
    BY StreamBehindNext
  <2>4. QED BY <2>2, <2>3 DEF NotLater, Stamp
<1>3. QED
  BY <1>1, <1>2, IInvInit, IInvNext, StreamBehindNext, PTL DEF Spec, StreamInOrder
=============================================================================
