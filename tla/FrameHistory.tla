---------------------------- MODULE FrameHistory ----------------------------
(***************************************************************************)
(* What the history cache of the Go server promises to the time-travel     *)
(* slider: for every session, the last MaxSize frames received since the   *)
(* session's timeline was last wiped, oldest first.  It knows nothing of   *)
(* slots, indices or counters; SessionCacheManager implements it.          *)
(***************************************************************************)
EXTENDS Naturals, Sequences

CONSTANTS Session, Frame, MaxSize

VARIABLE history   \* history[s]: the frames a history request would return

TypeOK == history \in [Session -> Seq(Frame)]

Init == history = [s \in Session |-> <<>>]

\* A frame is added at the end; a full history forgets its oldest frame.
Record(s, f) ==
  history' = [history EXCEPT ![s] =
                IF Len(@) < MaxSize THEN Append(@, f) ELSE Append(Tail(@), f)]

\* A new simulation run starts with a clean timeline.
Wipe(s) == history' = [history EXCEPT ![s] = <<>>]

Next == \E s \in Session : Wipe(s) \/ \E f \in Frame : Record(s, f)

Spec == Init /\ [][Next]_history
=============================================================================
