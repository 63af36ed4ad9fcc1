---------------------- MODULE SessionCacheManagerProofs ----------------------
(***************************************************************************)
(* For every ring capacity, every set of sessions and every set of frames: *)
(* the caches keep their types, the write position agrees with the frame   *)
(* counter, no history has a hole, and the rings implement FrameHistory.   *)
(***************************************************************************)
EXTENDS SessionCacheManager, SequenceTheorems, WellFoundedInduction, TLAPS

-----------------------------------------------------------------------------
(* Arithmetic of the wrap-around *)

LEMMA DivModFacts ==
  ASSUME NEW m \in Nat \ {0}, NEW t \in Nat
  PROVE  /\ t = m * (t \div m) + (t % m)
         /\ t \div m \in Nat
         /\ t % m \in 0 .. m - 1
BY SMTT(30)

LEMMA ModUnique ==
  ASSUME NEW m \in Nat \ {0}, NEW q \in Nat, NEW r \in 0 .. m - 1
  PROVE  (m * q + r) % m = r
BY SMTT(30)

LEMMA ModBelow ==
  ASSUME NEW m \in Nat \ {0}, NEW a \in 0 .. m - 1
  PROVE  a % m = a
BY SMTT(30)

LEMMA ModOnce ==
  ASSUME NEW m \in Nat \ {0}, NEW a \in m .. 2 * m - 1
  PROVE  a % m = a - m
BY SMTT(30)

LEMMA ModSuccessor ==
  ASSUME NEW m \in Nat \ {0}, NEW t \in Nat
  PROVE  ((t % m) + 1) % m = (t + 1) % m
<1> DEFINE q == t \div m
           r == t % m
<1>1. t = m * q + r /\ q \in Nat /\ r \in 0 .. m - 1
  BY DivModFacts
<1> HIDE DEF q, r
<1>2. CASE r = m - 1
  <2>1. t + 1 = m * (q + 1) + 0
    BY <1>1, <1>2
  <2>2. (m * (q + 1) + 0) % m = 0
    BY <1>1, ModUnique, q + 1 \in Nat, 0 \in 0 .. m - 1
  <2>3. (r + 1) % m = 0
    BY <1>1, <1>2, ModOnce
  <2>4. QED BY <2>1, <2>2, <2>3 DEF r
<1>3. CASE r # m - 1
  <2>1. t + 1 = m * q + (r + 1) /\ r + 1 \in 0 .. m - 1
    BY <1>1, <1>3
  <2>2. (t + 1) % m = r + 1
    BY <2>1, <1>1, ModUnique
  <2>3. (r + 1) % m = r + 1
    BY <2>1, ModBelow
  <2>4. QED BY <2>2, <2>3 DEF r
<1>4. QED BY <1>2, <1>3 DEF r

-----------------------------------------------------------------------------
(* One cache *)

LEMMA NewCacheGood ==
  NewSimulationCache \in Cache /\ RingConsistent(NewSimulationCache)
BY CacheAssumption, ModBelow
   DEF NewSimulationCache, Cache, Slot, RingConsistent

LEMMA PushKeepsType ==
  ASSUME NEW c \in Cache, NEW f \in Frame
  PROVE  /\ Push(c, f) \in Cache
         /\ Push(c, f).frames = [c.frames EXCEPT ![c.writeIndex] = f]
         /\ Push(c, f).writeIndex = (c.writeIndex + 1) % MaxSize
         /\ Push(c, f).totalFrames = c.totalFrames + 1
<1>1. (c.writeIndex + 1) % MaxSize \in Slot
  <2>1. c.writeIndex + 1 \in Nat
    BY CacheAssumption DEF Cache, Slot
  <2>2. QED BY <2>1, DivModFacts, CacheAssumption DEF Slot
<1>2. [c.frames EXCEPT ![c.writeIndex] = f] \in [Slot -> Frame \cup {NoFrame}]
  BY DEF Cache
<1>3. QED
  BY <1>1, <1>2 DEF Push, Cache

LEMMA PushKeepsConsistent ==
  ASSUME NEW c \in Cache, NEW f \in Frame, RingConsistent(c)
  PROVE  RingConsistent(Push(c, f))
<1> DEFINE d == Push(c, f)
<1>1. /\ d.frames = [c.frames EXCEPT ![c.writeIndex] = f]
      /\ d.writeIndex = (c.writeIndex + 1) % MaxSize
      /\ d.totalFrames = c.totalFrames + 1
  BY PushKeepsType
<1>2. c.totalFrames \in Nat /\ c.writeIndex \in Slot
      /\ c.frames \in [Slot -> Frame \cup {NoFrame}]
  BY DEF Cache
<1>3. d.writeIndex = d.totalFrames % MaxSize
  BY <1>1, <1>2, ModSuccessor, CacheAssumption DEF RingConsistent
<1>4. ASSUME NEW i \in Slot
      PROVE  d.frames[i] # NoFrame <=> i < d.totalFrames
  <2>1. CASE c.totalFrames < MaxSize
    <3>1. c.writeIndex = c.totalFrames
      BY <2>1, <1>2, ModBelow, CacheAssumption DEF RingConsistent
    <3>2. CASE i = c.writeIndex
      BY <3>1, <3>2, <1>1, <1>2, CacheAssumption
    <3>3. CASE i # c.writeIndex
      BY <3>1, <3>3, <1>1, <1>2 DEF RingConsistent, Slot
    <3>4. QED BY <3>2, <3>3
  <2>2. CASE ~(c.totalFrames < MaxSize)
    <3>1. c.frames[i] # NoFrame
      BY <2>2, <1>2, CacheAssumption DEF RingConsistent, Slot
    <3>2. d.frames[i] # NoFrame
      BY <3>1, <1>1, <1>2, CacheAssumption
    <3>3. QED
      BY <3>2, <2>2, <1>1, <1>2, CacheAssumption DEF Slot
  <2>3. QED BY <2>1, <2>2
<1>5. QED BY <1>3, <1>4 DEF RingConsistent

\* Every slot of the window of a consistent ring holds a frame.
LEMMA WindowHoldsFrames ==
  ASSUME NEW c \in Cache, RingConsistent(c), NEW i \in 1 .. HistoryCount(c)
  PROVE  /\ HistoryCount(c) \in Nat
         /\ (StartIdx(c) + i - 1) % MaxSize \in Slot
         /\ Window(c)[i] \in Frame
<1> DEFINE k == (StartIdx(c) + i - 1) % MaxSize
<1>1. /\ c.totalFrames \in Nat
      /\ c.writeIndex \in Slot
      /\ c.frames \in [Slot -> Frame \cup {NoFrame}]
      /\ HistoryCount(c) \in Nat
  BY CacheAssumption DEF Cache, HistoryCount
<1>2. StartIdx(c) + i - 1 \in Nat
  BY <1>1, CacheAssumption DEF StartIdx, Slot
<1>3. k \in Slot
  BY <1>2, DivModFacts, CacheAssumption DEF Slot
<1>4. k < c.totalFrames
  <2>1. CASE c.totalFrames < MaxSize
    <3>1. StartIdx(c) + i - 1 = i - 1 /\ i - 1 \in 0 .. MaxSize - 1
      BY <2>1, <1>1, CacheAssumption DEF StartIdx, HistoryCount
    <3>2. k = i - 1
      BY <3>1, ModBelow, CacheAssumption
    <3>3. QED BY <3>2, <2>1, <1>1 DEF HistoryCount
  <2>2. CASE ~(c.totalFrames < MaxSize)
    BY <2>2, <1>1, <1>3, CacheAssumption DEF Slot
  <2>3. QED BY <2>1, <2>2
<1>5. c.frames[k] # NoFrame
  BY <1>3, <1>4 DEF RingConsistent
<1>6. Window(c)[i] = c.frames[k]
  BY DEF Window
<1>7. QED BY <1>1, <1>3, <1>5, <1>6

\* A window is a sequence of frames.
LEMMA WindowIsSeq ==
  ASSUME NEW c \in Cache, RingConsistent(c)
  PROVE  /\ Window(c) \in Seq(Frame)
         /\ Len(Window(c)) = HistoryCount(c)
<1>1. HistoryCount(c) \in Nat
  BY CacheAssumption DEF HistoryCount, Cache
<1>2. Window(c) \in [1 .. HistoryCount(c) -> Frame]
  BY WindowHoldsFrames DEF Window
<1>3. Window(c) \in Seq(Frame)
  BY <1>1, <1>2, SeqDef
<1>4. QED
  BY <1>1, <1>2, <1>3, LenProperties

\* An empty ring has an empty history.
LEMMA WindowOfNew == Window(NewSimulationCache) = << >>
<1>1. HistoryCount(NewSimulationCache) = 0
  BY CacheAssumption DEF HistoryCount, NewSimulationCache
<1>2. Window(NewSimulationCache) \in Seq(Frame)
      /\ Len(Window(NewSimulationCache)) = 0
  BY <1>1, NewCacheGood, WindowIsSeq
<1>3. QED BY <1>2, EmptySeq

\* Where the i-th frame of a consistent ring's window is stored.
LEMMA WindowSlot ==
  ASSUME NEW c \in Cache, RingConsistent(c), NEW i \in 1 .. HistoryCount(c)
  PROVE  Window(c)[i] = c.frames[IF c.totalFrames < MaxSize THEN i - 1
                                 ELSE IF c.writeIndex + i - 1 < MaxSize
                                      THEN c.writeIndex + i - 1
                                      ELSE c.writeIndex + i - 1 - MaxSize]
<1>1. c.totalFrames \in Nat /\ c.writeIndex \in Slot /\ MaxSize \in Nat \ {0}
  BY CacheAssumption DEF Cache
<1>2. Window(c)[i] = c.frames[(StartIdx(c) + i - 1) % MaxSize]
  BY DEF Window
<1>3. CASE c.totalFrames < MaxSize
  <2>1. StartIdx(c) + i - 1 = i - 1 /\ i - 1 \in 0 .. MaxSize - 1
    BY <1>3, <1>1 DEF StartIdx, HistoryCount
  <2>2. QED BY <1>2, <1>3, <2>1, ModBelow, <1>1
<1>4. CASE ~(c.totalFrames < MaxSize)
  <2>1. StartIdx(c) = c.writeIndex /\ i \in 1 .. MaxSize
    BY <1>4, <1>1 DEF StartIdx, HistoryCount
  <2>2. CASE c.writeIndex + i - 1 < MaxSize
    <3>1. c.writeIndex + i - 1 \in 0 .. MaxSize - 1
      BY <2>1, <2>2, <1>1 DEF Slot
    <3>2. QED BY <3>1, <2>1, <2>2, <1>1, <1>2, <1>4, ModBelow
  <2>3. CASE ~(c.writeIndex + i - 1 < MaxSize)
    <3>1. c.writeIndex + i - 1 \in MaxSize .. 2 * MaxSize - 1
      BY <2>1, <2>3, <1>1 DEF Slot
    <3>2. (c.writeIndex + i - 1) % MaxSize = c.writeIndex + i - 1 - MaxSize
      <4> DEFINE a == c.writeIndex + i - 1
      <4>1. a \in MaxSize .. 2 * MaxSize - 1
        BY <3>1
      <4> HIDE DEF a
      <4>2. a % MaxSize = a - MaxSize
        BY <4>1, <1>1, ModOnce
      <4>3. a - MaxSize = c.writeIndex + i - 1 - MaxSize
        BY <2>1, <1>1 DEF a, Slot
      <4>4. QED BY <4>2, <4>3 DEF a
    <3>3. QED BY <3>2, <2>1, <2>3, <1>2, <1>4
  <2>4. QED BY <2>2, <2>3
<1>5. QED BY <1>3, <1>4

\* A push appends to the history; a full ring drops its oldest frame for it.
LEMMA WindowPush ==
  ASSUME NEW c \in Cache, RingConsistent(c), NEW f \in Frame
  PROVE  Window(Push(c, f)) = IF Len(Window(c)) < MaxSize
                                THEN Append(Window(c), f)
                                ELSE Append(Tail(Window(c)), f)
<1> DEFINE d == Push(c, f)
           W == Window(c)
<1>1. /\ d \in Cache
      /\ d.frames = [c.frames EXCEPT ![c.writeIndex] = f]
      /\ d.writeIndex = (c.writeIndex + 1) % MaxSize
      /\ d.totalFrames = c.totalFrames + 1
      /\ RingConsistent(d)
  BY PushKeepsType, PushKeepsConsistent
<1> HIDE DEF d, W
<1>2. /\ c.totalFrames \in Nat
      /\ c.writeIndex \in Slot
      /\ c.frames \in [Slot -> Frame \cup {NoFrame}]
      /\ MaxSize \in Nat \ {0}
  BY CacheAssumption DEF Cache
<1>3. W \in Seq(Frame) /\ Len(W) = HistoryCount(c)
  BY WindowIsSeq DEF W
<1>4. Window(d) \in Seq(Frame) /\ Len(Window(d)) = HistoryCount(d)
  BY <1>1, WindowIsSeq
<1>5. CASE c.totalFrames < MaxSize
  <2>1. HistoryCount(c) = c.totalFrames /\ HistoryCount(d) = c.totalFrames + 1
    BY <1>1, <1>2, <1>5 DEF HistoryCount
  <2>2. c.writeIndex = c.totalFrames
    BY <1>5, <1>2, ModBelow DEF RingConsistent
  <2>3. /\ Append(W, f) \in Seq(Frame)
        /\ Len(Append(W, f)) = c.totalFrames + 1
        /\ \A i \in 1 .. c.totalFrames : Append(W, f)[i] = W[i]
        /\ Append(W, f)[c.totalFrames + 1] = f
    BY <1>3, <2>1, AppendProperties
  <2>4. ASSUME NEW i \in 1 .. c.totalFrames + 1
        PROVE  Window(d)[i] = d.frames[i - 1]
    <3>1. CASE d.totalFrames < MaxSize
      BY <3>1, <1>1, <2>1, WindowSlot
    <3>2. CASE d.totalFrames = MaxSize
      <4>1. d.writeIndex = 0
        BY <3>2, <1>1, <1>2, <2>2, ModOnce
      <4>2. i \in 1 .. HistoryCount(d) /\ ~(d.totalFrames < MaxSize)
        BY <3>2, <2>1, <1>2
      <4>3. Window(d)[i] = d.frames[IF d.writeIndex + i - 1 < MaxSize
                                      THEN d.writeIndex + i - 1
                                      ELSE d.writeIndex + i - 1 - MaxSize]
        BY <4>2, <1>1, WindowSlot
      <4>4. d.writeIndex + i - 1 = i - 1 /\ i - 1 < MaxSize
        BY <4>1, <3>2, <1>1, <1>2
      <4>5. QED BY <4>3, <4>4
    <3>3. QED BY <3>1, <3>2, <1>1, <1>2, <1>5
  <2>5. ASSUME NEW i \in 1 .. c.totalFrames + 1
        PROVE  Window(d)[i] = Append(W, f)[i]
    <3>1. CASE i = c.totalFrames + 1
      BY <3>1, <2>2, <2>3, <2>4, <1>1, <1>2
    <3>2. CASE i # c.totalFrames + 1
      <4>1. i \in 1 .. c.totalFrames /\ i - 1 \in Slot /\ i - 1 # c.writeIndex
        BY <3>2, <2>2, <1>2, <1>5 DEF Slot
      <4>2. d.frames[i - 1] = c.frames[i - 1]
        BY <4>1, <1>1, <1>2
      <4>3. W[i] = c.frames[i - 1]
        BY <4>1, <2>1, <1>5, WindowSlot DEF W
      <4>4. QED BY <4>1, <4>2, <4>3, <2>3, <2>4
    <3>3. QED BY <3>1, <3>2
  <2>6. Window(d) = Append(W, f)
    BY <1>4, <2>1, <2>3, <2>5, SeqEqual
  <2>7. QED BY <2>6, <1>3, <2>1, <1>5 DEF d, W
<1>6. CASE ~(c.totalFrames < MaxSize)
  <2>1. HistoryCount(c) = MaxSize /\ HistoryCount(d) = MaxSize
    BY <1>1, <1>2, <1>6 DEF HistoryCount
  <2>2. /\ Tail(W) \in Seq(Frame)
        /\ Len(Tail(W)) = MaxSize - 1
        /\ \A i \in 1 .. MaxSize - 1 : Tail(W)[i] = W[i + 1]
    BY <1>2, <1>3, <2>1, EmptySeq, HeadTailProperties
  <2>3. /\ Append(Tail(W), f) \in Seq(Frame)
        /\ Len(Append(Tail(W), f)) = MaxSize
        /\ \A i \in 1 .. MaxSize - 1 : Append(Tail(W), f)[i] = W[i + 1]
        /\ Append(Tail(W), f)[MaxSize] = f
    BY <1>2, <2>2, AppendProperties
  <2>4. d.writeIndex = IF c.writeIndex + 1 < MaxSize THEN c.writeIndex + 1 ELSE 0
    <3>1. CASE c.writeIndex + 1 < MaxSize
      BY <3>1, <1>1, <1>2, ModBelow DEF Slot
    <3>2. CASE ~(c.writeIndex + 1 < MaxSize)
      <4>1. c.writeIndex + 1 = MaxSize
        BY <3>2, <1>2 DEF Slot
      <4>2. QED BY <4>1, <1>1, <1>2, ModOnce
    <3>3. QED BY <3>1, <3>2
  <2>5. ASSUME NEW i \in 1 .. MaxSize
        PROVE  Window(d)[i] = Append(Tail(W), f)[i]
    <3>1. Window(d)[i] = d.frames[IF d.writeIndex + i - 1 < MaxSize
                                    THEN d.writeIndex + i - 1
                                    ELSE d.writeIndex + i - 1 - MaxSize]
      <4>1. i \in 1 .. HistoryCount(d) /\ ~(d.totalFrames < MaxSize)
        BY <2>1, <1>1, <1>2, <1>6
      <4>2. QED BY <4>1, <1>1, WindowSlot
    <3>2. CASE i = MaxSize
      <4>1. Window(d)[i] = d.frames[c.writeIndex]
        BY <3>1, <3>2, <2>4, <1>2 DEF Slot
      <4>2. QED BY <4>1, <3>2, <2>3, <1>1, <1>2
    <3>3. CASE i # MaxSize
      <4> DEFINE k == IF c.writeIndex + i < MaxSize THEN c.writeIndex + i
                                                    ELSE c.writeIndex + i - MaxSize
      <4>1. i + 1 \in 1 .. MaxSize /\ i \in 1 .. MaxSize - 1
        BY <3>3, <1>2
      <4>2. W[i + 1] = c.frames[k]
        <5>1. W[i + 1] = c.frames[IF c.writeIndex + (i + 1) - 1 < MaxSize
                                    THEN c.writeIndex + (i + 1) - 1
                                    ELSE c.writeIndex + (i + 1) - 1 - MaxSize]
          BY <4>1, <2>1, <1>6, WindowSlot DEF W
        <5>2. c.writeIndex + (i + 1) - 1 = c.writeIndex + i
          BY <1>2 DEF Slot
        <5>3. QED BY <5>1, <5>2
      <4>3. k \in Slot /\ k # c.writeIndex
        BY <4>1, <1>2 DEF Slot
      <4>6. Window(d)[i] = d.frames[k]
        <5>1. CASE c.writeIndex + 1 < MaxSize
          <6>1. d.writeIndex + i - 1 = c.writeIndex + i
            BY <5>1, <2>4, <4>1, <1>2 DEF Slot
          <6>2. d.writeIndex + i - 1 < MaxSize <=> c.writeIndex + i < MaxSize
            BY <6>1
          <6>3. CASE c.writeIndex + i < MaxSize
            <7>1. k = d.writeIndex + i - 1
              BY <6>1, <6>3
            <7>2. QED BY <3>1, <6>2, <6>3, <7>1
          <6>4. CASE ~(c.writeIndex + i < MaxSize)
            <7>1. k = d.writeIndex + i - 1 - MaxSize
              <8>1. /\ c.writeIndex \in Int
                    /\ d.writeIndex \in Int
                    /\ MaxSize \in Int
                BY <5>1, <2>4, <1>2 DEF Slot
              <8>2. QED BY <8>1, <6>1, <6>4
            <7>2. QED BY <3>1, <6>2, <6>4, <7>1
          <6>5. QED BY <6>3, <6>4
        <5>2. CASE ~(c.writeIndex + 1 < MaxSize)
          <6>1. d.writeIndex = 0 /\ c.writeIndex = MaxSize - 1
            BY <5>2, <2>4, <1>2 DEF Slot
          <6>2. d.writeIndex + i - 1 = i - 1 /\ i - 1 < MaxSize
            BY <6>1, <4>1, <1>2
          <6>3. k = i - 1
            BY <6>1, <4>1, <1>2
          <6>4. QED BY <3>1, <6>2, <6>3
        <5>3. QED BY <5>1, <5>2
      <4>4. d.frames[k] = c.frames[k]
        BY <4>3, <1>1, <1>2
      <4>5. QED BY <4>1, <4>2, <4>6, <4>4, <2>3
    <3>4. QED BY <3>2, <3>3
  <2>6. Window(d) = Append(Tail(W), f)
    BY <1>4, <2>1, <2>3, <2>5, SeqEqual
  <2>7. QED BY <2>6, <1>3, <2>1, <1>2 DEF d, W
<1>7. QED BY <1>5, <1>6

-----------------------------------------------------------------------------
(* The loop of GetHistory *)

\* Induction over the naturals, for a set instead of a predicate.
LEMMA NatSetInduction ==
  ASSUME NEW S, 0 \in S, \A n \in Nat : n \in S => n + 1 \in S
  PROVE  Nat \subseteq S
<1> DEFINE B == Nat \ S
<1> SUFFICES ASSUME B # {} PROVE FALSE
  OBVIOUS
<1>1. PICK n \in B : \A m \in B : ~(<<m, n>> \in OpToRel(<, Nat))
  <2> HIDE DEF B
  <2>1. B \subseteq Nat
    BY DEF B
  <2>2. QED BY <2>1, NatLessThanWellFounded, WFMin
<1>2. n - 1 \in Nat /\ n \in Nat /\ n \notin S
  OBVIOUS
<1>3. <<n - 1, n>> \in OpToRel(<, Nat)
  BY <1>2 DEF OpToRel
<1>4. n - 1 \in S
  BY <1>1, <1>2, <1>3
<1>5. QED BY <1>2, <1>4

\* A consistent ring has no nil slot to skip, so the loop returns the window.
LEMMA HistoryIsWindow ==
  ASSUME NEW c \in Cache, RingConsistent(c)
  PROVE  GetHistory(c) = Window(c)
<1> DEFINE W == Window(c)
           k == HistoryCount(c)
           Loop(g) == [n \in 0 .. k |->
                         IF n = 0 THEN << >>
                         ELSE IF W[n] = NoFrame THEN g[n - 1]
                         ELSE Append(g[n - 1], W[n])]
           Prefix(n) == [i \in 1 .. n |-> W[i]]
           h == [n \in 0 .. k |-> Prefix(n)]
<1>1. /\ W \in Seq(Frame) /\ Len(W) = k /\ k \in Nat
      /\ \A n \in 1 .. k : W[n] \in Frame /\ W[n] # NoFrame
  BY WindowIsSeq, WindowHoldsFrames, CacheAssumption DEF HistoryCount, Cache
<1>2. GetHistory(c) = (CHOOSE g : g = Loop(g))[k]
  BY DEF GetHistory
<1> HIDE DEF W, k
<1>3. Prefix(0) = << >>
  <2>1. 1 .. 0 = {}
    OBVIOUS
  <2>2. Prefix(0) \in Seq(Frame) /\ Len(Prefix(0)) = 0
    BY <2>1
  <2>3. QED BY <2>2, EmptySeq
<1>p. ASSUME NEW m \in 0 .. k
      PROVE  Prefix(m) \in Seq(Frame) /\ Len(Prefix(m)) = m
  <2>1. m \in Nat /\ \A i \in 1 .. m : W[i] \in Frame
    BY <1>1
  <2>2. Prefix(m) \in [1 .. m -> Frame]
    BY <2>1
  <2> HIDE DEF Prefix
  <2>3. Prefix(m) \in Seq(Frame)
    BY <2>1, <2>2, SeqDef
  <2>4. QED BY <2>1, <2>2, <2>3, LenProperties
<1>4. ASSUME NEW n \in 1 .. k
      PROVE  Append(Prefix(n - 1), W[n]) = Prefix(n)
  <2>1. /\ n - 1 \in Nat /\ n \in Nat
        /\ \A i \in 1 .. n - 1 : W[i] \in Frame
        /\ \A i \in 1 .. n : W[i] \in Frame
    BY <1>1, <1>4
  <2>2. /\ Prefix(n - 1) \in Seq(Frame) /\ Len(Prefix(n - 1)) = n - 1
        /\ Prefix(n) \in Seq(Frame) /\ Len(Prefix(n)) = n
    <3>1. n \in 0 .. k /\ n - 1 \in 0 .. k
      BY <1>1
    <3> HIDE DEF Prefix
    <3>2. QED BY <3>1, <1>p
  <2>3. /\ Append(Prefix(n - 1), W[n]) \in Seq(Frame)
        /\ Len(Append(Prefix(n - 1), W[n])) = n
        /\ \A i \in 1 .. n - 1 : Append(Prefix(n - 1), W[n])[i] = Prefix(n - 1)[i]
        /\ Append(Prefix(n - 1), W[n])[n] = W[n]
    <3> HIDE DEF Prefix
    <3>1. QED BY <1>1, <2>1, <2>2, AppendProperties
  <2>4. \A i \in 1 .. n : Append(Prefix(n - 1), W[n])[i] = Prefix(n)[i]
    BY <2>1, <2>3
  <2> HIDE DEF Prefix
  <2>5. QED BY <2>2, <2>3, <2>4, SeqEqual
<1>5. h = Loop(h)
  <2>1. ASSUME NEW n \in 0 .. k PROVE h[n] = Loop(h)[n]
    <3>1. CASE n = 0
      BY <1>3, <3>1
    <3>2. CASE n # 0
      <4>1. n \in 1 .. k /\ n - 1 \in 0 .. k
        BY <1>1, <3>2
      <4>2. Prefix(n) = Append(Prefix(n - 1), W[n]) /\ W[n] # NoFrame
        BY <1>1, <1>4, <4>1
      <4> HIDE DEF Prefix
      <4>3. QED BY <3>2, <4>1, <4>2
    <3>3. QED BY <3>1, <3>2
  <2>2. h = [n \in 0 .. k |-> h[n]] /\ Loop(h) = [n \in 0 .. k |-> Loop(h)[n]]
    OBVIOUS
  <2> HIDE DEF h, Loop
  <2>3. QED BY <2>1, <2>2
<1>6. ASSUME NEW g, g = Loop(g)
      PROVE  g[k] = W
  <2> DEFINE S == {n \in Nat : n <= k => g[n] = Prefix(n)}
  <2> HIDE DEF Prefix
  <2>1. 0 \in S
    BY <1>1, <1>3, <1>6
  <2>2. ASSUME NEW n \in Nat, n \in S PROVE n + 1 \in S
    <3> SUFFICES ASSUME n + 1 <= k PROVE g[n + 1] = Prefix(n + 1)
      OBVIOUS
    <3>1. n + 1 \in 1 .. k /\ n + 1 \in 0 .. k /\ n + 1 # 0 /\ (n + 1) - 1 = n
          /\ n <= k
      BY <1>1
    <3>2. W[n + 1] # NoFrame /\ g[n] = Prefix(n)
      BY <1>1, <2>2, <3>1
    <3>3. g[n + 1] = Append(g[n], W[n + 1])
      BY <1>6, <3>1, <3>2
    <3>4. QED BY <1>4, <3>1, <3>2, <3>3
  <2>3. Nat \subseteq S
    <3> HIDE DEF S
    <3>1. QED BY <2>1, <2>2, NatSetInduction
  <2>4. g[k] = Prefix(k)
    BY <1>1, <2>3
  <2>5. Prefix(k) = W
    BY <1>1 DEF Prefix
  <2>6. QED BY <2>4, <2>5
<1> HIDE DEF Loop
<1>7. (CHOOSE g : g = Loop(g))[k] = W
  BY <1>5, <1>6
<1>8. QED BY <1>2, <1>7 DEF W

LEMMA HistoryOfNew == GetHistory(NewSimulationCache) = << >>
BY NewCacheGood, HistoryIsWindow, WindowOfNew

\* A push appends to what GetHistory returns; a full ring drops its oldest
\* frame for it.
LEMMA HistoryPush ==
  ASSUME NEW c \in Cache, RingConsistent(c), NEW f \in Frame
  PROVE  GetHistory(Push(c, f)) = IF Len(GetHistory(c)) < MaxSize
                                    THEN Append(GetHistory(c), f)
                                    ELSE Append(Tail(GetHistory(c)), f)
<1>1. Push(c, f) \in Cache /\ RingConsistent(Push(c, f))
  BY PushKeepsType, PushKeepsConsistent
<1>2. GetHistory(Push(c, f)) = Window(Push(c, f)) /\ GetHistory(c) = Window(c)
  BY <1>1, HistoryIsWindow
<1>3. QED BY <1>2, WindowPush

-----------------------------------------------------------------------------
(* The map of caches *)

\* A step of one session adds at most that session to the map, gives it a
\* well-typed consistent ring, and leaves every other ring as it was.
LEMMA GetOrCreateKeeps ==
  ASSUME TypeOK, CachesConsistent, NEW s \in Session
  PROVE  /\ DOMAIN GetOrCreate(s) = DOMAIN caches \cup {s}
         /\ DOMAIN caches \subseteq Session
         /\ \A t \in DOMAIN GetOrCreate(s) :
              /\ GetOrCreate(s)[t] = IF t \in DOMAIN caches
                                       THEN caches[t] ELSE NewSimulationCache
              /\ GetOrCreate(s)[t] \in Cache
              /\ RingConsistent(GetOrCreate(s)[t])
BY NewCacheGood DEF GetOrCreate, TypeOK, CachesConsistent

LEMMA InvInit == Init => TypeOK /\ CachesConsistent
<1> SUFFICES ASSUME Init PROVE TypeOK /\ CachesConsistent
  OBVIOUS
<1>1. DOMAIN caches = {} /\ caches \in [{} -> Cache]
  BY DEF Init
<1>2. QED BY <1>1 DEF TypeOK, CachesConsistent

LEMMA InvNext ==
  TypeOK /\ CachesConsistent /\ [Next]_caches => (TypeOK /\ CachesConsistent)'
<1> SUFFICES ASSUME TypeOK, CachesConsistent, [Next]_caches
             PROVE  (TypeOK /\ CachesConsistent)'
  OBVIOUS
<1>1. ASSUME NEW s \in Session, Connect(s)
      PROVE  (TypeOK /\ CachesConsistent)'
  BY <1>1, GetOrCreateKeeps DEF Connect, TypeOK, CachesConsistent, GetOrCreate
<1>2. ASSUME NEW s \in Session, ResetCache(s)
      PROVE  (TypeOK /\ CachesConsistent)'
  BY <1>2, NewCacheGood DEF ResetCache, Reset, TypeOK, CachesConsistent
<1>3. ASSUME NEW s \in Session, NEW f \in Frame, StreamPush(s, f)
      PROVE  (TypeOK /\ CachesConsistent)'
  <2> DEFINE g == GetOrCreate(s)
  <2>1. /\ g \in [DOMAIN caches \cup {s} -> Cache]
        /\ DOMAIN caches \subseteq Session
        /\ \A t \in DOMAIN g : RingConsistent(g[t])
    BY GetOrCreateKeeps DEF GetOrCreate
  <2>2. Push(g[s], f) \in Cache /\ RingConsistent(Push(g[s], f))
    BY <2>1, PushKeepsType, PushKeepsConsistent
  <2>3. caches' = [g EXCEPT ![s] = Push(g[s], f)]
    BY <1>3 DEF StreamPush
  <2> HIDE DEF g
  <2>4. caches' \in [DOMAIN caches \cup {s} -> Cache]
    BY <2>1, <2>2, <2>3
  <2>5. \A t \in DOMAIN caches' : RingConsistent(caches'[t])
    BY <2>1, <2>2, <2>3
  <2>6. QED BY <2>1, <2>4, <2>5 DEF TypeOK, CachesConsistent
<1>4. CASE UNCHANGED caches
  BY <1>4 DEF TypeOK, CachesConsistent
<1>5. QED BY <1>1, <1>2, <1>3, <1>4 DEF Next

\* Every ring has its type in every reachable state.
THEOREM TypeCorrect == Spec => []TypeOK
BY InvInit, InvNext, PTL DEF Spec

\* In every reachable state each ring's write position and its filled slots
\* agree with its frame counter.
THEOREM RingsConsistent == Spec => []CachesConsistent
BY InvInit, InvNext, PTL DEF Spec

\* No history request ever meets an empty slot.
THEOREM NoHoles == Spec => []HistoryHasNoHoles
<1>1. TypeOK /\ CachesConsistent => HistoryHasNoHoles
  BY WindowHoldsFrames DEF TypeOK, CachesConsistent, HistoryHasNoHoles
<1>2. QED BY <1>1, InvInit, InvNext, PTL DEF Spec

-----------------------------------------------------------------------------
(* Refinement of FrameHistory *)

LEMMA RefinesInit == Init => FH!Init
BY DEF Init, FH!Init, HistoryView

LEMMA RefinesNext ==
  TypeOK /\ CachesConsistent /\ [Next]_caches => [FH!Next]_HistoryView
<1> SUFFICES ASSUME TypeOK, CachesConsistent, [Next]_caches
             PROVE  [FH!Next]_HistoryView
  OBVIOUS
<1> DEFINE View(m, t) == IF t \in DOMAIN m THEN GetHistory(m[t]) ELSE << >>
<1>v. /\ HistoryView = [t \in Session |-> View(caches, t)]
      /\ HistoryView' = [t \in Session |-> View(caches', t)]
  BY DEF HistoryView
<1>1. ASSUME NEW s \in Session, Connect(s)
      PROVE  HistoryView' = HistoryView
  <2>1. \A t \in Session : View(caches', t) = View(caches, t)
    BY <1>1, GetOrCreateKeeps, HistoryOfNew DEF Connect
  <2>2. QED BY <2>1, <1>v
<1>2. ASSUME NEW s \in Session, ResetCache(s)
      PROVE  FH!Wipe(s)
  <2>1. \A t \in Session :
          View(caches', t) = IF t = s THEN << >> ELSE View(caches, t)
    BY <1>2, HistoryOfNew DEF ResetCache, Reset, TypeOK
  <2> HIDE DEF View
  <2>2. HistoryView' = [HistoryView EXCEPT ![s] = << >>]
    BY <2>1, <1>v
  <2>3. QED BY <2>2 DEF FH!Wipe
<1>3. ASSUME NEW s \in Session, NEW f \in Frame, StreamPush(s, f)
      PROVE  FH!Record(s, f)
  <2> DEFINE g == GetOrCreate(s)
             W == View(caches, s)
  <2>1. /\ DOMAIN g = DOMAIN caches \cup {s}
        /\ g[s] \in Cache
        /\ RingConsistent(g[s])
        /\ W = GetHistory(g[s])
        /\ \A t \in DOMAIN g : t # s => t \in DOMAIN caches /\ g[t] = caches[t]
    <3>1. /\ DOMAIN g = DOMAIN caches \cup {s}
          /\ \A t \in DOMAIN g :
               /\ g[t] = IF t \in DOMAIN caches THEN caches[t]
                                                ELSE NewSimulationCache
               /\ g[t] \in Cache
               /\ RingConsistent(g[t])
      BY GetOrCreateKeeps
    <3> HIDE DEF g
    <3>2. W = GetHistory(g[s])
      BY <3>1, HistoryOfNew
    <3>3. QED BY <3>1, <3>2
  <2>2. caches' = [g EXCEPT ![s] = Push(g[s], f)]
    BY <1>3 DEF StreamPush
  <2> HIDE DEF g, W
  <2>3. View(caches', s) = GetHistory(Push(g[s], f))
    BY <2>1, <2>2
  <2>4. View(caches', s) = IF Len(W) < MaxSize THEN Append(W, f)
                                               ELSE Append(Tail(W), f)
    BY <2>1, <2>3, HistoryPush
  <2>5. \A t \in Session : t # s => View(caches', t) = View(caches, t)
    BY <2>1, <2>2
  <2> HIDE DEF View
  <2>6. HistoryView[s] = W
    BY <1>v DEF W
  <2>7. HistoryView' = [HistoryView EXCEPT ![s] =
                          IF Len(W) < MaxSize THEN Append(W, f)
                                              ELSE Append(Tail(W), f)]
    BY <1>v, <2>4, <2>5
  <2>8. QED BY <2>6, <2>7 DEF FH!Record
<1>4. CASE UNCHANGED caches
  BY <1>4 DEF HistoryView
<1>5. QED BY <1>1, <1>2, <1>3, <1>4 DEF Next, FH!Next

\* The rings of all sessions together behave as FrameHistory: each history is
\* the last MaxSize frames its session received since its last wipe, in order.
THEOREM Refinement == Spec => ImplementsFrameHistory
BY InvInit, InvNext, RefinesInit, RefinesNext, PTL
   DEF Spec, ImplementsFrameHistory, FH!Spec
=============================================================================
