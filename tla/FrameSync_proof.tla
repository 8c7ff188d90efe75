--------------------------- MODULE FrameSync_proof ----------------------------
(***************************************************************************)
(* For every list of layers, period and width of the clock: FrameSync      *)
(* keeps its types, closes each fence once, sends nothing unfinished that  *)
(* it has not waited for, and stops its callbacks.                         *)
(***************************************************************************)
EXTENDS FrameSync, WellFoundedInduction, TLAPS

-------------------------------------------------------------------------------
(* Arithmetic.                                                             *)

\* Division with remainder.
LEMMA Division ==
  ASSUME NEW a \in Int, NEW n \in Int, n > 0
  PROVE  /\ a \div n \in Int
         /\ a % n \in 0..(n - 1)
         /\ a = n * (a \div n) + (a % n)
<1>1. a \div n \in Int
  BY SMT
<1>2. a % n \in 0..(n - 1)
  BY SMT
<1>3. a = n * (a \div n) + (a % n)
  BY SMT
<1> QED BY <1>1, <1>2, <1>3

\* A number below n is its own remainder, and so is one n above it.
LEMMA SmallRemainder ==
  ASSUME NEW n \in Nat \ {0}, NEW a \in 0..(n - 1)
  PROVE  a % n = a /\ (a + n) % n = a /\ (a - n) % n = a
  BY Z3

\* A multiple leaves no remainder.
LEMMA MultipleRemainder ==
  ASSUME NEW n \in Int, n > 0, NEW k \in Int
  PROVE  (n * k) % n = 0
<1> DEFINE b == n * k
           m == k - (b \div n)
<1>1. b \in Int
  OBVIOUS
<1>2. b \div n \in Int /\ b % n \in 0..(n - 1) /\ b = n * (b \div n) + (b % n)
  <2> HIDE DEF b
  <2> QED BY <1>1, Division
<1>3. m \in Int /\ n * m = n * k - n * (b \div n) /\ n * k \in Int /\ n * (b \div n) \in Int
  BY <1>2
<1>4. b % n = n * m
  BY <1>2, <1>3
<1> HIDE DEF b, m
<1>5. n * m \in 0..(n - 1)
  BY <1>2, <1>4
<1>6. CASE m >= 1
  <2>1. n * m >= n
    BY <1>3, <1>6
  <2> QED BY <2>1, <1>3, <1>5
<1>7. CASE m <= -1
  <2>1. n * m <= -n
    BY <1>3, <1>7
  <2> QED BY <2>1, <1>3, <1>5
<1>8. CASE m = 0
  BY <1>8, <1>4 DEF b
<1> QED BY <1>3, <1>6, <1>7, <1>8

\* The wait is never zero and never longer than the period, whichever of the
\* two times is the later one.
LEMMA WaitBounded ==
  ASSUME NEW now \in Times, NEW since \in Times
  PROVE  /\ TimeToNextVsync(now, since) \in 1..Period
         /\ since <= now => (now + TimeToNextVsync(now, since) - since) % Period = 0
<1> DEFINE d == (now - since) % Wrap
           q == d \div Period
           r == d % Period
<1>1. d \in 0..(Wrap - 1) /\ (d = now - since \/ d = now - since + Wrap)
  <2>1. CASE now >= since
    <3>1. now - since \in 0..(Wrap - 1)
      BY <2>1, TimeAssumption DEF Times
    <3> QED BY <3>1, TimeAssumption, SmallRemainder
  <2>2. CASE now < since
    <3>1. now - since + Wrap \in 0..(Wrap - 1)
      BY <2>2, TimeAssumption DEF Times
    <3>2. ((now - since + Wrap) - Wrap) % Wrap = now - since + Wrap
      BY <3>1, TimeAssumption, SmallRemainder
    <3>3. (now - since + Wrap) - Wrap = now - since
      BY TimeAssumption DEF Times
    <3> QED BY <3>1, <3>2, <3>3
  <2> QED BY <2>1, <2>2, TimeAssumption DEF Times
<1>2. q \in Int /\ r \in 0..(Period - 1) /\ d = Period * q + r
  <2>1. d \in Int /\ Period \in Int /\ Period > 0
    BY <1>1, TimeAssumption
  <2> HIDE DEF d
  <2> QED BY <2>1, Division
<1> HIDE DEF d, q, r
<1>3. (q + 1) * Period = Period * q + Period /\ Period * q \in Int
  BY <1>2, TimeAssumption
<1> DEFINE e == since + (q + 1) * Period - now
<1>4. Period - r \in 0..(Wrap - 1) /\ Period - r \in 1..Period
  BY <1>2, TimeAssumption
<1>5. e = Period - r \/ e = Period - r + Wrap
  BY <1>1, <1>2, <1>3, TimeAssumption DEF Times
<1>6. e % Wrap = Period - r
  BY <1>4, <1>5, SmallRemainder, TimeAssumption
<1>7. TimeToNextVsync(now, since) = Period - r
  BY <1>6 DEF TimeToNextVsync, d, q
<1>8. ASSUME since <= now
      PROVE  (now + TimeToNextVsync(now, since) - since) % Period = 0
  <2>1. d = now - since
    BY <1>1, <1>8, TimeAssumption DEF Times
  <2>2. now + TimeToNextVsync(now, since) - since = Period * (q + 1)
    BY <1>2, <1>3, <1>7, <2>1, TimeAssumption DEF Times
  <2>3. Period \in Int /\ Period > 0 /\ q + 1 \in Int
    BY <1>2, TimeAssumption
  <2>4. (Period * (q + 1)) % Period = 0
    BY <2>3, MultipleRemainder
  <2> QED BY <2>2, <2>4
<1> QED BY <1>4, <1>7, <1>8

-------------------------------------------------------------------------------
(* The inductive invariant.                                                *)

\* Between two frames nothing of the last one is left.
IdleInv ==
  hwc = "idle" => layers = <<>> /\ pos = 1 /\ drawn = <<>> /\ timedOut = {} /\ pending = {}

\* The target is no skipped layer, and the thread is where its position says.
PositionInv ==
  /\ hwc # "idle" => layers # <<>> /\ ~layers[Target].skip
  /\ hwc = "wait" => pos \in Positions /\ ~TargetHandled
  /\ hwc = "flush" => pos = Len(layers) + 1

\* The layers whose turn has come, if it is in the place of another.
ClosedNow(i) ==
  \/ i < pos
  \/ i = Target /\ \E f \in FirstSkipped : f < pos
  \/ i = pos /\ hwc = "wait" /\ pos \in FirstSkipped

FenceInv ==
  /\ hwc \in {"layer", "wait", "flush"} =>
       \A i \in Positions : closes[i] = IF layers[i].fence /\ ClosedNow(i) THEN 1 ELSE 0
  /\ FencesClosedOnce

\* What is queued has been waited for, but for the layer that is being so.
PendingInv ==
  /\ hwc = "sync" => pending = {}
  /\ hwc = "layer" /\ pos = 1 => pending = {}
  /\ hwc = "wait" => pending \subseteq signalled \cup timedOut \cup {Handled}
  /\ hwc # "wait" => pending \subseteq signalled \cup timedOut

\* After the one callback that may be late no other is on its way.
LateInv ==
  /\ late \in {0, 1}
  /\ late = 1 => ~enabled /\ vs # "callback" /\ ~(vs = "awake" /\ was)

IInv == TypeOK /\ IdleInv /\ PositionInv /\ FenceInv /\ PendingInv /\ LateInv

\* The invariant, for the frame and for the vsync thread apart.
FrameType ==
  /\ use_subsurface \in BOOLEAN /\ multi_windows \in BOOLEAN
  /\ hwc \in {"idle", "layer", "wait", "flush", "sync"}
  /\ layers \in Seq(Layer)
  /\ pos \in 1..(Len(layers) + 1)
  /\ drawn \in Seq(Positions)
  /\ closes \in [Positions -> Nat]
  /\ signalled \subseteq Positions /\ timedOut \subseteq Positions /\ pending \subseteq Positions

ThreadType ==
  /\ vs \in {"asleep", "awake", "callback", "gone"}
  /\ enabled \in BOOLEAN /\ was \in BOOLEAN /\ procs \in BOOLEAN
  /\ rt \in Times /\ wait \in 0..Period /\ last \in Times
  /\ late \in Nat

FrameInv == FrameType /\ IdleInv /\ PositionInv /\ FenceInv /\ PendingInv

ThreadInv == ThreadType /\ LateInv

-------------------------------------------------------------------------------
(* Facts about the loop.                                                   *)

\* hwc_prepare changes types alone.
LEMMA PreparedLayers ==
  ASSUME NEW f \in Frames
  PROVE  /\ Prepared(f) \in Seq(Layer)
         /\ DOMAIN Prepared(f) = DOMAIN f /\ Len(Prepared(f)) = Len(f)
         /\ \A i \in DOMAIN f : Prepared(f)[i].skip = f[i].skip /\ Prepared(f)[i].fence = f[i].fence
<1>1. f \in Seq(Layer)
  BY FramesAssumption
<1>2. ASSUME NEW i \in DOMAIN f
      PROVE  PreparedType(f, i) \in {"framebuffer", "overlay", "target"} /\ f[i] \in Layer
  <2>1. f[i] \in Layer
    BY <1>1, <1>2
  <2>2. f[i].type \in {"framebuffer", "overlay", "target"}
    BY <2>1 DEF Layer
  <2> QED BY <2>1, <2>2 DEF PreparedType, Demoted
<1>3. \A i \in DOMAIN f : [f[i] EXCEPT !.type = PreparedType(f, i)] \in Layer
  BY <1>2 DEF Layer
<1>4. Prepared(f) \in [1..Len(f) -> Layer]
  BY <1>1, <1>3 DEF Prepared
<1> QED BY <1>1, <1>2, <1>4 DEF Prepared, Layer

\* At most one layer is replaced; it comes before the target.
LEMMA FirstIsBefore ==
  ASSUME FrameType, PositionInv, hwc # "idle"
  PROVE  /\ Target \in Positions /\ Target = Len(layers) /\ Positions = 1..Len(layers) /\ Len(layers) \in Nat
         /\ \A f \in FirstSkipped : f \in Positions /\ f < Target
         /\ \A f, g \in FirstSkipped : f = g
<1>1. Positions = 1..Len(layers) /\ Len(layers) \in Nat /\ Len(layers) # 0
  BY DEF FrameType, PositionInv, Positions
<1>2. \A f \in FirstSkipped : f \in Positions /\ f # Target
  BY DEF FirstSkipped, Skipped, PositionInv
<1> QED BY <1>1, <1>2 DEF FirstSkipped, Skipped, Target

\* The layer that is handled is one of the frame's.
LEMMA HandledIsLayer ==
  ASSUME FrameType, PositionInv, hwc # "idle", pos \in Positions
  PROVE  Handled \in Positions
  BY FirstIsBefore DEF Handled

LEMMA ClosedType ==
  ASSUME FrameType, NEW S
  PROVE  Closed(S) \in [Positions -> Nat]
  BY DEF FrameType, Closed

\* What the loop is computed from stays the same within a frame.
LEMMA SameLoop ==
  ASSUME UNCHANGED <<config, layers>>
  PROVE  FirstSkipped' = FirstSkipped /\ Target' = Target /\ Positions' = Positions
  BY DEF config, FirstSkipped, Skipped, Target, Positions

-------------------------------------------------------------------------------
(* The two parts of the invariant.                                         *)

LEMMA TwoParts == IInv <=> FrameInv /\ ThreadInv
  BY DEF IInv, FrameInv, ThreadInv, TypeOK, FrameType, ThreadType

LEMMA InitInv == Init => FrameInv /\ ThreadInv
<1> SUFFICES ASSUME Init PROVE FrameInv /\ ThreadInv
  OBVIOUS
<1>1. Positions = {} /\ Len(layers) = 0
  BY DEF Init, Positions
<1>2. FrameType
  BY <1>1 DEF Init, FrameType
<1>3. IdleInv /\ PositionInv /\ FenceInv /\ PendingInv
  BY DEF Init, IdleInv, PositionInv, FenceInv, FencesClosedOnce, PendingInv
<1>4. 0 \in Times /\ wait \in 0..Period
  BY TimeAssumption DEF Init, Times
<1>5. ThreadInv
  <2>1. ThreadType
    BY <1>4 DEF Init, ThreadType
  <2>2. late = 0
    BY DEF Init
  <2> QED BY <2>1, <2>2 DEF ThreadInv, LateInv
<1> QED BY <1>2, <1>3, <1>5 DEF FrameInv

LEMMA FrameUnchanged ==
  ASSUME FrameInv, UNCHANGED <<config, frameVars>>
  PROVE  FrameInv'
<1>1. FirstSkipped' = FirstSkipped /\ Target' = Target /\ Positions' = Positions
  BY SameLoop DEF frameVars
<1>2. TargetHandled' = TargetHandled /\ Handled' = Handled
  BY <1>1 DEF TargetHandled, Handled, frameVars
<1>3. FrameType' /\ IdleInv' /\ PositionInv' /\ PendingInv'
  BY <1>1, <1>2 DEF FrameInv, FrameType, IdleInv, PositionInv, PendingInv, config, frameVars
<1>4. FenceInv'
  BY <1>1 DEF FrameInv, FenceInv, FencesClosedOnce, ClosedNow, frameVars
<1> QED BY <1>3, <1>4 DEF FrameInv

LEMMA ThreadUnchanged ==
  ASSUME ThreadInv, UNCHANGED <<threadVars, enabled, procs, last>>
  PROVE  ThreadInv'
  BY DEF ThreadInv, ThreadType, LateInv, threadVars

\* A step of the vsync thread, or of those that tell it something.
LEMMA ThreadStep ==
  ASSUME ThreadInv,
         VsyncStep \/ Interrupted \/ RegisterProcs \/ (\E on \in BOOLEAN : EventControl(on))
           \/ (\E time \in Times : Presented(time))
  PROVE  ThreadInv' /\ UNCHANGED <<config, frameVars>>
<1> USE DEF ThreadInv, ThreadType, LateInv, threadVars
<1>0. 0 \in 0..Period
  BY TimeAssumption
<1>1. CASE Wake
  BY <1>0, <1>1 DEF Wake
<1>2. CASE Reckon
  <2>1. TimeToNextVsync(rt, last) \in 1..Period
    BY WaitBounded
  <2>2. wait' \in 0..Period /\ 0 \in Times
    BY <1>2, <2>1, TimeAssumption DEF Reckon, Times
  <2> QED BY <1>2, <2>2 DEF Reckon
<1>3. CASE Callback
  BY <1>3 DEF Callback
<1>4. CASE Interrupted
  BY <1>0, <1>4 DEF Interrupted
<1>5. CASE RegisterProcs
  BY <1>5 DEF RegisterProcs
<1>6. ASSUME NEW on \in BOOLEAN, EventControl(on)
      PROVE  ThreadInv' /\ UNCHANGED <<config, frameVars>>
  BY <1>6 DEF EventControl
<1>7. ASSUME NEW time \in Times, Presented(time)
      PROVE  ThreadInv' /\ UNCHANGED <<config, frameVars>>
  BY <1>7 DEF Presented
<1> QED BY <1>1, <1>2, <1>3, <1>4, <1>5, <1>6, <1>7 DEF VsyncStep

-------------------------------------------------------------------------------
(* The steps of the frame.                                                 *)

\* The layer replaced is closed with the target; every position is closed in
\* its turn, but for the target that has had it.
LEMMA TurnTaken ==
  ASSUME FrameInv, AtLayer, ~TargetHandled, NEW i \in Positions
  PROVE  /\ i \in {pos, Handled} => ~ClosedNow(i)
         /\ i \in {pos, Handled} \/ ClosedNow(i)
              <=> i < pos + 1 \/ (i = Target /\ \E f \in FirstSkipped : f < pos + 1)
<1>1. hwc = "layer" /\ pos \in Positions
  BY DEF AtLayer
<1>2. /\ Target \in Positions /\ Positions = 1..Target /\ Target \in Nat
      /\ \A f \in FirstSkipped : f \in Positions /\ f < Target
      /\ \A f, g \in FirstSkipped : f = g
  BY <1>1, FirstIsBefore DEF FrameInv, Target
<1> QED
  <2>1. CASE pos \in FirstSkipped
    BY <1>1, <1>2, <2>1 DEF ClosedNow, Handled
  <2>2. CASE pos \notin FirstSkipped
    BY <1>1, <1>2, <2>2 DEF ClosedNow, Handled, TargetHandled
  <2> QED BY <2>1, <2>2

LEMMA BeginFrameStep ==
  ASSUME FrameInv, NEW f \in Frames, BeginFrame(f)
  PROVE  FrameInv'
<1>1. /\ layers' = Prepared(f) /\ pos' = 1 /\ hwc' = "layer"
      /\ closes' = [i \in DOMAIN f |-> 0] /\ signalled' = {i \in DOMAIN f : ~f[i].fence}
      /\ drawn' = <<>> /\ timedOut' = {} /\ pending' = {}
  BY DEF BeginFrame, FrameInv, IdleInv
<1>2. /\ layers' \in Seq(Layer) /\ DOMAIN layers' = DOMAIN f /\ Len(layers') = Len(f)
      /\ \A i \in DOMAIN f : layers'[i].skip = f[i].skip
  BY <1>1, PreparedLayers
<1>3. f \in Seq(Layer) /\ f # <<>> /\ ~f[Len(f)].skip
  BY FramesAssumption
<1>4. Positions' = DOMAIN f /\ DOMAIN f = 1..Len(f) /\ Len(f) \in Nat \ {0}
  BY <1>2, <1>3 DEF Positions
<1>5. FrameType'
  BY <1>1, <1>2, <1>4 DEF FrameType, BeginFrame, config, FrameInv
<1>6. IdleInv' /\ PendingInv'
  BY <1>1 DEF IdleInv, PendingInv
<1>7. PositionInv'
  BY <1>1, <1>2, <1>3, <1>4 DEF PositionInv, Target
<1>8. \A i \in Positions' : ~(ClosedNow(i)')
  <2>1. \A k \in FirstSkipped' : k \in Positions'
    BY DEF FirstSkipped, Skipped
  <2> QED BY <2>1, <1>1, <1>4 DEF ClosedNow
<1>9. FenceInv'
  BY <1>1, <1>4, <1>8 DEF FenceInv, FencesClosedOnce
<1> QED BY <1>5, <1>6, <1>7, <1>9 DEF FrameInv

LEMMA ShowNothingStep ==
  ASSUME FrameInv, ShowNothing
  PROVE  FrameInv'
<1>1. FirstSkipped' = FirstSkipped /\ Target' = Target /\ Positions' = Positions
  BY SameLoop DEF ShowNothing
<1>2. /\ Positions = 1..Target /\ Target \in Positions
      /\ \A f \in FirstSkipped : f \in Positions
  BY FirstIsBefore DEF ShowNothing, FrameInv
<1>3. FrameType' /\ IdleInv' /\ PositionInv' /\ PendingInv'
  BY <1>1, ClosedType DEF ShowNothing, FrameInv, FrameType, IdleInv, PositionInv, PendingInv, config
<1>4. \A i \in Positions : ~ClosedNow(i) /\ closes[i] = 0
  BY <1>2 DEF ShowNothing, FrameInv, FenceInv, ClosedNow
<1>5. FenceInv'
  BY <1>1, <1>4 DEF ShowNothing, FenceInv, FencesClosedOnce, Closed
<1> QED BY <1>3, <1>5 DEF FrameInv

LEMMA PassTargetStep ==
  ASSUME FrameInv, PassTarget
  PROVE  FrameInv'
<1>1. FirstSkipped' = FirstSkipped /\ Target' = Target /\ Positions' = Positions
  BY SameLoop DEF PassTarget
<1>2. /\ Positions = 1..Target /\ Target \in Nat /\ Target = Len(layers) /\ pos = Target
      /\ hwc = "layer" /\ hwc' = "layer" /\ pos' = pos + 1
      /\ \A f \in FirstSkipped : f \in Positions /\ f < Target
      /\ FirstSkipped # {}
  BY FirstIsBefore DEF PassTarget, AtLayer, TargetHandled, FrameInv
<1>3. FrameType' /\ IdleInv' /\ PositionInv' /\ PendingInv'
  BY <1>1, <1>2 DEF PassTarget, FrameInv, FrameType, IdleInv, PositionInv, PendingInv, config
<1>4. \A i \in Positions : ClosedNow(i)' <=> ClosedNow(i)
  BY <1>1, <1>2 DEF ClosedNow
<1>5. FenceInv'
  BY <1>1, <1>2, <1>4 DEF PassTarget, FrameInv, FenceInv, FencesClosedOnce
<1> QED BY <1>3, <1>5 DEF FrameInv

LEMMA DropLayerStep ==
  ASSUME FrameInv, DropLayer
  PROVE  FrameInv'
<1>1. FirstSkipped' = FirstSkipped /\ Target' = Target /\ Positions' = Positions
  BY SameLoop DEF DropLayer
<1>2. /\ hwc = "layer" /\ hwc' = "layer" /\ pos' = pos + 1 /\ pos \in Positions
      /\ closes' = Closed({pos, Handled})
      /\ Positions = 1..Target /\ Target \in Nat /\ Target = Len(layers)
  BY FirstIsBefore DEF DropLayer, AtLayer, FrameInv
<1>3. FrameType' /\ IdleInv' /\ PositionInv' /\ PendingInv'
  BY SMTT(30), <1>1, <1>2, ClosedType DEF DropLayer, FrameInv, FrameType, IdleInv, PositionInv, PendingInv, config
<1>4. ASSUME NEW i \in Positions
      PROVE  closes'[i] = IF layers[i].fence /\ ClosedNow(i)' THEN 1 ELSE 0
  <2>1. closes[i] = IF layers[i].fence /\ ClosedNow(i) THEN 1 ELSE 0
    BY <1>2 DEF FrameInv, FenceInv
  <2>2. ClosedNow(i)' <=> i \in {pos, Handled} \/ ClosedNow(i)
    BY TurnTaken, <1>1, <1>2 DEF ClosedNow, DropLayer
  <2>3. i \in {pos, Handled} => ~ClosedNow(i)
    BY TurnTaken DEF DropLayer
  <2> QED BY <1>2, <2>1, <2>2, <2>3 DEF Closed
<1>5. FenceInv'
  BY <1>1, <1>2, <1>4 DEF DropLayer, FenceInv, FencesClosedOnce
<1> QED BY <1>3, <1>5 DEF FrameInv

LEMMA CommitLayerStep ==
  ASSUME FrameInv, CommitLayer
  PROVE  FrameInv'
<1>1. FirstSkipped' = FirstSkipped /\ Target' = Target /\ Positions' = Positions
  BY SameLoop DEF CommitLayer
<1>2. /\ hwc = "layer" /\ hwc' = "wait" /\ pos' = pos /\ pos \in Positions
      /\ closes' = Closed({pos} \ {Handled})
      /\ Handled \in Positions /\ Handled' = Handled /\ TargetHandled' = TargetHandled
      /\ \A f \in FirstSkipped : f < Target
      /\ Positions = 1..Target /\ Target \in Nat
  BY <1>1, FirstIsBefore, HandledIsLayer DEF CommitLayer, AtLayer, FrameInv, Handled, TargetHandled
<1>3. FrameType' /\ IdleInv' /\ PositionInv' /\ PendingInv'
  <2>1. drawn' \in Seq(Positions')
    BY <1>1, <1>2 DEF CommitLayer, FrameInv, FrameType
  <2> QED BY <1>1, <1>2, <2>1, ClosedType DEF CommitLayer, FrameInv, FrameType, IdleInv, PositionInv, PendingInv, config
<1>4. ASSUME NEW i \in Positions
      PROVE  closes'[i] = IF layers[i].fence /\ ClosedNow(i)' THEN 1 ELSE 0
  <2>1. closes[i] = IF layers[i].fence /\ ClosedNow(i) THEN 1 ELSE 0
    BY <1>2 DEF FrameInv, FenceInv
  <2>2. ClosedNow(i)' <=> i \in {pos} \ {Handled} \/ ClosedNow(i)
    BY <1>1, <1>2 DEF ClosedNow, Handled
  <2>3. i = pos => ~ClosedNow(i)
    BY TurnTaken DEF CommitLayer
  <2> QED BY <1>2, <2>1, <2>2, <2>3 DEF Closed
<1>5. FenceInv'
  BY <1>1, <1>2, <1>4 DEF CommitLayer, FenceInv, FencesClosedOnce
<1> QED BY <1>3, <1>5 DEF FrameInv

LEMMA WaitStep ==
  ASSUME FrameInv, Wait
  PROVE  FrameInv'
<1>1. FirstSkipped' = FirstSkipped /\ Target' = Target /\ Positions' = Positions
  BY SameLoop DEF Wait
<1>2. /\ hwc = "wait" /\ hwc' = "layer" /\ pos' = pos + 1 /\ pos \in Positions /\ ~TargetHandled
      /\ closes' = Closed({Handled}) /\ Handled \in Positions
      /\ Positions = 1..Target /\ Target \in Nat /\ Target = Len(layers) /\ Target \in Positions
      /\ \A f \in FirstSkipped : f \in Positions /\ f < Target
      /\ \A f, g \in FirstSkipped : f = g
  BY FirstIsBefore, HandledIsLayer DEF Wait, FrameInv, PositionInv
<1>3. FrameType' /\ IdleInv' /\ PositionInv' /\ PendingInv'
  BY SMTT(30), <1>1, <1>2, ClosedType DEF Wait, FrameInv, FrameType, IdleInv, PositionInv, PendingInv, config
<1>4. ASSUME NEW i \in Positions
      PROVE  closes'[i] = IF layers[i].fence /\ ClosedNow(i)' THEN 1 ELSE 0
  <2>1. closes[i] = IF layers[i].fence /\ ClosedNow(i) THEN 1 ELSE 0
    BY <1>2 DEF FrameInv, FenceInv
  <2>2. (ClosedNow(i)' <=> i = Handled \/ ClosedNow(i)) /\ (i = Handled => ~ClosedNow(i))
    <3>1. CASE pos \in FirstSkipped
      BY <1>1, <1>2, <3>1 DEF ClosedNow, Handled
    <3>2. CASE pos \notin FirstSkipped
      BY <1>1, <1>2, <3>2 DEF ClosedNow, Handled, TargetHandled
    <3> QED BY <3>1, <3>2
  <2> QED BY <1>2, <2>1, <2>2 DEF Closed
<1>5. FenceInv'
  BY <1>1, <1>2, <1>4 DEF Wait, FenceInv, FencesClosedOnce
<1> QED BY <1>3, <1>5 DEF FrameInv

LEMMA EndLayersStep ==
  ASSUME FrameInv, EndLayers
  PROVE  FrameInv'
<1>1. FirstSkipped' = FirstSkipped /\ Target' = Target /\ Positions' = Positions
  BY SameLoop DEF EndLayers
<1>2. Positions = 1..Len(layers) /\ Len(layers) \in Nat /\ pos = Len(layers) + 1
  BY FirstIsBefore DEF EndLayers, FrameInv, FrameType
<1>3. FrameType' /\ IdleInv' /\ PositionInv' /\ PendingInv'
  BY <1>1, <1>2 DEF EndLayers, FrameInv, FrameType, IdleInv, PositionInv, PendingInv, config
<1>4. FenceInv'
  BY <1>1 DEF EndLayers, FrameInv, FenceInv, FencesClosedOnce, ClosedNow
<1> QED BY <1>3, <1>4 DEF FrameInv

LEMMA FlushStep ==
  ASSUME FrameInv, Flush
  PROVE  FrameInv'
<1>1. FirstSkipped' = FirstSkipped /\ Target' = Target /\ Positions' = Positions
  BY SameLoop DEF Flush
<1>2. FrameType' /\ IdleInv' /\ PositionInv' /\ PendingInv'
  BY <1>1 DEF Flush, FrameInv, FrameType, IdleInv, PositionInv, PendingInv, config
<1>3. Positions = 1..Len(layers) /\ Len(layers) \in Nat /\ pos = Len(layers) + 1
  BY FirstIsBefore DEF Flush, FrameInv, PositionInv
<1>4. \A i \in Positions : ClosedNow(i)
  BY <1>3 DEF ClosedNow
<1>5. FenceInv'
  BY <1>1, <1>4 DEF Flush, FrameInv, FenceInv, FencesClosedOnce
<1> QED BY <1>2, <1>5 DEF FrameInv

LEMMA EndFrameStep ==
  ASSUME FrameInv, EndFrame
  PROVE  FrameInv'
<1>1. layers' = <<>> /\ Positions' = {} /\ Len(layers') = 0
  BY DEF EndFrame, Positions
<1>2. FrameType' /\ IdleInv' /\ PositionInv' /\ PendingInv' /\ FenceInv'
  BY <1>1 DEF EndFrame, FrameInv, FrameType, IdleInv, PositionInv, PendingInv, FenceInv, FencesClosedOnce, config
<1> QED BY <1>2 DEF FrameInv

\* A fence that signals, and a commit sent early, only make less pending.
LEMMA OthersStep ==
  ASSUME FrameInv, (\E i \in Positions : Signal(i)) \/ DispatchFlush
  PROVE  FrameInv'
<1>1. /\ UNCHANGED <<config, hwc, layers, pos, drawn, closes, timedOut>>
      /\ signalled \subseteq signalled' /\ signalled' \subseteq Positions
      /\ pending' \subseteq pending
  BY DEF Signal, DispatchFlush, FrameInv, FrameType
<1>2. FirstSkipped' = FirstSkipped /\ Target' = Target /\ Positions' = Positions
  BY SameLoop, <1>1
<1>3. TargetHandled' = TargetHandled /\ Handled' = Handled
  BY <1>1, <1>2 DEF TargetHandled, Handled
<1>4. FrameType' /\ IdleInv' /\ PositionInv'
  BY <1>1, <1>2, <1>3 DEF FrameInv, FrameType, IdleInv, PositionInv, config
<1>5. PendingInv'
  BY <1>1, <1>3 DEF FrameInv, PendingInv
<1>6. FenceInv'
  BY <1>1, <1>2 DEF FrameInv, FenceInv, FencesClosedOnce, ClosedNow
<1> QED BY <1>4, <1>5, <1>6 DEF FrameInv

LEMMA FrameSteps ==
  ASSUME FrameInv, FrameStep \/ (\E i \in Positions : Signal(i)) \/ DispatchFlush
  PROVE  FrameInv' /\ UNCHANGED <<threadVars, enabled, procs, last>>
<1>1. FrameInv'
  BY BeginFrameStep, ShowNothingStep, PassTargetStep, DropLayerStep, CommitLayerStep, WaitStep,
     EndLayersStep, FlushStep, EndFrameStep, OthersStep DEF FrameStep
<1>2. UNCHANGED <<threadVars, enabled, procs, last>>
  BY DEF FrameStep, BeginFrame, ShowNothing, PassTarget, DropLayer, CommitLayer, Wait, EndLayers,
     Flush, EndFrame, Signal, DispatchFlush
<1> QED BY <1>1, <1>2

LEMMA NextInv == FrameInv /\ ThreadInv /\ [Next]_vars => FrameInv' /\ ThreadInv'
<1> SUFFICES ASSUME FrameInv, ThreadInv, [Next]_vars
             PROVE  FrameInv' /\ ThreadInv'
  OBVIOUS
<1>1. CASE FrameStep \/ (\E i \in Positions : Signal(i)) \/ DispatchFlush
  BY <1>1, FrameSteps, ThreadUnchanged
<1>2. CASE VsyncStep \/ Interrupted \/ RegisterProcs \/ (\E on \in BOOLEAN : EventControl(on))
             \/ (\E time \in Times : Presented(time))
  BY <1>2, ThreadStep, FrameUnchanged
<1>3. CASE UNCHANGED vars
  BY <1>3, FrameUnchanged, ThreadUnchanged DEF vars
<1> QED BY <1>1, <1>2, <1>3 DEF Next

-------------------------------------------------------------------------------
(* The theorems.                                                           *)

THEOREM Inductive == Spec => [](FrameInv /\ ThreadInv)
  BY InitInv, NextInv, PTL DEF Spec

\* hwc_prepare, hwc_set, the vsync thread and the feedback handlers keep the
\* types of all variables; the wait is one nanosleep accepts.
THEOREM TypeCorrect == Spec => []TypeOK
<1>1. FrameInv /\ ThreadInv => TypeOK
  BY TwoParts DEF IInv
<1> QED BY Inductive, <1>1, PTL

\* For every list of layers each path of hwc_set closes each fence once.
THEOREM FencesClosed == Spec => []FencesClosedOnce
<1>1. FrameInv => FencesClosedOnce
  BY DEF FrameInv, FenceInv
<1> QED BY Inductive, <1>1, PTL

\* What the end of hwc_set sends is finished, or its wait has timed out.
THEOREM Finished == Spec => []FinishedWhenSent
<1>1. FrameInv => FinishedWhenSent
  BY DEF FrameInv, PendingInv, FinishedWhenSent
<1> QED BY Inductive, <1>1, PTL

\* At most one callback follows a call that turns vsync off.
THEOREM AtMostOneLate == Spec => []VsyncStops
<1>1. ThreadInv => VsyncStops
  BY DEF ThreadInv, LateInv, VsyncStops
<1> QED BY Inductive, <1>1, PTL

\* The unsigned arithmetic of time_to_sleep_to_next_vsync gives a wait of at
\* most a period, and the next multiple of it, for every period and clock.
THEOREM InPhase == Spec => WakesInPhase
<1> DEFINE Good == /\ wait' \in 1..Period
                   /\ last <= rt => (rt + wait' - last) % Period = 0
<1>1. ThreadInv /\ [Next]_vars => [vs = "awake" /\ vs' # "awake" => Good]_vars
  <2> SUFFICES ASSUME ThreadInv, Next, vs = "awake", vs' # "awake"
               PROVE  Good
    OBVIOUS
  <2>1. Reckon
    BY DEF Next, FrameStep, BeginFrame, ShowNothing, PassTarget, DropLayer, CommitLayer, Wait, EndLayers,
       Flush, EndFrame, Signal, DispatchFlush, VsyncStep, Wake, Callback, Interrupted, RegisterProcs,
       EventControl, Presented, threadVars
  <2>2. rt \in Times /\ last \in Times
    BY DEF ThreadInv, ThreadType
  <2>3. wait' = TimeToNextVsync(rt, last)
    BY <2>1 DEF Reckon
  <2> QED BY <2>2, <2>3, WaitBounded
<1> QED BY <1>1, Inductive, PTL DEF Spec, WakesInPhase

-------------------------------------------------------------------------------
(* The order of the layers on the screen.                                  *)

\* The turn of the loop at which a layer is drawn: the target's is that of the
\* first skipped layer, where there is one to replace.
TheFirst == CHOOSE f \in FirstSkipped : TRUE

TurnOf(i) == IF i = Target /\ FirstSkipped # {} THEN TheFirst ELSE i

\* A layer the composer may draw has the one type it uses.
TypesPrepared ==
  \A i \in Positions \ {Target} :
    ~layers[i].skip => layers[i].type = IF use_subsurface THEN "overlay" ELSE "framebuffer"

\* Layers are drawn in the order of their turns, and none whose turn is to come.
DrawnInTurn ==
  /\ \A n \in DOMAIN drawn : TurnOf(drawn[n]) < pos \/ (hwc = "wait" /\ TurnOf(drawn[n]) = pos)
  /\ \A m, n \in DOMAIN drawn : m < n => TurnOf(drawn[m]) < TurnOf(drawn[n])

OrderInv == hwc \in {"layer", "wait", "flush"} => TypesPrepared /\ DrawnInTurn

\* Both are numbers; the first skipped layer's turn is the target's.
LEMMA TurnFacts ==
  ASSUME FrameInv, hwc # "idle"
  PROVE  /\ Target \in Positions /\ Positions = 1 .. Target /\ Target \in Nat
         /\ \A i \in Positions : TurnOf(i) \in Positions
         /\ \A i \in Positions \ {Target} : TurnOf(i) = i
         /\ \A f \in FirstSkipped : TurnOf(Target) = f /\ f \in Positions
         /\ FirstSkipped = {} => TurnOf(Target) = Target
<1>1. /\ Target \in Positions /\ Positions = 1 .. Target /\ Target \in Nat
      /\ \A f \in FirstSkipped : f \in Positions
      /\ \A f, g \in FirstSkipped : f = g
  BY FirstIsBefore DEF FrameInv, Target
<1>2. FirstSkipped # {} => TheFirst \in FirstSkipped
  BY DEF TheFirst
<1>3. \A f \in FirstSkipped : TheFirst = f
  BY <1>1, <1>2
<1> QED
  BY <1>1, <1>2, <1>3 DEF TurnOf

\* Where layers are skipped and the target is to replace them, one is the first.
LEMMA FirstExists ==
  ASSUME FrameInv, use_subsurface, ~multi_windows, Skipped # {}
  PROVE  FirstSkipped # {}
<1>1. Skipped \subseteq Nat
  BY DEF Skipped, Positions, FrameInv, FrameType
<1>2. IsWellFoundedOn(OpToRel(<, Nat), Nat)
  BY NatLessThanWellFounded, Zenon
<1>3. PICK n \in Skipped : \A k \in Skipped : ~ (<<k, n>> \in OpToRel(<, Nat))
  BY <1>1, <1>2, WFMin, Zenon
<1>4. \A k \in Skipped : k < n => <<k, n>> \in OpToRel(<, Nat)
  BY <1>1, Zenon DEF OpToRel
<1>5. \A k \in Skipped : ~(k < n)
  BY <1>3, <1>4, Zenon
<1>6. \A k \in Skipped : n <= k
  BY <1>1, <1>5
<1> QED
  BY <1>6 DEF FirstSkipped

\* hwc_prepare leaves one type to the layers that are neither skipped nor the
\* target.
LEMMA OneTypeIsLeft ==
  ASSUME NEW f \in Frames, NEW i \in DOMAIN f, i # Len(f), ~f[i].skip, use_subsurface \in BOOLEAN
  PROVE  Prepared(f)[i].type = IF use_subsurface THEN "overlay" ELSE "framebuffer"
<1>1. f[i] \in Layer /\ f[i].type # "target"
  BY FramesAssumption
<1>2. Demoted(f, i) \in {"framebuffer", "overlay"}
  BY <1>1 DEF Demoted, Layer
<1>3. PreparedType(f, i) = IF use_subsurface THEN "overlay" ELSE "framebuffer"
  BY <1>1, <1>2 DEF PreparedType
<1> QED
  BY <1>1, <1>3 DEF Prepared, Layer

LEMMA OrderSteps ==
  ASSUME FrameInv, OrderInv, FrameStep \/ (\E i \in Positions : Signal(i)) \/ DispatchFlush
  PROVE  OrderInv'
<1>1. ASSUME NEW f \in Frames, BeginFrame(f)
      PROVE  OrderInv'
  <2>1. drawn' = <<>> /\ layers' = Prepared(f) /\ UNCHANGED use_subsurface
    BY <1>1 DEF BeginFrame, FrameInv, IdleInv, config
  <2>2. /\ DOMAIN Prepared(f) = DOMAIN f /\ Len(Prepared(f)) = Len(f)
        /\ \A i \in DOMAIN f : Prepared(f)[i].skip = f[i].skip
    BY PreparedLayers
  <2>3. TypesPrepared'
    BY <2>1, <2>2, OneTypeIsLeft DEF TypesPrepared, Positions, Target, FrameInv, FrameType
  <2>4. DrawnInTurn'
    BY <2>1 DEF DrawnInTurn
  <2> QED
    BY <2>3, <2>4 DEF OrderInv
<1>2. ASSUME UNCHANGED <<config, layers, drawn>>, hwc' \in {"layer", "wait", "flush"},
             hwc \in {"layer", "wait", "flush"}, pos' \in {pos, pos + 1},
             \/ hwc = "wait" => pos' = pos + 1
             \/ hwc' = hwc
      PROVE  OrderInv'
  <2>1. FirstSkipped' = FirstSkipped /\ Target' = Target /\ Positions' = Positions
    BY <1>2, SameLoop
  <2>2. \A i : TurnOf(i)' = TurnOf(i)
    BY <2>1 DEF TurnOf, TheFirst
  <2>3. TypesPrepared'
    BY <1>2, <2>1 DEF OrderInv, TypesPrepared, config
  <2>4. \A n \in DOMAIN drawn : TurnOf(drawn[n]) \in Nat /\ pos \in Nat
    BY SMTT(30), <1>2, TurnFacts DEF FrameInv, FrameType
  <2>5. DrawnInTurn'
    BY <1>2, <2>2, <2>4 DEF OrderInv, DrawnInTurn
  <2> QED
    BY <2>3, <2>5 DEF OrderInv
<1>3. CASE PassTarget \/ DropLayer
  BY <1>2, <1>3 DEF PassTarget, DropLayer, AtLayer
<1>4. CASE Wait \/ EndLayers
  BY <1>2, <1>4 DEF Wait, EndLayers
<1>5. CASE ShowNothing \/ Flush \/ EndFrame
  BY <1>5 DEF ShowNothing, Flush, EndFrame, OrderInv
<1>6. CASE (\E i \in Positions : Signal(i)) \/ DispatchFlush
  <2>1. UNCHANGED <<config, hwc, layers, pos, drawn>>
    BY <1>6 DEF Signal, DispatchFlush
  <2>2. CASE hwc \in {"layer", "wait", "flush"}
    BY <1>2, <2>1, <2>2
  <2>3. CASE hwc \notin {"layer", "wait", "flush"}
    BY <2>1, <2>3 DEF OrderInv
  <2> QED
    BY <2>2, <2>3
<1>7. CASE CommitLayer
  <2>1. FirstSkipped' = FirstSkipped /\ Target' = Target /\ Positions' = Positions
    BY <1>7, SameLoop DEF CommitLayer
  <2>2. \A i : TurnOf(i)' = TurnOf(i)
    BY <2>1 DEF TurnOf, TheFirst
  <2>3. /\ hwc = "layer" /\ pos \in Positions /\ hwc' = "wait" /\ pos' = pos
        /\ drawn' = Append(drawn, Handled) /\ ~TargetHandled
    BY <1>7 DEF CommitLayer, AtLayer
  <2>4. TurnOf(Handled) = pos
    BY <2>3, TurnFacts DEF Handled, TargetHandled
  <2>5. TypesPrepared'
    BY <1>7, <2>1, <2>3 DEF OrderInv, TypesPrepared, CommitLayer, config
  <2> DEFINE k == Len(drawn)
  <2>6. drawn \in Seq(Positions) /\ Handled \in Positions /\ k \in Nat
    BY <2>3, HandledIsLayer DEF FrameInv, FrameType
  <2>7. /\ DOMAIN drawn' = 1 .. k + 1 /\ DOMAIN drawn = 1 .. k /\ drawn'[k + 1] = Handled
        /\ \A n \in 1 .. k : drawn'[n] = drawn[n]
    BY <2>3, <2>6
  <2>8. \A n \in 1 .. k : TurnOf(drawn[n]) < pos
    BY <2>3, <2>7 DEF OrderInv, DrawnInTurn
  <2>9. \A n \in 1 .. k + 1 : n \in 1 .. k \/ n = k + 1
    BY <2>6
  <2>10. ASSUME NEW n \in DOMAIN drawn'
         PROVE  (TurnOf(drawn'[n]) < pos /\ n \in 1 .. k) \/ (TurnOf(drawn'[n]) = pos /\ n = k + 1)
    BY <2>4, <2>7, <2>8, <2>9
  <2>11. ASSUME NEW m \in DOMAIN drawn', NEW n \in DOMAIN drawn', m < n
         PROVE  TurnOf(drawn'[m]) < TurnOf(drawn'[n])
    <3>1. m \in 1 .. k
      BY <2>6, <2>7, <2>11
    <3>2. CASE n \in 1 .. k
      BY <2>3, <2>7, <2>11, <3>1, <3>2 DEF OrderInv, DrawnInTurn
    <3>3. CASE n = k + 1
      BY <2>4, <2>7, <2>8, <3>1, <3>3
    <3> QED
      BY <2>7, <2>9, <3>2, <3>3
  <2>12. DrawnInTurn'
    BY <2>2, <2>3, <2>10, <2>11 DEF DrawnInTurn
  <2> QED
    BY <2>5, <2>12 DEF OrderInv
<1> QED
  BY <1>1, <1>3, <1>4, <1>5, <1>6, <1>7 DEF FrameStep

LEMMA OrderUnchanged ==
  ASSUME OrderInv, UNCHANGED <<config, frameVars>>
  PROVE  OrderInv'
<1>1. FirstSkipped' = FirstSkipped /\ Target' = Target /\ Positions' = Positions
  BY SameLoop DEF frameVars
<1>2. \A i : TurnOf(i)' = TurnOf(i)
  BY <1>1 DEF TurnOf, TheFirst
<1> QED
  BY <1>1, <1>2 DEF OrderInv, TypesPrepared, DrawnInTurn, config, frameVars

\* Drawn in turn is drawn in order, where no layer stands between skipped ones.
LEMMA InTurnInOrder ==
  ASSUME FrameInv, OrderInv
  PROVE  OrderKept
<1> SUFFICES ASSUME hwc = "flush", ~multi_windows,
                    \A i \in Positions : layers[i].skip \/ ~Between(layers, i),
                    NEW i \in Positions \ {Target}, NEW j \in Positions \ {Target}, i < j,
                    NEW m \in PlaceOf(i), NEW n \in PlaceOf(j)
             PROVE  m <= n
  BY DEF OrderKept, InOrder
<1> DEFINE Of(x) == IF layers[x].skip \/ layers[x].type = "framebuffer" THEN Target ELSE x
<1>1. /\ m \in DOMAIN drawn /\ n \in DOMAIN drawn /\ drawn[m] = Of(i) /\ drawn[n] = Of(j)
      /\ m \in Nat /\ n \in Nat
  BY SMTT(30) DEF PlaceOf, FrameInv, FrameType
<1>2. TypesPrepared /\ DrawnInTurn
  BY DEF OrderInv
<1>3. /\ Target \in Positions /\ Positions = 1 .. Target /\ Target \in Nat
      /\ \A x \in Positions : TurnOf(x) \in Positions
      /\ \A x \in Positions \ {Target} : TurnOf(x) = x
      /\ \A f \in FirstSkipped : TurnOf(Target) = f /\ f \in Positions
  BY TurnFacts
<1>4. n < m => TurnOf(Of(j)) < TurnOf(Of(i))
  BY <1>1, <1>2 DEF DrawnInTurn
<1>5. CASE ~use_subsurface
  <2>1. Of(i) = Target /\ Of(j) = Target
    BY <1>2, <1>5 DEF TypesPrepared
  <2> QED
    BY <1>1, <1>3, <1>4, <2>1
<1>6. CASE use_subsurface
  <2>1. \A x \in Positions \ {Target} : Of(x) = IF layers[x].skip THEN Target ELSE x
    BY <1>2, <1>6 DEF TypesPrepared
  <2>2. CASE ~layers[i].skip /\ ~layers[j].skip
    BY <1>1, <1>3, <1>4, <2>1, <2>2
  <2>3. CASE layers[i].skip /\ layers[j].skip
    BY <1>1, <1>3, <1>4, <2>1, <2>3
  <2>4. CASE ~(layers[i].skip <=> layers[j].skip)
    <3>1. FirstSkipped # {}
      BY <1>6, <2>4, FirstExists DEF Skipped
    <3>2. PICK f \in FirstSkipped : TRUE
      BY <3>1
    <3>3. f \in Skipped /\ TurnOf(Target) = f /\ \A x \in Skipped : f <= x
      BY <1>3, <3>2 DEF FirstSkipped
    <3>4. CASE layers[i].skip
      BY <1>1, <1>3, <1>4, <2>1, <2>4, <3>3, <3>4 DEF Skipped
    <3>5. CASE ~layers[i].skip
      <4>1. layers[j].skip
        BY <2>4, <3>5
      <4>2. f # i
        BY <3>3, <3>5 DEF Skipped
      <4>3. ~(f < i)
        <5>1. f \in DOMAIN layers /\ j \in DOMAIN layers /\ layers[f].skip
          BY <3>3 DEF Skipped, Positions
        <5> QED
          BY <3>5, <4>1, <5>1 DEF Between
      <4>4. i < f
        BY <1>3, <3>2, <4>2, <4>3
      <4> QED
        BY <1>1, <1>3, <1>4, <2>1, <3>2, <3>3, <3>5, <4>1, <4>4
    <3> QED
      BY <3>4, <3>5
  <2> QED
    BY <2>2, <2>3, <2>4
<1> QED
  BY <1>5, <1>6 DEF FrameInv, FrameType

LEMMA NextOrder == FrameInv /\ ThreadInv /\ OrderInv /\ [Next]_vars => OrderInv'
<1> SUFFICES ASSUME FrameInv, ThreadInv, OrderInv, [Next]_vars
             PROVE  OrderInv'
  OBVIOUS
<1>1. CASE FrameStep \/ (\E i \in Positions : Signal(i)) \/ DispatchFlush
  BY <1>1, OrderSteps
<1>2. CASE VsyncStep \/ Interrupted \/ RegisterProcs \/ (\E on \in BOOLEAN : EventControl(on))
             \/ (\E time \in Times : Presented(time))
  BY <1>2, ThreadStep, OrderUnchanged
<1>3. CASE UNCHANGED vars
  BY <1>3, OrderUnchanged DEF vars
<1> QED
  BY <1>1, <1>2, <1>3 DEF Next

\* For every list of layers, of any length, hwc_set draws the layers in the
\* order SurfaceFlinger gave them, the target in the place of those it has
\* composed, unless it has left one between two skipped ones.
THEOREM LayersInOrder == Spec => []OrderKept
<1>1. Init => OrderInv
  BY DEF Init, OrderInv
<1>2. FrameInv /\ ThreadInv /\ OrderInv /\ [Next]_vars => OrderInv'
  BY NextOrder
<1>3. FrameInv /\ OrderInv => OrderKept
  BY InTurnInOrder
<1> QED
  BY Inductive, <1>1, <1>2, <1>3, PTL DEF Spec
===============================================================================
