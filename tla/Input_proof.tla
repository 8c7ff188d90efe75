----------------------------- MODULE Input_proof -----------------------------
(***************************************************************************)
(* Proofs about TouchInput and Keyboard, the two that write to the pipes   *)
(* of Android's input.                                                     *)
(***************************************************************************)
EXTENDS TouchInput, Keyboard, FiniteSetTheorems, WellFoundedInduction, TLAPS

(***************************************************************************)
(* TouchInput. The operators of the model take displays to displays, so the*)
(* inductive invariant is stated of a display, of the fingers and buttons  *)
(* that are down, and of a pinch (Good), each operator has a lemma that it *)
(* keeps it, and a handler is a chain of lemmas.                           *)
(***************************************************************************)
\* Who reads what: an open descriptor is read, a stale one is of a pipe that is
\* gone, and Android forgets what came through a pipe it has lost.
PipeInv(d) ==
  /\ \A p \in Pipes : d.fd[p] = "open" => p \in readers
  /\ \A p \in Pipes : d.fd[p] = "stale" => p \notin fifos
  /\ Touch \notin readers => d.down = {}
  /\ Pointer \notin readers => d.mouse = {}

\* The left button is held as a touch or as a button, through a pipe that was
\* opened, and its release will find open.
ClickInv(d, H) ==
  /\ d.isTouchDown => "left" \in H /\ ~d.isMouseLeftDown /\ d.fd[Touch] # "none"
  /\ "left" \in d.mouse => d.isMouseLeftDown
  /\ d.isMouseLeftDown => "left" \in H /\ d.fd[Pointer] # "none"

\* NoGhostTouch in terms of what the composer remembers.
GhostInv(d, F, P) ==
  \A s \in d.down :
    \/ s \in Slots /\ d.touch_id[s] \in F
    \/ s = 0 /\ d.isTouchDown
    \/ s \in {0, 1} /\ (d.zoom \/ P)
    \/ s = AxisSlot /\ d.axis

\* A finger has a slot only if Android has read of it.
TableInv(d, F) ==
  Touch \in caps =>
    /\ \A s \in Slots : d.touch_id[s] \in F \cup {NoFinger}
    /\ \A s, t \in Slots : d.touch_id[s] = d.touch_id[t] /\ s # t => d.touch_id[s] = NoFinger
    /\ \A s \in Slots : d.touch_id[s] # NoFinger => Touch \in readers

Good(d, F, H, P) ==
  d \in Display /\ PipeInv(d) /\ ClickInv(d, H) /\ GhostInv(d, F, P) /\ TableInv(d, F)

\* The compositor and the seat.
SeatInv ==
  /\ caps \subseteq fifos
  /\ held # {} => pointer_surface
  /\ pointer_surface => Pointer \in caps
  /\ Touch \notin caps => fingers = {}

IInv == TypeOK /\ SeatInv /\ Good(display, fingers, held, pinching)

-----------------------------------------------------------------------------
(* The pipe.                                                               *)

\* Opening a pipe changes its descriptor only.
LEMMA EnsurePipeFacts ==
  ASSUME NEW d \in Display, NEW p \in Pipes
  PROVE  LET e == EnsurePipe(d, p) IN
         /\ e \in Display
         /\ \A q \in Pipes : q # p => e.fd[q] = d.fd[q]
         /\ d.fd[p] # "none" => e.fd[p] = d.fd[p]
         /\ d.fd[p] = "none" => e.fd[p] = IF p \in readers THEN "open" ELSE "none"
         /\ CanWrite(d, p) => e.fd[p] # "none"
         /\ e.touch_id = d.touch_id /\ e.isTouchDown = d.isTouchDown
         /\ e.isMouseLeftDown = d.isMouseLeftDown
         /\ e.axis = d.axis /\ e.recent = d.recent /\ e.zoom = d.zoom
         /\ e.down = d.down /\ e.mouse = d.mouse
  BY DEF EnsurePipe, CanWrite, Display, Pipes

\* What is written to the touch pipe reaches Android's slots or, if the pipe is
\* gone, there are none: the bound on `down` holds in both cases.
LEMMA WriteTouchFacts ==
  ASSUME NEW d \in Display, readers \subseteq fifos, PipeInv(d), CanWrite(d, Touch),
         NEW put \in SUBSET (AllSlots \cup {NoSlot}), NEW lift
  PROVE  LET e == WriteTouch(d, put, lift) IN
         /\ e \in Display
         /\ e.fd[Touch] # "none" /\ e.fd[Pointer] = d.fd[Pointer]
         /\ PipeInv(e)
         /\ e.touch_id = d.touch_id /\ e.isTouchDown = d.isTouchDown
         /\ e.isMouseLeftDown = d.isMouseLeftDown
         /\ e.axis = d.axis /\ e.recent = d.recent /\ e.zoom = d.zoom
         /\ e.mouse = d.mouse
         /\ e.down \subseteq (d.down \cup (put \ {NoSlot})) \ lift
<1> DEFINE x == EnsurePipe(d, Touch)
<1>1. /\ x \in Display
      /\ x.fd[Pointer] = d.fd[Pointer] /\ x.fd[Touch] # "none"
      /\ d.fd[Touch] # "none" => x.fd[Touch] = d.fd[Touch]
      /\ d.fd[Touch] = "none" => x.fd[Touch] = "open" /\ Touch \in readers
      /\ x.touch_id = d.touch_id /\ x.isTouchDown = d.isTouchDown
      /\ x.isMouseLeftDown = d.isMouseLeftDown
      /\ x.axis = d.axis /\ x.recent = d.recent /\ x.zoom = d.zoom
      /\ x.down = d.down /\ x.mouse = d.mouse
  <2>1. Touch \in Pipes /\ Pointer \in Pipes /\ Pointer # Touch
    BY DEF Pipes, Touch, Pointer
  <2> QED
    BY <2>1, EnsurePipeFacts DEF CanWrite
<1>2. x.fd[Touch] \in {"open", "stale"}
  BY <1>1 DEF Display, Pipes
<1>3. PipeInv(x)
  BY <1>1 DEF PipeInv, Pipes
<1> HIDE DEF x
<1>4. CASE x.fd[Touch] = "open"
  <2> DEFINE e == WriteTouch(d, put, lift)
  <2>1. e = [x EXCEPT !.down = (@ \cup (put \ {NoSlot})) \ lift]
    BY <1>4 DEF WriteTouch, x
  <2>2. (d.down \cup (put \ {NoSlot})) \ lift \subseteq AllSlots
    BY DEF Display
  <2>3. /\ e \in Display /\ e.fd = x.fd /\ e.touch_id = x.touch_id
        /\ e.isTouchDown = x.isTouchDown /\ e.isMouseLeftDown = x.isMouseLeftDown
        /\ e.axis = x.axis /\ e.recent = x.recent /\ e.zoom = x.zoom /\ e.mouse = x.mouse
        /\ e.down = (d.down \cup (put \ {NoSlot})) \ lift
    BY <1>1, <2>1, <2>2 DEF Display
  <2>4. Touch \in readers
    BY <1>3, <1>4 DEF PipeInv, Pipes
  <2>5. PipeInv(e)
    BY <1>3, <2>3, <2>4 DEF PipeInv
  <2> QED
    BY <1>1, <2>3, <2>5
<1>5. CASE x.fd[Touch] = "stale"
  <2>1. WriteTouch(d, put, lift) = x
    BY <1>5 DEF WriteTouch, x
  <2>2. x.down = {}
    BY <1>3, <1>5 DEF PipeInv, Pipes
  <2> QED
    BY <1>1, <1>3, <2>1, <2>2
<1> QED
  BY <1>2, <1>4, <1>5

LEMMA LiftFacts ==
  ASSUME NEW d \in Display, readers \subseteq fifos, PipeInv(d), CanWrite(d, Touch), NEW lift
  PROVE  LET e == WriteTouch(d, {}, lift) IN
         /\ e \in Display
         /\ e.fd[Touch] # "none" /\ e.fd[Pointer] = d.fd[Pointer]
         /\ PipeInv(e)
         /\ e.touch_id = d.touch_id /\ e.isTouchDown = d.isTouchDown
         /\ e.isMouseLeftDown = d.isMouseLeftDown
         /\ e.axis = d.axis /\ e.recent = d.recent /\ e.zoom = d.zoom
         /\ e.mouse = d.mouse
         /\ e.down \subseteq d.down \ lift
<1>1. {} \in SUBSET (AllSlots \cup {NoSlot}) /\ (d.down \cup ({} \ {NoSlot})) \ lift = d.down \ lift
  OBVIOUS
<1> QED
  BY <1>1, WriteTouchFacts

LEMMA PutFacts ==
  ASSUME NEW d \in Display, readers \subseteq fifos, PipeInv(d), CanWrite(d, Touch),
         NEW put \in SUBSET AllSlots
  PROVE  LET e == WriteTouch(d, put, {}) IN
         /\ e \in Display
         /\ e.fd[Touch] # "none" /\ e.fd[Pointer] = d.fd[Pointer]
         /\ PipeInv(e)
         /\ e.touch_id = d.touch_id /\ e.isTouchDown = d.isTouchDown
         /\ e.isMouseLeftDown = d.isMouseLeftDown
         /\ e.axis = d.axis /\ e.recent = d.recent /\ e.zoom = d.zoom
         /\ e.mouse = d.mouse
         /\ e.down \subseteq d.down \cup put
<1>1. put \in SUBSET (AllSlots \cup {NoSlot}) /\ (d.down \cup (put \ {NoSlot})) \ {} \subseteq d.down \cup put
  OBVIOUS
<1> QED
  BY <1>1, WriteTouchFacts

\* Every set of slots has a lowest one: the smallest of the intervals below
\* its elements ends there.
LEMMA LowestFacts ==
  ASSUME NEW S \in SUBSET Slots, S # {}
  PROVE  Lowest(S) \in S
<1> DEFINE Below == {0..s - 1 : s \in S}
           R == StrictSubsetOrdering(Slots)
<1>1. S \subseteq Nat
  BY DEF Slots
<1>2. Below # {} /\ Below \subseteq FiniteSubsetsOf(Slots)
  <2>1. ASSUME NEW s \in S
        PROVE  0..s - 1 \subseteq Slots /\ IsFiniteSet(0..s - 1)
    BY SlotsAssumption, FS_Interval DEF Slots
  <2> QED
    BY <2>1 DEF FiniteSubsetsOf
<1>3. PICK B \in Below : \A C \in Below : ~(<<C, B>> \in R)
  <2>1. IsWellFoundedOn(R, FiniteSubsetsOf(Slots))
    BY FS_StrictSubsetOrderingWellFounded
  <2> HIDE DEF Below, R
  <2> QED
    BY <1>2, <2>1, WFMin
<1>4. PICK s \in S : B = 0..s - 1
  BY <1>3
<1>5. ASSUME NEW t \in S
      PROVE  s <= t
  <2>1. SUFFICES ASSUME t < s PROVE FALSE
    BY <1>1
  <2>2. 0..t - 1 \subseteq Slots /\ 0..s - 1 \subseteq Slots
    BY SlotsAssumption DEF Slots
  <2>3. 0..t - 1 \subseteq 0..s - 1 /\ t \in 0..s - 1 /\ t \notin 0..t - 1
    BY <1>1, <2>1
  <2>4. <<0..t - 1, 0..s - 1>> \in R
    BY <2>2, <2>3 DEF StrictSubsetOrdering
  <2> QED
    BY <1>3, <1>4, <2>4
<1> QED
  BY <1>5 DEF Lowest

-----------------------------------------------------------------------------
(* The calls of the pointer's handlers. None of them touches the table, so *)
(* that only the slots that Android takes for touched are of interest.     *)

LEMMA ButtonToTouchDownGood ==
  ASSUME NEW d, NEW F, NEW H, NEW P, readers \subseteq fifos, Good(d, F, H, P),
         "left" \in H, ~d.isMouseLeftDown
  PROVE  Good(ButtonToTouchDown(d), F, H, P)
<1>1. CASE ~CanWrite(d, Touch)
  BY <1>1 DEF ButtonToTouchDown
<1>2. CASE CanWrite(d, Touch)
  <2> DEFINE w == WriteTouch(d, {0}, {})
             e == ButtonToTouchDown(d)
  <2>1. /\ w \in Display /\ w.fd[Touch] # "none" /\ w.fd[Pointer] = d.fd[Pointer]
        /\ PipeInv(w) /\ w.touch_id = d.touch_id
        /\ w.isMouseLeftDown = d.isMouseLeftDown
        /\ w.axis = d.axis /\ w.zoom = d.zoom /\ w.mouse = d.mouse
        /\ w.down \subseteq d.down \cup {0}
    <3>1. {0} \in SUBSET AllSlots
      BY DEF AllSlots
    <3> QED
      BY <1>2, <3>1, PutFacts DEF Good
  <2>2. e = [w EXCEPT !.isTouchDown = TRUE]
    BY <1>2 DEF ButtonToTouchDown
  <2> HIDE DEF w, e
  <2>3. /\ e \in Display /\ e.fd = w.fd /\ e.touch_id = d.touch_id
        /\ e.isTouchDown /\ e.isMouseLeftDown = d.isMouseLeftDown
        /\ e.axis = d.axis /\ e.zoom = d.zoom /\ e.mouse = d.mouse /\ e.down = w.down
    BY <2>1, <2>2 DEF Display
  <2>4. PipeInv(e)
    BY <2>1, <2>3 DEF PipeInv
  <2>5. ClickInv(e, H)
    BY <2>1, <2>3 DEF Good, ClickInv
  <2>6. GhostInv(e, F, P)
    BY <2>1, <2>3 DEF Good, GhostInv
  <2>7. TableInv(e, F)
    BY <2>3 DEF Good, TableInv
  <2> QED
    BY <2>3, <2>4, <2>5, <2>6, <2>7 DEF Good, e
<1> QED
  BY <1>1, <1>2

LEMMA ButtonToTouchUpGood ==
  ASSUME NEW d, NEW F, NEW H, NEW P, readers \subseteq fifos, Good(d, F, H, P)
  PROVE  /\ Good(ButtonToTouchUp(d), F, H, P)
         /\ ~ButtonToTouchUp(d).isTouchDown
         /\ ButtonToTouchUp(d).isMouseLeftDown = d.isMouseLeftDown
<1>1. CASE ~CanWrite(d, Touch)
  BY <1>1 DEF ButtonToTouchUp, CanWrite, Good, ClickInv, Display
<1>2. CASE CanWrite(d, Touch)
  <2> DEFINE w == WriteTouch(d, {}, {0})
             e == ButtonToTouchUp(d)
  <2>1. /\ w \in Display /\ w.fd[Touch] # "none" /\ w.fd[Pointer] = d.fd[Pointer]
        /\ PipeInv(w) /\ w.touch_id = d.touch_id
        /\ w.isMouseLeftDown = d.isMouseLeftDown
        /\ w.axis = d.axis /\ w.zoom = d.zoom /\ w.mouse = d.mouse
        /\ w.down \subseteq d.down \ {0}
    BY <1>2, LiftFacts DEF Good
  <2>2. e = [w EXCEPT !.isTouchDown = FALSE]
    BY <1>2 DEF ButtonToTouchUp
  <2> HIDE DEF w, e
  <2>3. /\ e \in Display /\ e.fd = w.fd /\ e.touch_id = d.touch_id
        /\ ~e.isTouchDown /\ e.isMouseLeftDown = d.isMouseLeftDown
        /\ e.axis = d.axis /\ e.zoom = d.zoom /\ e.mouse = d.mouse /\ e.down = w.down
    BY <2>1, <2>2 DEF Display
  <2>4. PipeInv(e)
    BY <2>1, <2>3 DEF PipeInv
  <2>5. ClickInv(e, H)
    BY <2>1, <2>3 DEF Good, ClickInv
  <2>6. GhostInv(e, F, P)
    BY <2>1, <2>3 DEF Good, GhostInv
  <2>7. TableInv(e, F)
    BY <2>3 DEF Good, TableInv
  <2> QED
    BY <2>3, <2>4, <2>5, <2>6, <2>7 DEF Good, e
<1> QED
  BY <1>1, <1>2

\* It leaves the buttons alone, and ends what it is for if Android reads it.
LEMMA CancelTwoFingerGood ==
  ASSUME NEW d, NEW F, NEW H, NEW P, readers \subseteq fifos, Good(d, F, H, P)
  PROVE  LET e == CancelTwoFinger(d) IN
         /\ Good(e, F, H, P)
         /\ e.isTouchDown = d.isTouchDown /\ e.isMouseLeftDown = d.isMouseLeftDown
         /\ e.axis = d.axis
         /\ Touch \in readers => ~e.zoom
<1>1. CASE ~(d.zoom /\ CanWrite(d, Touch))
  BY <1>1 DEF CancelTwoFinger, CanWrite, Good, Display
<1>2. CASE d.zoom /\ CanWrite(d, Touch)
  <2> DEFINE w == WriteTouch(d, {}, {0, 1})
             e == CancelTwoFinger(d)
  <2>1. /\ w \in Display /\ w.fd[Touch] # "none" /\ w.fd[Pointer] = d.fd[Pointer]
        /\ PipeInv(w) /\ w.touch_id = d.touch_id
        /\ w.isTouchDown = d.isTouchDown /\ w.isMouseLeftDown = d.isMouseLeftDown
        /\ w.axis = d.axis /\ w.mouse = d.mouse
        /\ w.down \subseteq d.down \ {0, 1}
    BY <1>2, LiftFacts DEF Good
  <2>2. e = [w EXCEPT !.zoom = FALSE]
    BY <1>2 DEF CancelTwoFinger
  <2> HIDE DEF w, e
  <2>3. /\ e \in Display /\ e.fd = w.fd /\ e.touch_id = d.touch_id
        /\ e.isTouchDown = d.isTouchDown /\ e.isMouseLeftDown = d.isMouseLeftDown
        /\ e.axis = d.axis /\ ~e.zoom /\ e.mouse = d.mouse /\ e.down = w.down
    BY <2>1, <2>2 DEF Display
  <2>4. PipeInv(e)
    BY <2>1, <2>3 DEF PipeInv
  <2>5. ClickInv(e, H)
    BY <2>1, <2>3 DEF Good, ClickInv
  <2>6. GhostInv(e, F, P)
    BY <2>1, <2>3 DEF Good, GhostInv
  <2>7. TableInv(e, F)
    BY <2>3 DEF Good, TableInv
  <2> QED
    BY <2>3, <2>4, <2>5, <2>6, <2>7 DEF Good, e
<1> QED
  BY <1>1, <1>2

LEMMA EnsurePipeGood ==
  ASSUME NEW d, NEW F, NEW H, NEW P, NEW p \in Pipes, Good(d, F, H, P), readers \subseteq fifos
  PROVE  Good(EnsurePipe(d, p), F, H, P)
<1> DEFINE e == EnsurePipe(d, p)
<1>1. /\ e \in Display /\ \A q \in Pipes : q # p => e.fd[q] = d.fd[q]
      /\ d.fd[p] # "none" => e.fd[p] = d.fd[p]
      /\ d.fd[p] = "none" => e.fd[p] = IF p \in readers THEN "open" ELSE "none"
      /\ e.touch_id = d.touch_id /\ e.isTouchDown = d.isTouchDown
      /\ e.isMouseLeftDown = d.isMouseLeftDown
      /\ e.axis = d.axis /\ e.zoom = d.zoom /\ e.down = d.down /\ e.mouse = d.mouse
  BY EnsurePipeFacts DEF Good
<1> HIDE DEF e
<1>2. PipeInv(e)
  BY <1>1 DEF Good, PipeInv
<1>3. ClickInv(e, H)
  BY <1>1 DEF Good, ClickInv, Pipes
<1>4. GhostInv(e, F, P) /\ TableInv(e, F)
  BY <1>1 DEF Good, GhostInv, TableInv
<1> QED
  BY <1>1, <1>2, <1>3, <1>4 DEF Good, e

LEMMA CancelAxisGood ==
  ASSUME NEW d, NEW F, NEW H, NEW P, NEW stop \in BOOLEAN, NEW force \in BOOLEAN,
         readers \subseteq fifos, Good(d, F, H, P)
  PROVE  LET e == CancelAxis(d, stop, force) IN
         /\ Good(e, F, H, P)
         /\ e.isTouchDown = d.isTouchDown /\ e.isMouseLeftDown = d.isMouseLeftDown
         /\ Touch \in readers /\ force => ~e.axis
<1>1. CASE ~d.axis \/ ~CanWrite(d, Touch)
  BY <1>1 DEF CancelAxis, CanWrite, Good, Display
<1>2. CASE d.axis /\ CanWrite(d, Touch) /\ ~force /\ d.recent
  <2>1. Touch \in Pipes
    BY DEF Pipes
  <2>2. CancelAxis(d, stop, force) = EnsurePipe(d, Touch)
    BY <1>2 DEF CancelAxis
  <2>3. Good(EnsurePipe(d, Touch), F, H, P)
    BY <2>1, EnsurePipeGood
  <2>4. /\ EnsurePipe(d, Touch).isTouchDown = d.isTouchDown
        /\ EnsurePipe(d, Touch).isMouseLeftDown = d.isMouseLeftDown
    BY <2>1, EnsurePipeFacts DEF Good
  <2> QED
    BY <1>2, <2>2, <2>3, <2>4
<1>3. CASE d.axis /\ CanWrite(d, Touch) /\ (force \/ ~d.recent)
  <2> DEFINE lift == IF stop THEN {AxisSlot} ELSE {AxisSlot, AxisSlot + 1}
             w == WriteTouch(d, {}, lift)
             e == CancelAxis(d, stop, force)
  <2>1. /\ w \in Display /\ w.fd[Touch] # "none" /\ w.fd[Pointer] = d.fd[Pointer]
        /\ PipeInv(w) /\ w.touch_id = d.touch_id
        /\ w.isTouchDown = d.isTouchDown /\ w.isMouseLeftDown = d.isMouseLeftDown
        /\ w.zoom = d.zoom /\ w.mouse = d.mouse
        /\ w.down \subseteq d.down \ {AxisSlot}
    BY <1>3, LiftFacts DEF Good
  <2>2. e = [w EXCEPT !.axis = FALSE, !.recent = FALSE]
    BY <1>3 DEF CancelAxis, Good, Display
  <2> HIDE DEF w, e
  <2>3. /\ e \in Display /\ e.fd = w.fd /\ e.touch_id = d.touch_id
        /\ e.isTouchDown = d.isTouchDown /\ e.isMouseLeftDown = d.isMouseLeftDown
        /\ ~e.axis /\ e.zoom = d.zoom /\ e.mouse = d.mouse /\ e.down = w.down
    BY <2>1, <2>2 DEF Display
  <2>4. PipeInv(e)
    BY <2>1, <2>3 DEF PipeInv
  <2>5. ClickInv(e, H)
    BY <2>1, <2>3 DEF Good, ClickInv
  <2>6. GhostInv(e, F, P)
    BY <2>1, <2>3 DEF Good, GhostInv
  <2>7. TableInv(e, F)
    BY <2>3 DEF Good, TableInv
  <2> QED
    BY <2>3, <2>4, <2>5, <2>6, <2>7 DEF Good, e
<1> QED
  BY <1>1, <1>2, <1>3

LEMMA AxisToTouchGood ==
  ASSUME NEW d, NEW F, NEW H, NEW P, readers \subseteq fifos, Good(d, F, H, P)
  PROVE  Good(AxisToTouch(d), F, H, P)
<1>1. CASE ~CanWrite(d, Touch)
  BY <1>1 DEF AxisToTouch
<1>2. CASE CanWrite(d, Touch)
  <2> DEFINE w == WriteTouch(d, {AxisSlot}, {})
             e == AxisToTouch(d)
  <2>1. /\ w \in Display /\ w.fd[Touch] # "none" /\ w.fd[Pointer] = d.fd[Pointer]
        /\ PipeInv(w) /\ w.touch_id = d.touch_id
        /\ w.isTouchDown = d.isTouchDown /\ w.isMouseLeftDown = d.isMouseLeftDown
        /\ w.zoom = d.zoom /\ w.mouse = d.mouse
        /\ w.down \subseteq d.down \cup {AxisSlot}
    <3>1. {AxisSlot} \in SUBSET AllSlots
      BY DEF AllSlots
    <3> QED
      BY <1>2, <3>1, PutFacts DEF Good
  <2>2. e = [w EXCEPT !.axis = TRUE, !.recent = TRUE]
    BY <1>2 DEF AxisToTouch
  <2> HIDE DEF w, e
  <2>3. /\ e \in Display /\ e.fd = w.fd /\ e.touch_id = d.touch_id
        /\ e.isTouchDown = d.isTouchDown /\ e.isMouseLeftDown = d.isMouseLeftDown
        /\ e.axis /\ e.zoom = d.zoom /\ e.mouse = d.mouse /\ e.down = w.down
    BY <2>1, <2>2 DEF Display
  <2>4. PipeInv(e)
    BY <2>1, <2>3 DEF PipeInv
  <2>5. ClickInv(e, H)
    BY <2>1, <2>3 DEF Good, ClickInv
  <2>6. GhostInv(e, F, P)
    BY <2>1, <2>3 DEF Good, GhostInv
  <2>7. TableInv(e, F)
    BY <2>3 DEF Good, TableInv
  <2> QED
    BY <2>3, <2>4, <2>5, <2>6, <2>7 DEF Good, e
<1> QED
  BY <1>1, <1>2

\* From an update on the pinch accounts for slots 0 and 1.
LEMMA PinchUpdateGood ==
  ASSUME NEW d, NEW F, NEW H, NEW P, readers \subseteq fifos, Good(d, F, H, P)
  PROVE  Good(PinchUpdate(d), F, H, TRUE)
<1>1. CASE ~CanWrite(d, Touch)
  BY <1>1 DEF PinchUpdate, Good, GhostInv
<1>2. CASE CanWrite(d, Touch)
  <2> DEFINE w == WriteTouch(d, {0, 1}, {})
  <2>1. /\ w \in Display /\ w.fd[Touch] # "none" /\ w.fd[Pointer] = d.fd[Pointer]
        /\ PipeInv(w) /\ w.touch_id = d.touch_id
        /\ w.isTouchDown = d.isTouchDown /\ w.isMouseLeftDown = d.isMouseLeftDown
        /\ w.axis = d.axis /\ w.zoom = d.zoom /\ w.mouse = d.mouse
        /\ w.down \subseteq d.down \cup {0, 1}
    <3>1. {0, 1} \in SUBSET AllSlots
      BY DEF AllSlots
    <3> QED
      BY <1>2, <3>1, PutFacts DEF Good
  <2>2. PinchUpdate(d) = w
    BY <1>2 DEF PinchUpdate
  <2> HIDE DEF w
  <2>3. ClickInv(w, H) /\ TableInv(w, F)
    BY <2>1 DEF Good, ClickInv, TableInv
  <2>4. GhostInv(w, F, TRUE)
    BY <2>1 DEF Good, GhostInv
  <2> QED
    BY <2>1, <2>2, <2>3, <2>4 DEF Good
<1> QED
  BY <1>1, <1>2

LEMMA AxisToPinchGood ==
  ASSUME NEW d, NEW F, NEW H, NEW P, readers \subseteq fifos, Good(d, F, H, P)
  PROVE  Good(AxisToPinch(d), F, H, P)
<1> DEFINE w == PinchUpdate(CancelAxis(d, TRUE, TRUE))
           e == AxisToPinch(d)
<1>1. Good(w, F, H, TRUE)
  BY CancelAxisGood, PinchUpdateGood
<1>2. e = [w EXCEPT !.zoom = TRUE]
  BY DEF AxisToPinch
<1> HIDE DEF w, e
<1>3. /\ e \in Display /\ e.fd = w.fd /\ e.touch_id = w.touch_id
      /\ e.isTouchDown = w.isTouchDown /\ e.isMouseLeftDown = w.isMouseLeftDown
      /\ e.axis = w.axis /\ e.zoom /\ e.mouse = w.mouse /\ e.down = w.down
  BY <1>1, <1>2 DEF Good, Display
<1>4. PipeInv(e) /\ ClickInv(e, H) /\ TableInv(e, F)
  BY <1>1, <1>3 DEF Good, PipeInv, ClickInv, TableInv
<1>5. GhostInv(e, F, P)
  BY <1>1, <1>3 DEF Good, GhostInv
<1> QED
  BY <1>3, <1>4, <1>5 DEF Good, e

\* The button b is pressed or released as a button of the mouse.
LEMMA ButtonToMouseGood ==
  ASSUME NEW d, NEW F, NEW H, NEW P, readers \subseteq fifos, Good(d, F, H, P),
         pointer_surface, ~d.isTouchDown, NEW b \in Buttons, NEW pressed \in BOOLEAN,
         pressed => b \notin H
  PROVE  Good(ButtonToMouse(d, b, pressed), F, IF pressed THEN H \cup {b} ELSE H \ {b}, P)
<1> DEFINE x == EnsurePipe(d, Pointer)
           f == IF b = "left" THEN [x EXCEPT !.isMouseLeftDown = pressed] ELSE x
           e == ButtonToMouse(d, b, pressed)
           G == IF pressed THEN H \cup {b} ELSE H \ {b}
<1>1. CASE ~CanWrite(d, Pointer)
  <2>1. e = d /\ d.fd[Pointer] = "none"
    BY <1>1 DEF ButtonToMouse, CanWrite
  <2>2. ClickInv(d, G)
    BY <2>1 DEF Good, ClickInv
  <2> QED
    BY <2>1, <2>2 DEF Good
<1>2. CASE CanWrite(d, Pointer)
  <2>1. Good(x, F, H, P) /\ x.fd[Pointer] # "none" /\ ~x.isTouchDown
    BY <1>2, EnsurePipeGood, EnsurePipeFacts DEF Good, Pipes
  <2>2. e = IF f.fd[Pointer] # "open" THEN f
            ELSE [f EXCEPT !.mouse = IF pressed THEN @ \cup {b} ELSE @ \ {b}]
    BY <1>2 DEF ButtonToMouse
  <2> HIDE DEF x, e
  <2>3. /\ f \in Display /\ f.fd = x.fd /\ f.touch_id = x.touch_id
        /\ f.isTouchDown = x.isTouchDown /\ f.axis = x.axis /\ f.zoom = x.zoom
        /\ f.mouse = x.mouse /\ f.down = x.down
        /\ f.isMouseLeftDown = IF b = "left" THEN pressed ELSE x.isMouseLeftDown
    BY <2>1 DEF Good, Display
  <2> HIDE DEF f
  <2>4. f.fd[Pointer] # "open" => Pointer \notin readers /\ f.mouse = {}
    BY <2>1, <2>3 DEF Good, PipeInv, Display, Pipes
  <2>5. /\ e \in Display /\ e.fd = x.fd /\ e.touch_id = x.touch_id
        /\ e.isTouchDown = x.isTouchDown /\ e.axis = x.axis /\ e.zoom = x.zoom
        /\ e.down = x.down
        /\ e.isMouseLeftDown = f.isMouseLeftDown
        /\ e.mouse = IF f.fd[Pointer] # "open" THEN {}
                     ELSE IF pressed THEN x.mouse \cup {b} ELSE x.mouse \ {b}
    BY <2>2, <2>3, <2>4 DEF Display
  <2>6. PipeInv(e)
    BY <2>1, <2>3, <2>5 DEF Good, PipeInv, Pipes
  <2>7. ClickInv(e, G)
    BY <2>1, <2>3, <2>5 DEF Good, ClickInv, Buttons
  <2>8. GhostInv(e, F, P) /\ TableInv(e, F)
    BY <2>1, <2>5 DEF Good, GhostInv, TableInv
  <2> QED
    BY <2>5, <2>6, <2>7, <2>8 DEF Good, e
<1> QED
  BY <1>1, <1>2

-----------------------------------------------------------------------------
(* The calls of the touch screen's handlers.                               *)

LEMMA GetTouchIdFacts ==
  ASSUME NEW d \in Display, NEW f \in Fingers
  PROVE  LET s == GetTouchId(d, f) IN
         \/ s \in Slots /\ d.touch_id[s] = f
         \/ s \in Slots /\ d.touch_id[s] = NoFinger /\ \A t \in Slots : d.touch_id[t] # f
         \/ s = NoSlot
<1>1. CASE SlotOf(d, f) # {}
  <2>1. Lowest(SlotOf(d, f)) \in SlotOf(d, f)
    BY <1>1, LowestFacts DEF SlotOf
  <2> QED
    BY <1>1, <2>1 DEF GetTouchId, SlotOf
<1>2. CASE SlotOf(d, f) = {} /\ SlotOf(d, NoFinger) # {}
  <2>1. Lowest(SlotOf(d, NoFinger)) \in SlotOf(d, NoFinger)
    BY <1>2, LowestFacts DEF SlotOf
  <2> QED
    BY <1>2, <2>1 DEF GetTouchId, SlotOf
<1>3. CASE SlotOf(d, f) = {} /\ SlotOf(d, NoFinger) = {}
  BY <1>3 DEF GetTouchId
<1> QED
  BY <1>1, <1>2, <1>3

LEMMA PutFingerGood ==
  ASSUME NEW d, NEW F \in SUBSET Fingers, NEW H, NEW P, readers \subseteq fifos,
         Good(d, F, H, P), Touch \in caps, Touch \in fifos, NEW f \in F
  PROVE  Good(PutFinger(d, f), F, H, P)
<1>1. CASE ~CanWrite(d, Touch)
  BY <1>1 DEF PutFinger
<1>2. CASE CanWrite(d, Touch)
  <2> DEFINE s == GetTouchId(d, f)
             x == TakeSlot(d, f)
             w == WriteTouch(x, {s}, {})
  <2>1. PutFinger(d, f) = w
    BY <1>2 DEF PutFinger
  <2>2. Touch \in readers
    BY <1>2 DEF Good, PipeInv, CanWrite, Display, Pipes
  <2>3. f \in Fingers /\ f # NoFinger
    BY DEF Fingers, NoFinger
  <2>4. \/ s \in Slots /\ d.touch_id[s] = f
        \/ s \in Slots /\ d.touch_id[s] = NoFinger /\ \A t \in Slots : d.touch_id[t] # f
        \/ s = NoSlot
    BY <2>3, GetTouchIdFacts DEF Good
  <2>5. CASE s = NoSlot
    <3>1. x = d
      BY <2>5 DEF TakeSlot
    <3>2. s = NoSlot
      BY <2>5
    <3> HIDE DEF s, x
    <3>3. /\ w \in Display /\ w.fd[Touch] # "none" /\ w.fd[Pointer] = d.fd[Pointer]
          /\ PipeInv(w) /\ w.touch_id = d.touch_id
          /\ w.isTouchDown = d.isTouchDown /\ w.isMouseLeftDown = d.isMouseLeftDown
          /\ w.axis = d.axis /\ w.zoom = d.zoom /\ w.mouse = d.mouse
          /\ w.down \subseteq d.down
      <4> DEFINE put == {NoSlot}
      <4>1. put \in SUBSET (AllSlots \cup {NoSlot}) /\ (d.down \cup (put \ {NoSlot})) \ {} = d.down
        OBVIOUS
      <4>2. w = WriteTouch(d, put, {})
        BY <3>1, <3>2
      <4>3. d \in Display /\ PipeInv(d)
        BY DEF Good
      <4> HIDE DEF w, put
      <4>4. w.down \subseteq (d.down \cup (put \ {NoSlot})) \ {}
        BY <1>2, <4>1, <4>2, <4>3, WriteTouchFacts
      <4> QED
        BY <1>2, <4>1, <4>2, <4>3, <4>4, WriteTouchFacts
    <3> HIDE DEF w
    <3> QED
      BY <2>1, <3>3 DEF Good, ClickInv, GhostInv, TableInv
  <2>6. CASE s # NoSlot
    <3>1. s \in Slots
      BY <2>4, <2>6
    <3>2. x = [d EXCEPT !.touch_id[s] = f]
      BY <2>6 DEF TakeSlot
    <3> HIDE DEF s, x
    <3>3. /\ x \in Display /\ x.fd = d.fd /\ x.touch_id = [d.touch_id EXCEPT ![s] = f]
          /\ x.isTouchDown = d.isTouchDown /\ x.isMouseLeftDown = d.isMouseLeftDown
          /\ x.axis = d.axis /\ x.zoom = d.zoom /\ x.mouse = d.mouse /\ x.down = d.down
      BY <2>3, <3>1, <3>2 DEF Good, Display
    <3>4. PipeInv(x) /\ CanWrite(x, Touch) /\ x \in Display
      BY <1>2, <3>3 DEF Good, PipeInv, CanWrite
    <3>5. {s} \in SUBSET AllSlots
      BY <3>1 DEF AllSlots
    <3>6. /\ w \in Display /\ w.fd[Touch] # "none" /\ w.fd[Pointer] = x.fd[Pointer]
          /\ PipeInv(w) /\ w.touch_id = x.touch_id
          /\ w.isTouchDown = x.isTouchDown /\ w.isMouseLeftDown = x.isMouseLeftDown
          /\ w.axis = x.axis /\ w.zoom = x.zoom /\ w.mouse = x.mouse
          /\ w.down \subseteq x.down \cup {s}
      BY <3>4, <3>5, PutFacts
    <3> HIDE DEF w
    <3>7. ClickInv(w, H)
      BY <3>3, <3>6 DEF Good, ClickInv
    <3>8. d.touch_id \in [Slots -> Fingers \cup {NoFinger}]
      BY DEF Good, Display
    <3>9. \A t \in Slots : w.touch_id[t] = IF t = s THEN f ELSE d.touch_id[t]
      BY <3>3, <3>6, <3>8
    <3>10. TableInv(w, F)
      <4>1. TableInv(d, F)
        BY DEF Good
      <4>2. CASE d.touch_id[s] = f
        BY <2>2, <3>9, <4>1, <4>2 DEF TableInv
      <4>3. CASE \A t \in Slots : d.touch_id[t] # f
        BY <2>2, <3>9, <4>1, <4>3 DEF TableInv
      <4> QED
        BY <2>4, <2>6, <4>2, <4>3 DEF s
    <3>11. GhostInv(w, F, P)
      <4> SUFFICES ASSUME NEW t \in w.down
                   PROVE  \/ t \in Slots /\ w.touch_id[t] \in F
                          \/ t = 0 /\ w.isTouchDown
                          \/ t \in {0, 1} /\ (w.zoom \/ P)
                          \/ t = AxisSlot /\ w.axis
        BY DEF GhostInv
      <4>1. CASE t = s
        BY <3>1, <3>9, <4>1
      <4>2. CASE t # s
        BY <3>3, <3>6, <3>9, <4>2 DEF Good, GhostInv
      <4> QED
        BY <4>1, <4>2
    <3> QED
      BY <2>1, <3>6, <3>7, <3>10, <3>11 DEF Good
  <2> QED
    BY <2>5, <2>6
<1> QED
  BY <1>1, <1>2

LEMMA LiftFingerGood ==
  ASSUME NEW d, NEW F \in SUBSET Fingers, NEW H, NEW P, readers \subseteq fifos,
         Good(d, F, H, P), Touch \in caps, Touch \in fifos, NEW f \in F
  PROVE  Good(LiftFinger(d, f), F \ {f}, H, P)
<1>1. f \in Fingers /\ f # NoFinger
  BY DEF Fingers, NoFinger
<1>2. d.touch_id \in [Slots -> Fingers \cup {NoFinger}]
  BY DEF Good, Display
<1>3. CASE ~CanWrite(d, Touch)
  <2>1. LiftFinger(d, f) = d
    BY <1>3 DEF LiftFinger
  <2>2. Touch \notin readers
    BY <1>3 DEF CanWrite
  <2>3. \A s \in Slots : d.touch_id[s] = NoFinger
    BY <2>2 DEF Good, TableInv
  <2>4. d.down = {}
    BY <2>2 DEF Good, PipeInv
  <2> QED
    BY <2>1, <2>3, <2>4 DEF Good, GhostInv, TableInv
<1>4. CASE CanWrite(d, Touch) /\ SlotOf(d, f) = {}
  <2> DEFINE e == EnsurePipe(d, Touch)
  <2>1. LiftFinger(d, f) = e
    BY <1>4 DEF LiftFinger
  <2>2. Good(e, F, H, P) /\ e.touch_id = d.touch_id
    BY EnsurePipeGood, EnsurePipeFacts DEF Good, Pipes
  <2>3. \A s \in Slots : d.touch_id[s] # f
    BY <1>4 DEF SlotOf
  <2> HIDE DEF e
  <2> QED
    BY <2>1, <2>2, <2>3 DEF Good, GhostInv, TableInv
<1>5. CASE CanWrite(d, Touch) /\ SlotOf(d, f) # {}
  <2> DEFINE s == Lowest(SlotOf(d, f))
             x == [d EXCEPT !.touch_id[s] = NoFinger]
             w == WriteTouch(x, {}, {s})
  <2>1. s \in Slots /\ d.touch_id[s] = f
    BY <1>5, LowestFacts DEF SlotOf
  <2>2. LiftFinger(d, f) = w
    BY <1>5 DEF LiftFinger
  <2> HIDE DEF s
  <2>3. /\ x \in Display /\ x.fd = d.fd /\ x.touch_id = [d.touch_id EXCEPT ![s] = NoFinger]
        /\ x.isTouchDown = d.isTouchDown /\ x.isMouseLeftDown = d.isMouseLeftDown
        /\ x.axis = d.axis /\ x.zoom = d.zoom /\ x.mouse = d.mouse /\ x.down = d.down
    BY <2>1 DEF Good, Display
  <2> HIDE DEF x
  <2>4. PipeInv(x) /\ CanWrite(x, Touch)
    BY <1>5, <2>3 DEF Good, PipeInv, CanWrite
  <2>5. /\ w \in Display /\ w.fd[Touch] # "none" /\ w.fd[Pointer] = x.fd[Pointer]
        /\ PipeInv(w) /\ w.touch_id = x.touch_id
        /\ w.isTouchDown = x.isTouchDown /\ w.isMouseLeftDown = x.isMouseLeftDown
        /\ w.axis = x.axis /\ w.zoom = x.zoom /\ w.mouse = x.mouse
        /\ w.down \subseteq x.down \ {s}
    BY <2>3, <2>4, LiftFacts
  <2> HIDE DEF w
  <2>6. ClickInv(w, H)
    BY <2>3, <2>5 DEF Good, ClickInv
  <2>7. \A t \in Slots : w.touch_id[t] = IF t = s THEN NoFinger ELSE d.touch_id[t]
    BY <1>2, <2>3, <2>5
  <2>8. \A t \in Slots : t # s => d.touch_id[t] # f
    BY <1>1, <2>1 DEF Good, TableInv
  <2>9. TableInv(w, F \ {f})
    BY <2>7, <2>8 DEF Good, TableInv
  <2>10. GhostInv(w, F \ {f}, P)
    BY <2>3, <2>5, <2>7, <2>8 DEF Good, GhostInv
  <2> QED
    BY <2>2, <2>5, <2>6, <2>9, <2>10 DEF Good
<1> QED
  BY <1>3, <1>4, <1>5

-----------------------------------------------------------------------------
(* The handlers.                                                           *)

LEMMA InitIInv == Init => IInv
<1> SUFFICES ASSUME Init PROVE IInv
  OBVIOUS
<1> USE SlotsAssumption DEF Init
<1>1. display \in Display
  <2>1. 0 \in Fingers
    BY DEF Fingers
  <2> QED
    BY <2>1 DEF Display
<1>2. TypeOK /\ SeatInv
  BY <1>1 DEF TypeOK, SeatInv
<1>3. Good(display, fingers, held, pinching)
  BY <1>1 DEF Good, PipeInv, ClickInv, GhostInv, TableInv, Pipes
<1> QED
  BY <1>2, <1>3 DEF IInv

\* With the pipes and the capabilities as they are, the new display decides.
LEMMA KeepsGood ==
  ASSUME UNCHANGED <<fifos, readers, caps>>,
         Good(display', fingers', held', pinching')
  PROVE  Good(display, fingers, held, pinching)'
BY DEF Good, PipeInv, ClickInv, GhostInv, TableInv

LEMMA PointerIInv ==
  ASSUME IInv, PointerEnter \/ PointerLeave \/ PointerMotion \/ RelativeMotion
               \/ PointerAxis \/ PointerAxisStop \/ TimePasses
  PROVE  IInv'
<1>1. UNCHANGED <<fifos, readers, caps, fingers, held, pinching>>
  BY DEF PointerEnter, PointerLeave, PointerMotion, RelativeMotion, PointerAxis,
         PointerAxisStop, TimePasses
<1>2. readers \subseteq fifos /\ Good(display, fingers, held, pinching)
      /\ Pointer \in Pipes /\ FALSE \in BOOLEAN /\ TRUE \in BOOLEAN
  BY DEF IInv, TypeOK, Pipes
<1>3. Good(display', fingers, held, pinching)
  <2>1. CASE PointerEnter \/ PointerLeave
    BY <1>2, <2>1 DEF PointerEnter, PointerLeave
  <2>2. CASE PointerMotion
    <3> DEFINE d == EnsurePipe(CancelTwoFinger(display), Pointer)
    <3>1. Good(d, fingers, held, pinching)
      BY <1>2, CancelTwoFingerGood, EnsurePipeGood
    <3> HIDE DEF d
    <3>2. CASE d.isTouchDown
      <4>1. "left" \in held /\ ~d.isMouseLeftDown
        BY <3>1, <3>2 DEF Good, ClickInv
      <4>2. Good(ButtonToTouchDown(d), fingers, held, pinching)
        BY <1>2, <3>1, <4>1, ButtonToTouchDownGood
      <4> QED
        BY <2>2, <3>1, <3>2, <4>2 DEF PointerMotion, d
    <3>3. CASE ~d.isTouchDown
      <4>1. Good(CancelAxis(d, FALSE, FALSE), fingers, held, pinching)
        BY <1>2, <3>1, CancelAxisGood
      <4> QED
        BY <2>2, <3>1, <3>3, <4>1 DEF PointerMotion, d
    <3> QED
      BY <3>2, <3>3
  <2>3. CASE RelativeMotion
    <3> DEFINE d == EnsurePipe(CancelTwoFinger(display), Pointer)
    <3>1. Good(d, fingers, held, pinching)
      BY <1>2, CancelTwoFingerGood, EnsurePipeGood
    <3> HIDE DEF d
    <3>2. Good(CancelAxis(d, FALSE, FALSE), fingers, held, pinching)
      BY <1>2, <3>1, CancelAxisGood
    <3> QED
      BY <2>3, <3>1, <3>2 DEF RelativeMotion, d
  <2>4. CASE PointerAxis
    <3> DEFINE d == EnsurePipe(display, Pointer)
    <3>1. Good(d, fingers, held, pinching)
      BY <1>2, EnsurePipeGood
    <3> HIDE DEF d
    <3>2. Good(AxisToPinch(d), fingers, held, pinching)
      BY <1>2, <3>1, AxisToPinchGood
    <3>3. Good(AxisToTouch(CancelTwoFinger(d)), fingers, held, pinching)
      <4>1. Good(CancelTwoFinger(d), fingers, held, pinching)
        BY <1>2, <3>1, CancelTwoFingerGood
      <4> QED
        BY <1>2, <4>1, AxisToTouchGood
    <3> QED
      BY <2>4, <3>1, <3>2, <3>3 DEF PointerAxis, d
  <2>5. CASE PointerAxisStop
    <3>1. Good(CancelTwoFinger(display), fingers, held, pinching)
      BY <1>2, CancelTwoFingerGood
    <3>2. Good(CancelAxis(CancelTwoFinger(display), TRUE, TRUE), fingers, held, pinching)
      BY <1>2, <3>1, CancelAxisGood
    <3> QED
      BY <2>5, <3>2 DEF PointerAxisStop
  <2>6. CASE TimePasses
    <3>1. display' = [display EXCEPT !.recent = FALSE]
      BY <2>6 DEF TimePasses
    <3> QED
      BY <1>2, <3>1 DEF Good, PipeInv, ClickInv, GhostInv, TableInv, Display
  <2> QED
    BY <2>1, <2>2, <2>3, <2>4, <2>5, <2>6
<1>4. Good(display, fingers, held, pinching)'
  BY <1>1, <1>3, KeepsGood
<1>5. /\ pointer_surface' \in BOOLEAN
      /\ held # {} => pointer_surface'
      /\ pointer_surface' => Pointer \in caps
  <2>1. CASE PointerEnter \/ PointerLeave
    BY <2>1 DEF IInv, TypeOK, SeatInv, PointerEnter, PointerLeave
  <2>2. CASE ~(PointerEnter \/ PointerLeave)
    <3>1. pointer_surface' = pointer_surface
      BY <2>2 DEF PointerMotion, RelativeMotion, PointerAxis, PointerAxisStop, TimePasses
    <3> QED
      BY <3>1 DEF IInv, TypeOK, SeatInv
  <2> QED
    BY <2>1, <2>2
<1>6. TypeOK' /\ SeatInv'
  BY <1>1, <1>4, <1>5 DEF IInv, TypeOK, SeatInv, Good
<1> QED
  BY <1>4, <1>6 DEF IInv

\* What the button's handler has before it looks at the button.
LEMMA ButtonBegins ==
  ASSUME IInv
  PROVE  LET d == CancelTwoFinger(CancelAxis(display, FALSE, TRUE)) IN
         /\ Good(d, fingers, held, pinching)
         /\ Touch \in readers => ~d.axis /\ ~d.zoom
<1>1. readers \subseteq fifos /\ Good(display, fingers, held, pinching)
      /\ FALSE \in BOOLEAN /\ TRUE \in BOOLEAN
  BY DEF IInv, TypeOK
<1> DEFINE c == CancelAxis(display, FALSE, TRUE)
<1>2. Good(c, fingers, held, pinching) /\ (Touch \in readers => ~c.axis)
  BY <1>1, CancelAxisGood
<1> HIDE DEF c
<1>3. LET d == CancelTwoFinger(c) IN
      /\ Good(d, fingers, held, pinching)
      /\ d.axis = c.axis
      /\ Touch \in readers => ~d.zoom
  BY <1>1, <1>2, CancelTwoFingerGood
<1> QED
  BY <1>2, <1>3 DEF c

LEMMA PointerButtonIInv ==
  ASSUME IInv, NEW b \in Buttons, PointerButton(b)
  PROVE  IInv'
<1> DEFINE pressed == b \notin held
           d == CancelTwoFinger(CancelAxis(display, FALSE, TRUE))
           G == IF pressed THEN held \cup {b} ELSE held \ {b}
<1>1. /\ UNCHANGED <<fifos, readers, caps, fingers, pinching, pointer_surface>>
      /\ pointer_surface /\ held' = G
  BY DEF PointerButton
<1>2. Good(d, fingers, held, pinching) /\ readers \subseteq fifos
  BY ButtonBegins DEF IInv, TypeOK
<1>3. PICK click \in BOOLEAN :
        display' = IF ~TakenForTouch(d, b, click)
                   THEN ButtonToMouse(d, b, pressed)
                   ELSE IF pressed THEN ButtonToTouchDown(d) ELSE ButtonToTouchUp(d)
  BY DEF PointerButton
<1> HIDE DEF d
<1>4. Good(display', fingers, G, pinching)
  <2>1. CASE ~TakenForTouch(d, b, click)
    <3>1. ~d.isTouchDown
      BY <1>2, <2>1 DEF TakenForTouch, Good, ClickInv, Display
    <3>2. pressed \in BOOLEAN /\ (pressed => b \notin held)
      OBVIOUS
    <3>3. Good(ButtonToMouse(d, b, pressed), fingers, G, pinching)
      BY <1>1, <1>2, <3>1, <3>2, ButtonToMouseGood
    <3> QED
      BY <1>3, <2>1, <3>3
  <2>2. CASE TakenForTouch(d, b, click) /\ pressed
    <3>1. "left" \in G /\ ~d.isMouseLeftDown
      BY <1>2, <2>2 DEF TakenForTouch, Good, ClickInv
    <3>2. Good(d, fingers, G, pinching)
      BY <1>2, <2>2 DEF Good, ClickInv
    <3>3. Good(ButtonToTouchDown(d), fingers, G, pinching)
      BY <1>2, <3>1, <3>2, ButtonToTouchDownGood
    <3> QED
      BY <1>3, <2>2, <3>3
  <2>3. CASE TakenForTouch(d, b, click) /\ ~pressed
    <3> DEFINE e == ButtonToTouchUp(d)
    <3>1. Good(e, fingers, held, pinching) /\ ~e.isTouchDown /\ ~e.isMouseLeftDown
      <4>1. ~d.isMouseLeftDown
        BY <2>3 DEF TakenForTouch
      <4> QED
        BY <1>2, <4>1, ButtonToTouchUpGood
    <3> HIDE DEF e
    <3>2. Good(e, fingers, G, pinching)
      BY <3>1 DEF Good, ClickInv
    <3> QED
      BY <1>3, <2>3, <3>2 DEF e
  <2> QED
    BY <2>1, <2>2, <2>3
<1>5. Good(display, fingers, held, pinching)'
  BY <1>1, <1>4, KeepsGood
<1>6. TypeOK' /\ SeatInv'
  BY <1>1, <1>5 DEF IInv, TypeOK, SeatInv, Good
<1> QED
  BY <1>5, <1>6 DEF IInv

LEMMA PinchIInv ==
  ASSUME IInv, GesturePinchUpdate \/ GesturePinchEnd
  PROVE  IInv'
<1>1. /\ UNCHANGED <<fifos, readers, caps, fingers, held, pointer_surface>>
      /\ pinching' \in BOOLEAN
  BY DEF GesturePinchUpdate, GesturePinchEnd
<1>2. readers \subseteq fifos /\ Good(display, fingers, held, pinching)
  BY DEF IInv, TypeOK
<1>3. Good(display', fingers, held, pinching')
  <2>1. CASE GesturePinchUpdate
    BY <1>2, <2>1, PinchUpdateGood DEF GesturePinchUpdate
  <2>2. CASE GesturePinchEnd /\ ~CanWrite(display, Touch)
    <3>1. display' = display /\ display.down = {}
      BY <1>2, <2>2 DEF GesturePinchEnd, CanWrite, Good, PipeInv
    <3> QED
      BY <1>2, <3>1 DEF Good, GhostInv
  <2>3. CASE GesturePinchEnd /\ CanWrite(display, Touch)
    <3> DEFINE w == WriteTouch(display, {}, {0, 1})
    <3>1. display' = w
      BY <2>3 DEF GesturePinchEnd
    <3>2. /\ w \in Display /\ w.fd[Touch] # "none" /\ w.fd[Pointer] = display.fd[Pointer]
          /\ PipeInv(w) /\ w.touch_id = display.touch_id
          /\ w.isTouchDown = display.isTouchDown
          /\ w.isMouseLeftDown = display.isMouseLeftDown
          /\ w.axis = display.axis /\ w.zoom = display.zoom /\ w.mouse = display.mouse
          /\ w.down \subseteq display.down \ {0, 1}
      BY <1>2, <2>3, LiftFacts DEF Good
    <3> HIDE DEF w
    <3>3. Good(w, fingers, held, pinching')
      BY <1>2, <3>2 DEF Good, ClickInv, GhostInv, TableInv
    <3> QED
      BY <3>1, <3>3
  <2> QED
    BY <2>1, <2>2, <2>3
<1>4. Good(display, fingers, held, pinching)'
  BY <1>1, <1>3, KeepsGood
<1>5. TypeOK' /\ SeatInv'
  BY <1>1, <1>4 DEF IInv, TypeOK, SeatInv, Good
<1> QED
  BY <1>4, <1>5 DEF IInv

LEMMA TouchScreenIInv ==
  ASSUME IInv, NEW f \in Fingers, TouchDown(f) \/ TouchMotion(f) \/ TouchUp(f)
  PROVE  IInv'
<1>1. /\ UNCHANGED <<fifos, readers, caps, held, pinching, pointer_surface>>
      /\ fingers \subseteq Fingers /\ fingers' \subseteq Fingers
  BY DEF IInv, TypeOK, TouchDown, TouchMotion, TouchUp
<1>2. readers \subseteq fifos /\ Good(display, fingers, held, pinching)
  BY DEF IInv, TypeOK
<1>3. Touch \in caps /\ Touch \in fifos
  BY DEF IInv, SeatInv, TouchDown, TouchMotion, TouchUp
<1>4. Good(display', fingers', held, pinching)
  <2>1. CASE TouchDown(f)
    <3>1. f \in fingers' /\ fingers' = fingers \cup {f} /\ display' = PutFinger(display, f)
      BY <2>1 DEF TouchDown
    <3>2. Good(display, fingers', held, pinching)
      BY <1>2, <3>1 DEF Good, GhostInv, TableInv
    <3> QED
      BY <1>1, <1>2, <1>3, <3>1, <3>2, PutFingerGood
  <2>2. CASE TouchMotion(f)
    BY <1>1, <1>2, <1>3, <2>2, PutFingerGood DEF TouchMotion
  <2>3. CASE TouchUp(f)
    BY <1>1, <1>2, <1>3, <2>3, LiftFingerGood DEF TouchUp
  <2> QED
    BY <2>1, <2>2, <2>3
<1>5. Good(display, fingers, held, pinching)'
  BY <1>1, <1>4, KeepsGood
<1>6. TypeOK' /\ SeatInv'
  BY <1>1, <1>3, <1>5 DEF IInv, TypeOK, SeatInv, Good
<1> QED
  BY <1>5, <1>6 DEF IInv

LEMMA TouchCancelIInv ==
  ASSUME IInv, TouchCancel
  PROVE  IInv'
<1>1. /\ UNCHANGED <<fifos, readers, caps, held, pinching, pointer_surface>>
      /\ fingers' = {}
  BY DEF TouchCancel
<1>2. readers \subseteq fifos /\ Good(display, fingers, held, pinching)
  BY DEF IInv, TypeOK
<1>3. Good(display', {}, held, pinching)
  <2>1. CASE ~CanWrite(display, Touch)
    <3>1. display' = display /\ Touch \notin readers
      BY <2>1 DEF TouchCancel, CanWrite
    <3>2. display.down = {} /\ (Touch \in caps => \A s \in Slots : display.touch_id[s] = NoFinger)
      BY <1>2, <3>1 DEF Good, PipeInv, TableInv
    <3> QED
      BY <1>2, <3>1, <3>2 DEF Good, GhostInv, TableInv
  <2>2. CASE CanWrite(display, Touch)
    <3> DEFINE used == {s \in Slots : display.touch_id[s] # NoFinger}
               w == WriteTouch(display, {}, used)
               e == [w EXCEPT !.touch_id = [s \in Slots |-> NoFinger]]
    <3>1. display' = e
      BY <2>2 DEF TouchCancel
    <3>2. /\ w \in Display /\ w.fd[Touch] # "none" /\ w.fd[Pointer] = display.fd[Pointer]
          /\ PipeInv(w)
          /\ w.isTouchDown = display.isTouchDown
          /\ w.isMouseLeftDown = display.isMouseLeftDown
          /\ w.axis = display.axis /\ w.zoom = display.zoom /\ w.mouse = display.mouse
          /\ w.down \subseteq display.down \ used
      BY <1>2, <2>2, LiftFacts DEF Good
    <3> HIDE DEF w
    <3>3. /\ e \in Display /\ e.fd = w.fd /\ e.touch_id = [s \in Slots |-> NoFinger]
          /\ e.isTouchDown = display.isTouchDown
          /\ e.isMouseLeftDown = display.isMouseLeftDown
          /\ e.axis = display.axis /\ e.zoom = display.zoom /\ e.mouse = display.mouse
          /\ e.down = w.down
      BY <3>2 DEF Display
    <3> HIDE DEF e
    <3>4. PipeInv(e) /\ ClickInv(e, held) /\ TableInv(e, {})
      BY <1>2, <3>2, <3>3 DEF Good, PipeInv, ClickInv, TableInv
    <3>5. \A s \in Slots : s \notin used => display.touch_id[s] \notin fingers
      BY DEF IInv, TypeOK, Fingers, NoFinger
    <3>6. GhostInv(e, {}, pinching)
      BY <1>2, <3>2, <3>3, <3>5 DEF Good, GhostInv
    <3> QED
      BY <3>1, <3>3, <3>4, <3>6 DEF Good
  <2> QED
    BY <2>1, <2>2
<1>4. Good(display, fingers, held, pinching)'
  BY <1>1, <1>3, KeepsGood
<1>5. TypeOK' /\ SeatInv'
  BY <1>1, <1>4 DEF IInv, TypeOK, SeatInv, Good
<1> QED
  BY <1>4, <1>5 DEF IInv

LEMMA PointerComesIInv ==
  ASSUME IInv, PointerComes
  PROVE  IInv'
<1> USE DEF PointerComes
<1>1. held = {} /\ Touch \in Pipes /\ Pointer \in Pipes
  BY DEF IInv, SeatInv, Pipes
<1>2. /\ display' \in Display /\ display'.fd = [p \in Pipes |-> "none"]
      /\ display'.touch_id = display.touch_id /\ ~display'.isTouchDown
      /\ display'.isMouseLeftDown = display.isMouseLeftDown
      /\ display'.axis = display.axis /\ display'.zoom = display.zoom
      /\ display'.mouse = display.mouse /\ display'.down = display.down
  BY DEF IInv, TypeOK, Display
<1>3. TypeOK' /\ SeatInv'
  BY <1>1, <1>2 DEF IInv, TypeOK, SeatInv
<1>4. PipeInv(display)'
  BY <1>1, <1>2 DEF IInv, Good, PipeInv
<1>5. ClickInv(display, held)'
  BY <1>1, <1>2 DEF IInv, Good, ClickInv
<1>6. GhostInv(display, fingers, pinching)'
  BY <1>1, <1>2 DEF IInv, Good, GhostInv, ClickInv
<1>7. TableInv(display, fingers)'
  BY <1>2 DEF IInv, Good, TableInv, Touch, Pointer
<1> QED
  BY <1>2, <1>3, <1>4, <1>5, <1>6, <1>7 DEF IInv, Good

LEMMA PointerGoesIInv ==
  ASSUME IInv, PointerGoes
  PROVE  IInv'
<1> USE DEF PointerGoes
<1>1. Touch \in Pipes /\ Pointer \in Pipes /\ Touch # Pointer /\ display \in Display
  BY DEF IInv, TypeOK, Pipes, Touch, Pointer
<1>2. /\ display' \in Display /\ display'.fd = Stale(display.fd, Pointer)
      /\ display'.touch_id = display.touch_id /\ display'.isTouchDown = display.isTouchDown
      /\ display'.isMouseLeftDown = display.isMouseLeftDown
      /\ display'.axis = display.axis /\ display'.zoom = display.zoom
      /\ display'.mouse = {} /\ display'.down = display.down
  BY <1>1 DEF Display, Stale
<1>3. /\ display'.fd[Touch] = display.fd[Touch]
      /\ display'.fd[Pointer] # "open"
      /\ display'.fd[Pointer] = "none" <=> display.fd[Pointer] = "none"
  BY <1>1, <1>2 DEF Display, Stale
<1>4. TypeOK' /\ SeatInv'
  BY <1>1, <1>2 DEF IInv, TypeOK, SeatInv
<1>5. PipeInv(display)'
  BY <1>1, <1>2, <1>3 DEF IInv, Good, PipeInv, Pipes
<1>6. ClickInv(display, held)'
  BY <1>2, <1>3 DEF IInv, Good, ClickInv
<1>7. GhostInv(display, fingers, pinching)'
  BY <1>2 DEF IInv, Good, GhostInv
<1>8. TableInv(display, fingers)'
  BY <1>1, <1>2 DEF IInv, Good, TableInv
<1> QED
  BY <1>2, <1>4, <1>5, <1>6, <1>7, <1>8 DEF IInv, Good

LEMMA TouchComesIInv ==
  ASSUME IInv, TouchComes
  PROVE  IInv'
<1> USE DEF TouchComes
<1>1. /\ Touch \in Pipes /\ Pointer \in Pipes /\ Touch # Pointer /\ display \in Display
      /\ fingers = {}
  BY DEF IInv, TypeOK, SeatInv, Pipes, Touch, Pointer
<1>2. /\ display' \in Display /\ display'.touch_id = [s \in Slots |-> NoFinger]
      /\ display'.isTouchDown = display.isTouchDown
      /\ display'.isMouseLeftDown = display.isMouseLeftDown
      /\ display'.axis = display.axis /\ display'.zoom = display.zoom
      /\ display'.mouse = display.mouse /\ display'.down = display.down
      /\ display'.fd[Touch] = "none" /\ display'.fd[Pointer] = display.fd[Pointer]
  BY <1>1 DEF Display
<1>3. TypeOK' /\ SeatInv'
  BY <1>1, <1>2 DEF IInv, TypeOK, SeatInv
<1>4. PipeInv(display)'
  BY <1>1, <1>2 DEF IInv, Good, PipeInv, Pipes
<1>5. ClickInv(display, held)'
  BY <1>2 DEF IInv, Good, ClickInv
<1>6. GhostInv(display, fingers, pinching)'
  BY <1>1, <1>2 DEF IInv, Good, GhostInv
<1>7. TableInv(display, fingers)'
  BY <1>2 DEF TableInv
<1> QED
  BY <1>2, <1>3, <1>4, <1>5, <1>6, <1>7 DEF IInv, Good

LEMMA TouchGoesIInv ==
  ASSUME IInv, TouchGoes
  PROVE  IInv'
<1> USE DEF TouchGoes
<1>1. Touch \in Pipes /\ Pointer \in Pipes /\ Touch # Pointer /\ display \in Display
  BY DEF IInv, TypeOK, Pipes, Touch, Pointer
<1>2. /\ display' \in Display /\ display'.fd = Stale(display.fd, Touch)
      /\ display'.touch_id = display.touch_id /\ display'.isTouchDown = display.isTouchDown
      /\ display'.isMouseLeftDown = display.isMouseLeftDown
      /\ display'.axis = display.axis /\ display'.zoom = display.zoom
      /\ display'.mouse = display.mouse /\ display'.down = {}
  BY <1>1 DEF Display, Stale
<1>3. /\ display'.fd[Pointer] = display.fd[Pointer]
      /\ display'.fd[Touch] # "open"
      /\ display'.fd[Touch] = "none" <=> display.fd[Touch] = "none"
  BY <1>1, <1>2 DEF Display, Stale
<1>4. TypeOK' /\ SeatInv'
  BY <1>1, <1>2 DEF IInv, TypeOK, SeatInv
<1>5. PipeInv(display)'
  BY <1>1, <1>2, <1>3 DEF IInv, Good, PipeInv, Pipes
<1>6. ClickInv(display, held)'
  BY <1>2, <1>3 DEF IInv, Good, ClickInv
<1>7. GhostInv(display, fingers, pinching)' /\ TableInv(display, fingers)'
  BY <1>2 DEF GhostInv, TableInv
<1> QED
  BY <1>2, <1>4, <1>5, <1>6, <1>7 DEF IInv, Good

LEMMA AndroidOpensIInv ==
  ASSUME IInv, NEW p \in Pipes, AndroidOpens(p)
  PROVE  IInv'
<1> USE DEF AndroidOpens
<1>1. TypeOK' /\ SeatInv'
  BY DEF IInv, TypeOK, SeatInv
<1>2. PipeInv(display)' /\ ClickInv(display, held)' /\ GhostInv(display, fingers, pinching)'
  BY DEF IInv, Good, PipeInv, ClickInv, GhostInv
<1>3. TableInv(display, fingers)'
  BY DEF IInv, Good, TableInv
<1> QED
  BY <1>1, <1>2, <1>3 DEF IInv, Good

-----------------------------------------------------------------------------
(* The theorems.                                                           *)

LEMMA NextIInv == IInv /\ [Next]_vars => IInv'
<1> SUFFICES ASSUME IInv, [Next]_vars PROVE IInv'
  OBVIOUS
<1>1. CASE UNCHANGED vars
  BY <1>1 DEF vars, IInv, TypeOK, SeatInv, Good, PipeInv, ClickInv, GhostInv, TableInv
<1>2. CASE Next
  BY <1>2, PointerIInv, PointerButtonIInv, PinchIInv, TouchScreenIInv, TouchCancelIInv,
     PointerComesIInv, PointerGoesIInv, TouchComesIInv, TouchGoesIInv, AndroidOpensIInv
     DEF Next
<1> QED
  BY <1>1, <1>2

LEMMA Invariant == Spec => []IInv
BY InitIInv, NextIInv, PTL DEF Spec

\* Every state has the types that the model declares, and Android reads only
\* pipes that exist.
THEOREM TypeCorrect == Spec => []TypeOK
<1>1. IInv => TypeOK
  BY DEF IInv
<1> QED
  BY <1>1, Invariant, PTL

\* Whatever the number of slots and fingers, a touched slot has someone or
\* something that touches it.
THEOREM NoGhost == Spec => []NoGhostTouch
<1>1. IInv => NoGhostTouch
  BY DEF IInv, Good, GhostInv, ClickInv, NoGhostTouch, SlotOf
<1> QED
  BY <1>1, Invariant, PTL

\* The table of touch points is an injection from its taken slots to fingers
\* that are down.
THEOREM SlotsDistinct == Spec => []OneSlotPerFinger
<1>1. IInv => OneSlotPerFinger
  BY DEF IInv, Good, TableInv, OneSlotPerFinger
<1> QED
  BY <1>1, Invariant, PTL

\* The left button is not taken for a touch and for a button at once, and Android
\* holds neither after its release.
THEOREM LeftExclusive == Spec => []LeftButtonExclusive
<1>1. IInv => LeftButtonExclusive
  BY DEF IInv, Good, ClickInv, LeftButtonExclusive
<1> QED
  BY <1>1, Invariant, PTL

\* A button leaves no touch of the wheel behind.
THEOREM ButtonEndsWheelHolds == Spec => ButtonEndsWheel
<1>1. IInv /\ [Next]_vars
        => [held' # held /\ Touch \in readers => ~display'.axis /\ ~display'.zoom]_vars
  <2> SUFFICES ASSUME IInv, Next, held' # held, Touch \in readers
               PROVE  ~display'.axis /\ ~display'.zoom
    BY DEF vars
  <2>1. PICK b \in Buttons : PointerButton(b)
    BY DEF Next, PointerEnter, PointerLeave, PointerMotion, RelativeMotion, PointerAxis,
       PointerAxisStop, TimePasses, GesturePinchUpdate, GesturePinchEnd, TouchDown, TouchMotion,
       TouchUp, TouchCancel, PointerComes, PointerGoes, TouchComes, TouchGoes, AndroidOpens
  <2> DEFINE d == CancelTwoFinger(CancelAxis(display, FALSE, TRUE))
  <2>2. Good(d, fingers, held, pinching) /\ ~d.axis /\ ~d.zoom /\ CanWrite(d, Touch)
        /\ readers \subseteq fifos /\ d \in Display /\ PipeInv(d)
    BY ButtonBegins DEF IInv, TypeOK, Good, CanWrite
  <2>3. \/ \E pressed \in BOOLEAN : display' = ButtonToMouse(d, b, pressed)
        \/ display' = ButtonToTouchDown(d) \/ display' = ButtonToTouchUp(d)
    BY <2>1 DEF PointerButton
  <2> HIDE DEF d
  <2>4. ASSUME NEW pressed \in BOOLEAN
        PROVE  LET e == ButtonToMouse(d, b, pressed) IN e.axis = d.axis /\ e.zoom = d.zoom
    <3> DEFINE x == EnsurePipe(d, Pointer)
    <3>1. x \in Display /\ x.axis = d.axis /\ x.zoom = d.zoom
      BY <2>2, EnsurePipeFacts DEF Pipes
    <3> HIDE DEF x
    <3> DEFINE f == IF b = "left" THEN [x EXCEPT !.isMouseLeftDown = pressed] ELSE x
               e == ButtonToMouse(d, b, pressed)
    <3>2. f \in Display /\ f.axis = x.axis /\ f.zoom = x.zoom
      BY <3>1 DEF Display
    <3>3. e = d \/ e = x \/ e = f
          \/ e = [f EXCEPT !.mouse = IF pressed THEN @ \cup {b} ELSE @ \ {b}]
      BY DEF ButtonToMouse, x
    <3> HIDE DEF f, e
    <3>4. e.axis = d.axis /\ e.zoom = d.zoom
      BY <3>1, <3>2, <3>3 DEF Display
    <3> QED
      BY <3>4 DEF e
  <2>5. ButtonToTouchDown(d).axis = d.axis /\ ButtonToTouchDown(d).zoom = d.zoom
    <3> DEFINE w == WriteTouch(d, {0}, {})
    <3>1. w \in Display /\ w.axis = d.axis /\ w.zoom = d.zoom
      <4>1. {0} \in SUBSET AllSlots
        BY DEF AllSlots
      <4> QED
        BY <2>2, <4>1, PutFacts
    <3> HIDE DEF w
    <3> QED
      BY <2>2, <3>1 DEF ButtonToTouchDown, w, Display
  <2>6. ButtonToTouchUp(d).axis = d.axis /\ ButtonToTouchUp(d).zoom = d.zoom
    <3> DEFINE w == WriteTouch(d, {}, {0})
    <3>1. w \in Display /\ w.axis = d.axis /\ w.zoom = d.zoom
      BY <2>2, LiftFacts
    <3> HIDE DEF w
    <3> QED
      BY <2>2, <3>1 DEF ButtonToTouchUp, w, Display
  <2> QED
    BY <2>2, <2>3, <2>4, <2>5, <2>6
<1> QED
  BY <1>1, Invariant, PTL DEF Spec, ButtonEndsWheel

-------------------------------------------------------------------------------
(***************************************************************************)
(* Keyboard. No key is stuck, for any set of keys.                         *)
(***************************************************************************)
\* An open descriptor has a reader, a stale one a pipe that is gone; who is
\* not read has pressed nothing.
KeyPipeInv ==
  /\ fd = "open" => reader
  /\ fd = "stale" => ~fifo
  /\ reader => fifo
  /\ keyboard => fifo
  /\ focus => keyboard
  /\ ~reader => android = {}

\* What Android holds is marked, and what is marked can be released.
MarkInv ==
  /\ android \subseteq keysDown
  /\ keysDown # {} => fd # "none"

KeyboardInv == KeyboardTypeOK /\ KeyPipeInv /\ MarkInv /\ NoStuckKey /\ CtrlHeld /\ MarkedKeysHeld

LEMMA InitKeyboardInv == KeyboardInit => KeyboardInv
BY DEF KeyboardInit, KeyboardInv, KeyboardTypeOK, KeyPipeInv, MarkInv, NoStuckKey, CtrlHeld, MarkedKeysHeld

\* Opening on demand keeps what is known of the pipe.
LEMMA OpenedFacts ==
  ASSUME KeyboardInv
  PROVE  /\ Opened \in {"none", "open", "stale"}
         /\ Opened = "open" => reader
         /\ Opened = "stale" => ~fifo /\ android = {}
         /\ CanWriteKeys => Opened # "none"
         /\ fd # "none" => CanWriteKeys
BY DEF KeyboardInv, KeyboardTypeOK, KeyPipeInv, Opened, CanWriteKeys

LEMMA LeaveKeyboardInv ==
  ASSUME KeyboardInv, Leave
  PROVE  KeyboardInv'
<1>1. /\ focus /\ focus' = FALSE /\ ctrl_key_pressed' = FALSE
      /\ UNCHANGED <<fifo, reader, keyboard, real>>
  BY DEF Leave
<1>2. keysDown \cap Unknown = {} /\ (keysDown # {} => CanWriteKeys)
  BY OpenedFacts DEF KeyboardInv, KeyboardTypeOK, MarkInv
<1>3. /\ keysDown' = {} /\ android' = {}
      /\ fd' \in {fd, Opened} /\ fd' \in {"none", "open", "stale"}
  <2>1. CASE keysDown = {}
    BY <2>1 DEF Leave, KeyboardInv, KeyboardTypeOK, MarkInv
  <2>2. CASE keysDown # {}
    <3>1. /\ fd' = Opened /\ keysDown' = keysDown \ keysDown
          /\ android' = IF Opened = "open" THEN android \ keysDown ELSE android
      BY <1>2, <2>2 DEF Leave, Release
    <3>2. android \subseteq keysDown /\ (Opened # "open" => android = {})
      BY <1>2, <2>2, OpenedFacts DEF KeyboardInv, MarkInv
    <3> QED
      BY <3>1, <3>2, OpenedFacts
  <2> QED
    BY <2>1, <2>2
<1>4. KeyboardTypeOK'
  BY <1>1, <1>3 DEF KeyboardInv, KeyboardTypeOK
<1>5. KeyPipeInv'
  BY <1>1, <1>3, OpenedFacts DEF KeyboardInv, KeyPipeInv
<1>6. MarkInv' /\ NoStuckKey' /\ CtrlHeld' /\ MarkedKeysHeld'
  BY <1>1, <1>3 DEF MarkInv, NoStuckKey, CtrlHeld, MarkedKeysHeld
<1> QED
  BY <1>4, <1>5, <1>6 DEF KeyboardInv

LEMMA KeyKeyboardInv ==
  ASSUME KeyboardInv, NEW k \in Keys, Key(k)
  PROVE  KeyboardInv'
<1> DEFINE pressed == k \notin real
<1>1. /\ UNCHANGED <<fifo, reader, keyboard, focus>>
      /\ real' = IF k \in real THEN real \ {k} ELSE real \cup {k}
  BY DEF Key
<1>2. CASE ~focus \/ k = Power
  <2>1. UNCHANGED <<keysDown, ctrl_key_pressed, fd, android>>
    BY <1>2 DEF Key
  <2>2. k \notin keysDown /\ (focus => k \notin Ctrl) /\ (~focus => ~ctrl_key_pressed)
    BY <1>2, KeysAssumption DEF KeyboardInv, KeyboardTypeOK, MarkedKeysHeld, CtrlHeld
  <2>3. KeyboardTypeOK' /\ KeyPipeInv' /\ MarkInv'
    BY <1>1, <2>1 DEF KeyboardInv, KeyboardTypeOK, KeyPipeInv, MarkInv
  <2>4. NoStuckKey' /\ MarkedKeysHeld'
    BY <1>1, <2>1, <2>2 DEF KeyboardInv, NoStuckKey, MarkedKeysHeld, MarkInv
  <2>5. CtrlHeld'
    BY <1>1, <2>1, <2>2 DEF KeyboardInv, CtrlHeld
  <2> QED
    BY <2>3, <2>4, <2>5 DEF KeyboardInv
<1>3. CASE focus /\ k # Power
  <2>1. /\ ctrl_key_pressed' = IF k \in Ctrl THEN pressed ELSE ctrl_key_pressed
        /\ IF pressed THEN Press({k}) ELSE Release({k})
    BY <1>3 DEF Key
  <2>2. CtrlHeld'
    BY <1>1, <1>3, <2>1 DEF KeyboardInv, KeyboardTypeOK, CtrlHeld
  <2>3. CASE UNCHANGED <<fd, keysDown, android>> /\ ~(CanWriteKeys /\ k \notin Unknown)
    <3>1. k \notin keysDown
      BY <2>3, OpenedFacts DEF KeyboardInv, KeyboardTypeOK, MarkInv
    <3>2. KeyboardTypeOK'
      BY <1>1, <2>1, <2>3 DEF KeyboardInv, KeyboardTypeOK
    <3>3. KeyPipeInv' /\ MarkInv' /\ NoStuckKey' /\ MarkedKeysHeld'
      BY <1>1, <1>3, <2>3, <3>1 DEF KeyboardInv, KeyPipeInv, MarkInv, NoStuckKey, MarkedKeysHeld
    <3> QED
      BY <2>2, <3>2, <3>3 DEF KeyboardInv
  <2>4. CASE CanWriteKeys /\ k \notin Unknown
    <3>1. /\ fd' = Opened
          /\ keysDown' = IF pressed THEN keysDown \cup {k} ELSE keysDown \ {k}
          /\ android' = IF Opened # "open" THEN android
                        ELSE IF pressed THEN android \cup {k} ELSE android \ {k}
      BY <2>1, <2>4 DEF Press, Release
    <3>2. /\ Opened \in {"open", "stale"} /\ (Opened = "open" => reader)
          /\ Opened = "stale" => ~fifo /\ android = {}
      BY <2>4, OpenedFacts
    <3>3. KeyboardTypeOK'
      BY <1>1, <1>3, <2>1, <2>4, <3>1, <3>2 DEF KeyboardInv, KeyboardTypeOK
    <3>4. KeyPipeInv'
      BY <1>1, <3>1, <3>2 DEF KeyboardInv, KeyPipeInv
    <3>5. MarkInv'
      BY <3>1, <3>2 DEF KeyboardInv, MarkInv
    <3>6. NoStuckKey' /\ MarkedKeysHeld'
      BY <1>1, <1>3, <3>1, <3>2 DEF KeyboardInv, NoStuckKey, MarkedKeysHeld
    <3> QED
      BY <2>2, <3>3, <3>4, <3>5, <3>6 DEF KeyboardInv
  <2> QED
    BY <2>1, <2>3, <2>4 DEF Press, Release
<1> QED
  BY <1>2, <1>3

LEMMA SeatKeyboardInv ==
  ASSUME KeyboardInv, Enter \/ KeyboardComes \/ KeyboardGoes \/ AndroidOpensKeys
  PROVE  KeyboardInv'
<1>1. CASE Enter
  BY <1>1 DEF Enter, KeyboardInv, KeyboardTypeOK, KeyPipeInv, MarkInv, NoStuckKey, CtrlHeld, MarkedKeysHeld
<1>2. CASE KeyboardComes
  BY <1>2 DEF KeyboardComes, KeyboardInv, KeyboardTypeOK, KeyPipeInv, MarkInv, NoStuckKey, CtrlHeld, MarkedKeysHeld
<1>3. CASE KeyboardGoes
  BY <1>3 DEF KeyboardGoes, KeyboardInv, KeyboardTypeOK, KeyPipeInv, MarkInv, NoStuckKey, CtrlHeld, MarkedKeysHeld
<1>4. CASE AndroidOpensKeys
  BY <1>4 DEF AndroidOpensKeys, KeyboardInv, KeyboardTypeOK, KeyPipeInv, MarkInv, NoStuckKey, CtrlHeld, MarkedKeysHeld
<1> QED
  BY <1>1, <1>2, <1>3, <1>4

LEMMA CloseKeyboardInv ==
  ASSUME KeyboardInv, CloseSendsKey
  PROVE  KeyboardInv'
<1>1. keysDown \ {Reserved} = keysDown /\ android \ {Reserved} = android
  BY KeysAssumption DEF KeyboardInv, KeyboardTypeOK, MarkInv
<1>2. UNCHANGED <<keysDown, ctrl_key_pressed, fifo, reader, keyboard, focus, real, android>>
  BY <1>1 DEF CloseSendsKey, Release
<1>3. fd' \in {fd, Opened}
  BY DEF CloseSendsKey, Release
<1>4. KeyPipeInv'
  BY <1>2, <1>3, OpenedFacts DEF KeyboardInv, KeyPipeInv
<1>5. KeyboardTypeOK' /\ MarkInv'
  BY <1>2, <1>3, OpenedFacts DEF KeyboardInv, KeyboardTypeOK, MarkInv
<1> QED
  BY <1>2, <1>4, <1>5 DEF KeyboardInv, NoStuckKey, CtrlHeld, MarkedKeysHeld

LEMMA KeyboardInvariant == KeyboardSpec => []KeyboardInv
<1>1. KeyboardInv /\ [KeyboardNext]_keyboardVars => KeyboardInv'
  <2> SUFFICES ASSUME KeyboardInv, [KeyboardNext]_keyboardVars PROVE KeyboardInv'
    OBVIOUS
  <2>1. CASE UNCHANGED keyboardVars
    BY <2>1 DEF keyboardVars, KeyboardInv, KeyboardTypeOK, KeyPipeInv, MarkInv, NoStuckKey, CtrlHeld, MarkedKeysHeld
  <2>2. CASE KeyboardNext
    BY <2>2, LeaveKeyboardInv, KeyKeyboardInv, CloseKeyboardInv, SeatKeyboardInv DEF KeyboardNext
  <2> QED
    BY <2>1, <2>2
<1> QED
  BY <1>1, InitKeyboardInv, PTL DEF KeyboardSpec

\* No key beyond the table is ever marked.
THEOREM KeyboardTypes == KeyboardSpec => []KeyboardTypeOK
<1>1. KeyboardInv => KeyboardTypeOK
  BY DEF KeyboardInv
<1> QED
  BY <1>1, KeyboardInvariant, PTL

\* Android holds keys only that are held, and none without the focus.
THEOREM NoKeyStuck == KeyboardSpec => []NoStuckKey
<1>1. KeyboardInv => NoStuckKey
  BY DEF KeyboardInv
<1> QED
  BY <1>1, KeyboardInvariant, PTL

\* The wheel zooms only while Ctrl is held.
THEOREM CtrlIsHeld == KeyboardSpec => []CtrlHeld
<1>1. KeyboardInv => CtrlHeld
  BY DEF KeyboardInv
<1> QED
  BY <1>1, KeyboardInvariant, PTL

\* The marks are those of keys that are held, and go with the focus.
THEOREM MarksHeld == KeyboardSpec => []MarkedKeysHeld
<1>1. KeyboardInv => MarkedKeysHeld
  BY DEF KeyboardInv
<1> QED
  BY <1>1, KeyboardInvariant, PTL

\* What is remembered of the keys is true, of Ctrl and of the marks.
THEOREM RememberedHeld == KeyboardSpec => []RememberedKeysHeld
  BY CtrlIsHeld, MarksHeld, PTL DEF RememberedKeysHeld
===============================================================================
