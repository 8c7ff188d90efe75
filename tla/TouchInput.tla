----------------------------- MODULE TouchInput -----------------------------
(***************************************************************************)
(* The touch events the composer writes for Android. They come from four   *)
(* sources that share the slots of one emulated touch screen: fingers, a   *)
(* mouse button taken for a finger (slot 0), pinches of a touchpad and the *)
(* wheel with Ctrl (slots 0 and 1), and the wheel (slot AxisSlot). Events  *)
(* go through pipes that seat capabilities make and remove and that        *)
(* Android opens in its own time.                                          *)
(*                                                                         *)
(* A handler is an action, composed of operators that take the display     *)
(* before a call of the code to the display after it. Positions, surfaces  *)
(* of fingers and the scale of a pinch are left out. The properties        *)
(* fde.click_as_touch and the Ctrl key may change between any two events,  *)
(* so each event reads them as it likes.                                   *)
(*                                                                         *)
(* A definition marked Variant is no part of the model: it is the one      *)
(* below it with a plausible mistake, and shows that a property sees it.   *)
(***************************************************************************)
EXTENDS Integers

CONSTANTS
  MaxTouchpoints,  \* MAX_TOUCHPOINTS
  AxisSlot,        \* AXIS_TOUCH_SLOT_ID
  NumFingers       \* bound: ids of touch points, which the compositor counts from 0

Slots == 0..MaxTouchpoints - 1
Fingers == 0..NumFingers - 1
NoFinger == -1
NoSlot == -1
Touch == "touch"
Pointer == "pointer"
Pipes == {Touch, Pointer}
Buttons == {"left", "right"}

ASSUME SlotsAssumption ==
  /\ MaxTouchpoints \in Nat \ {0} /\ NumFingers \in Nat \ {0}
  /\ AxisSlot \in Nat \ {0, 1}

\* The slot after AxisSlot is touched and lifted within one call.
AllSlots == Slots \cup {0, 1, AxisSlot}

VARIABLES
  display,          \* the composer's state, and what Android has made of its events
  fifos,            \* the pipes that exist in /dev/input
  readers,          \* those that Android reads
  caps,             \* the capabilities of the seat that have been handled
  pointer_surface,  \* whether the pointer is on a window
  fingers, held,    \* the fingers and the buttons that are really down
  pinching          \* whether a pinch of the touchpad has begun to move

vars == <<display, fifos, readers, caps, pointer_surface, fingers, held, pinching>>

Display ==
  [fd : [Pipes -> {"none", "open", "stale"}],  \* input_fd; stale: of a removed pipe
   touch_id : [Slots -> Fingers \cup {NoFinger}],
   isTouchDown : BOOLEAN,
   isMouseLeftDown : BOOLEAN,
   axis : BOOLEAN,        \* lastAxisEventNanoSeconds # 0
   recent : BOOLEAN,      \* that is less than 300 ms ago
   zoom : BOOLEAN,        \* axis_simulation_two_finger_started
   down : SUBSET AllSlots,  \* Android's slots that are touched
   mouse : SUBSET Buttons]  \* Android's buttons that are pressed

TypeOK ==
  /\ display \in Display
  /\ fifos \subseteq Pipes /\ readers \subseteq fifos
  /\ caps \subseteq Pipes
  /\ pointer_surface \in BOOLEAN
  /\ fingers \subseteq Fingers /\ held \subseteq Buttons
  /\ pinching \in BOOLEAN

\* create_display: the object is zeroed, and no handler runs before a capability.
Init ==
  /\ display = [fd |-> [p \in Pipes |-> "none"], touch_id |-> [s \in Slots |-> 0],
                isTouchDown |-> FALSE, isMouseLeftDown |-> FALSE,
                axis |-> FALSE, recent |-> FALSE, zoom |-> FALSE,
                down |-> {}, mouse |-> {}]
  /\ fifos = {} /\ readers = {} /\ caps = {}
  /\ pointer_surface = FALSE
  /\ fingers = {} /\ held = {} /\ pinching = FALSE

-----------------------------------------------------------------------------
(* The pipes.                                                              *)

\* ensure_pipe succeeds: a pipe without a reader cannot be opened for writing.
CanWrite(d, p) == d.fd[p] # "none" \/ p \in readers

EnsurePipe(d, p) ==
  IF d.fd[p] = "none" /\ p \in readers THEN [d EXCEPT !.fd[p] = "open"] ELSE d

\* Android takes the slots of `put` for touched and those of `lift` for lifted;
\* it ignores a slot that it does not have.
WriteTouch(d, put, lift) ==
  LET e == EnsurePipe(d, Touch)
  IN  IF e.fd[Touch] = "open"
      THEN [e EXCEPT !.down = (@ \cup (put \ {NoSlot})) \ lift]
      ELSE e

-----------------------------------------------------------------------------
(* What the handlers of the pointer call.                                  *)

ButtonToTouchDown(d) ==
  IF CanWrite(d, Touch)
  THEN [WriteTouch(d, {0}, {}) EXCEPT !.isTouchDown = TRUE]
  ELSE d

ButtonToTouchUp(d) ==
  IF CanWrite(d, Touch)
  THEN [WriteTouch(d, {}, {0}) EXCEPT !.isTouchDown = FALSE]
  ELSE d

\* Variant: the first finger only is lifted.
CancelOneFinger(d) ==
  IF d.zoom /\ CanWrite(d, Touch)
  THEN [WriteTouch(d, {}, {0}) EXCEPT !.zoom = FALSE]
  ELSE d

CancelTwoFinger(d) ==
  IF d.zoom /\ CanWrite(d, Touch)
  THEN [WriteTouch(d, {}, {0, 1}) EXCEPT !.zoom = FALSE]
  ELSE d

\* Lifts the wheel's slot, unless a small motion follows a wheel event. Except
\* after axis_stop a tap of the next slot keeps Android from scrolling on.
CancelAxis(d, fromAxisStop, force) ==
  IF ~d.axis \/ ~CanWrite(d, Touch) THEN d
  ELSE IF ~force /\ d.recent THEN EnsurePipe(d, Touch)
  ELSE [WriteTouch(d, {}, IF fromAxisStop THEN {AxisSlot} ELSE {AxisSlot, AxisSlot + 1})
        EXCEPT !.axis = FALSE, !.recent = FALSE]

AxisToTouch(d) ==
  IF CanWrite(d, Touch)
  THEN [WriteTouch(d, {AxisSlot}, {}) EXCEPT !.axis = TRUE, !.recent = TRUE]
  ELSE d

PinchUpdate(d) == IF CanWrite(d, Touch) THEN WriteTouch(d, {0, 1}, {}) ELSE d

\* The conversions of pointer_handle_axis with fde.click_as_touch.
AxisToPinch(d) ==
  [PinchUpdate(CancelAxis(d, TRUE, TRUE)) EXCEPT !.zoom = TRUE]

-----------------------------------------------------------------------------
(* The handlers of the pointer. The compositor sends its events only while *)
(* it is on a window, and keeps it there while a button is held.           *)

PointerEnter ==
  /\ Pointer \in caps /\ ~pointer_surface
  /\ pointer_surface' = TRUE
  /\ UNCHANGED <<display, fifos, readers, caps, fingers, held, pinching>>

PointerLeave ==
  /\ pointer_surface /\ held = {}
  /\ pointer_surface' = FALSE
  /\ UNCHANGED <<display, fifos, readers, caps, fingers, held, pinching>>

PointerMotion ==
  /\ pointer_surface
  /\ LET d == EnsurePipe(CancelTwoFinger(display), Pointer)
     IN  display' = IF ~CanWrite(d, Pointer) THEN d
                    ELSE IF d.isTouchDown THEN ButtonToTouchDown(d)
                    ELSE CancelAxis(d, FALSE, FALSE)
  /\ UNCHANGED <<fifos, readers, caps, pointer_surface, fingers, held, pinching>>

\* The steps are gathered until they make a whole pixel.
RelativeMotion ==
  /\ pointer_surface
  /\ LET d == EnsurePipe(CancelTwoFinger(display), Pointer)
     IN  \E pixel \in BOOLEAN :
           display' = IF CanWrite(d, Pointer) /\ pixel /\ ~d.isTouchDown
                      THEN CancelAxis(d, FALSE, FALSE)
                      ELSE d
  /\ UNCHANGED <<fifos, readers, caps, pointer_surface, fingers, held, pinching>>

\* The button as a button of the mouse.
ButtonToMouse(d, b, pressed) ==
  LET e == EnsurePipe(d, Pointer)
      f == IF b = "left" THEN [e EXCEPT !.isMouseLeftDown = pressed] ELSE e
  IN  IF ~CanWrite(d, Pointer) THEN d
      ELSE IF ~pointer_surface THEN e
      ELSE IF f.fd[Pointer] # "open" THEN f
      ELSE [f EXCEPT !.mouse = IF pressed THEN @ \cup {b} ELSE @ \ {b}]

\* Variant: a button of the mouse is not remembered once the property is on.
TakenForTouchAnyway(d, b, click_as_touch) ==
  (b = "left" /\ click_as_touch) \/ d.isTouchDown

\* Whether a button becomes a touch.
TakenForTouch(d, b, click_as_touch) ==
  ((b = "left" /\ click_as_touch) \/ d.isTouchDown) /\ ~d.isMouseLeftDown

PointerButton(b) ==
  /\ pointer_surface
  /\ LET pressed == b \notin held
         d == CancelTwoFinger(CancelAxis(display, FALSE, TRUE))
     IN  /\ held' = IF pressed THEN held \cup {b} ELSE held \ {b}
         /\ \E click_as_touch \in BOOLEAN :
              display' = IF ~TakenForTouch(d, b, click_as_touch)
                         THEN ButtonToMouse(d, b, pressed)
                         ELSE IF pressed THEN ButtonToTouchDown(d) ELSE ButtonToTouchUp(d)
  /\ UNCHANGED <<fifos, readers, caps, pointer_surface, fingers, pinching>>

\* Wheel steps are gathered, too; without fde.click_as_touch they stay wheel events.
PointerAxis ==
  /\ pointer_surface
  /\ LET d == EnsurePipe(display, Pointer)
     IN  \E step, click_as_touch, ctrl_key_pressed \in BOOLEAN :
           display' = IF ~CanWrite(d, Pointer) \/ ~step \/ ~click_as_touch THEN d
                      ELSE IF ctrl_key_pressed THEN AxisToPinch(d)
                      ELSE AxisToTouch(CancelTwoFinger(d))
  /\ UNCHANGED <<fifos, readers, caps, pointer_surface, fingers, held, pinching>>

PointerAxisStop ==
  /\ pointer_surface
  /\ display' = CancelAxis(CancelTwoFinger(display), TRUE, TRUE)
  /\ UNCHANGED <<fifos, readers, caps, pointer_surface, fingers, held, pinching>>

\* 300 ms without a wheel event.
TimePasses ==
  /\ display.recent
  /\ display' = [display EXCEPT !.recent = FALSE]
  /\ UNCHANGED <<fifos, readers, caps, pointer_surface, fingers, held, pinching>>

GesturePinchUpdate ==
  /\ pointer_surface
  /\ pinching' = TRUE
  /\ display' = PinchUpdate(display)
  /\ UNCHANGED <<fifos, readers, caps, pointer_surface, fingers, held>>

GesturePinchEnd ==
  /\ pinching
  /\ pinching' = FALSE
  /\ display' = IF CanWrite(display, Touch) THEN WriteTouch(display, {}, {0, 1}) ELSE display
  /\ UNCHANGED <<fifos, readers, caps, pointer_surface, fingers, held>>

-----------------------------------------------------------------------------
(* The handlers of the touch screen.                                       *)

Lowest(S) == CHOOSE s \in S : \A t \in S : s <= t

SlotOf(d, f) == {s \in Slots : d.touch_id[s] = f}

\* Variant: a free slot in front of the finger's is taken.
GetFirstSlot(d, f) ==
  IF SlotOf(d, NoFinger) \cup SlotOf(d, f) = {} THEN NoSlot
  ELSE Lowest(SlotOf(d, NoFinger) \cup SlotOf(d, f))

\* get_touch_id: the finger's slot, else the first free one.
GetTouchId(d, f) ==
  IF SlotOf(d, f) # {} THEN Lowest(SlotOf(d, f))
  ELSE IF SlotOf(d, NoFinger) # {} THEN Lowest(SlotOf(d, NoFinger))
  ELSE NoSlot

TakeSlot(d, f) ==
  LET s == GetTouchId(d, f)
  IN  IF s = NoSlot THEN d ELSE [d EXCEPT !.touch_id[s] = f]

PutFinger(d, f) ==
  IF CanWrite(d, Touch) THEN WriteTouch(TakeSlot(d, f), {GetTouchId(d, f)}, {}) ELSE d

\* flush_touch_id: the first slot of the finger is free again.
LiftFinger(d, f) ==
  IF ~CanWrite(d, Touch) THEN d
  ELSE IF SlotOf(d, f) = {} THEN EnsurePipe(d, Touch)
  ELSE LET s == Lowest(SlotOf(d, f))
       IN  WriteTouch([d EXCEPT !.touch_id[s] = NoFinger], {}, {s})

TouchDown(f) ==
  /\ Touch \in caps /\ f \notin fingers
  /\ fingers' = fingers \cup {f}
  /\ display' = PutFinger(display, f)
  /\ UNCHANGED <<fifos, readers, caps, pointer_surface, held, pinching>>

\* A motion or a change of shape.
TouchMotion(f) ==
  /\ f \in fingers
  /\ display' = PutFinger(display, f)
  /\ UNCHANGED <<fifos, readers, caps, pointer_surface, fingers, held, pinching>>

TouchUp(f) ==
  /\ f \in fingers
  /\ fingers' = fingers \ {f}
  /\ display' = LiftFinger(display, f)
  /\ UNCHANGED <<fifos, readers, caps, pointer_surface, held, pinching>>

\* The compositor takes all touches for a gesture of its own.
TouchCancel ==
  /\ fingers # {}
  /\ fingers' = {}
  /\ display' =
       IF CanWrite(display, Touch)
       THEN [WriteTouch(display, {}, {s \in Slots : display.touch_id[s] # NoFinger})
             EXCEPT !.touch_id = [s \in Slots |-> NoFinger]]
       ELSE display
  /\ UNCHANGED <<fifos, readers, caps, pointer_surface, held, pinching>>

-----------------------------------------------------------------------------
(* seat_handle_capabilities. The compositor ends what a device has begun   *)
(* before it takes the device away; a touch screen comes while no button   *)
(* is held.                                                                *)

\* Descriptors of a removed pipe stay, and nobody reads what they take.
Stale(fd, p) == [fd EXCEPT ![p] = IF @ = "open" THEN "stale" ELSE @]

PointerComes ==
  /\ Pointer \notin caps
  /\ caps' = caps \cup {Pointer}
  /\ fifos' = fifos \cup {Pointer, Touch}
  /\ display' = [display EXCEPT !.fd = [p \in Pipes |-> "none"], !.isTouchDown = FALSE]
  /\ UNCHANGED <<readers, pointer_surface, fingers, held, pinching>>

PointerGoes ==
  /\ Pointer \in caps
  /\ ~pointer_surface /\ held = {} /\ ~pinching
  /\ caps' = caps \ {Pointer}
  /\ fifos' = fifos \ {Pointer}
  /\ readers' = readers \ {Pointer}
  /\ display' = [display EXCEPT !.fd = Stale(@, Pointer), !.mouse = {}]
  /\ UNCHANGED <<pointer_surface, fingers, held, pinching>>

TouchComes ==
  /\ Touch \notin caps /\ held = {}
  /\ caps' = caps \cup {Touch}
  /\ fifos' = fifos \cup {Touch}
  /\ display' = [display EXCEPT !.fd[Touch] = "none", !.touch_id = [s \in Slots |-> NoFinger]]
  /\ UNCHANGED <<readers, pointer_surface, fingers, held, pinching>>

TouchGoes ==
  /\ Touch \in caps /\ fingers = {}
  /\ caps' = caps \ {Touch}
  /\ fifos' = fifos \ {Touch}
  /\ readers' = readers \ {Touch}
  /\ display' = [display EXCEPT !.fd = Stale(@, Touch), !.down = {}]
  /\ UNCHANGED <<pointer_surface, fingers, held, pinching>>

\* Android finds a new pipe and reads it from then on.
AndroidOpens(p) ==
  /\ p \in fifos \ readers
  /\ readers' = readers \cup {p}
  /\ UNCHANGED <<display, fifos, caps, pointer_surface, fingers, held, pinching>>

Next ==
  \/ PointerEnter \/ PointerLeave \/ PointerMotion \/ RelativeMotion
  \/ \E b \in Buttons : PointerButton(b)
  \/ PointerAxis \/ PointerAxisStop \/ TimePasses
  \/ GesturePinchUpdate \/ GesturePinchEnd
  \/ \E f \in Fingers : TouchDown(f) \/ TouchMotion(f) \/ TouchUp(f)
  \/ TouchCancel
  \/ PointerComes \/ PointerGoes \/ TouchComes \/ TouchGoes
  \/ \E p \in Pipes : AndroidOpens(p)

Spec == Init /\ [][Next]_vars

-----------------------------------------------------------------------------
(* Properties.                                                             *)

\* A slot that Android takes for touched belongs to a finger that is down, the
\* left button that is down, a pinch, or wheel events that have not been ended:
\* nothing stays pressed that nobody presses, although slots 0 and 1 have three
\* users and the table is reset, read and flushed by different handlers.
NoGhostTouch ==
  \A s \in display.down :
    \/ \E f \in fingers : s \in SlotOf(display, f)
    \/ s = 0 /\ "left" \in held
    \/ s \in {0, 1} /\ (display.zoom \/ pinching)
    \/ s = AxisSlot /\ display.axis

\* With a touch screen present, each slot of the table belongs to a finger that
\* is down and no finger has two: get_touch_id is called by three handlers and
\* takes a slot as a side effect, and pipes may fail in between.
OneSlotPerFinger ==
  Touch \in caps =>
    /\ \A s \in Slots : display.touch_id[s] \in fingers \cup {NoFinger}
    /\ \A s, t \in Slots :
         display.touch_id[s] = display.touch_id[t] /\ s # t => display.touch_id[s] = NoFinger

\* The left button is never a touch and a button of the mouse at once, and neither
\* outlives it, whatever fde.click_as_touch says at its press and at its release
\* (wayland-hwc.cpp:1104). Its release need not be of the kind of its press: if
\* another button has lifted the touch in between, it may go to the mouse, which
\* then has nothing to release.
LeftButtonExclusive ==
  /\ display.isTouchDown => "left" \in held /\ ~display.isMouseLeftDown
  /\ "left" \in display.mouse => display.isMouseLeftDown
  /\ display.isMouseLeftDown => "left" \in held

\* A press or release lands on a screen without the leftovers of a wheel: once
\* Android reads touches, both conversions have been ended.
ButtonEndsWheel ==
  [][held' # held /\ Touch \in readers => ~display'.axis /\ ~display'.zoom]_vars
=============================================================================
