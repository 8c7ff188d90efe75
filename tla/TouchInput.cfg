\* Three slots, of which the wheel shares the last, and one finger too many.
CONSTANTS
  MaxTouchpoints = 3
  AxisSlot = 2
  NumFingers = 4
SPECIFICATION Spec
INVARIANTS
  NoGhostTouch
  OneSlotPerFinger
  LeftButtonExclusive
