\* All three settings of the composer; the period does not divide the clock's range.
CONSTANTS
  Frames <- MCFrames
  Period = 3
  Wrap = 5
SPECIFICATION Spec
INVARIANTS
  FencesClosedOnce
  FinishedWhenSent
  OrderKept
  VsyncStops
PROPERTIES
  WakesInPhase
