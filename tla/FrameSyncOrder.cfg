\* A layer between two that SurfaceFlinger composes.
CONSTANTS
  Frames <- MCFrames
  Period = 3
  Wrap = 5
SPECIFICATION Spec
INVARIANT
  SkippedInOrder
