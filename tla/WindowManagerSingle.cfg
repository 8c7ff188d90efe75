\* Single window mode without subsurfaces, the default.
CONSTANTS
  t1 = t1
  t2 = t2
  launcher = launcher
  app = app
  NoTask = NoTask
  Freed = Freed
  Tasks <- MCTasks
  Apps <- MCApps
  AppOf <- MCAppOf
  KeyOrder <- MCKeyOrder
  Layers <- MCLayers
  Blacklists <- MCBlacklists
  Frames <- AppFrames
  UseSubsurface = FALSE
  ShmBuffers = FALSE
  MultiWindows = FALSE
  BackgroundStart = TRUE
  Modes = {"none", "apps", "Openfde"}
SPECIFICATION Spec
INVARIANTS
  FullScreenAlone
  
PROPERTIES
  ModeTakesEffect
  LifecycleRefinement
  FrameEnds
  CloseTakesEffect
