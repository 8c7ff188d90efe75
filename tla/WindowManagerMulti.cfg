\* Multi window mode: a window for each task and one for the input method. The
\* session starts with the full screen, which the boot animation brings back.
CONSTANTS
  t1 = t1
  t2 = t2
  launcher = launcher
  app = app
  NoTask = NoTask
  Freed = Freed
  Tasks <- MCTasks
  Apps <- MCApps
  AppOf <- MCAppOf
  KeyOrder <- MCKeyOrder
  Layers <- MCLayers
  Blacklists <- ChangingBlacklists
  Frames <- PopupFrames
  UseSubsurface = TRUE
  ShmBuffers = TRUE
  MultiWindows = TRUE
  BackgroundStart = FALSE
  Modes = {"none", "apps", "Openfde"}
SPECIFICATION Spec
INVARIANTS
  ShownWindowsActive
  NoObsoleteWindow
  OpenWindowsCounted
