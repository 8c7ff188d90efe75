\* Three tasks, two of them of one app, beside a layer that is not a task's:
\* frames of up to three layers, lists of up to two packages.
CONSTANTS
  t1 = t1
  t2 = t2
  t3 = t3
  launcher = launcher
  app = app
  NoTask = NoTask
  Names = {"InputMethod"}
  MaxLayers = 3
  MaxBlacklist = 2
  Tasks <- MCTasks
  Apps <- MCApps
  AppOf <- MCAppOf
  Packages <- MCPackages
  Keys <- MCKeys
SPECIFICATION Spec
INVARIANTS
  LoopsAgree
  BlacklistHonoured
