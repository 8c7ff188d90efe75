\* Two threads, which may meet in each pair of operations; two attempts to open a PCM.
CONSTANTS
  Threads = {mixer, recorder}
  Out = "out"
  In = "in"
  NoThread = NoThread
  NoStream = NoStream
  MaxRetries = 2
SPECIFICATION Spec
INVARIANTS
  StartHoldsBoth
  TransferHasPcm
  StandbyConsistent
PROPERTIES
  CallsReturn
