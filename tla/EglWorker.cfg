\* Two jobs and batches of up to three: a batch can repeat a job, and a job
\* that was left behind can be told from one of the next batch.
CONSTANTS
  Jobs = {snapshot, render}
  MaxBatch = 3
SPECIFICATION Spec
INVARIANTS
  QueueExclusive
PROPERTIES
  SyncRefinement
