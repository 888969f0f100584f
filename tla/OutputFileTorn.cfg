SPECIFICATION Spec
CONSTANTS
  t1 = t1
  Setups <- Snapshots
  Sizes = {1, 3}
  Slack = 1
  Freed = Freed
INVARIANTS WorkerSavesWhole
CHECK_DEADLOCK FALSE
