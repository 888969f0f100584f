SPECIFICATION Spec
CONSTANTS
  t1 = t1
  Setups <- AllSetups
  Sizes = {1, 3}
  Slack = 1
  Freed = Freed
INVARIANTS TypeOK RingBound SavedSound
PROPERTIES KeepsNewest
CHECK_DEADLOCK FALSE
