SPECIFICATION Spec
CONSTANTS
  Clients = {c1, c2}
  Cam = Cam
  Nobody = Nobody
  Freed = Freed
  MaxCaptures = 2
  MaxPublished = 2
  SpuriousWakeups = FALSE
  DestroyWaits = FALSE
INVARIANTS TypeOK LockDiscipline WholeFrame FreshFrame
PROPERTIES SendsForward BoardSpec
CHECK_DEADLOCK FALSE
