SPECIFICATION FairSpec
CONSTANTS
  Clients = {c1, c2}
  Cam = Cam
  Nobody = Nobody
  Freed = Freed
  MaxCaptures = 1
  MaxPublished = 1
  SpuriousWakeups = TRUE
  DestroyWaits = TRUE
PROPERTIES WokenDelivers ShutdownStuckOnlyOnAbandoned
CHECK_DEADLOCK FALSE
