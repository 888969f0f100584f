SPECIFICATION FairSpec
CONSTANTS
  Clients = {c1, c2}
  Variants = {TRUE, FALSE}
  WorkerFails = TRUE
  Numbers = 5
  MaxQueue = 2
INVARIANTS TypeOK ResultsSound
PROPERTIES LeaverNoticed
CHECK_DEADLOCK FALSE
