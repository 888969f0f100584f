SPECIFICATION FairServicesSpec
CONSTANTS
  ImuClients = {c1, c2}
  SocketRoom = 3
  MaxSamples = 3
  Drivers = {b1, b2}
  MaxMessages = 2
  Viewers = {v1}
  MaxFrames = 3
  MaxAsks = 2
INVARIANTS ServicesTypeOK StreamsGoOn EndsExplained
PROPERTIES ServicesSettle
CHECK_DEADLOCK FALSE
