SPECIFICATION FairSpec
CONSTANTS
  BufferNum = 2
  MaxParts = 2
  MaxFrames = 2
  FailureSets <- OneOfThem
INVARIANTS TypeOK HeadersAccounted FaultsExplained
PROPERTIES ReadsWhole WaitsEnd
CHECK_DEADLOCK FALSE
