SPECIFICATION Spec
CONSTANTS
  Frames <- Pictures
  BufferSize = 12
  MaxFrames = 2
INVARIANTS TypeOK DeliveredWhole NoneMissed
CHECK_DEADLOCK FALSE
