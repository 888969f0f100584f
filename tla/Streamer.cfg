SPECIFICATION FairSpec
CONSTANTS
  Configs <- CommandLines
  MAX_INPUT_PLUGINS = 3
  Slack = 1
  FixedRoom = 2
  ZmqBufferSize = 2
  Freed = Freed
  Torn = Torn
INVARIANTS TypeOK TidyShutdown
PROPERTIES DeliversWhole WokenDelivers ShutdownEnds
CHECK_DEADLOCK FALSE
