SPECIFICATION FairSpec
CONSTANTS
  MaxFrames = 2
  MaxDatagrams = 5
  QueueCap = 2
  SendCap = 2
  Pads = {0, 4097}
INVARIANTS
  MarkSnapshot
  ReadyContract
  FaultContract
  RequestContract
PROPERTIES
  ImplementsLifecycle
  QueueDrained
CHECK_DEADLOCK FALSE
