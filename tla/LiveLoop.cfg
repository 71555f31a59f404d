CONSTANTS
  RingCap = 4
  Scratch = 2
  InRate = 1000
  DeviceRate = 1250
  HighMs = 5
  LowMs = 2
  SlewDen = 4
  Replayed = 5
  FramePairs = {2, 3}
  BufferFrames = {2}
  PadEvents <- MCPadEvents
  Keys <- MCKeys
  Works <- MCWorks
  FramePeriod = 2
  PaceResync = 5
  DiagInterval = 8
  SlowFrame = 3
  MaxFrames = 3
CONSTRAINT FewEvents
SPECIFICATION Spec
INVARIANTS OneStream DrainsTold
PROPERTY WordIsWhatIsPressed
CHECK_DEADLOCK FALSE
