SPECIFICATION PSpec
CONSTANTS
  Voices <- MCVoices
  EchoUnit = 2
  Gauss <- MCGauss
  Start <- MCStart
  Programs <- MCPrograms
  PortValues = {5}
  MaxDepth = 3
  MaxBlocks = 4
INVARIANTS TimersExact SamplesInOrder
PROPERTIES SpcCallsReturn
CHECK_DEADLOCK FALSE
