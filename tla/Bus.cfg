SPECIFICATION Spec
CONSTANTS
  Rom <- MCRom
  RomSize = 65536
  SramSize = 2048
  Loaded <- MCLoaded
  Channels <- MCChannels
  Operations <- MCOperations
  Others = {170}
  MaxSteps = 3
  MaxBytes = 8
  Probes <- MCProbes
PROPERTIES OneMemory DmaMovesBlock FaultPointsAtByte
CHECK_DEADLOCK FALSE
