SPECIFICATION MCSpec
CONSTANTS
  Lines = 6
  LineClocks = 8
  VBlankLine = 3
  OverscanLine = 4
  CropTop = 1
  BusyLines = 1
  Dots = 4
  DotClocks = 2
  HDelay = 3
  VDelay = 2
  FetchClocks = {1, 2, 3}
  RegClocks = 1
  IdleClocks = 1
  EntryClocks = 4
  ResetClocks = 2
  DmaSetup = 2
  SlotClocks = 3
  Bursts = {7}
  Htimes = {0, 3}
  Vtimes = {0, 5}
  PowerOnTime = 9
  Nmitimens <- AutoModes
  PadWords <- MCPads
  Registers = {"timeup", "setini", "rdnmi", "fault", "apu", "strobe", "serial",
               "wait", "stopped", "mask"}
  MaxFrames = 2
INVARIANTS TimeConserved FrameContract FrontIsWholeFrame PadAsLatched
PROPERTY FrameReturns
CHECK_DEADLOCK FALSE
