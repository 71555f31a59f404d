SPECIFICATION FairUpload
CONSTANTS
  Num = 2
  Den = 7
  MaxLag = 12
  PollCost = 2
  StoreCost = 5
  KickCost = 9
  BlockCost = 6
  InstrCosts = {2, 5}
  ProgramBytes = {1}
  Bytes = 4
  Kick = 3
  ReadyA = 1
  ReadyB = 2
  RomAt = 12
  TransferAt = 14
  AccessClocks = {1, 2, 3, 10}
  StoreClocks = 1
  Blocks <- MCBlocks
  Entry = 5
  FreeBytes = {0, 3}
  MaxFree = 2
INVARIANTS ClockKept UploadFaithful
PROPERTIES UploadCompletes
CHECK_DEADLOCK FALSE
