SPECIFICATION MCSpec
CONSTANTS
  MaxFrames = 6
  PadMask = 4095
  WramSize = 4
  KeptChars <- MCKept
  Checklist <- MCChecklist
  Builds <- MCBuilds
  Roms = {"rom"}
  Wram <- MCWram
  Faults <- MCFaults
  Pads = {0, 1}
  Typed <- MCTyped
  FinalChars <- MCFinals
  Scripts <- MCScripts
  Searches <- MCSearches
  MaxLog = 4
  MaxScript = 4
  MaxCommands = 3
INVARIANTS
  LogIsWhatWasPlayed
  DumpsReplay
  
  CandidatesAreTheAnswers
CHECK_DEADLOCK FALSE
