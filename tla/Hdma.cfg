SPECIFICATION Spec
CONSTANTS
  Channels = {0, 1}
  Half = 4
  Space = 16
  Page = 8
  Memories <- MCMemories
  Modes <- MCModes
  Starts = {0, 9}
  Staged <- MCStaged
  VisibleLines = 4
  MaxFrames = 2
  MaxWrites = 3
INVARIANT PlaysTable
PROPERTIES EndedStaysDead
CHECK_DEADLOCK FALSE
