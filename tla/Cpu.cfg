SPECIFICATION PSpec
CONSTANTS
  Images <- MCImages
  MaxRaised = 1
  MaxDepth = 2
PROPERTIES CallsReturn BlockMoves ArithmeticExact
CHECK_DEADLOCK FALSE
