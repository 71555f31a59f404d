SPECIFICATION PSpec
CONSTANTS
  Programs <- MCPrograms
  Columns <- MCColumns
  Dots <- MCDots
INVARIANTS PrefetchFresh Mirrored RenderersAgree
CHECK_DEADLOCK FALSE
