SPECIFICATION Spec
CONSTANTS
  MAX_PATH_LENGTH = 7
  Names = {"a", "b", ".."}
  MaxTokens = 8
INVARIANTS
  SegmentsSpellString
  SegmentsWellFormed
CHECK_DEADLOCK FALSE
