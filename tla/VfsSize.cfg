SPECIFICATION Spec
CONSTANTS
  Calls <- CatCalls
  Buffers <- TwoBuffers
  ReadSizes = {2}
  MaxNodes = 4
  MaxEntries = 6
  MaxMounts = 1
  MaxFd = 2
  MaxHeld = 0
  MaxLen = 4
INVARIANTS
  SizeIsCurrent
