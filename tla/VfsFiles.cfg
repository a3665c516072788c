SPECIFICATION Spec
CONSTANTS
  Calls <- FileCalls
  Buffers <- TwoBuffers
  ReadSizes = {2}
  MaxNodes = 6
  MaxEntries = 8
  MaxMounts = 2
  MaxFd = 2
  MaxHeld = 0
  MaxLen = 3
INVARIANTS
  LinkCountExact
  PositionInFile
PROPERTIES
  CallsReturn
  ImplementsFileTree
