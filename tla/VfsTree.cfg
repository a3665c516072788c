SPECIFICATION Spec
CONSTANTS
  Calls <- TreeCalls
  Buffers = {}
  ReadSizes = {}
  MaxNodes = 7
  MaxEntries = 9
  MaxMounts = 3
  MaxFd = 0
  MaxHeld = 2
  MaxLen = 0
INVARIANTS
  TypeOK
  LiveEntriesCached
  OneEntryPerNode
  CacheMatchesDisk
  CreatesFreeNames
PROPERTIES
  ImplementsFileTree
