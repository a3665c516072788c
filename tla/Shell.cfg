SPECIFICATION ShellSpec
CONSTANTS
  Calls = {}
  Buffers = {}
  ReadSizes = {}
  Ids = {1, 2, 3, 4, 5, 6, 7}
  Fds = {}
  MAX_PATH_LENGTH = 8
  Commands <- SomeCommands
  MaxFd = 4
INVARIANTS
  OnlyCatLeavesOpen
  ExpectedResults
  RootListingResolves
PROPERTIES
  
  BackToPrompt
CHECK_DEADLOCK FALSE
