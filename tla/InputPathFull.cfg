SPECIFICATION Spec
CONSTANTS
  ScancodeCap = 2
  TaskCap = 3
INVARIANTS
  TaskQueueNeverFull
