SPECIFICATION Spec
CONSTANTS
  ScancodeCap = 3
  TaskCap = 3
INVARIANTS
  TypeOK
  NoLostWakeup
  SleepsOnlyWhenIdle
  HandlerNeverFreesWaker
  WakeProtocol
PROPERTIES
  InputEventuallyRead
  ImplementsEventLoop
