SPECIFICATION Spec
CONSTANTS
  BUFFER_WIDTH = 5
  Prompt <- ShortPrompt
  HistoryCap = 2
  Keys = {"x", "tab"}
  Outputs <- SomeOutputs
  MaxNoise = 2
INVARIANTS
  TypeOK
  NeverSpins
  CursorAfterLine
  RowShowsLine
  ColorRestored
PROPERTIES
  OutputFinishes
