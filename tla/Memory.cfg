SPECIFICATION Spec
CONSTANTS
  MemoryMaps <- SomeMaps
  HEAP_START = 20480
  HEAP_SIZE = 12289
  Span <- SmallSpan
  Boots <- SomeBoots
INVARIANTS
  OneUsePerFrame
  FramesUsable
  HeapBacked
  FailsOnlyWhenOut
  

  
