SPECIFICATION Spec
CONSTANTS
  SLAB_SIZES <- MCSizes
  OBJECTS_PER_CLASS = 2
  HEAP_SIZE = 72
  Layouts <- MCLayouts
  MemoryMaps <- MCMaps
  Junk <- MCJunk
INVARIANTS
  FreeListIntact
  BlocksConserved
PROPERTIES
  ImplementsHeap
CHECK_DEADLOCK FALSE
