SPECIFICATION Spec
CONSTANTS
  Keys = {"LShift", "Ctrl", "Caps", "A", "Up"}
  MaxBytes = 5
INVARIANTS
  ModifiersNeverStick
  TypedAsPressed
PROPERTIES
  EveryByteProcessed
CHECK_DEADLOCK FALSE
