SPECIFICATION Spec
CONSTANTS
  Keys = {"A", "One", "Up", "Caps", "Shift", "Ctrl"}
  KeySlots = 2
  MayRollover = TRUE
  MaxPresses = 4
INVARIANTS
  TypedAsPressed
  NoPhantomKeys
CHECK_DEADLOCK FALSE
