SPECIFICATION Spec
CONSTANTS
  NPorts = 2
  MaxSlots = 1
  CMD_N = 4
  EP0_N = 8
  MaxPortEvents = 1
  Patient = TRUE
INVARIANTS
  SlotsReturned
  CompletionIsOwn
  KeyboardFound
  HandoverClean
PROPERTIES
  EnumerationEnds
CHECK_DEADLOCK FALSE
