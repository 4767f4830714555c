SPECIFICATION Spec
CONSTANTS
  NPorts = 1
  MaxSlots = 1
  CMD_N = 4
  EP0_N = 8
  MaxPortEvents = 1
  Patient = FALSE
INVARIANTS
  SlotsReturned
CHECK_DEADLOCK FALSE
