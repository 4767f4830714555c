SPECIFICATION Spec
CONSTANTS
  NPorts = 1
  MaxSlots = 1
  CMD_N = 4
  EP0_N = 8
  MaxPortEvents = 1
  Patient = TRUE
INVARIANTS
  DataIsAnswer
CHECK_DEADLOCK FALSE
