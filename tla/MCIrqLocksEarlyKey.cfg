SPECIFICATION Spec
CONSTANTS
  DBG_CAP = 2
  BLINK_PERIOD = 3
  QuietBoot = FALSE
INVARIANTS
  IsrNeverSpins
