SPECIFICATION BootSpec
CHECK_DEADLOCK FALSE
CONSTANTS
  DBG_CAP = 1
  BLINK_PERIOD = 2
  QuietBoot = TRUE
  Firmwares <- MCFirmwares
  IoApics <- MCIoApics
  LapicId = 7
  PitCount = 2
  Elapsed = {9, 25}
  Stalls = TRUE
PROPERTIES
  MainNeverStuck
