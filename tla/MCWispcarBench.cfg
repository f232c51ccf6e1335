SPECIFICATION Spec
CONSTANTS
  WD_TIMEOUT = 3
  WD_FIRE = 2
  SLEEP_TIMEOUT = 2
  Byte = 12
  Char <- MCChar
  Val <- MCVal
  Bench = TRUE
  HostOnSwitch = FALSE
PROPERTY
  CutUntilHost
