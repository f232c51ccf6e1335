SPECIFICATION FairSpec
CONSTANTS
  WD_TIMEOUT = 3
  WD_FIRE = 2
  SLEEP_TIMEOUT = 2
  Byte = 12
  Char <- MCChar
  Val <- MCVal
  Bench = FALSE
  HostOnSwitch = TRUE
INVARIANTS
  FiringCounts
  PowerMatches
  ParserTimed
PROPERTIES
  ImplementsPowerPlan
  ComesBack
  WatchdogWorks
  ReasonTold
