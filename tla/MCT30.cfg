SPECIFICATION FairSpec
CONSTANTS
  Pages = 2
  Rates = 2
  MAX_MESSAGE_TRIES = 3
  Faults = {"lost", "garbled", "cut", "bad", "poor", "untrained"}
  MaxFaults = 4
CHECK_DEADLOCK FALSE
INVARIANT
  TypeOK
PROPERTIES
  Delivered
  
  Progresses
