SPECIFICATION Spec
CONSTANTS
  Pages = 2
  Rates = 2
  MAX_MESSAGE_TRIES = 3
  Faults = {"lost", "bad"}
  MaxFaults = 2
CHECK_DEADLOCK FALSE
INVARIANT
  LossDetected
