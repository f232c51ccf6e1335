SPECIFICATION Spec
CONSTANTS
  taps = 3
  Sample <- MCSample
  Better = 2
  DTD_HANGOVER = 3
  Smp = TRUE
INVARIANT
  PositionsAgree
