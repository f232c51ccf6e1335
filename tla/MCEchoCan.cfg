SPECIFICATION Spec
CONSTANTS
  taps = 3
  Sample <- MCSample
  Better = 2
  DTD_HANGOVER = 3
  Smp = FALSE
INVARIANTS
  TypeOK
  LmsAligned
  SameView
PROPERTIES
  FgIsDelayLine
  ImplementsDualPath
