SPECIFICATION FairSpec
CONSTANTS
  In = 8
  One = 16
  IntMax = 250
PROPERTIES
  StateExact
  Decays
  DcRemoved
