SPECIFICATION FairSpec
CONSTANTS
  In = 12
  Tx <- TxLevels
  Rx <- RxLevels
  Echoes <- EchoLevels
  Short = 2
  Long = 4
  Quiet = 2
  Ratio = 4
  Rnd = 6
  IntMax = 127
INVARIANTS
  TypeOK
  BgnBound
  OutputFits
PROPERTIES
  NoOvershoot
  Settles
