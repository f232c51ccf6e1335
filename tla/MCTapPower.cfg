SPECIFICATION Spec
CONSTANTS
  In = 4
  taps = 2
  MaxPower = 40
INVARIANT BlockAverage
