SPECIFICATION Spec
CONSTANTS
  c1 = c1  c2 = c2  p1 = p1  p2 = p2  e1 = e1  e2 = e2
  normal = normal  disabled = disabled
  Ec <- MCEc
  DefaultMode = normal
  Null = Null  NoEc = NoEc  Unlocked = Unlocked
  Chan <- MCChan
  Proc <- MCProc
  Len <- MCLen
  Mode <- MCMode
  EarlyReaders <- MCProc
  MallocMayFail = FALSE
INVARIANT
  MutualExclusion
