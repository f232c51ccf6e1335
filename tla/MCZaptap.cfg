SPECIFICATION FairSpec
CONSTANTS
  c1 = c1
  c2 = c2
  none = none
  p1 = p1
  p2 = p2
  Number <- MCNumber
  Chan <- MCChan
  Proc <- TwoProcs
  SAMPLE_BUF_SZ = 2
  Smp = FALSE
  Prompt = TRUE
CHECK_DEADLOCK FALSE
INVARIANTS
  InBuffer
  Multiplexed
  FramesOfOneChannel
  ReadsPrepared
PROPERTY
  ReadReturns
