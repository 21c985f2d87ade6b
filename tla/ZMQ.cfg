SPECIFICATION FairSpec
CONSTANTS
  Workers = {w1, w2}
  Ctl = ctl
  Disp = disp
  None = none
  Msgs = {m1, m2, m3}
  PipeCap = 2
  MaxOpens = 4
  MaxPollErrors = 2
INVARIANTS
  PushNeverOnClosed
  DispatchSocketsValid
  RepliesConserved
  WakeupCovered
  DispatchNeverBlocks
  NoTerminate
PROPERTIES
  SilentAfterStop
  StopReturns
CHECK_DEADLOCK FALSE
