SPECIFICATION FairSpec
CONSTANTS
  Workers = {w1}
  Ctl = ctl
  Disp = disp
  None = none
  Msgs = {m1}
  PipeCap = 2
  MaxOpens = 2
  MaxPollErrors = 1
PROPERTIES
  ExceptionRecovered
CHECK_DEADLOCK FALSE
