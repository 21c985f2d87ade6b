SPECIFICATION FairSpec
CONSTANTS
  a1 = a1
  a2 = a2
  b1 = b1
  alice = alice
  bob = bob
  TaskThreadNum = 2
  BatchMax = 2
  QueueMax = 3
  NoMsg = nomsg
  Msgs = {a1, a2, b1}
  Clients = {alice, bob}
  ClientOf <- MCClientOf
  Hashes <- MCHashes
  Ctl = ctl
  Disp = disp
  None = none
  PipeCap = 1
  MaxOpens = 2
  MaxPollErrors = 1
INVARIANTS
  OnePlace
PROPERTIES
  ServiceContract
  ReplyOrder
  Answered
CHECK_DEADLOCK FALSE
