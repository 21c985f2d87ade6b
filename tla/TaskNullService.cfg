SPECIFICATION Spec
CONSTANTS
  a1 = a1
  a2 = a2
  c1 = c1
  alice = alice
  carol = carol
  TaskThreadNum = 2
  BatchMax = 2
  QueueMax = 2
  NoMsg = none
  Msgs = {a1, a2, c1}
  Clients = {alice, carol}
  ClientOf <- MCClientOf
  Hashes <- MCHashes
INVARIANTS
  ReplyHasService
CHECK_DEADLOCK FALSE
