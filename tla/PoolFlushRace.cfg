SPECIFICATION Spec
CONSTANTS
  t1 = t1
  t2 = t2
  tiny1 = tiny1
  tiny2 = tiny2
  h1 = h1
  h2 = h2
  h3 = h3
  Threads = {t1, t2}
  TinyAddrs = {tiny1, tiny2}
  HeapAddrs = {h1, h2, h3}
  NULL = null
  Sizes = {1, 2, 3, 4, 5}
  TinySize = 1
  SmallSize = 3
  MedSize = 4
  MaxSmall = 2
  MaxMed = 1
  Header = 1
  MaxOoms = 2
INVARIANT
  OneOwner
SYMMETRY Symmetry
CHECK_DEADLOCK FALSE
