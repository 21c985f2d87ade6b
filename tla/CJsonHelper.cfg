SPECIFICATION Spec
CONSTANTS
  o1 = o1
  o2 = o2
  a1 = a1
  v1 = v1
  v2 = v2
  h1 = h1
  h2 = h2
  h3 = h3
  Nodes = {o1, o2, a1, v1, v2}
  Objects = {o1, o2}
  Values = {v1, v2}
  Helpers = {h1, h2, h3}
  Keys = {"j", "k"}
  Fold <- MCFold
  Indexes = {0, 1}
  NULL = null
  Obligations = {"reference", "nested", "shift", "twice"}
INVARIANTS
  WrappersCurrent
  OneOwner
PROPERTIES
  GetReadsSet
VIEW View
SYMMETRY Symmetry
CHECK_DEADLOCK FALSE
