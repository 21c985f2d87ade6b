SPECIFICATION Spec
CONSTANTS
  o1 = o1
  o2 = o2
  a1 = a1
  a2 = a2
  Nodes = {o1, a1, a2, o2}
  Objects = {o1, o2}
  Keys = {"A", "B", "a"}
  Rank <- MCRank
  Fold <- MCFold
  Indexes <- MCIndexes
  NULL = null
  MaxCount = 2
INVARIANTS
  ListsOK
PROPERTIES
  ImplementsTree
VIEW View
SYMMETRY Symmetry
CHECK_DEADLOCK FALSE
