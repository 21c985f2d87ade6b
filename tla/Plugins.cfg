SPECIFICATION Spec
CONSTANTS
  f1 = f1
  f2 = f2
  f3 = f3
  t1 = t1
  t2 = t2
  Tasks = {t1, t2}
  Main = main
  Plugins = {f1, f2, f3}
  id1 = id1
  id2 = id2
  a1 = a1
  a2 = a2
  a3 = a3
  MethodIds = {id1, id2}
  FunctionTypes = {"Inner", "Outer"}
  Addresses = {a1, a2, a3}
  NULL = null
  MayCall <- MCMayCall
  Missing = missing
  NameOf <- MCNameOf
INVARIANTS
  RegistryInv
  NoMapRace
  LoadedInOrder
  LifeCycle
SYMMETRY Symmetry
CHECK_DEADLOCK FALSE
