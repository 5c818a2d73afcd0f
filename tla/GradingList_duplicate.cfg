SPECIFICATION Spec
CONSTANTS
  Nodes = {n1, n2, n3}
  MaxIdLen = 3
  MaxTasks = 1
  IntMax = 524287
  TypedIds <- MCTypedIds
  Files <- LongFiles
  Maxima <- OneTask
  Points <- MCPoints
  Tasks <- MCTasks
  Faults <- NoFaults
  NULL = NULL
  Free = Free
INVARIANT IdsDistinct
SYMMETRY Addresses
