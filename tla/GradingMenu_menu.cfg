SPECIFICATION MenuSpec
CONSTANTS
  Nodes = {n1, n2}
  MaxIdLen = 3
  MaxTasks = 2
  IntMax = 524287
  TypedIds <- MCTypedIds
  Files <- MCFiles
  Maxima <- MCNumbers
  Points <- MCNumbers
  Tasks <- MCNumbers
  Lines <- MCLines
  LastLines <- MCLastLines
  Sizes <- MCSizes
  Directory <- MCDirectory
  Faults <- AllFaults
  NULL = NULL
  Free = Free
INVARIANT IdsDistinct
PROPERTY ImplementsList
PROPERTY CutShortDoesNothing
PROPERTY EndsAtEof
