SPECIFICATION Spec
CONSTANTS
  Nodes = {n1, n2, n3}
  MaxIdLen = 3
  MaxTasks = 2
  IntMax = 524287
  TypedIds <- MCTypedIds
  Files <- ShortFiles
  Maxima <- MCMaxima
  Points <- MCPoints
  Tasks <- MCTasks
  Faults <- AllFaults
  NULL = NULL
  Free = Free
INVARIANT TypeOK
INVARIANT ListWellFormed
INVARIANT ScoreWithinTotal
INVARIANT GradeFollowsScore
PROPERTY ImplementsBook
SYMMETRY Addresses
