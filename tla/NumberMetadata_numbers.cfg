SPECIFICATION FairSpec
CONSTANTS
  IntMax = 31
  Inputs <- MCInputs
  Faults <- MCFaults
INVARIANT TypeOK
INVARIANT RecordsTrue
INVARIANT IndexNamesNumber
PROPERTY Terminates
