SPECIFICATION Spec
CONSTANTS
  IntMax = 31
  Inputs <- MCInputs
  Faults <- MCFaults
INVARIANT IndicesFromOne
