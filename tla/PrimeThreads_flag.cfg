SPECIFICATION Spec
CONSTANTS
  Numbers <- MCNumbers
  Primes <- MCPrimes
  Keys <- MCKeys
  Junk = "j"
  Files <- ShortFiles
  Batch = 2
  Faults <- NoFaults
  NoThread = NoThread
  Absent = Absent
  Empty = Empty
INVARIANT FoundFlagProtected
