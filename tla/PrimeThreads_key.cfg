SPECIFICATION Spec
CONSTANTS
  Numbers <- MCNumbers
  Primes <- MCPrimes
  Keys <- MCKeys
  Junk = "j"
  Files <- MCFiles
  Batch = 2
  Faults <- SafeFaults
  NoThread = NoThread
  Absent = Absent
  Empty = Empty
INVARIANT TypeOK
INVARIANT EachNumberTestedOnce
INVARIANT KeyDelivered
INVARIANT FreedWhenQuiet
PROPERTY ImplementsSearch
