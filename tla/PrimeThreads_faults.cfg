SPECIFICATION FairSpec
CONSTANTS
  Numbers <- MCNumbers
  Primes <- MCPrimes
  Keys <- MCKeys
  Junk = "j"
  Files <- FaultFiles
  Batch = 2
  Faults <- AllFaults
  NoThread = NoThread
  Absent = Absent
  Empty = Empty
INVARIANT ListHoldsEveryNode
PROPERTY StopsAfterNumberInHand
PROPERTY Terminates
