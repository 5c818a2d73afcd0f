SPECIFICATION FairSpec
CONSTANTS
  Modulus = 256
  Xor <- MCXor
  DELTA = 185
  Cycles = 3
  Base = 4
  Magic <- MCMagic
  Texts <- MCTexts
  Secrets <- MCSecrets
  Numbers <- MCNumbers
  Garbage <- MCGarbage
  Faults <- FaultNames
INVARIANT RoundTrip
INVARIANT PrimeVerdict
INVARIANT RightKeyOpens
INVARIANT ChecksumOfText
PROPERTY TrialEnds
