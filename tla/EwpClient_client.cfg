SPECIFICATION FairSpec
CONSTANTS
  HeaderSize = 2
  FileLen = 4
  Packets <- OddPackets
  Misread <- MCMisread
  MaxSize = 9
  MaxSent = 4
  Faults <- MCFaults
  NoFile = NoFile
INVARIANT TypeOK
INVARIANT KeepsPrefix
INVARIANT FinMeansComplete
INVARIANT AnswersAgree
INVARIANT BufferWithinSequence
PROPERTY EndsAfterClose
