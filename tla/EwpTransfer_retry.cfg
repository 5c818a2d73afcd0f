SPECIFICATION TransferSpec
CONSTANTS
  HeaderSize = 3
  SentSize = 4
  FileLen = 5
  Packets <- MCPackets
  Misread <- NoMisread
  Schedules <- MCSchedules
  MaxSize = 9
  MaxSent = 9
  MaxTries = 3
  Faults <- MCFaults
  NoFile = NoFile
INVARIANT InOrderDelivers
INVARIANT AnswerOnItsWay
PROPERTY TransferEnds
