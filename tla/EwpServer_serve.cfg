SPECIFICATION FairSpec
CONSTANTS
  Clients = {"c1", "c2"}
  HeaderSize = 2
  Messages <- MCMessages
  WellFormed <- PoliteMessages
  Names <- MCNames
  Misread <- MCMisread
  Pipelining = {TRUE, FALSE}
  Ports <- MCPorts
  PortSpan = 4
  MaxMessages = 3
  Faults <- AllFaults
  Nobody = Nobody
  NoFile = NoFile
INVARIANT TypeOK
INVARIANT InStep
INVARIANT NothingAfterQuit
INVARIANT FilesStayInDirectory
PROPERTY EveryClientServed
