\* Both sessions at once, nothing rare happens, fair threads.
SPECIFICATION FairSpec
CONSTANTS
  Users <- MCUsers
  Names <- MCPeers
  Threads <- MCThreads
  Sessions <- MCSessions
  Receiver = "exchange"
  UserOf <- MCUserOf
  Resolve <- MCResolvePeers
  NoUser = "nobody"
  NoOwner = "none"
  MayHappen = {}
  Wrap = 4
  Shown = {}
  MaxSends = 2
  Paced = FALSE
PROPERTIES
  SendsEnd
  ImplementsFairChannel
