\* Both sessions at once: the boxes are not locked, messages get lost.
SPECIFICATION Spec
CONSTANTS
  Users <- MCUsers
  Names <- MCPeers
  Threads <- MCThreads
  Sessions <- MCSessions
  Receiver = "exchange"
  UserOf <- MCUserOf
  Resolve <- MCResolvePeers
  NoUser = "nobody"
  NoOwner = "none"
  MayHappen = {}
  Wrap = 4
  Shown = {}
  MaxSends = 2
  Paced = FALSE
INVARIANT
  ExactlyOneCopy
