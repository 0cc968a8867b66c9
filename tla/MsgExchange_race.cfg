\* Both sessions at once, anything rare may happen.
CHECK_DEADLOCK FALSE
SPECIFICATION Spec
CONSTANTS
  Users <- MCUsers
  Names <- MCPeers
  Threads <- MCThreads
  Sessions <- MCSessions
  Receiver = "exchange"
  UserOf <- MCUserOf
  Resolve <- MCResolvePeers
  NoUser = "nobody"
  NoOwner = "none"
  MayHappen <- Rare
  Wrap = 4
  Shown <- MCShown
  MaxSends = 2
  Paced = FALSE
INVARIANTS
  TypeOK
  MutualExclusion
  NoLostWakeup
  SlotHeld
PROPERTY
  ImplementsChannel
