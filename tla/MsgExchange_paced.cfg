\* One command at a time, as the tests pace them, names that are not users' too.
SPECIFICATION Spec
CONSTANTS
  Users <- MCUsers
  Names <- MCNames
  Threads <- MCThreads
  Sessions <- MCSessions
  Receiver = "exchange"
  UserOf <- MCUserOf
  Resolve <- MCResolve
  NoUser = "nobody"
  NoOwner = "none"
  MayHappen = {}
  Wrap = 16
  Shown <- MCNames
  MaxSends = 3
  Paced = TRUE
INVARIANTS
  CountersAddUp
  ExactlyOneCopy
