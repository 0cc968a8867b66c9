\* Trees of the three kinds over five keys, lists of four nodes, a table of
\* three buckets, a pool of two usable banks.  The programs end, or are stopped
\* by a command that fails.
CHECK_DEADLOCK FALSE
SPECIFICATION CommonSpec
CONSTANTS
  Keys <- MCKeys
  Kinds <- AllKinds
  FreshColors <- Colors
  MaxHeld = 6
  Data = {1, 2}
  MaxNodes = 4
  a = a
  b = b
  c = c
  d = d
  HtKeys = {a, b, c, d}
  HtData = {d1, d2}
  NoData = NoData
  NumBuckets = 3
  Hash <- MCHash
  FourBytes <- MCFourBytes
  Step <- MCStep
  Limit = 9
  NumWrap = 6
  MaxSize = 6
  MinUnit = 4
  PerBank = 2
  MaxPieces = 4
  MayFail = TRUE
INVARIANTS
  KeepsKeys
  BalancedUntilRemoval
  RulesUntilRemoval
  ListIsSound
  FindsStored
  CountCoversEntries
  PiecesAreSound
PROPERTIES
  RbRemovesOnLeft
  BstRemovesOne
  SortKeepsNodes
