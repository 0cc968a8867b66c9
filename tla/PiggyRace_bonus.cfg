\* Both timings.  After the race the feeder waits for an apple nobody releases
\* and the display for a lock nobody gives back.
CHECK_DEADLOCK FALSE
SPECIFICATION Spec
CONSTANTS
  NumPigs = 2
  Track = 12
  Apples <- MCApples
  Speeds <- MCSpeeds
  MaxSpeed = 3
  ReleaseRange = 4
  CatchRange = 2
  FallTicks = 2
  DropTicks = 3
  Bonus = 1
  Timings <- MCPaced
INVARIANT
  BonusLastsThreeTurns
