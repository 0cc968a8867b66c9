\* Both timings.  After the race the feeder waits for an apple nobody releases
\* and the display for a lock nobody gives back.
CHECK_DEADLOCK FALSE
SPECIFICATION FairSpec
CONSTANTS
  NumPigs = 2
  Track = 5
  Apples <- MCShortApples
  Speeds <- MCSpeeds
  MaxSpeed = 2
  ReleaseRange = 4
  CatchRange = 2
  FallTicks = 1
  DropTicks = 3
  Bonus = 1
  Timings <- MCTimings
INVARIANTS
  TypeOK
  FeederIsAwake
  LeaderLeads
  ResultIsRight
  LocationExists
  AppleEndsOnce
  BonusIsEarned
PROPERTY
  RaceEnds
