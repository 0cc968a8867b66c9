\* The calls that give the mutex back, on one handle.  A waiter without a token
\* waits for ever.
CHECK_DEADLOCK FALSE
SPECIFICATION FairSpec
CONSTANTS
  t1 = t1
  t2 = t2
  t3 = t3
  s1 = s1
  s2 = s2
  Threads <- MCThreads
  Sems <- MCOneSem
  NoThread = none
  Kinds <- MCPlainKinds
  InitValues <- MCValues
  MayHappen = {}
  MaxCalls = 4
  Wrap = 8
PROPERTY
  CallsEnd
