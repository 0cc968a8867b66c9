\* Every operation, on two handles.  The waits that fail keep the mutex, and
\* then everybody may stop.
CHECK_DEADLOCK FALSE
SPECIFICATION Spec
SYMMETRY MCSymmetry
CONSTANTS
  t1 = t1
  t2 = t2
  t3 = t3
  s1 = s1
  s2 = s2
  Threads <- MCThreads
  Sems <- MCSems
  NoThread = none
  Kinds <- AllKinds
  InitValues <- MCValues
  MayHappen <- MCRare
  MaxCalls = 4
  Wrap = 8
INVARIANTS
  TypeOK
  NoUnderflow
  NoLostPost
  LeaksAreReported
PROPERTY
  ImplementsSemaphore
