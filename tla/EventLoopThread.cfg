CONSTANT MaxSpurious = 2
SPECIFICATION FairSpec
INVARIANTS
  StartLoopReturnsLoop
  DestroySafe
PROPERTIES
  StartLoopReturns
  DestructorReturns
\* The program ends, or waits for ever in the two cases the properties name.
CHECK_DEADLOCK FALSE
