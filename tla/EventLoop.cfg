CONSTANTS
  Owner = owner
  Others = {t1, t2}
  MaxFunctors = 2
SPECIFICATION FairSpec
INVARIANTS
  NeverSleepsOnWork
  FifoExactlyOnce
PROPERTIES
  PendingFunctorRuns
  QuitLeavesLoop
\* A torn vector may kill the program.
CHECK_DEADLOCK FALSE
