CONSTANTS
  MaxTimers = 2
  MaxTime = 3
  MaxRequests = 2
  TicksPerMs = 2
  LowAddresses = {TRUE, FALSE}
SPECIFICATION FairSpec
INVARIANTS
  IndexesAgree
  TimersOwnedOnce
  CancelledNeverRearmed
PROPERTIES
  TriggeredWhenDue
  DueTimerFires
\* A failed assertion stops the program.
CHECK_DEADLOCK FALSE
