CONSTANTS
  MaxThreads = 2
  MaxClients = 3
  MaxStarts = 2
  MaxForeign = 1
  Limit = 3
SPECIFICATION FairSpec
INVARIANTS
  DescriptorsAccounted
  RoundRobin
  ClosedAfterDestroyed
PROPERTIES
  ConnectionsLive
  ClientsAnswered
  ConnectionsReleased
\* The program may die, and ends when the server is gone and all is closed.
CHECK_DEADLOCK FALSE
