CONSTANTS
  Servers <- MCServers
  MaxAttempts = 2
  MaxCalls = 1
SPECIFICATION Spec
INVARIANT RetryIsPossible
\* The program may die, or run out of sockets.
CHECK_DEADLOCK FALSE
