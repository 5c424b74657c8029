CONSTANTS
  Servers <- MCServers
  MaxAttempts = 3
  MaxCalls = 3
SPECIFICATION FairSpec
INVARIANTS
  ChannelWhileConnecting
  UnhandedSocketsClosed
  ResetForOldChannel
  HandedIsServer
  DestroyedCleanly
PROPERTIES
  StopEndsAttempt
  OrphanDestroyed
\* The program may die, or run out of sockets.
CHECK_DEADLOCK FALSE
