CONSTANTS
  Chans = {c1, c2}
  UdpChans = {c2}
  Fds = {f1, f2}
  NoChan = NoChan
  Interests = {read, write}
  kInitEventListSize = 1
SPECIFICATION FairSpec
INVARIANTS
  IndexMirrorsKernel
  DeadByHandlersOnly
PROPERTIES
  ReadyChannelsReported
\* The program may call a dead channel, which ends it.
CHECK_DEADLOCK FALSE
