CONSTANTS
  Others = {t1}
  IoLoops = {"base"}
  ServerDies = FALSE
  MaxBytes = 2
  MaxMessage = 2
  SendSpace = 1
  highWaterMark_ = 2
  MaxCloses = 1
SPECIFICATION FairSpec
INVARIANTS
  WritingWhileBuffered
  FinAfterBytes
PROPERTIES
  ShutdownCompletes
  PeerCloseCompletes
\* The program may die.
CHECK_DEADLOCK FALSE
