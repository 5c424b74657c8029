CONSTANTS
  Others = {t1}
  IoLoops = {"base"}
  ServerDies = FALSE
  MaxBytes = 1
  MaxMessage = 1
  SendSpace = 1
  highWaterMark_ = 1
  MaxCloses = 1
SPECIFICATION FairSpec
PROPERTY NoSendAfterShutdown
\* The program may die.
CHECK_DEADLOCK FALSE
