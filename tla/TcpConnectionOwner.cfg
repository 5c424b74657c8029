CONSTANTS
  Others = {}
  IoLoops = {"base", "sub"}
  ServerDies = TRUE
  MaxBytes = 3
  MaxMessage = 3
  SendSpace = 1
  highWaterMark_ = 1
  MaxCloses = 2
SPECIFICATION Spec
INVARIANTS
  BytesInOrder
  ClosedOnceAlive
  ChannelRemovedFirst
  ForgottenIsDestroyed
PROPERTY ConnectionLives
\* The program may die.
CHECK_DEADLOCK FALSE
