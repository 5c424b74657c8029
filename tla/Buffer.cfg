CONSTANTS
  Byte = {0, 1}
  kCheapPrepend = 2
  kInitialSize = 2
  ExtraSize = 2
  MaxContent = 4
SPECIFICATION Spec
PROPERTIES
  BufferIsByteQueue
  GrowthIsBounded
