CONSTANTS
  Window = 1
  SignBit = 4
  MaxTime = 2
  OddStamps = {3, 7}
  MaxBlock = 2
  MaxDeliveries = 2
SPECIFICATION Spec
PROPERTIES
  NoOpOnConflict
