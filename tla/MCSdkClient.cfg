CONSTANTS
  MaxMessages = 3
  MaxRebalances = 1
SPECIFICATION FairSpec
INVARIANTS
  TypeOK
  InOrder
  OneAfterClose
PROPERTIES
  BusyStreamStops
