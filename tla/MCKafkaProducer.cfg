CONSTANTS
  MaxMessages = 5
  MaxBatch = 2
  MaxLaunches = 3
SPECIFICATION FairSpec
INVARIANTS
  IInv
  CommittedInOrder
  BatchIsAtomic
  WedgeIsReported
PROPERTIES
  CallsReturn
  ImplementsPublisher
