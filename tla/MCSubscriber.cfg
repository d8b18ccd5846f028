CONSTANTS
  MinBackoff = 1
  MaxBackoff = 5
  ChannelBuf = 1
  StreamBuf = 2
  MaxDeploys = 3
  MaxRemoved = 1
SPECIFICATION FairSpec
INVARIANTS
  TypeOK
  SentInOrder
  LossIsAccounted
PROPERTIES
  Resubscribes
  DroppedReceiverIsNoticed
