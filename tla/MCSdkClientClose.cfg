CONSTANTS
  MaxMessages = 3
  MaxRebalances = 1
SPECIFICATION FairSpec
PROPERTIES
  StopsOnClose
