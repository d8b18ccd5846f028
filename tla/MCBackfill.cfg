CONSTANTS
  Limit = 8
  Profiles = {"dev", "release"}
  Chain = {0, 1, 2, 3, 5, 6, 7}
SPECIFICATION FairSpec
INVARIANTS
  TypeOK
  PrefixPrinted
PROPERTIES
  Terminates
