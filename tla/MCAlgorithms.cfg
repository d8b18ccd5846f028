SPECIFICATION MCSpec
CONSTANTS
  Addresses = {a1, a2}
  Topics = {t1, t2}
  Words = {w1, w2}
  None = None
  Malformed = Malformed
  Selectors <- MCSelectors
  Codes <- MCCodes
  Flags = {"blacklist", "honeypot"}
  BadHex = BadHex
  MaxSignatures = 2
  TransferSelector <- MCTransferSelector
  BalanceOfSelector <- MCBalanceOfSelector
  TotalSupplySelector <- MCTotalSupplySelector
  Modulus = 16
  WordBits = 4
  Items = {x1, x2}
  Digests <- MCDigests
  PowersOfTwo <- MCPowersOfTwo
  MaxBits = 8
  MaxHashes = 4
  MaxInserts = 2
  Accounts = {c1, c2, c3, c4}
  ZeroAddress = ZeroAddress
  Half = 8
  Amounts = {0, 1, 7, 8, 17}
  TopK = 3
  TopN = 1
  MaxTransfers = 4
  Builds = {"dev", "release"}
SYMMETRY MCSymmetry
INVARIANTS
  AlgorithmsTypeOK
  LastFactoryRoutes
  DecodedIsWatched
  ScanIsExact
  ProbesDistinct
  BalancesExact
  SharesOfSupply
