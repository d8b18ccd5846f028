CONSTANTS
  DeployCap = 1
  KafkaCap = 1
  EnrichCap = 1
  Profiles = {"dev", "release"}
  MaxDeploys = 3
  MaxLaunches = 2
SPECIFICATION Spec
INVARIANTS
  TypeOK
  KafkaOrder
  KafkaLosesNothingSilently
  NoSilentLoss
  CleanExitDrains
  OnlyPanicBreaksPipeline
  HeartbeatBoundedByWorker
  RowsAccounted
