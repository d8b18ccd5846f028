CONSTANTS
  DeployCap = 1
  KafkaCap = 1
  EnrichCap = 1
  Profiles = {"dev", "release"}
  MaxDeploys = 2
  MaxLaunches = 1
SPECIFICATION FairSpec
PROPERTIES
  ShutdownCompletes
  AcceptedIsSettled
  DeadPipelineReported
