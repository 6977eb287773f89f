SPECIFICATION Spec
CONSTANTS
  Hosts = {"master", "slave1", "slave2", "frontend"}
  Targets <- OneNode
  LocalHost = "master"
  ILO_MASTER = "localhost"
  Enabled = {"stat", "rapl"}
  ENABLE_BDWATCHDOG = FALSE
  MonitorDelay = 2
  Latency = 4
  Durations = {0, 3}
  Codes = {0, 1, 124}
  TIMEOUT = 3
  Calls = 2
  NumExecutions = 2
INVARIANT NoSurvivor
INVARIANT MonitoringInv
