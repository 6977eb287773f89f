SPECIFICATION Spec
CONSTANTS
  Hosts = {"master", "slave1", "slave2", "frontend"}
  Targets <- Cluster
  LocalHost = "frontend"
  ILO_MASTER = "localhost"
  Enabled = {"ilo", "stat"}
  ENABLE_BDWATCHDOG = FALSE
  MonitorDelay = 1
  Latency = 1
  Durations = {0, 3}
  Codes = {0, 1, 124}
  TIMEOUT = 3
  Calls = 2
  NumExecutions = 2
INVARIANT IloStopped
