SPECIFICATION FairSpec
CONSTANTS
  v1 = v1
  v2 = v2
  Null = Null
  Unset = Unset
  Versions = {v1, v2}
  DataSize <- MCDataSize
  TimeoutOf <- MCNoTimeouts
  DefaultTimeout = 3
  CommandCalls = 2
  ClusterSizes <- OneSize
  Solutions <- Uninstalled
  Benchmarks <- Io
  NumExecutions = 2
INVARIANT TypeOK
INVARIANT WorkloadAlone
INVARIANT GoodAlone
INVARIANT TimesAccounted
INVARIANT ReportWellFormed
PROPERTY PromiseKept
PROPERTY Progress
PROPERTY EvaluationEnds
