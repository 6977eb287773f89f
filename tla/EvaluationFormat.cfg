SPECIFICATION Spec
CONSTANTS
  v1 = v1
  v2 = v2
  Null = Null
  Unset = Unset
  Versions = {v1, v2}
  DataSize <- MCDataSize
  TimeoutOf <- MCTimeoutOf
  DefaultTimeout = 3
  CommandCalls = 2
  ClusterSizes <- OneSize
  Solutions <- SameVersion
  Benchmarks <- OneWorkload
  NumExecutions = 1
INVARIANT FormattedIfAsked
