CONSTANTS
  j1 = j1
  j2 = j2
  w1 = w1
  w2 = w2
  t1 = t1
  e1 = e1
  NoJob = NoJob
  InvalidTarget = InvalidTarget
  Jobs = {j1}
  Workers = {w1, w2}
  AuthJobs = {j1}
  Targets = {t1, InvalidTarget}
  Endpoint <- OneEndpoint
  Deployments <- AnyDeployment
  GlobalConcurrency = 1
  TargetJobsPerWindow = 1
  LongScans = FALSE
  MaxResults = 2
  MaxFaults = 2
SPECIFICATION Spec
CHECK_DEADLOCK FALSE
INVARIANT TypeOK
INVARIANT ScanInv
INVARIANT ExclusiveClaim
INVARIANT QueuedJobKeepsSecret
INVARIANT CompletedJobHasItsResults
INVARIANT AtMostOneLateResult
PROPERTY TerminalIsFinal
PROPERTY RefinesLifecycle
