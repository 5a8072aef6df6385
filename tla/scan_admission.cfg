CONSTANTS
  j1 = j1
  j2 = j2
  w1 = w1
  w2 = w2
  t1 = t1
  e1 = e1
  NoJob = NoJob
  InvalidTarget = InvalidTarget
  Jobs = {j1, j2}
  Workers = {w1, w2}
  AuthJobs = {j1}
  Targets = {t1}
  Endpoint <- OneEndpoint
  Deployments <- FullDeployment
  GlobalConcurrency = 1
  TargetJobsPerWindow = 1
  LongScans = FALSE
  MaxResults = 0
  MaxFaults = 0
SPECIFICATION Spec
CHECK_DEADLOCK FALSE
SYMMETRY WorkerSymmetry
INVARIANT LockExcludes
INVARIANT LiveScansWithinLimit
INVARIANT SettledJobHasNoSecret
PROPERTY CapacityNeverFailsJob
