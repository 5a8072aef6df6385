CONSTANTS
  c1 = c1
  c2 = c2
  c3 = c3
  c4 = c4
  r1 = r1
  r2 = r2
  Analyzer = Analyzer
  NoItem = NoItem
  Conversations = {c1, c2, c3, c4}
  Kind <- AllKinds
  CapturedAt <- CaptureTimes
  Sensitive = {c1}
  Requests = {r1, r2}
  MaxLogs = 1
  PruneBatch = 1
  MaxFaults = 1
CHECK_DEADLOCK FALSE
SPECIFICATION Spec
INVARIANT CommittedIsDeadLettered
