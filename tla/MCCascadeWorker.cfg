CONSTANTS
  i1 = i1 i2 = i2 i3 = i3
  w = w r1 = r1 r2 = r2 s1 = s1
  None = None
  Sentinel = Sentinel
  Ids = {i1, i2}
  Threads = {w}
  Revokers = {r1}
  Submitters = {s1}
  QueueSize = 1
  MaxSubmits = 3
  MaxFailures = 1
  MaxCascades = 3
  Payload <- MCPayload
SPECIFICATION FairWorkerSpec
CHECK_DEADLOCK FALSE
INVARIANTS
  MetricsAccountForJobs
PROPERTIES
  AcceptedIsRevoked
  ShutdownStopsWorkers
