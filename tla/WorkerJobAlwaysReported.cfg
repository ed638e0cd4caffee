CONSTANTS
  Handler = {x1, x2}
  JobID = {j1, j2}
  QueryID = {q1, q2}
  NoHandler = NoHandler
  NoJob = NoJob
  NoQuery = NoQuery
  MaxConcurrentBuilds = 1
  Tasks = 1
  Outputs = 1
  MaxRequests = 1
SPECIFICATION WorkerSpec
INVARIANT JobAlwaysReported
