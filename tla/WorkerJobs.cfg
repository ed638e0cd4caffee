CONSTANTS
  Handler = {x1, x2}
  JobID = {j1, j2}
  QueryID = {q1, q2}
  NoHandler = NoHandler
  NoJob = NoJob
  NoQuery = NoQuery
  MaxConcurrentBuilds = 2
  Tasks = 2
  Outputs = 2
  MaxRequests = 1
SPECIFICATION WorkerSpec
SYMMETRY Symmetry
INVARIANTS WorkerTypeOK CompletedMeansBuilt BuilderPerTask OwnAnswer
PROPERTY AbortReaches
