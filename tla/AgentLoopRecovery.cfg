\* A worker that reads and writes, stopped and resumed once.
CONSTANTS
  read = read
  write = write
  artifact = artifact
  i1 = i1
  i2 = i2
  Calls <- WorkerCalls
  Ids <- WorkerIds
  CallId <- WorkerCallId
  Writes <- WorkerWrites
  ArtifactCalls <- None
  Unavailable <- None
  Prompted <- WorkerWrites
  MaxTurns = 2
  MaxReviews = 3
  MaxCalls = 2
  MaxResumes = 1
SPECIFICATION Spec
INVARIANTS
  TypeOK
  WriteAtMostOnce
  CheckpointsAreSound
CHECK_DEADLOCK FALSE
