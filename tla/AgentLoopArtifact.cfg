\* An integrator whose artifact is reviewed, stopped and resumed once, under fair scheduling.
CONSTANTS
  read = read
  write = write
  artifact = artifact
  i1 = i1
  i2 = i2
  Calls <- ReviewCalls
  Ids <- WorkerIds
  CallId <- ReviewSharedId
  Writes <- ReviewCalls
  ArtifactCalls <- ReviewCalls
  Unavailable <- None
  Prompted <- None
  MaxTurns = 2
  MaxReviews = 3
  MaxCalls = 2
  MaxResumes = 1
SPECIFICATION FairSpec
INVARIANTS
  BudgetsHold
PROPERTIES
  Ends
CHECK_DEADLOCK FALSE
