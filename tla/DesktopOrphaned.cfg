SPECIFICATION Spec
CONSTANTS
  c1 = c1
  c2 = c2
  Runs = {1, 2}
  Calls = {c1, c2}
  NoRun = NoRun
  MaxActive = 1
  PlanReview = "required"
  Overlaps = {}
  MaxCrashes = 2
  MaxLaunches = 2
INVARIANTS ReconciledRunsAreSettled
CHECK_DEADLOCK FALSE
