SPECIFICATION FairSpec
CONSTANTS
  c1 = c1
  c2 = c2
  Runs = {1, 2}
  Calls = {c1, c2}
  NoRun = NoRun
  MaxActive = 1
  PlanReview = "required"
  Overlaps = {"decision"}
  MaxCrashes = 1
  MaxLaunches = 2
INVARIANTS
  BooksAreKept
  WorkIsApproved

  
CHECK_DEADLOCK FALSE
