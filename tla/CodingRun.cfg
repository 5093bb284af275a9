SPECIFICATION Spec
CONSTANTS
  t1 = t1
  t2 = t2
  Tasks = {t1, t2}
  MaxCrashes = 2
  MaxEdits = 1
  MaxCommits = 1
  MaxAttempts = 3
  CleanupOverlaps = FALSE
SYMMETRY Symmetric
INVARIANTS
  ProposalIsTheResults
  WorkIsKept
  PreviewsStand
CHECK_DEADLOCK FALSE
