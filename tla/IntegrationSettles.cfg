CONSTANTS
  Ops = {o1, o2}
  Races = {"user"}
  IoMayFail = FALSE
  BookkeepingMayFail = FALSE
  CommitModes = {TRUE, FALSE}
  MayTouch = {"edit", "stray"}
  MaxUserSteps = 2
  MaxCrashes = 2
  NoOp = NoOp
SPECIFICATION FairSpec
INVARIANTS
  StatusIsHonest
PROPERTIES
  UserEditsKept
  EveryApprovalSettles
CHECK_DEADLOCK FALSE
