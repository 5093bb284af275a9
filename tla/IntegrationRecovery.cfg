CONSTANTS
  Ops = {o1, o2}
  Races = {}
  IoMayFail = TRUE
  BookkeepingMayFail = FALSE
  CommitModes = {TRUE, FALSE}
  MayTouch = {"edit", "stray"}
  MaxUserSteps = 3
  MaxCrashes = 3
  NoOp = NoOp
SPECIFICATION Spec
SYMMETRY Symmetry
INVARIANTS
  EffectsAreDeclared
  StatusIsHonest
PROPERTIES
  RecordsAreTrue
CHECK_DEADLOCK FALSE
