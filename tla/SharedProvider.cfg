\* Two requests of two processes, one of which may stop, over two slots; one midnight.
CONSTANTS
  c1 = c1
  c2 = c2
  p1 = p1
  p2 = p2
  s1 = s1
  s2 = s2
  lock = lock
  Callers = {c1, c2}
  Processes = {p1, p2}
  ProcessOf <- MCProcessOf
  Dirs = {s1, s2, lock}
  Slots <- TwoSlots
  Ledger = lock
  NoSlot = NoSlot
  Nobody = Nobody
  Garbled = Garbled
  StaleRaces = FALSE
  SlowWriters = {c2}
  MayStop = {p2}
  Budget = 1
  MaxTokens = 1
  MaxDays = 1
  Spaced = TRUE
  MayCancel = {c1}
SPECIFICATION FairSpec
INVARIANTS
  LedgerIsKept
PROPERTIES
  ImplementsLeases
  EveryRequestEnds
CHECK_DEADLOCK FALSE
