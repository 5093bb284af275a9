\* Two Runs compete for one workspace; both may be cancelled.
CONSTANTS
  r1 = r1
  r2 = r2
  read1 = read1
  read2 = read2
  write1 = write1
  other1 = other1
  shared = shared
  private = private
  worker = worker
  writerAgent = writerAgent
  NoTask = NoTask
  NoAgent = NoAgent
  Runs <- MCRuns
  Tasks <- MCTasks
  LeaseKeys <- MCLeaseKeys
  Access <- MCAccess
  LeaseKey <- MCLeaseKey
  GlobalConcurrency = 2
  Order <- MCOrder
  RunOf <- MCRunOf
  DependsOn <- MCDependsOn
  Agents <- MCAgents
  CanServe <- MCCanServe
  MaxParallel <- MCMaxParallel
  RunConcurrency = 2
  UseCapacity = FALSE
  CapacitySlots = 1
  MayAbort <- MCRuns
  MayResume = TRUE
  IoMayFail = FALSE
SPECIFICATION Spec
INVARIANTS
  TypeOK
  LeaseExclusion
  StartsAreSound
  RunsEndSoundly
PROPERTIES
  ImplementsSlots
