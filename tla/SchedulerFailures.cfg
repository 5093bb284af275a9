\* Appends and capacity files may fail, Runs may be cancelled.
CONSTANTS
  r1 = r1
  r2 = r2
  read1 = read1
  read2 = read2
  write1 = write1
  other1 = other1
  shared = shared
  private = private
  worker = worker
  writerAgent = writerAgent
  NoTask = NoTask
  NoAgent = NoAgent
  Runs <- MCRuns
  Tasks <- PairTasks
  LeaseKeys <- MCLeaseKeys
  Access <- PairAccess
  LeaseKey <- PairLeaseKey
  GlobalConcurrency = 2
  Order <- PairOrder
  RunOf <- PairRunOf
  DependsOn <- PairDependsOn
  Agents <- MCAgents
  CanServe <- PairCanServe
  MaxParallel <- MCMaxParallel
  RunConcurrency = 2
  UseCapacity = TRUE
  CapacitySlots = 1
  MayAbort <- MCRuns
  MayResume = FALSE
  IoMayFail = TRUE
SPECIFICATION FairSpec
INVARIANTS
  CountsAreKept
PROPERTIES
  
  AbortEndsCancelled
