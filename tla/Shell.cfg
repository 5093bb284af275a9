SPECIFICATION ShellSpec
CONSTANTS
    MaxChecks = 2
    MaxStarts = 2
    Runs = {r1, r2}
    States = {"failed"}
    CacheLimit = 1
    MaxRequests = 3
    MaxChanges = 1
    RunCount = 3
    Contents = {c1, c2}
    MaxClicks = 4
    MaxEdits = 1
    Workspaces = {"w1"}
    Tutorial = "tut"
    Tasks = {"r1"}
    Providers = {"deepseek", "openai"}
    Skills = {"s1"}
    Offers <- FirstOffers
    RecentLimit = 2
    MaxActs = 3
INVARIANTS
  OpenedIsWhatWasShown
  
  WindowIsInStep
PROPERTIES
  InstallsOnlyWhenIdle
  FilesKeepUpdates
CHECK_DEADLOCK FALSE
