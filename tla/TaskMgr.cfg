SPECIFICATION FairSpec
CONSTANTS
  Client = {c1, c2}
  MaxTasks = 3
  MaxTimers = 3
  QueueLen = 4
  Period <- WithOneShot
  Touched = {1}
  NewPeriods = {40}
  Ops = {"create", "delete", "enable", "disable", "update"}
  DaemonFirst = TRUE
INVARIANTS TimersAreOwned CommandsReachLiveTimers EnabledRuns
PROPERTY DeletedIsReclaimed
