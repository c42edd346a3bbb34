SPECIFICATION Spec
CONSTANTS
  Client = {c1, c2}
  MaxTasks = 3
  MaxTimers = 3
  QueueLen = 2
  Period <- Periodic
  Touched = {1, 2}
  NewPeriods = {}
  Ops = {"create", "delete", "enable", "disable"}
  DaemonFirst = FALSE
INVARIANT DisabledIsStopped
CHECK_DEADLOCK FALSE
