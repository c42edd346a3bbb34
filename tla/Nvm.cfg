SPECIFICATION FairSpec
CONSTANTS
  Task = {t1, t2}
  Free = Free
  Idle = Idle
  Size = 5
  ChipSize = 5
  pageSize = 2
  Requests <- SomeRequests
INVARIANT WriteInProgress
PROPERTIES Refines AccessReturns
