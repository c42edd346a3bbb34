SPECIFICATION Spec
CONSTANTS
  q1 = q1
  q2 = q2
  q3 = q3
  q4 = q4
  s1 = s1
  s2 = s2
  None = None
  Query = {q1, q2}
  Slave = {s1}
  SlaveOf <- TwoReads
  TypeOf <- ReadType
  PeriodOf <- ReadPeriod
  AtStart <- One
  Wired = {s1}
  ListLen = 2
  QueryQueueLen = 2
  ConfigLen = 2
  MaxSlaves = 1
  RxLen = 3
  Ops = {"register", "dismiss"}
  MaxCalls = 2
  MaxNoise = 1
  Lateness = {0}
INVARIANT ResetIsSafe
