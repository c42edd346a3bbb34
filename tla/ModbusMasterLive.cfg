SPECIFICATION FairSpec
CONSTANTS
  q1 = q1
  q2 = q2
  q3 = q3
  q4 = q4
  s1 = s1
  s2 = s2
  None = None
  Query = {q1, q2}
  Slave = {s1}
  SlaveOf <- TwoReads
  TypeOf <- ReadType
  PeriodOf <- ReadPeriod
  AtStart <- One
  Wired = {s1}
  ListLen = 1
  QueryQueueLen = 1
  ConfigLen = 1
  MaxSlaves = 1
  RxLen = 2
  Ops = {"register", "unregister"}
  MaxCalls = 2
  MaxNoise = 1
  Lateness = {0}
PROPERTIES ExchangeEnds AperiodicLeaves
