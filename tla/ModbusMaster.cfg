SPECIFICATION Spec
CONSTANTS
  q1 = q1
  q2 = q2
  q3 = q3
  q4 = q4
  s1 = s1
  s2 = s2
  None = None
  Query = {q1, q2, q3, q4}
  Slave = {s1, s2}
  SlaveOf <- SlaveIds
  TypeOf <- Types
  PeriodOf <- Periods
  AtStart <- Both
  Wired = {s1, s2}
  ListLen = 1
  QueryQueueLen = 2
  ConfigLen = 1
  MaxSlaves = 2
  RxLen = 2
  Ops = {"register", "unregister", "enroll", "dismiss"}
  MaxCalls = 2
  MaxNoise = 0
  Lateness = {0, 1}
INVARIANTS AnswersGoHome MatchedAnswers
PROPERTY OneOutstanding
