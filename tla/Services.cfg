SPECIFICATION FairSpec
CONSTANTS
  RxSize = 5
  LineSize = 5
  Lines <- Typed
  Newline = Newline
  Space = Space
  Nul = Nul
  NameSize = 1
  Commands <- Names
  Letter = Letter
  Digit = Digit
  MaxLines = 3
  Logger = {l1, l2}
  MsgLen = 2
  ChunkLen = 3
  StreamSize = 5
  MaxLogs = 4
  Second = 1
  SetDates <- Dates
  SetTimes <- Times
  MaxSeconds = 2
  Period = 10
  MaxCount = 6
  Vref = 3000
  Gain = 1000
  Precision = 10000
  Calibrations <- Settings
  DefaultAlpha = 100
  DebounceTimes = {0, 15, 30}
  Alphas = {400, 1000}
  Depth = 4
  Capacity = 16
  PageSize = 4
  Sector4K = 2
  Sector32K = 4
  Sector64K = 8
  AddressSpace = 32
  Chunk = 3
  Calls <- FlashCalls
  MaxCalls = 3
  MaxFaults = 1
  Table <- Registers
  Queries <- Ranges
  MaxQueries = 2
  FifoLen = 2
  Mailboxes = 3
  RxLength = 2
  TxLength = 2
  rxArray <- Entries
  Arrivals <- Frames
  MaxArrived = 4
  MaxQueued = 5
  Controls <- ControlSets
  HbTimes = {0, 2}
  FirstHBTime = 5
  MaxRuns = 3
  MaxFaultChanges = 1
  MaxWrites = 1
  Task = {t1, t2, t3, t4}
  NULL = NULL
  Free = Free
  MaxOpens = 1
  Value = {a, b}
  Zero = Zero
  Torn = Torn
  MaxLength = 3
  UnitSize = 2
CHECK_DEADLOCK FALSE
INVARIANTS LogInOrder RtcCounts FilteredWithin FlashDoes RegsOwnWords CanInOrder
INVARIANTS OwnerHoldsMutex ExclusiveUse NoOrphanLock CountersAgree
PROPERTIES CliRuns Debounced StatesReported QueueRefines
