SPECIFICATION OrderlySpec
CONSTANTS
  label = label
  Obj = {label}
  None = None
  First <- Objects
  Str = {label}
  ReadOnly = {}
  Seg = 2
  Exped = 1
  Buf = 6
  Fifo = 4
  Cap = 2
  Pst = 1
  TxRoom = 2
  Jobs <- Transfers
  MaxJobs = 1
  MaxFaults = 0
CHECK_DEADLOCK FALSE
INVARIANTS UploadsArrive
