SPECIFICATION FairSpec
CONSTANTS
  small = small
  large = large
  label = label
  Obj = {small, large, label}
  None = None
  First <- Objects
  Str = {label}
  ReadOnly = {}
  Seg = 2
  Exped = 1
  Buf = 8
  Fifo = 6
  Cap = 2
  Pst = 1
  TxRoom = 2
  Jobs <- Transfers
  MaxJobs = 2
  MaxFaults = 1
CHECK_DEADLOCK FALSE
INVARIANTS DownloadsArrive UploadsArrive SubBlocksFit
PROPERTIES TransfersEnd ServerFreed
