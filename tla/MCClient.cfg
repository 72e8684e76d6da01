SPECIFICATION MCSpec
CONSTANTS
  Display = {"t1", "t2"}
  MaxDec = 2
  Backlog = 2
  SockBuf = 1
  HwBuf = 1
CONSTRAINT Followed
INVARIANTS HardwareSafe NoStaleFrame WindowsShown NoStarvation QueueKept RecordKept 
CHECK_DEADLOCK FALSE
