SPECIFICATION MCSpec
CONSTANTS
  c1 = c1
  c2 = c2
  net = net
  a = a
  Display = {0, 1}
  OneWayClipboard = FALSE
  OneWayFile = FALSE
  Conn = {c1, c2}
  Windows = TRUE
  Base = 1
  Cap = 5
  IdleReset = 7
  MaxTime = 14
  MaxFailures = 6
SYMMETRY Symmetry
CONSTRAINT OneMishap
INVARIANTS SubscribedAsPermitted  NonePassed  CallAgreed 
  
PROPERTY BackoffKept
CHECK_DEADLOCK FALSE
