CONSTANTS
  Conn = {c1}
  need_snapshot = TRUE
  Codec = {VP9}
  VP9 = VP9
  Hardware = {}
  WebConn = {}
  MaxQueue = 2
  MaxEvents = 1
INIT Init
NEXT Next
INVARIANT UnsubscribeTakesEffect
CHECK_DEADLOCK FALSE
