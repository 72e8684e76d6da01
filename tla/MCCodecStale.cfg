SPECIFICATION MCSpec
CONSTANTS
  d1 = d1
  d2 = d2
  u1 = u1
  u2 = u2
  Conn = {"c1", "c2"}
  Display = {d1}
  Adapter <- OneAdapter
  GdiDisplay = {}
  Ram = {"H264"}
  VRam <- OnA
  LowMemory = TRUE
  AV1Slow = FALSE
  Announced <- VP8OrNot
  MaxEvents = 2
INVARIANTS UnsupportedNotPicked
CHECK_DEADLOCK FALSE
