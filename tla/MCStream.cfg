SPECIFICATION MCSpec
CONSTANTS
  d1 = d1
  d2 = d2
  u1 = u1
  u2 = u2
  Conn = {"c1", "c2"}
  Display = {d1, d2}
  Adapter <- TwoAdapters
  GdiDisplay = {d2}
  Ram = {"H264"}
  VRam <- OnA
  LowMemory = FALSE
  AV1Slow = FALSE
  Announced <- TwoOf
  MaxEvents = 2
CONSTRAINT Early
SYMMETRY Symmetry
INVARIANTS FormatSupported LateUserSlowsAll RatesInRange
CHECK_DEADLOCK FALSE
