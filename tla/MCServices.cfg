CONSTANTS
  Conn = {c1, c2}
  need_snapshot = TRUE
  Codec = {VP9, H265}
  VP9 = VP9
  Hardware = {H265}
  WebConn = {c2}
  MaxQueue = 1
  MaxEvents = 1
SPECIFICATION MCSpec
INVARIANTS TypesOK SubscriptionsRight ShareEncoder RefreshNotLost CodecTracked FlowControlled
  SubscribersCurrent
PROPERTY TmplSpec
CHECK_DEADLOCK FALSE
