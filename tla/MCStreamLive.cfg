SPECIFICATION MCSpec
PROPERTIES CodecSettles SpeedsUp PortableServed BridgeServed
CHECK_DEADLOCK FALSE
