SPECIFICATION MCSpec
PROPERTIES VideoRecovers 
CHECK_DEADLOCK FALSE
