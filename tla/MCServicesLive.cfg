SPECIFICATION MCSpec
PROPERTIES VideoServed NewSubscribersServed 
CHECK_DEADLOCK FALSE
