SPECIFICATION Spec
CONSTANTS
  MaxLaunch = 3
PROPERTIES StaleWatchdog  
CHECK_DEADLOCK FALSE
