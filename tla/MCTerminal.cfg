SPECIFICATION MCSpec
INVARIANTS   ResizeKept
 
CHECK_DEADLOCK FALSE
