SPECIFICATION Spec
CONSTANTS
  Shapes = {1}
  Patient = TRUE
  MaxWrites = 1
  MaxQueue = 1
PROPERTY AppliedIsLive
CHECK_DEADLOCK FALSE
