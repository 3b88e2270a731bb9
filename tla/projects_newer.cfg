CONSTANTS
  Dirs = {demo, other}
  DemoDir = demo
  Contents = {shipped, mine}
  Shipped = shipped
  MaxGestures = 4
  MaxOutside = 1
  MaxFailures = 1
  None = None
SPECIFICATION Spec
PROPERTY NewerIsNotSavedOver
CHECK_DEADLOCK FALSE
