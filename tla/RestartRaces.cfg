SPECIFICATION ControlSpec
CONSTANTS
  Ids = {i1, i2}
  Jobs = {scan, convert}
  Resumable = {convert}
  Callers = {c1}
  MaxCrashes = 2
  MaxUndos = 1
SYMMETRY Symmetry
  
PROPERTIES CancelledIsFinal
CHECK_DEADLOCK FALSE
