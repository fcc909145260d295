SPECIFICATION Spec
CONSTANTS
  con = con
  Proc = {A, B}
  Vnode = {con, v1, v2}
  OPEN_MAX = 4
  StdFds = 1
  MaxOffset = 1
CHECK_DEADLOCK FALSE
PROPERTY OtherHandlesUnaffected
