SPECIFICATION Spec
CONSTANTS
  NULL = NULL
  Actor = {a1, a2, a3}
  Lockable = {l1, l2, l3}
INVARIANT NoFalseAlarm
PROPERTY DeadlocksReported
CHECK_DEADLOCK FALSE
