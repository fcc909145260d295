CONSTANTS
  k0 = k0
  p1 = p1
  p2 = p2
  p3 = p3
  exit0 = exit0
  killed = killed
  Proc <- MCProc
  kproc = k0
  NoProc = NoProc
  PROCS_MAX = 3
  PID_MAX = 5
  Status <- TwoStatuses
  NoStatus = NoStatus
SPECIFICATION FairSpec
PROPERTIES
  ImplementsProcessTree
  ExitedChildWakesParent
