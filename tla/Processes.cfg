CONSTANTS
  k0 = k0
  p1 = p1
  p2 = p2
  p3 = p3
  exit0 = exit0
  killed = killed
  Proc <- MCProc
  kproc = k0
  NoProc = NoProc
  PROCS_MAX = 4
  PID_MAX = 6
  Status <- OneStatus
  NoStatus = NoStatus
SPECIFICATION Spec
SYMMETRY UserSymmetry
INVARIANTS
  TypeOK
  TableConsistent
  ScanTerminates
  ZombiesCollectable
  KidsWaitable
  WaiterHoldsEntry
  DestroyedHasNoPid
  ObjectsOwnedOnce
  LiveProcsRegistered
