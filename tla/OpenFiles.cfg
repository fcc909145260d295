CONSTANTS
  p1 = p1
  p2 = p2
  f1 = f1
  f2 = f2
  Proc <- TwoProcs
  NoProc = NoProc
  File <- TwoFiles
  NoFile = NoFile
  OPEN_MAX = 2
  StdFds = 1
  MaxOffset = 2
SPECIFICATION FairSpec
INVARIANTS
  RefcountsExact
  OffsetLockHeld
PROPERTIES
  ImplementsSharedFiles
  TransfersNotLost
  UnusedFilesClosed
