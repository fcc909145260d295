CONSTANTS
  t1 = t1
  t2 = t2
  t3 = t3
  t4 = t4
  Thread <- FourThreads
  NoThread = NoThread
  InitialCount = 1
  SEM_MAX = 3
SPECIFICATION FairSpec
INVARIANTS
  TypeOK
  SleepersListed
  UnitsSpokenFor
  FreeLockSpokenFor
  NoUnlistedWaiter
PROPERTIES
  ImplementsMonitor
  FreeLockTaken
  UnitsTaken
