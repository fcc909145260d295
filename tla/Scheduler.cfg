SPECIFICATION Spec
CONSTANTS
  NCPU = 2
  b0 = b0
  b1 = b1
  Thread = {b0, b1, t2}
  BootThread <- MCBootThread
INVARIANTS ThreadsInOnePlace StacksKept
PROPERTY WorkRuns
