SPECIFICATION Spec
CONSTANTS
  NULL = NULL
  Cpu = {c1, c2}
  Proc = {p, q}
  Frame = {f1, f2}
  KSEG0 = 4
  ADDR_MAX = 8
  PTPAGES = 2
  NUM_TLB = 2
  Executables <- MCExecutables
  Stack <- MCStack
  ARG_PAGES = 2
SYMMETRY Interchangeable
INVARIANTS FramesOwnedOnce TLBMatches RightsExact
