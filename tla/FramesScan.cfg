CONSTANTS
  first_frame = 2
  last_frame = 9
  MaxPages = 4
SPECIFICATION Spec
INVARIANT FailsOnlyIfNone
