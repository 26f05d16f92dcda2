SPECIFICATION Spec
CONSTANTS
  Request = {r1, r2}
  Action = {a1, a2}
  None = None
  MaxAge = 1
  Skew = 1
  Cooldown = 1
  RetryAfter <- MCRetryAfter
  Concurrency = 1
  MaxTime = 3
SYMMETRY MCSymmetry
PROPERTY ReadsAreCurrent
PROPERTY BootstrapReadsItsOwnRegistry
PROPERTY RefreshesAreSpaced
CHECK_DEADLOCK FALSE
