SPECIFICATION Spec
CONSTANTS
  Request = {r1, r2}
  Action = {a1, a2}
  None = None
  MaxAge = 2
  Skew = 1
  Cooldown = 1
  RetryAfter <- MCRetryAfter
  Concurrency = 1
  MaxTime = 3
PROPERTY StaleFailsClosed
CHECK_DEADLOCK FALSE
