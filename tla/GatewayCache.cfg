SPECIFICATION Spec
CONSTANTS
  Handler = {h1, h2}
  NoReply = NoReply
  MaxVersion = 3
  Ttl = 2
  Timeout = 1
  RetryDelay = 1
  MaxAttempts = 2
  MaxTime = 5
SYMMETRY MCSymmetry
INVARIANT BoundedResponse
INVARIANT NoCacheIsFresh
INVARIANT FreshIsBounded
INVARIANT InvalidationHolds
CHECK_DEADLOCK FALSE
