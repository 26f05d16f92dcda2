SPECIFICATION Spec
CONSTANTS
  Request = {r1, r2, r3}
  Version = {v1}
  NoSid = NoSid
  SessionTtl = 2
  AssertionTtl = 1
  AuthnMaxAge = 1
  MaxTime = 3
SYMMETRY MCSymmetry
INVARIANT RevocationOutlivesCookie
INVARIANT NoGrantAfterEnd
INVARIANT SignedOutStaysOut
PROPERTY ImplementsLifecycle
PROPERTY RuntimeChangesAreTimely
CHECK_DEADLOCK FALSE
