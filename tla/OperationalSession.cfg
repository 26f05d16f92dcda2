SPECIFICATION Spec
CONSTANTS
  Request = {r1, r2}
  MaxSend = 3
  MaxSession = 2
  Lifetime = 2
  Window = 2
  Limit = 1
  MaxTime = 3
  MaxRestart = 1
INVARIANT LoggedOutStaysOut
INVARIANT RevocationHolds
PROPERTY ImplementsLimit
PROPERTY PageFollows
