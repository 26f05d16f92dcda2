SPECIFICATION Spec
CONSTANTS
  Request = {r1, r2, r3}
  Version = {v1}
  NoSid = NoSid
  SessionTtl = 2
  AssertionTtl = 1
  AuthnMaxAge = 1
  MaxTime = 3
PROPERTY SignOutAfterRevocation
CHECK_DEADLOCK FALSE
