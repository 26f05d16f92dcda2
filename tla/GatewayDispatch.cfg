SPECIFICATION Spec
CONSTANTS
  Second = 2
  MaxAge = 1
  Skew = 1
  Tenant = "own"
  SessionCapability = {"authenticate", "read"}
  Configured = "local operator"
  MaxTime = 2
INVARIANT MutationsAreBound
INVARIANT ReadsHaveTheirAction
INVARIANT EvidenceIsBounded
INVARIANT RefusedOffersAreExplained
CHECK_DEADLOCK FALSE
